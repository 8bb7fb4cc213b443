-------------------------- MODULE MeshRelayProofs --------------------------
(***************************************************************************)
(* Theorems about MeshRelay, for every mesh, every set of requests, every  *)
(* set of faults and any settings an administrator may install.            *)
(***************************************************************************)
EXTENDS MeshRelay, SequenceTheorems, FiniteSetTheorems, TLAPS

(***************************************************************************)
(* The inductive invariant.  Chain(r, s) relates the request r of a task   *)
(* to the chain s of its frames, in named parts.                           *)
(***************************************************************************)
IdOf(f) == NodeId[f.node]

\* The chain starts with the request and each call extends the visited path.
Linked(r, s) ==
  /\ s # <<>> => /\ r \in Requests /\ s[1].node = r.node /\ s[1].hops = r.hops
                 /\ s[1].target = r.target /\ s[1].left = r.left
  /\ \A i \in DOMAIN s : i > 1 => s[i].hops # <<>> /\ s[i].target = None /\ s[i].left \in Int
  /\ \A i \in DOMAIN s : Len(s[i].hops) = Len(r.hops) + i - 1
  /\ \A i, j \in DOMAIN s : i < j => IdOf(s[i]) \in Range(s[j].hops)

\* Only the last frame is open: the others have handed the task off.
HandedOff(s) ==
  \A i \in DOMAIN s : i < Len(s) =>
    s[i].peer # None /\ s[i].ran = "no" /\ s[i].status \in {"waiting", "returned", "lost"}

\* The fields of one frame agree.
Coherent(s) ==
  \A i \in DOMAIN s :
    /\ s[i].status = "sent" => s[i].peer = None /\ s[i].ran = "no" /\ s[i].outcome = "none"
    /\ s[i].status = "running" <=> s[i].ran = "running"
    /\ s[i].status = "waiting" => i < Len(s)
    /\ s[i].outcome # "none" => s[i].status = "returned"
    /\ Admitted(s[i]) => IdOf(s[i]) \notin Range(s[i].hops)
    /\ s[i].outcome = "loop" => IdOf(s[i]) \in Range(s[i].hops)

\* A relayed task does not come back to a node of its path.
NeverBack(s) == WellDeclared => \A i \in DOMAIN s : i > 1 => IdOf(s[i]) \notin Range(s[i].hops)

\* How long the chain may be.
Budgeted(r, s) ==
  /\ Len(s) >= 2 => Len(s) <= 2 + (IF s[2].left > 0 THEN s[2].left ELSE 0)
  /\ \A i \in DOMAIN s : i >= 2 => s[i].left = s[2].left - (i - 2)
  /\ Len(s) >= 2 /\ ~r.forwardable => Len(s) = 2 /\ r.target # None /\ r.hops = <<>>

\* A result comes from the end of the chain.
Settled(s) ==
  \A i, j \in DOMAIN s : s[i].outcome = "result" /\ i <= j => s[j].status = "returned"

\* The answers that travel back along the chain say what became of the task.
Honest(s) ==
  \A i \in DOMAIN s :
    /\ s[i].status = "returned" => s[i].outcome # "none"
    /\ s[i].outcome \in Refusals => s[i].peer = None /\ s[i].ran = "no"
    /\ s[i].outcome = "result" => s[Len(s)].ran = "ok"

\* Where everything is configured, a call has what its receiver will ask for.
Ready(f) == f.granted /\ f.key # "" /\ f.key = InitConf[f.node].key
Welcome(r, s) == WellConfigured =>
  /\ Len(s) >= 2 => s[2].left = Budget(r) - 1
  /\ \A i \in DOMAIN s : i > 1 => Ready(s[i]) /\ s[i].outcome \notin Refusals

Chain(r, s) ==
  /\ Linked(r, s) /\ HandedOff(s) /\ Coherent(s) /\ NeverBack(s) /\ Budgeted(r, s)
  /\ Settled(s) /\ Honest(s) /\ Welcome(r, s)

Chains == \A t \in Tasks : Chain(request[t], frames[t])

Unedited == Edits = {} => conf = InitConf

IInv == TypeOK /\ Unedited /\ Chains

(***************************************************************************)
(* Frames and chains.                                                      *)
(***************************************************************************)
\* A chain with one of its frames replaced is a chain of the same length.
LEMMA ReplaceFrame ==
  ASSUME NEW s \in Seq(Frame), NEW i \in DOMAIN s, NEW g \in Frame
  PROVE  /\ [s EXCEPT ![i] = g] \in Seq(Frame)
         /\ DOMAIN [s EXCEPT ![i] = g] = DOMAIN s
         /\ Len([s EXCEPT ![i] = g]) = Len(s)
BY ExceptSeq

\* What a sequence holds after one more element.
LEMMA RangeAppend ==
  ASSUME NEW S, NEW s \in Seq(S), NEW e \in S
  PROVE  Range(Append(s, e)) = Range(s) \cup {e}
<1> DEFINE a == Append(s, e)
<1>1. /\ DOMAIN a = 1 .. Len(s) + 1
      /\ \A i \in 1 .. Len(s) : a[i] = s[i]
      /\ a[Len(s) + 1] = e
  BY AppendProperties
<1>2. DOMAIN s = 1 .. Len(s) /\ Len(s) \in Nat
  BY LenProperties
<1> HIDE DEF a
<1>3. DOMAIN s \subseteq DOMAIN a /\ Len(s) + 1 \in DOMAIN a
  BY <1>1, <1>2
<1>4. \A i \in DOMAIN a : i \in DOMAIN s \/ i = Len(s) + 1
  BY <1>1, <1>2
<1>5. \A i \in DOMAIN s : a[i] = s[i]
  BY <1>1, <1>2
<1>6. Range(a) = Range(s) \cup {e}
  BY <1>1, <1>3, <1>4, <1>5, Zenon DEF Range
<1> QED BY <1>6 DEF a

(***************************************************************************)
(* Steps of a chain.                                                       *)
(***************************************************************************)
SameMessage(f, g) ==
  /\ g.node = f.node /\ g.hops = f.hops /\ g.target = f.target /\ g.left = f.left
  /\ g.key = f.key /\ g.granted = f.granted

\* What a step that opens no call may do to frame i of s.
Moves(s, i, g) ==
  /\ SameMessage(s[i], g)
  /\ s[i].status \notin {"returned", "lost"}
  /\ g.status \in {"running", "returned", "lost"}
  /\ g.status = "running" <=> g.ran = "running"
  /\ g.status = "returned" <=> g.outcome # "none"
  /\ i < Len(s) => g.peer = s[i].peer /\ g.ran = "no"
  /\ Admitted(g) => Admitted(s[i]) \/ IdOf(s[i]) \notin Range(s[i].hops)
  /\ \/ g.ran = s[i].ran
     \/ s[i].ran = "no" /\ g.ran = "running"
     \/ s[i].ran = "running" /\ g.ran \in {"ok", "failed", "aborted"}
  /\ g.outcome = "loop" => IdOf(s[i]) \in Range(s[i].hops)
  /\ g.outcome = "result" => /\ \A j \in DOMAIN s : j > i => s[j].status = "returned"
                             /\ i < Len(s) => s[Len(s)].ran = "ok"
                             /\ ~(i < Len(s)) => g.ran = "ok"
  /\ g.outcome = "aborted" => g.ran = "aborted"
  /\ g.outcome \in Refusals => g.peer = None /\ g.ran = "no" /\ (WellConfigured => ~(i > 1))

\* A step that only moves frames on within their stages keeps the chain of frames.
LEMMA MovesKeepChain ==
  ASSUME NEW r, NEW s \in Seq(Frame), NEW s2 \in Seq(Frame), Len(s2) = Len(s), Chain(r, s),
         \A i \in DOMAIN s : s2[i] = s[i] \/ Moves(s, i, s2[i])
  PROVE  Chain(r, s2)
<1>1. DOMAIN s2 = DOMAIN s /\ DOMAIN s = 1 .. Len(s) /\ Len(s) \in Nat
  BY LenProperties
<1>2. \A i \in DOMAIN s : SameMessage(s[i], s2[i]) /\ IdOf(s2[i]) = IdOf(s[i])
  BY DEF Moves, SameMessage, IdOf
<1>3. s2 = <<>> <=> s = <<>>
  BY EmptySeq, <1>1
<1>4. Linked(r, s2)
  <2>1. s # <<>> => 1 \in DOMAIN s
    BY <1>1, EmptySeq
  <2>2. s2 # <<>> => /\ r \in Requests /\ s2[1].node = r.node /\ s2[1].hops = r.hops
                     /\ s2[1].target = r.target /\ s2[1].left = r.left
    BY <1>2, <1>3, <2>1 DEF Chain, Linked, SameMessage
  <2>3. \A i \in DOMAIN s2 : /\ i > 1 => s2[i].hops # <<>> /\ s2[i].target = None /\ s2[i].left \in Int
                             /\ Len(s2[i].hops) = Len(r.hops) + i - 1
    BY <1>1, <1>2 DEF Chain, Linked, SameMessage
  <2>4. \A i, j \in DOMAIN s2 : i < j => IdOf(s2[i]) \in Range(s2[j].hops)
    BY <1>1, <1>2 DEF Chain, Linked, SameMessage
  <2> QED BY <2>2, <2>3, <2>4 DEF Linked
<1>5. HandedOff(s2)
  BY <1>1 DEF Chain, HandedOff, Moves
<1>6. Coherent(s2)
  BY <1>1, <1>2 DEF Chain, Coherent, Moves, SameMessage
<1>7. NeverBack(s2)
  BY <1>1, <1>2 DEF Chain, NeverBack, SameMessage
<1>8. Budgeted(r, s2)
  BY <1>1, <1>2 DEF Chain, Budgeted, SameMessage
<1>9. Settled(s2)
  BY <1>1 DEF Chain, Settled, Moves
<1>10. Honest(s2)
  <2> SUFFICES ASSUME NEW i \in DOMAIN s
               PROVE  /\ s2[i].status = "returned" => s2[i].outcome # "none"
                      /\ s2[i].outcome \in Refusals => s2[i].peer = None /\ s2[i].ran = "no"
                      /\ s2[i].outcome = "result" => s2[Len(s)].ran = "ok"
    BY <1>1 DEF Honest
  <2>1. Len(s) \in DOMAIN s /\ i <= Len(s)
    BY <1>1
  <2>2. s2[i].status = "returned" => s2[i].outcome # "none"
    BY DEF Chain, Honest, Moves
  <2>3. s2[i].outcome \in Refusals => s2[i].peer = None /\ s2[i].ran = "no"
    BY DEF Chain, Honest, Moves
  <2>4. ASSUME s2[i].outcome = "result", s2[i] = s[i] PROVE s2[Len(s)].ran = "ok"
    <3>1. s[Len(s)].status = "returned" /\ s[Len(s)].ran = "ok"
      BY <2>1, <2>4 DEF Chain, Honest, Settled
    <3> QED BY <2>1, <3>1 DEF Moves
  <2>5. ASSUME s2[i].outcome = "result", Moves(s, i, s2[i]) PROVE s2[Len(s)].ran = "ok"
    <3>1. CASE i < Len(s)
      <4>1. s[Len(s)].status = "returned" /\ s[Len(s)].ran = "ok"
        BY <2>1, <2>5, <3>1 DEF Moves
      <4> QED BY <2>1, <4>1 DEF Moves
    <3>2. CASE ~(i < Len(s))
      BY <1>1, <2>1, <2>5, <3>2 DEF Moves
    <3> QED BY <3>1, <3>2
  <2> QED BY <2>2, <2>3, <2>4, <2>5
<1>11. Welcome(r, s2)
  <2> SUFFICES ASSUME WellConfigured
               PROVE  /\ Len(s2) >= 2 => s2[2].left = Budget(r) - 1
                      /\ \A i \in DOMAIN s2 : i > 1 => Ready(s2[i]) /\ s2[i].outcome \notin Refusals
    BY DEF Welcome
  <2>1. Len(s2) >= 2 => s2[2].left = Budget(r) - 1
    BY <1>1, <1>2 DEF Chain, Welcome, SameMessage
  <2>2. ASSUME NEW i \in DOMAIN s, i > 1
        PROVE  Ready(s2[i]) /\ s2[i].outcome \notin Refusals
    <3>1. Ready(s[i]) /\ s[i].outcome \notin Refusals
      BY <2>2 DEF Chain, Welcome
    <3>2. Ready(s2[i])
      BY <1>2, <3>1, Zenon DEF SameMessage, Ready
    <3>3. s2[i].outcome \notin Refusals
      BY <2>2, <3>1 DEF Moves
    <3> QED BY <3>2, <3>3
  <2> QED BY <1>1, <2>1, <2>2
<1> QED BY <1>4, <1>5, <1>6, <1>7, <1>8, <1>9, <1>10, <1>11 DEF Chain

\* The first frame of a task.
LEMMA FirstFrame ==
  ASSUME NEW r \in Requests
  PROVE  LET f == NewFrame(r.node, r.hops, r.target, r.left, r.key, r.granted)
         IN  f \in Frame /\ <<f>> \in Seq(Frame) /\ Chain(r, <<f>>)
<1> DEFINE f == NewFrame(r.node, r.hops, r.target, r.left, r.key, r.granted)
<1>1. f \in Frame
  BY RequestsAssumption DEF NewFrame, Frame, Request, Refusals
<1>2. <<f>> \in Seq(Frame) /\ Len(<<f>>) = 1 /\ DOMAIN <<f>> = {1} /\ <<f>>[1] = f
  BY <1>1
<1>3. ~Admitted(f) /\ f.status = "sent" /\ f.peer = None /\ f.ran = "no" /\ f.outcome = "none"
      /\ f.node = r.node /\ f.hops = r.hops /\ f.target = r.target /\ f.left = r.left
  BY DEF Admitted, Live, NewFrame
<1>4. Len(r.hops) \in Nat
  BY RequestsAssumption, LenProperties DEF Request
<1> HIDE DEF f
<1>5. Linked(r, <<f>>)
  BY <1>2, <1>3, <1>4 DEF Linked
<1>6. HandedOff(<<f>>) /\ Coherent(<<f>>) /\ Settled(<<f>>) /\ Honest(<<f>>)
  BY <1>2, <1>3 DEF HandedOff, Coherent, Settled, Honest, Refusals
<1>7. NeverBack(<<f>>) /\ Budgeted(r, <<f>>) /\ Welcome(r, <<f>>)
  BY <1>2 DEF NeverBack, Budgeted, Welcome
<1> QED BY <1>1, <1>2, <1>5, <1>6, <1>7 DEF Chain, f

\* Frame i of s becomes g, which waits for call.
HandsOff(r, s, i, g, call) ==
  /\ s[i].status = "sent" /\ IdOf(s[i]) \notin Range(s[i].hops)
  /\ SameMessage(s[i], g)
  /\ g.status = "waiting" /\ g.peer # None /\ g.ran = "no" /\ g.outcome = "none"
  /\ call.status = "sent" /\ call.peer = None /\ call.ran = "no" /\ call.outcome = "none"
  /\ call.hops = Path(s[i]) /\ call.target = None /\ call.left \in Int
  /\ i > 1 => s[i].left > 0 /\ call.left = s[i].left - 1
  /\ r.forwardable \/ (s[i].hops = <<>> /\ s[i].target # None)
  /\ WellDeclared => IdOf(call) \notin Range(Path(s[i]))
  /\ WellConfigured => Ready(call) /\ (~(i > 1) => call.left = Budget(r) - 1)

\* A hand-off to the next node makes the chain one frame longer.
LEMMA HandOffExtendsChain ==
  ASSUME NEW r, NEW s \in Seq(Frame), NEW i \in DOMAIN s,
         NEW g \in Frame, NEW call \in Frame,
         Chain(r, s), HandsOff(r, s, i, g, call)
  PROVE  LET s2 == Append([s EXCEPT ![i] = g], call)
         IN  /\ s2 \in Seq(Frame) /\ Chain(r, s2)
             /\ i = Len(s) /\ Len(s2) = i + 1 /\ s2[i] = g /\ s2[i + 1] = call
             /\ \A j \in 1 .. i - 1 : s2[j] = s[j]
<1> DEFINE w == [s EXCEPT ![i] = g]
           s2 == Append(w, call)
<1>1. PICK n \in Nat : Len(s) = n /\ DOMAIN s = 1 .. n /\ i = n
  BY LenProperties DEF Chain, HandedOff, HandsOff
<1>2. w \in Seq(Frame) /\ DOMAIN w = 1 .. n /\ Len(w) = n /\ w[n] = g
      /\ \A j \in 1 .. n - 1 : w[j] = s[j]
  <2>1. i \in 1 .. Len(s)
    BY <1>1
  <2>2. /\ w \in Seq(Frame) /\ Len(w) = Len(s)
        /\ \A j \in 1 .. Len(s) : w[j] = IF j = i THEN g ELSE s[j]
    BY <2>1, ExceptSeq
  <2> HIDE DEF w
  <2>3. DOMAIN w = 1 .. Len(w)
    BY <2>2, LenProperties
  <2> QED BY <1>1, <2>1, <2>2, <2>3
<1>3. /\ s2 \in Seq(Frame) /\ DOMAIN s2 = 1 .. n + 1 /\ Len(s2) = n + 1
      /\ s2[n] = g /\ s2[n + 1] = call /\ s2 # <<>>
      /\ \A j \in 1 .. n - 1 : s2[j] = s[j]
  <2> HIDE DEF w
  <2>1. /\ s2 \in Seq(Frame) /\ Len(s2) = n + 1 /\ DOMAIN s2 = 1 .. n + 1
        /\ \A j \in 1 .. n : s2[j] = w[j]
        /\ s2[n + 1] = call
    BY <1>2, AppendProperties
  <2> HIDE DEF s2
  <2>2. 1 \in 1 .. n /\ n \in 1 .. n
    BY <1>1
  <2>3. s2 # <<>>
    BY <2>1, <2>2, EmptySeq
  <2> QED BY <1>1, <1>2, <2>1, <2>2, <2>3
<1> HIDE DEF s2, w
<1>4. \A j \in 1 .. n : SameMessage(s[j], s2[j]) /\ IdOf(s2[j]) = IdOf(s[j])
  <2>1. ASSUME NEW j \in 1 .. n PROVE j = n \/ j \in 1 .. n - 1
    BY <1>1
  <2>2. SameMessage(s[n], s2[n])
    BY <1>1, <1>3 DEF HandsOff
  <2>3. \A j \in 1 .. n - 1 : SameMessage(s[j], s2[j])
    BY <1>3 DEF SameMessage
  <2> QED BY <2>1, <2>2, <2>3 DEF SameMessage, IdOf
<1>5. s[i].hops \in Seq(Names) /\ IdOf(s[i]) \in Names
  <2>1. i \in 1 .. Len(s)
    BY <1>1
  <2>2. s[i] \in Frame
    BY <2>1, ElementOfSeq
  <2> QED BY <2>2, NodeIdAssumption DEF Frame, IdOf
<1>6. /\ Range(call.hops) = Range(s[i].hops) \cup {IdOf(s[i])} /\ call.hops # <<>>
      /\ Len(call.hops) = Len(s[i].hops) + 1 /\ Len(s[i].hops) \in Nat
  <2>1. call.hops = Append(s[i].hops, IdOf(s[i]))
    BY DEF HandsOff, Path, Visited, IdOf
  <2>2. Range(call.hops) = Range(s[i].hops) \cup {IdOf(s[i])}
    BY <1>5, <2>1, RangeAppend
  <2>3. Len(call.hops) = Len(s[i].hops) + 1 /\ Len(s[i].hops) \in Nat
    BY <1>5, <2>1, AppendProperties, LenProperties
  <2>4. call.hops # <<>>
    BY <2>3, EmptySeq
  <2> QED BY <2>2, <2>3, <2>4
<1>0. /\ r \in Requests /\ s[1].node = r.node /\ s[1].hops = r.hops
      /\ s[1].target = r.target /\ s[1].left = r.left
  <2>1. s # <<>>
    BY <1>1, EmptySeq
  <2> QED BY <2>1 DEF Chain, Linked
<1>7. Linked(r, s2)
  <2>1. \A k \in DOMAIN s2 : Len(s2[k].hops) = Len(r.hops) + k - 1
    <3>1. PICK l \in Nat : l = Len(r.hops)
      BY <1>0, RequestsAssumption, LenProperties DEF Request
    <3>2. \A k \in 1 .. n : Len(s[k].hops) = l + k - 1
      BY <1>1, <3>1 DEF Chain, Linked
    <3>3. \A k \in 1 .. n : Len(s2[k].hops) = l + k - 1
      BY <1>4, <3>2 DEF SameMessage
    <3>4. Len(call.hops) = l + n
      BY <1>1, <1>6, <3>2
    <3>5. ASSUME NEW k \in DOMAIN s2 PROVE Len(s2[k].hops) = l + k - 1
      <4>1. CASE k \in 1 .. n
        BY <3>3, <4>1
      <4>2. CASE k = n + 1
        BY <1>3, <3>4, <4>2
      <4> QED BY <1>3, <4>1, <4>2
    <3> QED BY <3>1, <3>5
  <2>2. /\ s2[1].node = s[1].node /\ s2[1].hops = s[1].hops
        /\ s2[1].target = s[1].target /\ s2[1].left = s[1].left
    BY <1>1, <1>4 DEF SameMessage
  <2>3. \A k \in DOMAIN s2 : k > 1 => s2[k].hops # <<>> /\ s2[k].target = None /\ s2[k].left \in Int
    BY <1>1, <1>3, <1>4, <1>6 DEF Chain, Linked, SameMessage, HandsOff
  <2>4. ASSUME NEW k \in DOMAIN s2, NEW j \in DOMAIN s2, k < j
        PROVE  IdOf(s2[k]) \in Range(s2[j].hops)
    <3>1. CASE j \in 1 .. n
      BY <1>1, <1>3, <1>4, <2>4, <3>1 DEF Chain, Linked, SameMessage
    <3>2. CASE j = n + 1 /\ k = n
      BY <1>1, <1>3, <1>4, <1>6, <3>2
    <3>3. CASE j = n + 1 /\ k < n
      <4>1. k \in 1 .. n /\ IdOf(s[k]) \in Range(s[i].hops)
        BY <1>1, <1>3, <2>4, <3>3 DEF Chain, Linked
      <4> QED BY <1>3, <1>4, <1>6, <3>3, <4>1
    <3> QED BY <1>1, <1>3, <2>4, <3>1, <3>2, <3>3
  <2> QED BY <1>0, <1>3, <2>1, <2>2, <2>3, <2>4 DEF Linked
<1>8. HandedOff(s2)
  BY <1>1, <1>3 DEF Chain, HandedOff, HandsOff
<1>9. Coherent(s2)
  <2> SUFFICES ASSUME NEW j \in DOMAIN s2
               PROVE  /\ s2[j].status = "sent" =>
                           s2[j].peer = None /\ s2[j].ran = "no" /\ s2[j].outcome = "none"
                      /\ s2[j].status = "running" <=> s2[j].ran = "running"
                      /\ s2[j].status = "waiting" => j < Len(s2)
                      /\ s2[j].outcome # "none" => s2[j].status = "returned"
                      /\ Admitted(s2[j]) => IdOf(s2[j]) \notin Range(s2[j].hops)
                      /\ s2[j].outcome = "loop" => IdOf(s2[j]) \in Range(s2[j].hops)
    BY DEF Coherent
  <2>1. CASE j < n
    BY <1>1, <1>3, <2>1 DEF Chain, Coherent
  <2>2. CASE j = n
    BY <1>1, <1>3, <1>4, <2>2 DEF SameMessage, HandsOff
  <2>3. CASE j = n + 1
    BY <1>1, <1>3, <2>3 DEF Admitted, Live, HandsOff
  <2> QED BY <1>1, <1>3, <2>1, <2>2, <2>3
<1>10. NeverBack(s2)
  <2>1. ASSUME WellDeclared, NEW j \in DOMAIN s2, j > 1
        PROVE  IdOf(s2[j]) \notin Range(s2[j].hops)
    BY <1>1, <1>3, <1>4, <2>1 DEF Chain, NeverBack, SameMessage, HandsOff
  <2> QED BY <2>1 DEF NeverBack
<1>11. Budgeted(r, s2)
  <2>1. CASE n = 1
    <3>1. Len(s2) = 2 /\ s2[2] = call /\ s2[2].left \in Int
      BY <1>1, <1>3, <2>1 DEF HandsOff
    <3>2. \A j \in DOMAIN s2 : j >= 2 => j = 2
      BY <1>3, <2>1
    <3>3. ~r.forwardable => r.target # None /\ r.hops = <<>>
      <4>1. s[1] = s[i] /\ (r.forwardable \/ (s[i].hops = <<>> /\ s[i].target # None))
        BY <1>1, <2>1 DEF HandsOff
      <4> QED BY <1>0, <4>1, Zenon
    <3> QED BY <3>1, <3>2, <3>3 DEF Budgeted
  <2>2. CASE n > 1
    <3>1. s[2].left \in Int /\ s2[2].left = s[2].left /\ s[i].left = s[2].left - (n - 2)
          /\ n >= 2 /\ s[i].left > 0 /\ s[i].hops # <<>>
      BY <1>1, <1>4, <2>2 DEF Chain, Linked, Budgeted, SameMessage, HandsOff
    <3>2. call.left = s2[2].left - ((n + 1) - 2)
      BY <1>1, <2>2, <3>1 DEF HandsOff
    <3>3. \A j \in DOMAIN s2 : j >= 2 => s2[j].left = s2[2].left - (j - 2)
      <4>1. \A j \in 1 .. n : j >= 2 => s2[j].left = s2[2].left - (j - 2)
        BY <1>1, <1>4, <3>1 DEF Chain, Budgeted, SameMessage
      <4>2. \A j \in DOMAIN s2 : j \in 1 .. n \/ j = n + 1
        BY <1>3
      <4> QED BY <1>3, <3>2, <4>1, <4>2
    <3>4. r.forwardable
      BY <3>1 DEF HandsOff
    <3>5. Len(s2) <= 2 + (IF s2[2].left > 0 THEN s2[2].left ELSE 0)
      BY <1>1, <1>3, <3>1
    <3> QED BY <3>3, <3>4, <3>5 DEF Budgeted
  <2> QED BY <1>1, <2>1, <2>2
<1>12. Settled(s2)
  BY <1>1, <1>3 DEF Chain, Coherent, Settled, HandsOff
<1>13. Honest(s2)
  <2> SUFFICES ASSUME NEW j \in DOMAIN s2
               PROVE  /\ s2[j].status = "returned" => s2[j].outcome # "none"
                      /\ s2[j].outcome \in Refusals => s2[j].peer = None /\ s2[j].ran = "no"
                      /\ s2[j].outcome # "result"
    BY DEF Honest
  <2>1. CASE j < n
    <3>1. j \in DOMAIN s /\ s2[j] = s[j] /\ j <= i
      BY <1>1, <1>3, <2>1
    <3>2. s[i].status # "returned"
      BY DEF HandsOff
    <3> QED BY <3>1, <3>2 DEF Chain, Honest, Settled
  <2>2. CASE j = n \/ j = n + 1
    BY <1>3, <2>2 DEF HandsOff, Refusals
  <2> QED BY <1>1, <1>3, <2>1, <2>2
<1>14. Welcome(r, s2)
  <2> SUFFICES ASSUME WellConfigured
               PROVE  /\ Len(s2) >= 2 => s2[2].left = Budget(r) - 1
                      /\ \A j \in DOMAIN s2 : j > 1 => Ready(s2[j]) /\ s2[j].outcome \notin Refusals
    BY DEF Welcome
  <2>1. CASE n = 1
    <3>1. \A j \in DOMAIN s2 : j > 1 => j = n + 1
      BY <1>3, <2>1
    <3> QED BY <1>1, <1>3, <2>1, <3>1 DEF HandsOff, Refusals
  <2>2. CASE n > 1
    <3>1. 2 \in 1 .. n /\ s2[2].left = s[2].left
      BY <1>1, <1>4, <2>2 DEF SameMessage
    <3>2. s[2].left = Budget(r) - 1
      BY <1>1, <2>2 DEF Chain, Welcome
    <3>3. ASSUME NEW j \in 1 .. n, j > 1
          PROVE  Ready(s2[j]) /\ s2[j].outcome \notin Refusals
      <4>1. Ready(s[j]) /\ s[j].outcome \notin Refusals
        BY <1>1, <3>3 DEF Chain, Welcome
      <4>2. s2[j].outcome = s[j].outcome \/ s2[j].outcome = "none"
        BY <1>1, <1>3 DEF HandsOff
      <4>3. Ready(s2[j])
        BY <1>4, <4>1, Zenon DEF SameMessage, Ready
      <4> QED BY <4>1, <4>2, <4>3 DEF Refusals
    <3>4. \A j \in DOMAIN s2 : j \in 1 .. n \/ j = n + 1
      BY <1>3
    <3>5. Ready(call) /\ call.outcome \notin Refusals
      BY DEF HandsOff, Refusals
    <3> QED BY <1>3, <3>1, <3>2, <3>3, <3>4, <3>5
  <2> QED BY <1>1, <2>1, <2>2
<1>15. Chain(r, s2)
  BY <1>7, <1>8, <1>9, <1>10, <1>11, <1>12, <1>13, <1>14 DEF Chain
<1> QED BY <1>1, <1>3, <1>15 DEF s2, w

(***************************************************************************)
(* What the invariant says of the frame a handler works on.                *)
(***************************************************************************)
LEMMA FrameTyped ==
  ASSUME IInv, NEW t \in Tasks, NEW i \in DOMAIN frames[t]
  PROVE  /\ frames[t] \in Seq(Frame) /\ i \in 1 .. Len(frames[t]) /\ frames[t] # <<>>
         /\ frames[t][i] \in Frame
         /\ Chain(request[t], frames[t])
         /\ request[t] \in Request
<1>1. frames[t] \in Seq(Frame) /\ Chain(request[t], frames[t])
  BY DEF IInv, Chains, TypeOK
<1>2. i \in 1 .. Len(frames[t])
  BY <1>1, LenProperties
<1>3. frames[t][i] \in Frame
  BY <1>1, <1>2, ElementOfSeq
<1>4. frames[t] # <<>>
  BY <1>1, <1>2, EmptySeq
<1>5. request[t] \in Request
  BY <1>1, <1>4, RequestsAssumption DEF Chain, Linked
<1> QED BY <1>1, <1>2, <1>3, <1>4, <1>5

\* A frame that waits for a transport is the last of its task and has done nothing yet.
LEMMA SentFrame ==
  ASSUME IInv, NEW t \in Tasks, NEW i \in DOMAIN frames[t], frames[t][i].status = "sent"
  PROVE  /\ ~(i < Len(frames[t]))
         /\ frames[t][i].peer = None /\ frames[t][i].ran = "no" /\ frames[t][i].outcome = "none"
BY FrameTyped DEF Chain, HandedOff, Coherent

\* A node that accepts a task is not on its path and goes to none of its upstreams.
LEMMA AcceptedFrame ==
  ASSUME NEW t, NEW f, Verdict(t, f) = "accepted"
  PROVE  /\ IdOf(f) \notin Range(f.hops)
         /\ \A name \in Destinations(t, f) :
              /\ ~IsUpstream(f.node, name, Path(f))
              /\ ~StaysHere(t, f)
              /\ f.target = None => ~(ForwardsLeft(t, f) <= 0)
<1>1. IdOf(f) \notin Range(f.hops)
  BY DEF Verdict, Loops, IdOf
<1>2. ASSUME NEW name \in Destinations(t, f)
      PROVE  ~StaysHere(t, f) /\ ~IsUpstream(f.node, name, Path(f))
  <2>1. ~StaysHere(t, f)
    BY DEF Destinations
  <2>2. CASE f.target # None
    BY <2>1, <2>2 DEF Destinations, Verdict
  <2>3. CASE f.target = None
    BY <2>1, <2>3 DEF Destinations, PickTarget
  <2> QED BY <2>1, <2>2, <2>3
<1>3. ASSUME NEW name \in Destinations(t, f), f.target = None
      PROVE  ~(ForwardsLeft(t, f) <= 0)
  BY <1>2, <1>3 DEF Destinations
<1> QED BY <1>1, <1>2, <1>3

\* The step of one handler that opens no call keeps every chain.
LEMMA OneFrameMoves ==
  ASSUME IInv, NEW t \in Tasks, NEW i \in DOMAIN frames[t], NEW g \in Frame,
         Moves(frames[t], i, g), request' = request,
         frames' = [frames EXCEPT ![t] = [@ EXCEPT ![i] = g]]
  PROVE  frames' \in [Tasks -> Seq(Frame)] /\ Chains'
<1>1. frames[t] \in Seq(Frame) /\ frames \in [Tasks -> Seq(Frame)]
  BY DEF IInv, TypeOK
<1> DEFINE w == [frames[t] EXCEPT ![i] = g]
<1>2. w \in Seq(Frame) /\ DOMAIN w = DOMAIN frames[t] /\ Len(w) = Len(frames[t])
  BY <1>1, ReplaceFrame
<1>3. frames'[t] = w /\ \A u \in Tasks \ {t} : frames'[u] = frames[u]
  BY <1>1
<1>4. frames' \in [Tasks -> Seq(Frame)]
  BY <1>1, <1>2
<1>5. Chain(request[t], w)
  <2>1. \A j \in DOMAIN frames[t] : w[j] = frames[t][j] \/ Moves(frames[t], j, w[j])
    BY <1>1
  <2>2. Chain(request[t], frames[t])
    BY DEF IInv, Chains
  <2> HIDE DEF w
  <2> QED BY <1>1, <1>2, <2>1, <2>2, MovesKeepChain
<1>6. \A u \in Tasks : Chain(request'[u], frames'[u])
  BY <1>3, <1>5 DEF IInv, Chains
<1> QED BY <1>4, <1>6 DEF Chains

\* The hops a frame has left are a number, the one it was sent with once it is relayed.
LEMMA ForwardsLeftTyped ==
  ASSUME IInv, NEW t \in Tasks, NEW i \in DOMAIN frames[t]
  PROVE  /\ ForwardsLeft(t, frames[t][i]) \in Int
         /\ i > 1 => ForwardsLeft(t, frames[t][i]) = frames[t][i].left
         /\ WellConfigured /\ ~(i > 1) => ForwardsLeft(t, frames[t][i]) = Budget(request[t])
<1>1. /\ frames[t][i] \in Frame /\ request[t] \in Request /\ conf \in [Nodes -> Settings]
      /\ i > 1 => frames[t][i].left \in Int
  BY FrameTyped DEF IInv, TypeOK, Chain, Linked
<1>2. /\ frames[t][i].left \in Int \cup {None} /\ request[t].maxf \in Int \cup {None}
      /\ conf[frames[t][i].node].maxf \in Int
  BY <1>1 DEF Frame, Request, Settings
<1>3. ASSUME WellConfigured, ~(i > 1)
      PROVE  ForwardsLeft(t, frames[t][i]) = Budget(request[t])
  <2>1. i = 1 /\ conf = InitConf
    BY <1>3, FrameTyped DEF WellConfigured, IInv, Unedited
  <2>2. frames[t][i].node = request[t].node /\ frames[t][i].left = request[t].left
    BY <2>1, FrameTyped DEF Chain, Linked
  <2> QED BY <2>1, <2>2 DEF ForwardsLeft, Budget
<1>4. ForwardsLeft(t, frames[t][i]) \in Int
  BY <1>2 DEF ForwardsLeft, Default
<1>5. i > 1 => ForwardsLeft(t, frames[t][i]) = frames[t][i].left
  BY <1>1, NoneAssumption DEF ForwardsLeft, Default
<1> QED BY <1>3, <1>4, <1>5

\* A step that hands a task to a peer: frame i waits for a new one.
Calls(t, i, g, call) ==
  /\ HandsOff(request[t], frames[t], i, g, call) /\ request' = request
  /\ frames' = [frames EXCEPT ![t] = Append([frames[t] EXCEPT ![i] = g], call)]

\* Handing a task to a peer opens a frame for it there.
LEMMA RelayCalls ==
  ASSUME IInv, NEW t \in Tasks, NEW i \in DOMAIN frames[t], NEW name \in Names,
         Relay(t, i, name)
  PROVE  \E g, call \in Frame : Calls(t, i, g, call) /\ g.peer = name /\ g.node = frames[t][i].node
<1> DEFINE s == frames[t]
           f == s[i]
           n == f.node
           peer == Peers[n][name]
           g == [f EXCEPT !.status = "waiting", !.peer = name]
           call == NewFrame(peer.node, Path(f), None, ForwardsLeft(t, f) - 1,
                            conf[n].key, peer.token = "good")
           w == [s EXCEPT ![i] = g]
<1>1. /\ s \in Seq(Frame) /\ i \in 1 .. Len(s) /\ f \in Frame
      /\ Chain(request[t], s) /\ frames \in [Tasks -> Seq(Frame)]
      /\ conf \in [Nodes -> Settings]
  BY FrameTyped DEF IInv, TypeOK
<1>2. f.status = "sent" /\ f.peer = None /\ f.ran = "no" /\ f.outcome = "none"
  BY SentFrame DEF Relay, Accepted
<1>3. /\ IdOf(f) \notin Range(f.hops) /\ ~IsUpstream(n, name, Path(f)) /\ ~StaysHere(t, f)
      /\ f.target = None => ~(ForwardsLeft(t, f) <= 0)
      /\ conf[n].key # ""
  BY AcceptedFrame DEF Relay, Accepted, Verdict
<1>4. n \in Nodes /\ name \in DOMAIN Peers[n] /\ peer \in Peer
  BY <1>1, PeersAssumption DEF Relay, Reachable, Frame
<1>5. /\ ForwardsLeft(t, f) \in Int /\ (i > 1 => ForwardsLeft(t, f) = f.left)
      /\ WellConfigured /\ ~(i > 1) => ForwardsLeft(t, f) = Budget(request[t])
  BY ForwardsLeftTyped
<1>6. f.hops \in Seq(Names) /\ Path(f) \in Seq(Names)
  BY <1>1, <1>4, NodeIdAssumption, AppendProperties DEF Frame, Path, Visited
<1>7. g \in Frame
  BY <1>1 DEF Frame
<1>8. call \in Frame
  <2>1. peer.node \in Nodes /\ conf[n].key \in STRING
    BY <1>1, <1>4 DEF Peer, Settings
  <2> QED BY <1>5, <1>6, <2>1 DEF NewFrame, Frame, Refusals
<1>9. HandsOff(request[t], s, i, g, call)
  <2>1. SameMessage(f, g) /\ g.status = "waiting" /\ g.peer = name /\ g.ran = f.ran
        /\ g.outcome = f.outcome
    BY <1>1 DEF SameMessage, Frame
  <2>2. /\ call.status = "sent" /\ call.peer = None /\ call.ran = "no" /\ call.outcome = "none"
        /\ call.hops = Path(f) /\ call.target = None
        /\ call.left = ForwardsLeft(t, f) - 1 /\ call.node = peer.node
        /\ call.key = conf[n].key /\ call.granted = (peer.token = "good")
    BY DEF NewFrame
  <2>3. name # None
    BY NoneAssumption, NoneIsNoName
  <2>4. i > 1 => f.left > 0 /\ call.left = f.left - 1
    <3>1. i > 1 => f.target = None /\ f.left \in Int
      BY <1>1 DEF Chain, Linked
    <3>2. PICK k \in Int : k = ForwardsLeft(t, f)
      BY <1>5
    <3>3. call.left = k - 1 /\ (i > 1 => k = f.left /\ ~(k <= 0))
      BY <1>3, <1>5, <2>2, <3>1, <3>2
    <3> HIDE DEF call, f
    <3> QED BY <3>3
  <2>5. request[t].forwardable \/ (f.hops = <<>> /\ f.target # None)
    BY <1>3, Zenon DEF StaysHere, IsOrigin
  <2>6. WellDeclared => IdOf(call) \notin Range(Path(f))
    <3>1. WellDeclared => PeerNodeId(n, name) = NodeId[peer.node]
      BY <1>4 DEF WellDeclared
    <3>2. PeerNodeId(n, name) \notin Range(Path(f))
      BY <1>3 DEF IsUpstream
    <3> QED BY <2>2, <3>1, <3>2 DEF IdOf
  <2>7. call.left \in Int
    <3> HIDE DEF call
    <3> QED BY <1>5, <2>2
  <2>8. ASSUME WellConfigured
        PROVE  Ready(call) /\ (~(i > 1) => call.left = Budget(request[t]) - 1)
    <3>1. peer.token = "good" /\ conf = InitConf
      BY <1>4, <2>8 DEF WellConfigured, IInv, Unedited
    <3>2. InitConf[n].key = InitConf[peer.node].key
      BY <1>4, <2>8 DEF WellConfigured, Peer
    <3> HIDE DEF call, peer, n
    <3>3. Ready(call)
      BY <1>3, <2>2, <3>1, <3>2 DEF Ready
    <3> QED BY <1>5, <2>2, <2>8, <3>3
  <2> HIDE DEF g, call
  <2> QED BY <1>2, <1>3, <2>1, <2>2, <2>3, <2>4, <2>5, <2>6, <2>7, <2>8 DEF HandsOff
<1>10. frames' = [frames EXCEPT ![t] = Append(w, call)] /\ request' = request
  <2>1. [s EXCEPT ![i].status = "waiting", ![i].peer = name] = w
    BY <1>1
  <2> QED BY <2>1 DEF Relay
<1>11. g.peer = name /\ g.node = f.node
  BY <1>1 DEF Frame
<1> HIDE DEF call, g
<1> QED BY <1>7, <1>8, <1>9, <1>10, <1>11 DEF Calls

\* Such a step keeps every chain.
LEMMA CallsKeepChains ==
  ASSUME IInv, NEW t \in Tasks, NEW i \in DOMAIN frames[t], NEW g \in Frame, NEW call \in Frame,
         Calls(t, i, g, call)
  PROVE  frames' \in [Tasks -> Seq(Frame)] /\ Chains'
<1> DEFINE w == Append([frames[t] EXCEPT ![i] = g], call)
<1>1. frames \in [Tasks -> Seq(Frame)] /\ frames[t] \in Seq(Frame) /\ Chain(request[t], frames[t])
  BY DEF IInv, TypeOK, Chains
<1>2. w \in Seq(Frame) /\ Chain(request[t], w)
  BY <1>1, HandOffExtendsChain DEF Calls
<1>3. frames' = [frames EXCEPT ![t] = w] /\ request' = request
  BY DEF Calls
<1> HIDE DEF w
<1>4. frames' \in [Tasks -> Seq(Frame)]
  BY <1>1, <1>2, <1>3
<1>5. \A u \in Tasks : Chain(request'[u], frames'[u])
  BY <1>1, <1>2, <1>3 DEF IInv, Chains
<1> QED BY <1>4, <1>5 DEF Chains

(***************************************************************************)
(* The invariant holds initially and every step keeps it.                  *)
(***************************************************************************)
LEMMA InitIInv == Init => IInv
<1> SUFFICES ASSUME Init PROVE IInv
  OBVIOUS
<1>1. TypeOK
  BY SettingsAssumption DEF Init, TypeOK
<1>2. ASSUME NEW t \in Tasks PROVE Chain(request[t], frames[t])
  <2>1. frames[t] = <<>> /\ DOMAIN frames[t] = {} /\ Len(frames[t]) = 0
    BY DEF Init
  <2> QED BY <2>1 DEF Chain, Linked, HandedOff, Coherent, NeverBack, Budgeted, Settled, Honest,
                      Welcome
<1> QED BY <1>1, <1>2 DEF IInv, Chains, Unedited, Init

\* A step that opens no call replaces one frame by what it moves on to.
Replaces(t, i, g) ==
  /\ Moves(frames[t], i, g) /\ request' = request
  /\ frames' = [frames EXCEPT ![t] = [@ EXCEPT ![i] = g]]

\* A node that has everything configured does not refuse what a peer relays to it.
LEMMA RelayedAccepted ==
  ASSUME IInv, WellConfigured, NEW t \in Tasks, NEW i \in DOMAIN frames[t], i > 1
  PROVE  Verdict(t, frames[t][i]) = "accepted"
<1> DEFINE s == frames[t]
           f == s[i]
           r == request[t]
<1>1. /\ s \in Seq(Frame) /\ i \in 1 .. Len(s) /\ f \in Frame /\ Chain(r, s)
      /\ r \in Requests /\ r \in Request
  BY FrameTyped DEF Chain, Linked
<1>2. conf = InitConf /\ WellDeclared
  BY DEF WellConfigured, IInv, Unedited
<1>3. f.granted /\ f.key # "" /\ f.key = conf[f.node].key
  <2>1. Ready(f)
    BY <1>1 DEF Chain, Welcome
  <2> QED BY <1>2, <2>1, Zenon DEF Ready
<1>4. ~Loops(f.node, f.hops)
  BY <1>1, <1>2 DEF Chain, NeverBack, Loops, IdOf
<1>5. f.target = None
  BY <1>1 DEF Chain, Linked
<1>6. ~TooFar(f.node, f.hops, conf[f.node].maxhops)
  <2>1. PICK b \in Int : b = Budget(r)
    <3>1. /\ r.left \in Int \cup {None} /\ r.maxf \in Int \cup {None} /\ r.node \in Nodes
          /\ InitConf[r.node].maxf \in Int
      BY <1>1, SettingsAssumption DEF Request, Settings
    <3> QED BY <3>1 DEF Budget, Default
  <2>2. PICK k \in Nat : k = Len(r.hops)
    BY <1>1, LenProperties DEF Request
  <2>3. Len(f.hops) = k + i - 1
    BY <1>1, <2>2 DEF Chain, Linked
  <2>4. Len(Visited(f.node, f.hops)) = k + i
    <3>1. f.hops \in Seq(Names) /\ NodeId[f.node] \in Names
      BY <1>1, NodeIdAssumption DEF Frame
    <3>2. Len(Append(f.hops, NodeId[f.node])) = Len(f.hops) + 1
      BY <3>1, AppendProperties
    <3>3. i \in Int
      BY <1>1
    <3>4. Visited(f.node, f.hops) = Append(f.hops, NodeId[f.node])
      BY DEF Visited
    <3>5. Len(Visited(f.node, f.hops)) = Len(f.hops) + 1
      BY <3>2, <3>4, Zenon
    <3> HIDE DEF f
    <3> QED BY <2>2, <2>3, <3>3, <3>5
  <2>5. s[2].left = b - 1 /\ Len(s) >= 2 /\ Len(s) \in Nat
    BY <1>1, <2>1, LenProperties DEF Chain, Welcome
  <2>6. Len(s) <= 2 + (IF b - 1 > 0 THEN b - 1 ELSE 0)
    BY <1>1, <2>5 DEF Chain, Budgeted
  <2>7. k + 1 + (IF b > 1 THEN b ELSE 1) <= conf[f.node].maxhops
    BY <1>1, <1>2, <2>1, <2>2 DEF WellConfigured, Frame
  <2>8. conf[f.node].maxhops \in Int
    BY <1>1, <1>2, SettingsAssumption DEF Frame, Settings
  <2>9. PICK h \in Int : h = conf[f.node].maxhops
    BY <2>8
  <2>10. i <= 1 + (IF b > 1 THEN b ELSE 1)
    BY <1>1, <2>5, <2>6
  <2>11. ~(k + i > h)
    BY <1>1, <2>7, <2>9, <2>10
  <2> QED BY <2>4, <2>9, <2>11 DEF TooFar
<1> QED BY <1>3, <1>4, <1>5, <1>6 DEF Verdict

\* Steps that change the chain of one task at one frame.
LEMMA OneFrameSteps ==
  ASSUME IInv, NEW t \in Tasks, NEW i \in DOMAIN frames[t],
         \/ Refuse(t, i)
         \/ RunHere(t, i)
         \/ \E name \in Names : RelayFails(t, i, name)
         \/ \E ran \in {"ok", "failed", "aborted"} : Finish(t, i, ran)
         \/ PeerAnswers(t, i)
         \/ PeerLost(t, i)
         \/ TimesOut(t, i)
         \/ LoseRequest(t, i)
  PROVE  \E g \in Frame : Replaces(t, i, g)
<1> DEFINE s == frames[t]
           f == s[i]
<1>1. f \in Frame /\ Chain(request[t], s) /\ frames \in [Tasks -> Seq(Frame)]
      /\ i \in 1 .. Len(s)
  BY FrameTyped DEF IInv, TypeOK
<1>2. CASE Refuse(t, i)
  <2> DEFINE g == [f EXCEPT !.status = "returned", !.outcome = Verdict(t, f)]
  <2>1. frames' = [frames EXCEPT ![t] = [@ EXCEPT ![i] = g]] /\ request' = request
    BY <1>1, <1>2 DEF Refuse
  <2>2. ~(i < Len(s)) /\ f.peer = None /\ f.ran = "no" /\ f.status = "sent"
    BY <1>2, SentFrame DEF Refuse
  <2>3. /\ Verdict(t, f) \in Refusals /\ (Verdict(t, f) = "loop" => IdOf(f) \in Range(f.hops))
        /\ WellConfigured => ~(i > 1)
    <3>1. Verdict(t, f) \in Refusals /\ (Verdict(t, f) = "loop" => IdOf(f) \in Range(f.hops))
      BY <1>2 DEF Refuse, Verdict, Loops, IdOf
    <3> QED BY <3>1, RelayedAccepted DEF Refusals
  <2>4. /\ g \in Frame /\ SameMessage(f, g) /\ g.status = "returned" /\ g.peer = None
        /\ g.ran = "no" /\ g.outcome = Verdict(t, f)
    BY <1>1, <2>2, <2>3 DEF Frame, SameMessage
  <2> HIDE DEF g
  <2>5. Moves(s, i, g)
    BY <2>2, <2>3, <2>4 DEF Moves, Admitted, Live, Refusals
  <2> QED BY <2>1, <2>4, <2>5 DEF Replaces
<1>3. CASE RunHere(t, i)
  <2> DEFINE g == [f EXCEPT !.status = "running", !.ran = "running"]
  <2>1. frames' = [frames EXCEPT ![t] = [@ EXCEPT ![i] = g]] /\ request' = request
    BY <1>1, <1>3 DEF RunHere
  <2>2. /\ ~(i < Len(s)) /\ f.peer = None /\ f.ran = "no" /\ f.outcome = "none"
        /\ f.status = "sent"
    BY <1>3, SentFrame DEF RunHere, Accepted
  <2>3. IdOf(f) \notin Range(f.hops)
    BY <1>3, AcceptedFrame DEF RunHere, Accepted
  <2>4. /\ g \in Frame /\ SameMessage(f, g) /\ g.status = "running" /\ g.ran = "running"
        /\ g.outcome = "none"
    BY <1>1, <2>2 DEF Frame, SameMessage
  <2> HIDE DEF g
  <2>5. Moves(s, i, g)
    BY <2>2, <2>3, <2>4 DEF Moves, Refusals
  <2> QED BY <2>1, <2>4, <2>5 DEF Replaces
<1>4. ASSUME NEW name \in Names, RelayFails(t, i, name)
      PROVE  \E g \in Frame : Replaces(t, i, g)
  <2> DEFINE g == [f EXCEPT !.status = "returned", !.peer = name, !.outcome = "error"]
  <2>1. frames' = [frames EXCEPT ![t] = [@ EXCEPT ![i] = g]] /\ request' = request
    BY <1>1, <1>4 DEF RelayFails
  <2>2. ~(i < Len(s)) /\ f.ran = "no" /\ f.status = "sent"
    BY <1>4, SentFrame DEF RelayFails, Accepted
  <2>3. IdOf(f) \notin Range(f.hops)
    BY <1>4, AcceptedFrame DEF RelayFails, Accepted
  <2>4. /\ g \in Frame /\ SameMessage(f, g) /\ g.status = "returned" /\ g.ran = "no"
        /\ g.outcome = "error"
    BY <1>1, <2>2 DEF Frame, SameMessage
  <2> HIDE DEF g
  <2>5. Moves(s, i, g)
    BY <2>2, <2>3, <2>4 DEF Moves, Refusals
  <2> QED BY <2>1, <2>4, <2>5 DEF Replaces
<1>5. ASSUME NEW ran \in {"ok", "failed", "aborted"}, Finish(t, i, ran)
      PROVE  \E g \in Frame : Replaces(t, i, g)
  <2> DEFINE oc == CASE ran = "ok" -> "result" [] ran = "failed" -> "error"
                     [] ran = "aborted" -> "aborted"
             g == [f EXCEPT !.status = "returned", !.ran = ran, !.outcome = oc]
  <2>1. frames' = [frames EXCEPT ![t] = [@ EXCEPT ![i] = g]] /\ request' = request
    BY <1>1, <1>5 DEF Finish
  <2>2. f.status = "running" /\ f.ran = "running" /\ ~(i < Len(s))
    BY <1>1, <1>5 DEF Finish, Chain, Coherent, HandedOff
  <2>3. /\ oc \in {"result", "error", "aborted"}
        /\ oc = "result" => ran = "ok"
        /\ oc = "aborted" => ran = "aborted"
    OBVIOUS
  <2>4. /\ g \in Frame /\ SameMessage(f, g) /\ g.status = "returned" /\ g.ran = ran
        /\ g.outcome = oc
    BY <1>1, <2>3 DEF Frame, SameMessage
  <2> HIDE DEF g, oc
  <2>5. \A j \in DOMAIN s : ~(j > i)
    BY <1>1, <2>2, LenProperties
  <2>6. Moves(s, i, g)
    BY <2>2, <2>3, <2>4, <2>5 DEF Moves, Admitted, Live, Refusals
  <2> QED BY <2>1, <2>4, <2>6 DEF Replaces
<1>6. ASSUME NEW oc \in {"result", "error"}, Resume(t, i, oc),
             oc = "result" => frames[t][i + 1].outcome = "result"
      PROVE  \E g \in Frame : Replaces(t, i, g)
  <2> DEFINE g == [f EXCEPT !.status = "returned", !.outcome = oc]
  <2>1. frames' = [frames EXCEPT ![t] = [@ EXCEPT ![i] = g]] /\ request' = request
    BY <1>1, <1>6 DEF Resume
  <2>2. f.status = "waiting" /\ i < Len(s) /\ f.ran = "no"
    BY <1>1, <1>6 DEF Resume, Chain, Coherent, HandedOff
  <2>3. oc = "result" => /\ \A j \in DOMAIN s : j > i => s[j].status = "returned"
                         /\ s[Len(s)].ran = "ok"
    <3>1. DOMAIN s = 1 .. Len(s) /\ Len(s) \in Nat
      BY <1>1, LenProperties
    <3>2. i + 1 \in DOMAIN s /\ \A j \in DOMAIN s : j > i => i + 1 <= j
      BY <1>1, <2>2, <3>1
    <3> QED BY <1>1, <1>6, <3>2 DEF Chain, Settled, Honest
  <2>4. /\ g \in Frame /\ SameMessage(f, g) /\ g.status = "returned" /\ g.ran = "no"
        /\ g.peer = f.peer /\ g.outcome = oc
    BY <1>1, <2>2 DEF Frame, SameMessage
  <2> HIDE DEF g
  <2>5. Moves(s, i, g)
    BY <2>2, <2>3, <2>4 DEF Moves, Admitted, Live, Refusals
  <2> QED BY <2>1, <2>4, <2>5 DEF Replaces
<1>7. CASE PeerAnswers(t, i)
  BY <1>6, <1>7 DEF PeerAnswers
<1>8. CASE PeerLost(t, i) \/ TimesOut(t, i)
  BY <1>6, <1>8 DEF PeerLost, TimesOut
<1>9. CASE LoseRequest(t, i)
  <2> DEFINE g == [f EXCEPT !.status = "lost"]
  <2>1. frames' = [frames EXCEPT ![t] = [@ EXCEPT ![i] = g]] /\ request' = request
    BY <1>1, <1>9 DEF LoseRequest
  <2>2. ~(i < Len(s)) /\ f.ran = "no" /\ f.status = "sent" /\ f.peer = None /\ f.outcome = "none"
    BY <1>9, SentFrame DEF LoseRequest
  <2>3. /\ g \in Frame /\ SameMessage(f, g) /\ g.status = "lost" /\ g.ran = "no"
        /\ g.outcome = "none" /\ g.peer = None
    BY <1>1, <2>2 DEF Frame, SameMessage
  <2> HIDE DEF g
  <2>4. Moves(s, i, g)
    BY <2>2, <2>3 DEF Moves, Admitted, Live, Refusals
  <2> QED BY <2>1, <2>3, <2>4 DEF Replaces
<1> QED BY <1>2, <1>3, <1>4, <1>5, <1>7, <1>8, <1>9

\* A chain whose frames move on within their stages.
Advances(s, s2) ==
  /\ s2 \in Seq(Frame) /\ Len(s2) = Len(s)
  /\ \A i \in DOMAIN s : s2[i] = s[i] \/ Moves(s, i, s2[i])

\* The restart of a node ends its handlers and keeps every chain.
LEMMA RestartKeepsChains ==
  ASSUME IInv, NEW n \in Nodes, Restart(n)
  PROVE  /\ frames' \in [Tasks -> Seq(Frame)] /\ Chains'
         /\ \A t \in Tasks : Advances(frames[t], frames'[t])
<1>1. frames \in [Tasks -> Seq(Frame)] /\ request' = request
  BY DEF IInv, TypeOK, Restart
<1>2. ASSUME NEW t \in Tasks
      PROVE  /\ frames'[t] \in Seq(Frame) /\ Chain(request'[t], frames'[t])
             /\ Advances(frames[t], frames'[t])
  <2> DEFINE s == frames[t]
             Ended(f) == [f EXCEPT !.status = "lost", !.ran = IF @ = "running" THEN "aborted" ELSE @]
             w == [i \in DOMAIN s |-> IF s[i].node = n /\ Live(s[i]) THEN Ended(s[i]) ELSE s[i]]
  <2>1. s \in Seq(Frame) /\ Chain(request[t], s) /\ frames'[t] = w
    BY <1>1 DEF IInv, Chains, Restart
  <2>2. DOMAIN s = 1 .. Len(s) /\ Len(s) \in Nat /\ \A i \in DOMAIN s : s[i] \in Frame
    BY <2>1, LenProperties, ElementOfSeq
  <2>3. \A i \in DOMAIN s :
          /\ Ended(s[i]) \in Frame /\ SameMessage(s[i], Ended(s[i]))
          /\ Ended(s[i]).status = "lost" /\ Ended(s[i]).peer = s[i].peer
          /\ Ended(s[i]).outcome = s[i].outcome /\ Ended(s[i]).ran # "running"
          /\ \/ Ended(s[i]).ran = s[i].ran
             \/ s[i].ran = "running" /\ Ended(s[i]).ran = "aborted"
    BY <2>2 DEF Frame, SameMessage
  <2> HIDE DEF Ended
  <2>4. w \in Seq(Frame) /\ Len(w) = Len(s)
    <3>1. \A i \in 1 .. Len(s) : w[i] \in Frame
      BY <2>2, <2>3
    <3>2. w = [i \in 1 .. Len(s) |-> w[i]]
      BY <2>2
    <3> HIDE DEF w
    <3>3. w \in [1 .. Len(s) -> Frame]
      BY <3>1, <3>2
    <3> QED BY <2>2, <3>3, LenProperties
  <2>5. \A i \in DOMAIN s : w[i] = s[i] \/ Moves(s, i, w[i])
    <3> SUFFICES ASSUME NEW i \in DOMAIN s, Live(s[i]) PROVE Moves(s, i, Ended(s[i]))
      OBVIOUS
    <3>1. s[i].status # "returned" /\ s[i].outcome = "none" /\ Admitted(s[i])
      BY <2>1 DEF Chain, Coherent, Live, Admitted
    <3>2. i < Len(s) => s[i].ran = "no"
      BY <2>1 DEF Chain, HandedOff
    <3>3. s[i].status \in {"running", "waiting"}
      BY DEF Live
    <3> QED BY <2>3, <3>1, <3>2, <3>3 DEF Moves, Refusals
  <2> HIDE DEF w
  <2>6. Chain(request[t], w)
    BY <2>1, <2>4, <2>5, MovesKeepChain
  <2>7. Advances(s, w)
    BY <2>4, <2>5 DEF Advances
  <2> QED BY <1>1, <2>1, <2>4, <2>6, <2>7
<1>3. frames' \in [Tasks -> Seq(Frame)]
  <2>1. frames' = [t \in Tasks |-> frames'[t]]
    BY DEF Restart
  <2> QED BY <1>2, <2>1
<1> QED BY <1>2, <1>3 DEF Chains

\* Every step of a node, of the network and of the operator keeps the invariant.
LEMMA StepIInv == IInv /\ [Next]_vars => IInv'
<1> SUFFICES ASSUME IInv, [Next]_vars PROVE IInv'
  OBVIOUS
<1>1. /\ request \in [Tasks -> Requests \cup {None}] /\ frames \in [Tasks -> Seq(Frame)]
      /\ active \in [Nodes -> Int] /\ inflight \in [Nodes -> [Names -> Nat]]
      /\ conf \in [Nodes -> Settings]
  BY DEF IInv, TypeOK
<1>2. ASSUME NEW t \in Tasks, NEW r \in Requests, Submit(t, r) PROVE IInv'
  <2> DEFINE f == NewFrame(r.node, r.hops, r.target, r.left, r.key, r.granted)
  <2>1. <<f>> \in Seq(Frame) /\ Chain(r, <<f>>)
    BY FirstFrame
  <2>2. request' = [request EXCEPT ![t] = r] /\ frames' = [frames EXCEPT ![t] = <<f>>]
    BY <1>2 DEF Submit
  <2> HIDE DEF f
  <2>3. TypeOK'
    BY <1>1, <1>2, <2>1, <2>2 DEF Submit, TypeOK
  <2>4. \A u \in Tasks : Chain(request'[u], frames'[u])
    BY <1>1, <2>1, <2>2 DEF IInv, Chains
  <2> QED BY <1>2, <2>3, <2>4 DEF IInv, Chains, Unedited, Submit
<1>3. ASSUME NEW t \in Tasks, NEW i \in DOMAIN frames[t],
             Handle(t, i) \/ Conclude(t, i) \/ TimesOut(t, i) \/ LoseRequest(t, i)
      PROVE  IInv'
  <2>1. frames' \in [Tasks -> Seq(Frame)] /\ Chains'
    BY <1>3, OneFrameSteps, OneFrameMoves, RelayCalls, CallsKeepChains DEF Handle, Conclude, Replaces
  <2>2. active' \in [Nodes -> Int] /\ inflight' \in [Nodes -> [Names -> Nat]]
    <3>1. PICK n \in Nodes : n = frames[t][i].node
      BY FrameTyped DEF Frame
    <3>2. \A k \in Int : [active EXCEPT ![n] = k] \in [Nodes -> Int]
      BY <1>1
    <3>3. \A p \in Names : \A k \in Nat : [inflight EXCEPT ![n][p] = k] \in [Nodes -> [Names -> Nat]]
      BY <1>1
    <3>4. active[n] + 1 \in Int /\ active[n] - 1 \in Int
          /\ \A p \in Names : inflight[n][p] + 1 \in Nat /\ Decrement(inflight[n][p]) \in Nat
      BY <1>1 DEF Decrement
    <3>5. CASE Refuse(t, i) \/ LoseRequest(t, i)
      BY <1>1, <3>5 DEF Refuse, LoseRequest
    <3>6. CASE RunHere(t, i)
      BY <1>1, <3>1, <3>2, <3>4, <3>6 DEF RunHere
    <3>7. CASE \E name \in Names : Relay(t, i, name)
      BY <1>1, <3>1, <3>2, <3>3, <3>4, <3>7 DEF Relay
    <3>8. CASE \E name \in Names : RelayFails(t, i, name)
      BY <1>1, <3>8 DEF RelayFails
    <3>9. CASE \E ran \in {"ok", "failed", "aborted"} : Finish(t, i, ran)
      BY <1>1, <3>1, <3>2, <3>4, <3>9 DEF Finish
    <3>10. ASSUME NEW oc, Resume(t, i, oc)
           PROVE  active' \in [Nodes -> Int] /\ inflight' \in [Nodes -> [Names -> Nat]]
      <4>1. frames[t][i].peer \in Names
        BY <3>10, FrameTyped DEF Resume, Chain, Coherent, HandedOff, Frame
      <4> QED BY <1>1, <3>1, <3>2, <3>3, <3>4, <3>10, <4>1 DEF Resume
    <3>11. CASE PeerAnswers(t, i) \/ PeerLost(t, i) \/ TimesOut(t, i)
      BY <3>10, <3>11 DEF PeerAnswers, PeerLost, TimesOut
    <3> QED BY <1>3, <3>5, <3>6, <3>7, <3>8, <3>9, <3>11 DEF Handle, Conclude
  <2>3. request' = request /\ conf' = conf
    BY <1>3 DEF Handle, Conclude, Refuse, RunHere, Relay, RelayFails, Finish, PeerAnswers, PeerLost,
                TimesOut, Resume, LoseRequest
  <2> QED BY <1>1, <2>1, <2>2, <2>3 DEF IInv, TypeOK, Unedited
<1>4. ASSUME NEW n \in Nodes, Restart(n) PROVE IInv'
  <2>1. frames' \in [Tasks -> Seq(Frame)] /\ Chains'
    BY <1>4, RestartKeepsChains
  <2>2. active' \in [Nodes -> Int]
    <3>1. active' = [active EXCEPT ![n] = 0]
      BY <1>4 DEF Restart
    <3> QED BY <1>1, <3>1
  <2>3. inflight' \in [Nodes -> [Names -> Nat]]
    <3> DEFINE zero == [p \in Names |-> 0]
    <3>1. zero \in [Names -> Nat] /\ inflight' = [inflight EXCEPT ![n] = zero]
      BY <1>4 DEF Restart
    <3> HIDE DEF zero
    <3> QED BY <1>1, <3>1
  <2> QED BY <1>1, <1>4, <2>1, <2>2, <2>3 DEF IInv, TypeOK, Restart, Unedited
<1>5. ASSUME NEW n \in Nodes, NEW c \in Edits, EditSettings(n, c) PROVE IInv'
  BY <1>1, <1>5, SettingsAssumption DEF IInv, Chains, TypeOK, EditSettings, Unedited
<1>6. CASE UNCHANGED vars
  BY <1>6 DEF IInv, Chains, TypeOK, vars, Unedited
<1> QED BY <1>2, <1>3, <1>4, <1>5, <1>6 DEF Next

\* The invariant holds in every state of a mesh of any nodes and tasks.
THEOREM Invariance == Spec => []IInv
BY InitIInv, StepIInv, PTL DEF Spec

(***************************************************************************)
(* What follows from the invariant.                                        *)
(***************************************************************************)
\* Every variable keeps its type: the counters never go below zero where the
\* code relies on it, and no handler reaches an outcome the protocol lacks.
THEOREM TypeCorrect == Spec => []TypeOK
BY Invariance, PTL DEF IInv

\* Loop avoidance: the handlers that take a task on belong to nodes with
\* pairwise different ids, in every mesh and whatever is edited meanwhile.
THEOREM LoopFreedom == Spec => []NoNodeTwice
<1>1. IInv => NoNodeTwice
  BY DEF IInv, Chains, Chain, NoNodeTwice, Linked, Coherent, IdOf
<1> QED BY <1>1, Invariance, PTL

\* A task runs at most once in the mesh, although calls time out, requests get
\* lost, nodes restart and jobs are cancelled (no step runs it a second time).
THEOREM AtMostOneRun == Spec => []RunsAtMostOnce
<1>1. ASSUME IInv PROVE RunsAtMostOnce
  <2> SUFFICES ASSUME NEW t \in Tasks, NEW i \in DOMAIN frames[t], NEW j \in DOMAIN frames[t],
                      frames[t][i].ran # "no", frames[t][j].ran # "no"
               PROVE  i = j
    BY DEF RunsAtMostOnce
  <2>1. HandedOff(frames[t]) /\ DOMAIN frames[t] = 1 .. Len(frames[t]) /\ Len(frames[t]) \in Nat
    BY <1>1, FrameTyped, LenProperties DEF Chain
  <2>2. ~(i < Len(frames[t])) /\ ~(j < Len(frames[t]))
    BY <2>1 DEF HandedOff
  <2> QED BY <2>1, <2>2
<1> QED BY <1>1, Invariance, PTL

\* A task that may not be re-forwarded makes one hand-off at most, to the
\* target its client named.
THEOREM NoReforwarding == Spec => []NonForwardableStops
<1>1. ASSUME IInv PROVE NonForwardableStops
  <2> SUFFICES ASSUME NEW t \in Tasks, ~request[t].forwardable
               PROVE  Len(frames[t]) <= IF request[t].target # None /\ request[t].hops = <<>>
                                        THEN 2 ELSE 1
    BY DEF NonForwardableStops
  <2>1. Budgeted(request[t], frames[t]) /\ Len(frames[t]) \in Nat
    BY <1>1, LenProperties DEF IInv, TypeOK, Chains, Chain
  <2>2. CASE Len(frames[t]) >= 2
    BY <2>1, <2>2 DEF Budgeted
  <2>3. CASE ~(Len(frames[t]) >= 2)
    BY <2>1, <2>3
  <2> QED BY <2>2, <2>3
<1> QED BY <1>1, Invariance, PTL

\* The first hand-off fixes how long the chain can get.
THEOREM BudgetFixed == Spec => []BudgetFixedAtFirstHandOff
<1>1. IInv => BudgetFixedAtFirstHandOff
  BY DEF IInv, Chains, Chain, Budgeted, BudgetFixedAtFirstHandOff
<1> QED BY <1>1, Invariance, PTL

\* With declared node ids no relayed task is refused as a loop.
THEOREM DeclaredIdsSuffice == Spec => []RelayNeverLoops
<1>1. IInv => RelayNeverLoops
  BY DEF IInv, Chains, Chain, NeverBack, Coherent, RelayNeverLoops
<1> QED BY <1>1, Invariance, PTL

\* A result reaches the client only when the whole chain is done.
THEOREM ResultIsFinal == Spec => []NoWorkAfterResult
<1>1. ASSUME IInv PROVE NoWorkAfterResult
  <2> SUFFICES ASSUME NEW t \in Tasks, frames[t] # <<>>, frames[t][1].outcome = "result",
                      NEW i \in DOMAIN frames[t]
               PROVE  frames[t][i].status = "returned"
    BY DEF NoWorkAfterResult
  <2>1. Settled(frames[t]) /\ DOMAIN frames[t] = 1 .. Len(frames[t]) /\ i \in 1 .. Len(frames[t])
    BY <1>1, FrameTyped, LenProperties DEF Chain
  <2>2. 1 \in DOMAIN frames[t] /\ 1 <= i
    BY <2>1
  <2> QED BY <2>1, <2>2 DEF Settled
<1> QED BY <1>1, Invariance, PTL

\* In the deployment the documentation describes, the node a task is handed to
\* never refuses it, however long the chain has become.
THEOREM HandOffsAccepted == Spec => []RelayedNeverRefused
<1>1. IInv => RelayedNeverRefused
  BY DEF IInv, Chains, Chain, Welcome, RelayedNeverRefused
<1> QED BY <1>1, Invariance, PTL

(***************************************************************************)
(* The promise made to the client: every step of the mesh is one of the    *)
(* abstract relay, or none.                                                *)
(***************************************************************************)
\* What TaskRelay lets a run and an answer do in one step.
RunGoes(run, answer, run2) ==
  \/ run2 = run
  \/ run = "none" /\ run2 = "running" /\ answer \notin {"unsent", "refused"}
  \/ run = "running" /\ run2 \in {"ok", "failed", "aborted"}
AnswerGoes(answer, answer2, run2) ==
  \/ answer2 = answer
  \/ answer = "unsent" /\ answer2 = "awaited"
  \/ /\ answer = "awaited"
     /\ \/ answer2 \in {"error", "lost"}
        \/ answer2 = "result" /\ run2 = "ok"
        \/ answer2 = "aborted" /\ run2 = "aborted"
        \/ answer2 = "refused" /\ run2 = "none"
Promised(s, s2) ==
  /\ RunGoes(RunOf(s), AnswerOf(s), RunOf(s2))
  /\ AnswerGoes(AnswerOf(s), AnswerOf(s2), RunOf(s2))

\* The run of a task is that of its last frame: the others handed it off.
LEMMA RunOfLast ==
  ASSUME NEW s \in Seq(Frame), HandedOff(s)
  PROVE  RunOf(s) = IF s = <<>> \/ s[Len(s)].ran = "no" THEN "none" ELSE s[Len(s)].ran
<1> DEFINE ran == {i \in DOMAIN s : s[i].ran # "no"}
<1>1. DOMAIN s = 1 .. Len(s) /\ Len(s) \in Nat /\ (s = <<>> <=> Len(s) = 0)
  BY LenProperties, EmptySeq
<1>2. \A i \in ran : i = Len(s)
  BY <1>1 DEF HandedOff
<1>3. CASE s = <<>> \/ s[Len(s)].ran = "no"
  <2>1. ran = {}
    BY <1>1, <1>2, <1>3
  <2> QED BY <1>3, <2>1 DEF RunOf
<1>4. CASE ~(s = <<>> \/ s[Len(s)].ran = "no")
  <2>1. Len(s) \in ran
    BY <1>1, <1>4
  <2>2. (CHOOSE i \in ran : TRUE) = Len(s)
    BY <1>2, <2>1
  <2>3. ran # {}
    BY <2>1
  <2> QED BY <1>4, <2>2, <2>3 DEF RunOf
<1> QED BY <1>3, <1>4

\* Runs and answers are those the promise knows.
LEMMA PromiseTyped ==
  ASSUME NEW r, NEW s \in Seq(Frame), Chain(r, s)
  PROVE  RunOf(s) \in Promise!Runs /\ AnswerOf(s) \in Promise!Answers
<1>1. CASE s = <<>>
  BY <1>1, RunOfLast DEF Chain, AnswerOf, Promise!Runs, Promise!Answers
<1>2. CASE s # <<>>
  <2>1. Len(s) \in 1 .. Len(s) /\ 1 \in 1 .. Len(s) /\ DOMAIN s = 1 .. Len(s)
    BY <1>2, LenProperties, EmptySeq
  <2>2. s[Len(s)] \in Frame /\ s[1] \in Frame
    BY <2>1, ElementOfSeq
  <2>3. s[1].status = "returned" => s[1].outcome # "none"
    BY <2>1 DEF Chain, Honest
  <2>4. RunOf(s) \in Promise!Runs
    BY <1>2, <2>2, RunOfLast DEF Chain, Frame, Promise!Runs
  <2>5. AnswerOf(s) \in Promise!Answers
    BY <1>2, <2>2, <2>3 DEF AnswerOf, Frame, Promise!Answers
  <2> QED BY <2>4, <2>5
<1> QED BY <1>1, <1>2

\* Handlers that move on keep the promise.
LEMMA AdvancePromised ==
  ASSUME NEW r, NEW s \in Seq(Frame), NEW s2, Chain(r, s), Chain(r, s2), Advances(s, s2)
  PROVE  Promised(s, s2)
<1>1. /\ DOMAIN s = 1 .. Len(s) /\ DOMAIN s2 = 1 .. Len(s) /\ Len(s) \in Nat /\ Len(s2) = Len(s)
      /\ s2 \in Seq(Frame) /\ (s = <<>> <=> Len(s) = 0) /\ (s2 = <<>> <=> Len(s) = 0)
  BY LenProperties, EmptySeq DEF Advances
<1>2. CASE s = <<>>
  BY <1>1, <1>2 DEF Promised, RunGoes, AnswerGoes
<1>3. CASE s # <<>>
  <2> DEFINE n == Len(s)
             run == RunOf(s)
             run2 == RunOf(s2)
             answer == AnswerOf(s)
             answer2 == AnswerOf(s2)
  <2>1. n \in DOMAIN s /\ 1 \in DOMAIN s /\ s2 # <<>>
    BY <1>1, <1>3
  <2>2. /\ run = IF s[n].ran = "no" THEN "none" ELSE s[n].ran
        /\ run2 = IF s2[n].ran = "no" THEN "none" ELSE s2[n].ran
    BY <1>1, <1>3, <2>1, RunOfLast DEF Chain
  <2>3. s2[n] = s[n] \/ Moves(s, n, s2[n])
    BY <2>1 DEF Advances
  <2>4. s2[1] = s[1] \/ Moves(s, 1, s2[1])
    BY <2>1 DEF Advances
  <2>7. s[1] \in Frame
    BY <1>1, <2>1, ElementOfSeq
  <2>5. RunGoes(run, answer, run2)
    <3>1. CASE s2[n].ran = s[n].ran
      BY <2>2, <3>1 DEF RunGoes
    <3>2. CASE s[n].ran = "no" /\ s2[n].ran = "running"
      <4>1. Moves(s, n, s2[n])
        BY <2>3, <3>2
      <4>2. answer # "refused"
        <5>1. SUFFICES ASSUME s[1].status = "returned", s[1].outcome \in Refusals PROVE FALSE
          BY <1>3, <2>7 DEF AnswerOf, Frame
        <5>2. s[1].peer = None
          BY <2>1, <5>1 DEF Chain, Honest
        <5>3. n = 1
          BY <1>1, <2>1, <5>2 DEF Chain, HandedOff
        <5> QED BY <4>1, <5>1, <5>3 DEF Moves
      <4>3. answer # "unsent"
        BY <1>3, <2>7 DEF AnswerOf, Frame
      <4> QED BY <2>2, <3>2, <4>2, <4>3 DEF RunGoes
    <3>3. CASE s[n].ran = "running" /\ s2[n].ran \in {"ok", "failed", "aborted"}
      BY <2>2, <3>3 DEF RunGoes
    <3> QED BY <2>3, <3>1, <3>2, <3>3 DEF Moves
  <2>6. AnswerGoes(answer, answer2, run2)
    <3>1. CASE s2[1] = s[1]
      BY <1>3, <2>1, <3>1 DEF AnswerOf, AnswerGoes
    <3>2. CASE Moves(s, 1, s2[1])
      <4>1. answer = "awaited"
        BY <1>3, <3>2 DEF AnswerOf, Moves
      <4>2. CASE s2[1].status = "lost"
        BY <2>1, <4>1, <4>2 DEF AnswerOf, AnswerGoes
      <4>3. CASE s2[1].status = "running"
        BY <2>1, <4>1, <4>3 DEF AnswerOf, AnswerGoes
      <4>4. CASE s2[1].status = "returned"
        <5>1. s2[1].outcome # "none" /\ s2[1] \in Frame
          BY <1>1, <2>1, <3>2, <4>4, ElementOfSeq DEF Moves
        <5>2. s2[1].outcome = "result" => run2 = "ok"
          <6>1. s2[1].outcome = "result" => s2[n].ran = "ok"
            BY <1>1, <2>1 DEF Chain, Honest
          <6> QED BY <2>2, <6>1
        <5>3. s2[1].outcome \in {"aborted"} \cup Refusals => n = 1
          <6>1. s2[1].outcome = "aborted" => s2[1].ran # "no"
            BY <3>2 DEF Moves
          <6>2. s2[1].outcome \in Refusals => s2[1].peer = None
            BY <3>2 DEF Moves
          <6> QED BY <1>1, <2>1, <6>1, <6>2 DEF Chain, HandedOff
        <5>4. s2[1].outcome = "aborted" => run2 = "aborted"
          BY <2>2, <3>2, <5>3 DEF Moves
        <5>5. s2[1].outcome \in Refusals => run2 = "none"
          BY <2>2, <3>2, <5>3 DEF Moves
        <5>6. answer2 = IF s2[1].outcome \in Refusals THEN "refused" ELSE s2[1].outcome
          BY <2>1, <4>4 DEF AnswerOf
        <5>7. s2[1].outcome \in {"result", "error", "aborted"} \cup Refusals
          BY <5>1 DEF Frame
        <5> HIDE DEF answer, answer2, run2, n
        <5> QED BY <4>1, <5>2, <5>4, <5>5, <5>6, <5>7 DEF AnswerGoes
      <4> QED BY <3>2, <4>2, <4>3, <4>4 DEF Moves
    <3> QED BY <2>4, <3>1, <3>2
  <2> QED BY <2>5, <2>6 DEF Promised
<1> QED BY <1>2, <1>3

\* A hand-off is no news to the client.
LEMMA CallPromised ==
  ASSUME NEW r, NEW s \in Seq(Frame), NEW i \in DOMAIN s, NEW g \in Frame, NEW call \in Frame,
         Chain(r, s), HandsOff(r, s, i, g, call)
  PROVE  Promised(s, Append([s EXCEPT ![i] = g], call))
<1> DEFINE s2 == Append([s EXCEPT ![i] = g], call)
<1>1. /\ s2 \in Seq(Frame) /\ Chain(r, s2)
      /\ i = Len(s) /\ Len(s2) = i + 1 /\ s2[i] = g /\ s2[i + 1] = call
      /\ \A j \in 1 .. i - 1 : s2[j] = s[j]
  BY HandOffExtendsChain
<1> HIDE DEF s2
<1>2. i \in Nat /\ i >= 1 /\ s # <<>> /\ s2 # <<>>
  BY <1>1, LenProperties, EmptySeq
<1>3. s[i].ran = "no" /\ call.ran = "no"
  BY DEF Chain, Coherent, HandsOff
<1>4. RunOf(s) = "none"
  BY <1>1, <1>2, <1>3, RunOfLast DEF Chain
<1>5. RunOf(s2) = "none"
  BY <1>1, <1>2, <1>3, RunOfLast DEF Chain
<1>6. AnswerOf(s2) = AnswerOf(s)
  <2>1. CASE i = 1
    BY <1>1, <1>2, <2>1 DEF AnswerOf, HandsOff
  <2>2. CASE i # 1
    <3>1. s2[1] = s[1]
      BY <1>1, <1>2, <2>2
    <3> QED BY <1>2, <3>1 DEF AnswerOf
  <2> QED BY <2>1, <2>2
<1> QED BY <1>4, <1>5, <1>6 DEF Promised, RunGoes, AnswerGoes, s2

\* A task that is sent is awaited, and has not run.
LEMMA SubmitPromised ==
  ASSUME NEW r \in Requests
  PROVE  Promised(<<>>, <<NewFrame(r.node, r.hops, r.target, r.left, r.key, r.granted)>>)
<1> DEFINE f == NewFrame(r.node, r.hops, r.target, r.left, r.key, r.granted)
<1>1. f \in Frame /\ <<f>> \in Seq(Frame) /\ HandedOff(<<f>>) /\ Len(<<f>>) = 1 /\ <<f>>[1] = f
  BY FirstFrame DEF Chain
<1>2. f.ran = "no" /\ f.status = "sent"
  BY DEF NewFrame
<1> HIDE DEF f
<1>3. RunOf(<<f>>) = "none"
  BY <1>1, <1>2, RunOfLast
<1>4. <<>> \in Seq(Frame) /\ HandedOff(<<>>)
  BY DEF HandedOff
<1>5. RunOf(<<>>) = "none"
  BY <1>4, RunOfLast
<1>6. <<f>> # <<>>
  BY <1>1
<1>7. AnswerOf(<<>>) = "unsent" /\ AnswerOf(<<f>>) = "awaited"
  BY <1>1, <1>2, <1>6 DEF AnswerOf
<1> QED BY <1>3, <1>5, <1>7 DEF Promised, RunGoes, AnswerGoes, f

\* No task was sent yet.
LEMMA PromiseInit == Init => Promise!Init
<1>1. <<>> \in Seq(Frame) /\ HandedOff(<<>>)
  BY DEF HandedOff
<1>2. RunOf(<<>>) = "none" /\ AnswerOf(<<>>) = "unsent"
  BY <1>1, RunOfLast DEF AnswerOf
<1> QED BY <1>2 DEF Init, Promise!Init

\* What a step does to the chain of each task.
LEMMA StepPromisesEach ==
  ASSUME IInv, IInv', Next
  PROVE  \A u \in Tasks : Promised(frames[u], frames'[u])
<1>1. /\ frames \in [Tasks -> Seq(Frame)] /\ request \in [Tasks -> Requests \cup {None}]
      /\ \A u \in Tasks : Chain(request[u], frames[u]) /\ Chain(request'[u], frames'[u])
  BY DEF IInv, TypeOK, Chains
<1>2. ASSUME NEW u \in Tasks, frames'[u] = frames[u] PROVE Promised(frames[u], frames'[u])
  BY <1>2 DEF Promised, RunGoes, AnswerGoes
<1>3. ASSUME NEW t \in Tasks, NEW r \in Requests, Submit(t, r)
      PROVE  \A u \in Tasks : Promised(frames[u], frames'[u])
  <2> DEFINE f == NewFrame(r.node, r.hops, r.target, r.left, r.key, r.granted)
  <2>1. frames' = [frames EXCEPT ![t] = <<f>>] /\ request[t] = None
    BY <1>3 DEF Submit
  <2>2. frames[t] = <<>>
    BY <1>1, <2>1, NoneAssumption, RequestsAssumption DEF Chain, Linked
  <2>3. Promised(<<>>, <<f>>)
    BY SubmitPromised
  <2> HIDE DEF f
  <2>4. frames'[t] = <<f>> /\ \A u \in Tasks : u # t => frames'[u] = frames[u]
    BY <1>1, <2>1
  <2> QED BY <1>2, <2>2, <2>3, <2>4
<1>4. ASSUME NEW t \in Tasks, NEW i \in DOMAIN frames[t], NEW g \in Frame, Replaces(t, i, g)
      PROVE  \A u \in Tasks : Promised(frames[u], frames'[u])
  <2> DEFINE w == [frames[t] EXCEPT ![i] = g]
  <2>1. frames'[t] = w /\ (\A u \in Tasks : u # t => frames'[u] = frames[u]) /\ request' = request
    BY <1>1, <1>4 DEF Replaces
  <2>2. frames[t] \in Seq(Frame)
    BY <1>1
  <2>3. Advances(frames[t], w)
    <3>1. w \in Seq(Frame) /\ Len(w) = Len(frames[t])
      BY <2>2, ReplaceFrame
    <3>2. \A j \in DOMAIN frames[t] : w[j] = frames[t][j] \/ Moves(frames[t], j, w[j])
      BY <1>4 DEF Replaces
    <3> QED BY <3>1, <3>2 DEF Advances
  <2> HIDE DEF w
  <2>4. Promised(frames[t], w)
    BY <1>1, <2>1, <2>2, <2>3, AdvancePromised
  <2> QED BY <1>2, <2>1, <2>4
<1>5. ASSUME NEW t \in Tasks, NEW i \in DOMAIN frames[t], NEW g \in Frame, NEW call \in Frame,
             Calls(t, i, g, call)
      PROVE  \A u \in Tasks : Promised(frames[u], frames'[u])
  <2>1. /\ frames'[t] = Append([frames[t] EXCEPT ![i] = g], call)
        /\ \A u \in Tasks : u # t => frames'[u] = frames[u]
        /\ frames[t] \in Seq(Frame)
    BY <1>1, <1>5 DEF Calls
  <2>2. Promised(frames[t], frames'[t])
    BY <1>1, <1>5, <2>1, CallPromised DEF Calls
  <2> QED BY <1>2, <2>1, <2>2
<1>6. ASSUME NEW n \in Nodes, Restart(n) PROVE \A u \in Tasks : Promised(frames[u], frames'[u])
  <2>1. request' = request /\ \A u \in Tasks : Advances(frames[u], frames'[u])
    BY <1>6, RestartKeepsChains DEF Restart
  <2> QED BY <1>1, <2>1, AdvancePromised
<1>7. ASSUME NEW n \in Nodes, NEW c \in Edits, EditSettings(n, c)
      PROVE  \A u \in Tasks : Promised(frames[u], frames'[u])
  BY <1>2, <1>7 DEF EditSettings
<1> QED BY <1>3, <1>4, <1>5, <1>6, <1>7, OneFrameSteps, RelayCalls DEF Next, Handle, Conclude

\* Every step of the mesh is one that the promise allows.
LEMMA StepPromised == IInv /\ IInv' /\ [Next]_vars => [Promise!Next]_Promise!vars
<1> SUFFICES ASSUME IInv, IInv', [Next]_vars PROVE [Promise!Next]_Promise!vars
  OBVIOUS
<1>1. CASE UNCHANGED vars
  BY <1>1 DEF vars, Promise!vars
<1>2. CASE Next
  <2>1. \A t \in Tasks : frames'[t] \in Seq(Frame) /\ Chain(request'[t], frames'[t])
    BY DEF IInv, TypeOK, Chains
  <2>2. \A t \in Tasks : RunOf(frames'[t]) \in Promise!Runs /\ AnswerOf(frames'[t]) \in Promise!Answers
    BY <2>1, PromiseTyped
  <2>3. \A t \in Tasks : Promised(frames[t], frames'[t])
    BY <1>2, StepPromisesEach
  <2>4. \A t \in Tasks : Promise!RunStep(t) /\ Promise!AnswerStep(t)
    BY <2>3 DEF Promised, RunGoes, AnswerGoes, Promise!RunStep, Promise!AnswerStep
  <2> QED BY <2>2, <2>4 DEF Promise!Next
<1> QED BY <1>1, <1>2

\* The relay keeps the promise made to the client: at most one run of its task,
\* and an answer that agrees with it, in every mesh and under every fault.
THEOREM Implementation == Spec => KeepsPromise
BY PromiseInit, StepPromised, Invariance, PTL DEF Spec, KeepsPromise, Promise!Spec

(***************************************************************************)
(* The load figures: the counters of a node are the sizes of the sets of   *)
(* its frames, so that each step must move both alike.                     *)
(***************************************************************************)
LiveIn(fs, n) ==
  {x \in UNION {{t} \X DOMAIN fs[t] : t \in Tasks} :
     fs[x[1]][x[2]].node = n /\ Live(fs[x[1]][x[2]])}
WaitingIn(fs, n, p) ==
  {x \in UNION {{t} \X DOMAIN fs[t] : t \in Tasks} :
     fs[x[1]][x[2]].node = n /\ fs[x[1]][x[2]].status = "waiting" /\ fs[x[1]][x[2]].peer = p}

Waits(f, n, p) == f.node = n /\ f.status = "waiting" /\ f.peer = p
Works(f, n) == f.node = n /\ Live(f)

\* The members of these sets are the places of the frames meant.
LEMMA Members ==
  ASSUME NEW fs, NEW n, NEW p, NEW x
  PROVE  /\ x \in LiveIn(fs, n) <=>
              \E t \in Tasks : \E i \in DOMAIN fs[t] : x = <<t, i>> /\ Works(fs[t][i], n)
         /\ x \in WaitingIn(fs, n, p) <=>
              \E t \in Tasks : \E i \in DOMAIN fs[t] : x = <<t, i>> /\ Waits(fs[t][i], n, p)
<1>1. x \in UNION {{t} \X DOMAIN fs[t] : t \in Tasks} <=>
        \E t \in Tasks : \E i \in DOMAIN fs[t] : x = <<t, i>>
  <2>1. x \in UNION {{t} \X DOMAIN fs[t] : t \in Tasks} <=>
          \E t \in Tasks : x \in {t} \X DOMAIN fs[t]
    OBVIOUS
  <2>2. \A t \in Tasks : x \in {t} \X DOMAIN fs[t] <=> \E i \in DOMAIN fs[t] : x = <<t, i>>
    OBVIOUS
  <2> QED BY <2>1, <2>2
<1>2. \A t \in Tasks : \A i \in DOMAIN fs[t] : x = <<t, i>> => x[1] = t /\ x[2] = i
  OBVIOUS
<1>3. x \in LiveIn(fs, n) <=>
        \E t \in Tasks : \E i \in DOMAIN fs[t] : x = <<t, i>> /\ Works(fs[t][i], n)
  BY <1>1, <1>2 DEF LiveIn, Works
<1>4. x \in WaitingIn(fs, n, p) <=>
        \E t \in Tasks : \E i \in DOMAIN fs[t] : x = <<t, i>> /\ Waits(fs[t][i], n, p)
  BY <1>1, <1>2 DEF WaitingIn, Waits
<1> QED BY <1>3, <1>4

\* gs is fs with frame i of t replaced by g, and maybe new frames that are not live.
Differs(fs, gs, t, i, g) ==
  /\ i \in DOMAIN gs[t] /\ gs[t][i] = g
  /\ \A u \in Tasks : \A j \in DOMAIN fs[u] :
       <<u, j>> # <<t, i>> => j \in DOMAIN gs[u] /\ gs[u][j] = fs[u][j]
  /\ \A u \in Tasks : \A j \in DOMAIN gs[u] :
       <<u, j>> # <<t, i>> /\ j \notin DOMAIN fs[u] => ~Live(gs[u][j])

\* Only the place of that frame enters or leaves the sets.
LEMMA SetsDiffer ==
  ASSUME NEW fs, NEW gs, NEW t \in Tasks, NEW i \in DOMAIN fs[t], NEW g,
         Differs(fs, gs, t, i, g), NEW n, NEW p
  PROVE  /\ <<t, i>> \in LiveIn(fs, n) <=> Works(fs[t][i], n)
         /\ <<t, i>> \in LiveIn(gs, n) <=> Works(g, n)
         /\ LiveIn(fs, n) \ {<<t, i>>} = LiveIn(gs, n) \ {<<t, i>>}
         /\ <<t, i>> \in WaitingIn(fs, n, p) <=> Waits(fs[t][i], n, p)
         /\ <<t, i>> \in WaitingIn(gs, n, p) <=> Waits(g, n, p)
         /\ WaitingIn(fs, n, p) \ {<<t, i>>} = WaitingIn(gs, n, p) \ {<<t, i>>}
<1>1. \A u \in Tasks : \A j : <<u, j>> = <<t, i>> <=> u = t /\ j = i
  OBVIOUS
<1>2. \A f : Waits(f, n, p) => Live(f)
  BY DEF Waits, Live
<1>3. ASSUME NEW u \in Tasks, NEW j, <<u, j>> # <<t, i>>
      PROVE  /\ j \in DOMAIN fs[u] /\ Live(fs[u][j]) <=> j \in DOMAIN gs[u] /\ Live(gs[u][j])
             /\ j \in DOMAIN fs[u] => gs[u][j] = fs[u][j]
  BY <1>3 DEF Differs
<1>4. ASSUME NEW x, x # <<t, i>> PROVE x \in LiveIn(fs, n) <=> x \in LiveIn(gs, n)
  <2>1. ASSUME NEW u \in Tasks, NEW j, x = <<u, j>>
        PROVE  j \in DOMAIN fs[u] /\ Works(fs[u][j], n) <=> j \in DOMAIN gs[u] /\ Works(gs[u][j], n)
    <3>1. <<u, j>> # <<t, i>>
      BY <1>4, <2>1
    <3> QED BY <1>3, <3>1 DEF Works
  <2>2. x \in LiveIn(fs, n) <=>
          \E u \in Tasks : \E j \in DOMAIN fs[u] : x = <<u, j>> /\ Works(fs[u][j], n)
    BY Members
  <2>3. x \in LiveIn(gs, n) <=>
          \E u \in Tasks : \E j \in DOMAIN gs[u] : x = <<u, j>> /\ Works(gs[u][j], n)
    BY Members
  <2> QED BY <2>1, <2>2, <2>3
<1>5. \A x : x # <<t, i>> => (x \in WaitingIn(fs, n, p) <=> x \in WaitingIn(gs, n, p))
  BY <1>2, <1>3, Members DEF Waits
<1>9. LiveIn(fs, n) \ {<<t, i>>} = LiveIn(gs, n) \ {<<t, i>>}
  BY <1>4
<1>10. WaitingIn(fs, n, p) \ {<<t, i>>} = WaitingIn(gs, n, p) \ {<<t, i>>}
  BY <1>5
<1>6. \A u \in Tasks : \A j : <<t, i>> = <<u, j>> => u = t /\ j = i
  OBVIOUS
<1>7. /\ <<t, i>> \in LiveIn(fs, n) <=> Works(fs[t][i], n)
      /\ <<t, i>> \in WaitingIn(fs, n, p) <=> Waits(fs[t][i], n, p)
  BY <1>6, Members
<1>8. /\ <<t, i>> \in LiveIn(gs, n) <=> Works(g, n)
      /\ <<t, i>> \in WaitingIn(gs, n, p) <=> Waits(g, n, p)
  BY <1>6, Members DEF Differs
<1> QED BY <1>7, <1>8, <1>9, <1>10

One(b) == IF b THEN 1 ELSE 0

\* Two sets that differ at one member at most differ by as much in size.
LEMMA CountDiffers ==
  ASSUME NEW S, NEW T, NEW x, IsFiniteSet(S), S \ {x} = T \ {x}
  PROVE  /\ IsFiniteSet(T)
         /\ Cardinality(T) = Cardinality(S) - One(x \in S) + One(x \in T)
<1> DEFINE R == S \ {x}
<1>1. IsFiniteSet(R) /\ Cardinality(R) \in Nat /\ x \notin R
  BY FS_Subset, FS_CardinalityType
<1>2. ASSUME NEW U, U \ {x} = R PROVE IsFiniteSet(U) /\ Cardinality(U) = Cardinality(R) + One(x \in U)
  <2>1. CASE x \in U
    <3>1. U = R \cup {x}
      BY <1>2, <2>1
    <3> HIDE DEF R
    <3>2. IsFiniteSet(R \cup {x}) /\ Cardinality(R \cup {x}) = Cardinality(R) + 1
      BY <1>1, FS_AddElement
    <3> QED BY <2>1, <3>1, <3>2 DEF One
  <2>2. CASE x \notin U
    <3>1. U = R
      BY <1>2, <2>2
    <3> HIDE DEF R
    <3> QED BY <1>1, <2>2, <3>1 DEF One
  <2> QED BY <2>1, <2>2
<1>3. T \ {x} = R /\ S \ {x} = R
  OBVIOUS
<1> HIDE DEF R
<1>4. IsFiniteSet(T) /\ Cardinality(T) = Cardinality(R) + One(x \in T)
  BY <1>2, <1>3
<1>5. Cardinality(S) = Cardinality(R) + One(x \in S)
  BY <1>2, <1>3
<1>6. One(x \in S) \in Int /\ One(x \in T) \in Int
  BY DEF One
<1> QED BY <1>1, <1>4, <1>5, <1>6

\* The sets are finite and the counters are their sizes.
Counted == \A n \in Nodes :
  /\ IsFiniteSet(LiveIn(frames, n))
  /\ active[n] = Cardinality(LiveIn(frames, n))
  /\ \A p \in Names : /\ IsFiniteSet(WaitingIn(frames, n, p))
                      /\ inflight[n][p] = Cardinality(WaitingIn(frames, n, p))

CInv == IInv /\ Counted

\* The counters move with the frame that moves.
Counts(f, g) == \A n \in Nodes :
  /\ active'[n] = active[n] - One(Works(f, n)) + One(Works(g, n))
  /\ \A p \in Names : inflight'[n][p] = inflight[n][p] - One(Waits(f, n, p)) + One(Waits(g, n, p))

\* A step that moves one frame, and the counters with it, keeps them exact.
LEMMA OneFrameCounted ==
  ASSUME CInv, NEW t \in Tasks, NEW i \in DOMAIN frames[t], NEW g,
         Differs(frames, frames', t, i, g), Counts(frames[t][i], g)
  PROVE  Counted'
<1> SUFFICES ASSUME NEW n \in Nodes
             PROVE  /\ IsFiniteSet(LiveIn(frames', n))
                    /\ active'[n] = Cardinality(LiveIn(frames', n))
                    /\ \A p \in Names : /\ IsFiniteSet(WaitingIn(frames', n, p))
                                        /\ inflight'[n][p] = Cardinality(WaitingIn(frames', n, p))
  BY DEF Counted
<1>0. PICK x : x = <<t, i>>
  OBVIOUS
<1>1. ASSUME NEW p
      PROVE  /\ x \in LiveIn(frames, n) <=> Works(frames[t][i], n)
             /\ x \in LiveIn(frames', n) <=> Works(g, n)
             /\ LiveIn(frames, n) \ {x} = LiveIn(frames', n) \ {x}
             /\ x \in WaitingIn(frames, n, p) <=> Waits(frames[t][i], n, p)
             /\ x \in WaitingIn(frames', n, p) <=> Waits(g, n, p)
             /\ WaitingIn(frames, n, p) \ {x} = WaitingIn(frames', n, p) \ {x}
  <2>1. PICK fs, gs : fs = frames /\ gs = frames'
    OBVIOUS
  <2>2. i \in DOMAIN fs[t] /\ Differs(fs, gs, t, i, g)
    BY <2>1
  <2>3. /\ <<t, i>> \in LiveIn(fs, n) <=> Works(fs[t][i], n)
        /\ <<t, i>> \in LiveIn(gs, n) <=> Works(g, n)
        /\ LiveIn(fs, n) \ {<<t, i>>} = LiveIn(gs, n) \ {<<t, i>>}
        /\ <<t, i>> \in WaitingIn(fs, n, p) <=> Waits(fs[t][i], n, p)
        /\ <<t, i>> \in WaitingIn(gs, n, p) <=> Waits(g, n, p)
        /\ WaitingIn(fs, n, p) \ {<<t, i>>} = WaitingIn(gs, n, p) \ {<<t, i>>}
    BY <2>2, SetsDiffer
  <2> QED BY <1>0, <2>1, <2>3
<1>2. IsFiniteSet(LiveIn(frames', n)) /\ active'[n] = Cardinality(LiveIn(frames', n))
  <2> DEFINE S == LiveIn(frames, n)
             T == LiveIn(frames', n)
  <2>1. /\ S \ {x} = T \ {x}
        /\ x \in S <=> Works(frames[t][i], n)
        /\ x \in T <=> Works(g, n)
    BY <1>1
  <2>2. IsFiniteSet(S) /\ active[n] = Cardinality(S)
    BY DEF CInv, Counted
  <2>3. active'[n] = active[n] - One(Works(frames[t][i], n)) + One(Works(g, n))
    BY DEF Counts
  <2> HIDE DEF S, T
  <2>4. IsFiniteSet(T) /\ Cardinality(T) = Cardinality(S) - One(x \in S) + One(x \in T)
    BY <2>1, <2>2, CountDiffers
  <2>5. One(x \in S) = One(Works(frames[t][i], n)) /\ One(x \in T) = One(Works(g, n))
    BY <2>1, Zenon DEF One
  <2>6. IsFiniteSet(T) /\ active'[n] = Cardinality(T)
    BY <2>2, <2>3, <2>4, <2>5
  <2> QED BY <2>6 DEF T
<1>3. ASSUME NEW p \in Names
      PROVE  /\ IsFiniteSet(WaitingIn(frames', n, p))
             /\ inflight'[n][p] = Cardinality(WaitingIn(frames', n, p))
  <2> DEFINE S == WaitingIn(frames, n, p)
             T == WaitingIn(frames', n, p)
  <2>1. /\ S \ {x} = T \ {x}
        /\ x \in S <=> Waits(frames[t][i], n, p)
        /\ x \in T <=> Waits(g, n, p)
    BY <1>1
  <2>2. IsFiniteSet(S) /\ inflight[n][p] = Cardinality(S)
    BY DEF CInv, Counted
  <2>3. inflight'[n][p] = inflight[n][p] - One(Waits(frames[t][i], n, p)) + One(Waits(g, n, p))
    BY DEF Counts
  <2> HIDE DEF S, T
  <2>4. IsFiniteSet(T) /\ Cardinality(T) = Cardinality(S) - One(x \in S) + One(x \in T)
    BY <2>1, <2>2, CountDiffers
  <2>5. One(x \in S) = One(Waits(frames[t][i], n, p)) /\ One(x \in T) = One(Waits(g, n, p))
    BY <2>1, Zenon DEF One
  <2>6. IsFiniteSet(T) /\ inflight'[n][p] = Cardinality(T)
    BY <2>2, <2>3, <2>4, <2>5
  <2> QED BY <2>6 DEF T
<1> QED BY <1>2, <1>3

\* A frame that waits is counted for the peer it waits for.
LEMMA WaitingIsCounted ==
  ASSUME CInv, NEW t \in Tasks, NEW i \in DOMAIN frames[t], frames[t][i].status = "waiting"
  PROVE  /\ frames[t][i].node \in Nodes /\ frames[t][i].peer \in Names
         /\ inflight[frames[t][i].node][frames[t][i].peer] > 0
<1> DEFINE f == frames[t][i]
           S == WaitingIn(frames, f.node, f.peer)
<1>1. IInv
  BY DEF CInv
<1>2. f.node \in Nodes /\ f.peer \in Names
  BY <1>1, FrameTyped DEF Chain, Coherent, HandedOff, Frame
<1>3. <<t, i>> \in S
  BY Members DEF Waits
<1>4. IsFiniteSet(S) /\ inflight[f.node][f.peer] = Cardinality(S)
  BY <1>2 DEF CInv, Counted
<1> HIDE DEF S
<1>5. Cardinality(S) \in Nat /\ Cardinality(S) # 0
  BY <1>3, <1>4, FS_EmptySet, FS_CardinalityType
<1> QED BY <1>2, <1>4, <1>5

\* A frame begins to be counted at one node, stops, or was not counted and is not.
ActiveMoves(f, g, m) ==
  \/ active' = [active EXCEPT ![m] = @ + 1] /\ \A n : ~Works(f, n) /\ (Works(g, n) <=> n = m)
  \/ active' = [active EXCEPT ![m] = @ - 1] /\ \A n : (Works(f, n) <=> n = m) /\ ~Works(g, n)
  \/ active' = active /\ \A n : ~Works(f, n) /\ ~Works(g, n)

\* The same for the calls of one node to one peer.
InflightMoves(f, g, m, q) ==
  \/ /\ inflight' = [inflight EXCEPT ![m][q] = @ + 1]
     /\ \A n, p : ~Waits(f, n, p) /\ (Waits(g, n, p) <=> n = m /\ p = q)
  \/ /\ inflight' = [inflight EXCEPT ![m][q] = Decrement(@)] /\ inflight[m][q] > 0
     /\ \A n, p : (Waits(f, n, p) <=> n = m /\ p = q) /\ ~Waits(g, n, p)
  \/ inflight' = inflight /\ \A n, p : ~Waits(f, n, p) /\ ~Waits(g, n, p)

\* Counters that move this way move with the frame.
LEMMA CountersMove ==
  ASSUME CInv, NEW f, NEW g, NEW m \in Nodes, NEW q \in Names,
         ActiveMoves(f, g, m), InflightMoves(f, g, m, q)
  PROVE  Counts(f, g)
<1>1. active \in [Nodes -> Int] /\ inflight \in [Nodes -> [Names -> Nat]]
  BY DEF CInv, IInv, TypeOK
<1>2. ASSUME NEW n \in Nodes
      PROVE  active'[n] = active[n] - One(Works(f, n)) + One(Works(g, n))
  <2>0. PICK a, b : a = One(Works(f, n)) /\ b = One(Works(g, n))
    OBVIOUS
  <2>1. active[n] \in Int
    BY <1>1
  <2>2. CASE active' = [active EXCEPT ![m] = @ + 1] /\ \A k : ~Works(f, k) /\ (Works(g, k) <=> k = m)
    <3>1. a = 0 /\ (n = m => b = 1) /\ (n # m => b = 0)
      BY <2>0, <2>2, Zenon DEF One
    <3>2. (n = m => active'[n] = active[n] + 1) /\ (n # m => active'[n] = active[n])
      BY <1>1, <2>2
    <3>3. active'[n] = active[n] - a + b
      BY <2>1, <3>1, <3>2
    <3> QED BY <2>0, <3>3
  <2>3. CASE active' = [active EXCEPT ![m] = @ - 1] /\ \A k : (Works(f, k) <=> k = m) /\ ~Works(g, k)
    <3>1. b = 0 /\ (n = m => a = 1) /\ (n # m => a = 0)
      BY <2>0, <2>3, Zenon DEF One
    <3>2. (n = m => active'[n] = active[n] - 1) /\ (n # m => active'[n] = active[n])
      BY <1>1, <2>3
    <3>3. active'[n] = active[n] - a + b
      BY <2>1, <3>1, <3>2
    <3> QED BY <2>0, <3>3
  <2>4. CASE active' = active /\ \A k : ~Works(f, k) /\ ~Works(g, k)
    <3>1. a = 0 /\ b = 0
      BY <2>0, <2>4, Zenon DEF One
    <3>2. active'[n] = active[n] - a + b
      BY <2>1, <2>4, <3>1
    <3> QED BY <2>0, <3>2
  <2> QED BY <2>2, <2>3, <2>4, Zenon DEF ActiveMoves
<1>3. ASSUME NEW n \in Nodes, NEW p \in Names
      PROVE  inflight'[n][p] = inflight[n][p] - One(Waits(f, n, p)) + One(Waits(g, n, p))
  <2>0. PICK a, b : a = One(Waits(f, n, p)) /\ b = One(Waits(g, n, p))
    OBVIOUS
  <2>1. inflight[n][p] \in Nat
    BY <1>1
  <2>2. CASE /\ inflight' = [inflight EXCEPT ![m][q] = @ + 1]
             /\ \A k, j : ~Waits(f, k, j) /\ (Waits(g, k, j) <=> k = m /\ j = q)
    <3>1. a = 0 /\ (n = m /\ p = q => b = 1) /\ (~(n = m /\ p = q) => b = 0)
      BY <2>0, <2>2, Zenon DEF One
    <3>2. /\ n = m /\ p = q => inflight'[n][p] = inflight[n][p] + 1
          /\ ~(n = m /\ p = q) => inflight'[n][p] = inflight[n][p]
      BY <1>1, <2>2
    <3>3. inflight'[n][p] = inflight[n][p] - a + b
      BY <2>1, <3>1, <3>2
    <3> QED BY <2>0, <3>3
  <2>3. CASE /\ inflight' = [inflight EXCEPT ![m][q] = Decrement(@)] /\ inflight[m][q] > 0
             /\ \A k, j : (Waits(f, k, j) <=> k = m /\ j = q) /\ ~Waits(g, k, j)
    <3>1. b = 0 /\ (n = m /\ p = q => a = 1) /\ (~(n = m /\ p = q) => a = 0)
      BY <2>0, <2>3, Zenon DEF One
    <3>2. /\ n = m /\ p = q => inflight'[n][p] = Decrement(inflight[n][p]) /\ inflight[n][p] > 0
          /\ ~(n = m /\ p = q) => inflight'[n][p] = inflight[n][p]
      BY <1>1, <2>3
    <3>3. inflight'[n][p] = inflight[n][p] - a + b
      BY <2>1, <3>1, <3>2 DEF Decrement
    <3> QED BY <2>0, <3>3
  <2>4. CASE inflight' = inflight /\ \A k, j : ~Waits(f, k, j) /\ ~Waits(g, k, j)
    <3>1. a = 0 /\ b = 0
      BY <2>0, <2>4, Zenon DEF One
    <3>2. inflight'[n][p] = inflight[n][p] - a + b
      BY <2>1, <2>4, <3>1
    <3> QED BY <2>0, <3>2
  <2> QED BY <2>2, <2>3, <2>4, Zenon DEF InflightMoves
<1> QED BY <1>2, <1>3 DEF Counts

\* The frame that moves goes to this status and stays at its node.
Becomes(t, i, g, status) ==
  /\ frames' = [frames EXCEPT ![t] = [@ EXCEPT ![i] = g]]
  /\ g.node = frames[t][i].node /\ g.status = status

\* Replacing a frame changes no other.
LEMMA ReplaceDiffers ==
  ASSUME IInv, NEW t \in Tasks, NEW i \in DOMAIN frames[t], NEW g, NEW status,
         Becomes(t, i, g, status)
  PROVE  Differs(frames, frames', t, i, g)
<1>1. frames \in [Tasks -> Seq(Frame)]
  BY DEF IInv, TypeOK
<1>2. frames'[t] = [frames[t] EXCEPT ![i] = g] /\ \A u \in Tasks : u # t => frames'[u] = frames[u]
  BY <1>1 DEF Becomes
<1>3. \A u \in Tasks : DOMAIN frames'[u] = DOMAIN frames[u]
  BY <1>2
<1>4. frames'[t][i] = g /\ \A j \in DOMAIN frames[t] : j # i => frames'[t][j] = frames[t][j]
  BY <1>2
<1>5. ASSUME NEW u \in Tasks, NEW j \in DOMAIN frames[u], <<u, j>> # <<t, i>>
      PROVE  frames'[u][j] = frames[u][j]
  BY <1>2, <1>4, <1>5
<1> QED BY <1>3, <1>4, <1>5 DEF Differs

\* A frame that has moved on to a status and what is counted then.
LEMMA RefusedCounted ==
  ASSUME CInv, NEW t \in Tasks, NEW i \in DOMAIN frames[t],
         Refuse(t, i) \/ LoseRequest(t, i) \/ \E name \in Names : RelayFails(t, i, name)
  PROVE  Counted'
<1> DEFINE f == frames[t][i]
<1>1. f \in Frame /\ IInv /\ frames \in [Tasks -> Seq(Frame)] /\ i \in 1 .. Len(frames[t])
      /\ frames[t] \in Seq(Frame)
  BY FrameTyped DEF CInv, IInv, TypeOK
<1>0. f \in Frame /\ frames \in [Tasks -> Seq(Frame)] /\ i \in 1 .. Len(frames[t])
  BY <1>1
<1>2. f.status = "sent" /\ active' = active /\ inflight' = inflight
  BY DEF Refuse, LoseRequest, RelayFails, Accepted
<1>3. \E g : Becomes(t, i, g, "returned") \/ Becomes(t, i, g, "lost")
  <2>1. CASE Refuse(t, i)
    <3> DEFINE g == [f EXCEPT !.status = "returned", !.outcome = Verdict(t, f)]
    <3>1. frames' = [frames EXCEPT ![t] = [@ EXCEPT ![i] = g]]
      BY <1>1, <2>1 DEF Refuse
    <3>2. g.node = f.node /\ g.status = "returned"
      BY <1>1 DEF Frame
    <3> QED BY <3>1, <3>2 DEF Becomes
  <2>2. CASE LoseRequest(t, i)
    <3> DEFINE g == [f EXCEPT !.status = "lost"]
    <3>1. frames' = [frames EXCEPT ![t] = [@ EXCEPT ![i] = g]]
      BY <1>1, <2>2 DEF LoseRequest
    <3>2. g.node = f.node /\ g.status = "lost"
      BY <1>1 DEF Frame
    <3> QED BY <3>1, <3>2 DEF Becomes
  <2>3. ASSUME NEW name \in Names, RelayFails(t, i, name)
        PROVE  \E g : Becomes(t, i, g, "returned")
    <3>1. PICK g \in Frame : Replaces(t, i, g)
      BY <1>1, <2>3, OneFrameSteps
    <3>2. frames' = [frames EXCEPT ![t] = [@ EXCEPT ![i] = g]]
      BY <3>1 DEF Replaces
    <3>3. frames'[t][i] = g
      BY <1>0, <3>2
    <3>4. frames'[t][i].node = f.node /\ frames'[t][i].status = "returned"
      BY <1>0, <2>3 DEF RelayFails, Frame
    <3> QED BY <3>2, <3>3, <3>4 DEF Becomes
  <2> QED BY <2>1, <2>2, <2>3
<1>4. PICK g : Becomes(t, i, g, "returned") \/ Becomes(t, i, g, "lost")
  BY <1>3
<1>5. \A n, p : ~Works(f, n) /\ ~Waits(f, n, p) /\ ~Works(g, n) /\ ~Waits(g, n, p)
  BY <1>2, <1>4 DEF Works, Waits, Live, Becomes
<1>6. ActiveMoves(f, g, f.node)
  BY <1>2, <1>5, Zenon DEF ActiveMoves
<1>8. \A q : InflightMoves(f, g, f.node, q)
  BY <1>2, <1>5, Zenon DEF InflightMoves
<1>9. f.node \in Nodes /\ NodeId[f.node] \in Names
  BY <1>1, NodeIdAssumption DEF Frame
<1>7. Counts(f, g)
  BY <1>6, <1>8, <1>9, CountersMove
<1> QED BY <1>1, <1>4, <1>7, ReplaceDiffers, OneFrameCounted

\* A local run is counted while it lasts.
LEMMA RunCounted ==
  ASSUME CInv, NEW t \in Tasks, NEW i \in DOMAIN frames[t],
         RunHere(t, i) \/ \E ran \in {"ok", "failed", "aborted"} : Finish(t, i, ran)
  PROVE  Counted'
<1> DEFINE f == frames[t][i]
<1>1. f \in Frame /\ IInv /\ f.node \in Nodes /\ inflight' = inflight
      /\ frames \in [Tasks -> Seq(Frame)] /\ i \in 1 .. Len(frames[t]) /\ frames[t] \in Seq(Frame)
  BY FrameTyped DEF CInv, IInv, TypeOK, Frame, RunHere, Finish
<1>0. f \in Frame /\ frames \in [Tasks -> Seq(Frame)] /\ i \in 1 .. Len(frames[t])
  BY <1>1
<1>2. NodeId[f.node] \in Names
  BY <1>1, NodeIdAssumption
<1>3. CASE RunHere(t, i)
  <2> DEFINE g == [f EXCEPT !.status = "running", !.ran = "running"]
  <2>1. Becomes(t, i, g, "running")
    <3>1. frames' = [frames EXCEPT ![t] = [@ EXCEPT ![i] = g]]
      BY <1>1, <1>3 DEF RunHere
    <3>2. g.node = f.node /\ g.status = "running"
      BY <1>1 DEF Frame
    <3> QED BY <3>1, <3>2 DEF Becomes
  <2>2. f.status = "sent" /\ active' = [active EXCEPT ![f.node] = @ + 1]
    BY <1>3 DEF RunHere, Accepted
  <2> HIDE DEF g
  <2>3. \A n, p : ~Works(f, n) /\ ~Waits(f, n, p) /\ (Works(g, n) <=> n = f.node) /\ ~Waits(g, n, p)
    BY <2>1, <2>2 DEF Works, Waits, Live, Becomes
  <2>5. ActiveMoves(f, g, f.node)
    BY <2>2, <2>3, Zenon DEF ActiveMoves
  <2>6. InflightMoves(f, g, f.node, NodeId[f.node])
    BY <1>1, <2>3, Zenon DEF InflightMoves
  <2>4. Counts(f, g)
    BY <1>1, <1>2, <2>5, <2>6, CountersMove
  <2> QED BY <1>1, <2>1, <2>4, ReplaceDiffers, OneFrameCounted
<1>4. ASSUME NEW ran \in {"ok", "failed", "aborted"}, Finish(t, i, ran) PROVE Counted'
  <2>1. PICK g : Becomes(t, i, g, "returned")
    <3>1. PICK g \in Frame : Replaces(t, i, g)
      BY <1>1, <1>4, OneFrameSteps
    <3>2. frames' = [frames EXCEPT ![t] = [@ EXCEPT ![i] = g]]
      BY <3>1 DEF Replaces
    <3>3. frames'[t][i] = g
      BY <1>0, <3>2
    <3>4. frames'[t][i].node = f.node /\ frames'[t][i].status = "returned"
      BY <1>0, <1>4 DEF Finish, Frame
    <3> QED BY <3>2, <3>3, <3>4 DEF Becomes
  <2>2. f.status = "running" /\ active' = [active EXCEPT ![f.node] = @ - 1]
    BY <1>4 DEF Finish
  <2>3. \A n, p : ~Works(g, n) /\ ~Waits(f, n, p) /\ (Works(f, n) <=> n = f.node) /\ ~Waits(g, n, p)
    BY <2>1, <2>2 DEF Works, Waits, Live, Becomes
  <2>5. ActiveMoves(f, g, f.node)
    BY <2>2, <2>3, Zenon DEF ActiveMoves
  <2>6. InflightMoves(f, g, f.node, NodeId[f.node])
    BY <1>1, <2>3, Zenon DEF InflightMoves
  <2>4. Counts(f, g)
    BY <1>1, <1>2, <2>5, <2>6, CountersMove
  <2> QED BY <1>1, <2>1, <2>4, ReplaceDiffers, OneFrameCounted
<1> QED BY <1>3, <1>4

\* A handler that resumes takes itself off both counters.
LEMMA ResumeCounted ==
  ASSUME CInv, NEW t \in Tasks, NEW i \in DOMAIN frames[t], NEW oc, Resume(t, i, oc)
  PROVE  Counted'
<1> DEFINE f == frames[t][i]
           g == [f EXCEPT !.status = "returned", !.outcome = oc]
<1>1. f \in Frame /\ IInv /\ frames \in [Tasks -> Seq(Frame)] /\ i \in 1 .. Len(frames[t])
      /\ frames[t] \in Seq(Frame)
  BY FrameTyped DEF CInv, IInv, TypeOK
<1>3. Becomes(t, i, g, "returned")
  <2>1. frames' = [frames EXCEPT ![t] = [@ EXCEPT ![i] = g]]
    BY <1>1 DEF Resume
  <2>2. g.node = f.node /\ g.status = "returned"
    BY <1>1 DEF Frame
  <2> QED BY <2>1, <2>2 DEF Becomes
<1>4. /\ f.status = "waiting" /\ active' = [active EXCEPT ![f.node] = @ - 1]
      /\ inflight' = [inflight EXCEPT ![f.node][f.peer] = Decrement(@)]
  BY DEF Resume
<1>5. f.node \in Nodes /\ f.peer \in Names /\ inflight[f.node][f.peer] > 0
  BY <1>4, WaitingIsCounted
<1>6. \A n, p : /\ ~Works(g, n) /\ ~Waits(g, n, p)
                /\ Works(f, n) <=> n = f.node
                /\ Waits(f, n, p) <=> n = f.node /\ p = f.peer
  BY <1>3, <1>4 DEF Works, Waits, Live, Becomes
<1> HIDE DEF g
<1>7. ActiveMoves(f, g, f.node)
  BY <1>4, <1>6, Zenon DEF ActiveMoves
<1>8. InflightMoves(f, g, f.node, f.peer)
  BY <1>4, <1>5, <1>6, Zenon DEF InflightMoves
<1>9. Counts(f, g)
  BY <1>5, <1>7, <1>8, CountersMove
<1> QED BY <1>1, <1>3, <1>9, ReplaceDiffers, OneFrameCounted

\* What a hand-off leaves of the chain.
LEMMA HandOffShape ==
  ASSUME NEW r, NEW s \in Seq(Frame), NEW i \in DOMAIN s, NEW g \in Frame, NEW call \in Frame,
         NEW s2, s2 = Append([s EXCEPT ![i] = g], call), Chain(r, s), HandsOff(r, s, i, g, call)
  PROVE  /\ s2 \in Seq(Frame) /\ i = Len(s) /\ Len(s2) = i + 1 /\ s2[i] = g /\ s2[i + 1] = call
         /\ \A j \in 1 .. i - 1 : s2[j] = s[j]
<1> DEFINE w == Append([s EXCEPT ![i] = g], call)
<1>1. /\ w \in Seq(Frame) /\ Chain(r, w)
      /\ i = Len(s) /\ Len(w) = i + 1 /\ w[i] = g /\ w[i + 1] = call
      /\ \A j \in 1 .. i - 1 : w[j] = s[j]
  BY HandOffExtendsChain
<1>2. s2 = w
  OBVIOUS
<1> HIDE DEF w
<1> QED BY <1>1, <1>2

\* A call is counted by its node, for its peer, and not by the receiver yet.
LEMMA RelayCounted ==
  ASSUME CInv, NEW t \in Tasks, NEW i \in DOMAIN frames[t], NEW name \in Names, Relay(t, i, name)
  PROVE  Counted'
<1> DEFINE f == frames[t][i]
<1>1. f \in Frame /\ IInv /\ frames \in [Tasks -> Seq(Frame)] /\ frames[t] \in Seq(Frame)
      /\ Chain(request[t], frames[t]) /\ f.node \in Nodes
  BY FrameTyped DEF CInv, IInv, TypeOK, Frame
<1>3. PICK g \in Frame, call \in Frame : Calls(t, i, g, call) /\ g.peer = name /\ g.node = f.node
  BY <1>1, RelayCalls
<1>4. /\ f.status = "sent" /\ g.status = "waiting" /\ call.status = "sent"
  BY <1>3 DEF Calls, HandsOff
<1> DEFINE w == Append([frames[t] EXCEPT ![i] = g], call)
<1>5. /\ w \in Seq(Frame) /\ i = Len(frames[t]) /\ Len(w) = i + 1 /\ w[i] = g /\ w[i + 1] = call
      /\ \A j \in 1 .. i - 1 : w[j] = frames[t][j]
  <2>1. PICK s, r : s = frames[t] /\ r = request[t]
    OBVIOUS
  <2>2. s \in Seq(Frame) /\ i \in DOMAIN s /\ Chain(r, s) /\ HandsOff(r, s, i, g, call)
    BY <1>1, <1>3, <2>1 DEF Calls
  <2>3. PICK s2 : s2 = Append([s EXCEPT ![i] = g], call)
    OBVIOUS
  <2>4. /\ s2 \in Seq(Frame) /\ i = Len(s) /\ Len(s2) = i + 1 /\ s2[i] = g /\ s2[i + 1] = call
        /\ \A j \in 1 .. i - 1 : s2[j] = s[j]
    BY <2>2, <2>3, HandOffShape
  <2>5. w = s2
    BY <2>1, <2>3
  <2> HIDE DEF w
  <2> QED BY <2>1, <2>4, <2>5
<1>6. frames'[t] = w /\ \A u \in Tasks : u # t => frames'[u] = frames[u]
  BY <1>1, <1>3 DEF Calls
<1> HIDE DEF w
<1>7. /\ DOMAIN frames[t] = 1 .. i /\ DOMAIN w = 1 .. i + 1 /\ i \in Nat /\ i >= 1
  BY <1>1, <1>5, LenProperties
<1>8. Differs(frames, frames', t, i, g)
  <2>1. \A j \in DOMAIN frames[t] : j # i => j \in DOMAIN w /\ w[j] = frames[t][j]
    BY <1>5, <1>7
  <2>2. \A j \in DOMAIN w : j \notin DOMAIN frames[t] => ~Live(w[j])
    BY <1>4, <1>5, <1>7 DEF Live
  <2>3. i \in DOMAIN frames'[t] /\ frames'[t][i] = g
    BY <1>5, <1>6, <1>7
  <2>4. ASSUME NEW u \in Tasks, NEW j \in DOMAIN frames[u], <<u, j>> # <<t, i>>
        PROVE  j \in DOMAIN frames'[u] /\ frames'[u][j] = frames[u][j]
    BY <1>6, <2>1, <2>4
  <2>5. ASSUME NEW u \in Tasks, NEW j \in DOMAIN frames'[u], j \notin DOMAIN frames[u]
        PROVE  ~Live(frames'[u][j])
    BY <1>6, <2>2, <2>5
  <2> QED BY <2>3, <2>4, <2>5 DEF Differs
<1>9. /\ active' = [active EXCEPT ![f.node] = @ + 1]
      /\ inflight' = [inflight EXCEPT ![f.node][name] = @ + 1]
  BY DEF Relay
<1>10. \A n, p : /\ ~Works(f, n) /\ ~Waits(f, n, p)
                 /\ Works(g, n) <=> n = f.node
                 /\ Waits(g, n, p) <=> n = f.node /\ p = name
  BY <1>3, <1>4 DEF Works, Waits, Live
<1>11. ActiveMoves(f, g, f.node)
  BY <1>9, <1>10, Zenon DEF ActiveMoves
<1>12. InflightMoves(f, g, f.node, name)
  BY <1>9, <1>10, Zenon DEF InflightMoves
<1>13. Counts(f, g)
  BY <1>1, <1>11, <1>12, CountersMove
<1> QED BY <1>8, <1>13, OneFrameCounted

\* The members of the set of working frames alone.
LEMMA LiveMembers ==
  ASSUME NEW fs, NEW n, NEW x
  PROVE  x \in LiveIn(fs, n) <=>
           \E t \in Tasks : \E i \in DOMAIN fs[t] : x = <<t, i>> /\ Works(fs[t][i], n)
BY Members

\* Two chains of frames in which the same places work and wait have the same sets.
LEMMA SameSets ==
  ASSUME NEW fs, NEW gs, NEW n, NEW p,
         \A u \in Tasks : \A j :
           /\ j \in DOMAIN fs[u] /\ Works(fs[u][j], n) <=> j \in DOMAIN gs[u] /\ Works(gs[u][j], n)
           /\ j \in DOMAIN fs[u] /\ Waits(fs[u][j], n, p) <=> j \in DOMAIN gs[u] /\ Waits(gs[u][j], n, p)
  PROVE  LiveIn(fs, n) = LiveIn(gs, n) /\ WaitingIn(fs, n, p) = WaitingIn(gs, n, p)
<1>1. ASSUME NEW x PROVE x \in LiveIn(fs, n) <=> x \in LiveIn(gs, n)
  <2>1. x \in LiveIn(fs, n) <=>
          \E u \in Tasks : \E j \in DOMAIN fs[u] : x = <<u, j>> /\ Works(fs[u][j], n)
    BY Members
  <2>2. x \in LiveIn(gs, n) <=>
          \E u \in Tasks : \E j \in DOMAIN gs[u] : x = <<u, j>> /\ Works(gs[u][j], n)
    BY LiveMembers
  <2> QED BY <2>1, <2>2
<1>2. ASSUME NEW x PROVE x \in WaitingIn(fs, n, p) <=> x \in WaitingIn(gs, n, p)
  <2>1. x \in WaitingIn(fs, n, p) <=>
          \E u \in Tasks : \E j \in DOMAIN fs[u] : x = <<u, j>> /\ Waits(fs[u][j], n, p)
    BY Members
  <2>2. x \in WaitingIn(gs, n, p) <=>
          \E u \in Tasks : \E j \in DOMAIN gs[u] : x = <<u, j>> /\ Waits(gs[u][j], n, p)
    BY Members
  <2> QED BY <2>1, <2>2
<1>3. LiveIn(fs, n) = LiveIn(gs, n)
  BY <1>1
<1>4. WaitingIn(fs, n, p) = WaitingIn(gs, n, p)
  BY <1>2
<1> QED BY <1>3, <1>4

\* A node at which no frame works has nothing to count.
LEMMA EmptySets ==
  ASSUME NEW fs, NEW n, NEW p, \A u \in Tasks : \A j \in DOMAIN fs[u] : ~Works(fs[u][j], n)
  PROVE  LiveIn(fs, n) = {} /\ WaitingIn(fs, n, p) = {}
<1>1. ASSUME NEW x PROVE x \notin LiveIn(fs, n)
  <2>1. x \in LiveIn(fs, n) =>
          \E u \in Tasks : \E j \in DOMAIN fs[u] : x = <<u, j>> /\ Works(fs[u][j], n)
    BY Members
  <2> QED BY <2>1
<1>2. \A f : Waits(f, n, p) => Works(f, n)
  BY DEF Waits, Works, Live
<1>3. ASSUME NEW x PROVE x \notin WaitingIn(fs, n, p)
  <2>1. x \in WaitingIn(fs, n, p) =>
          \E u \in Tasks : \E j \in DOMAIN fs[u] : x = <<u, j>> /\ Waits(fs[u][j], n, p)
    BY Members
  <2> QED BY <1>2, <2>1
<1> QED BY <1>1, <1>3

\* A new request is not counted before its handler has run.
LEMMA SubmitCounted ==
  ASSUME CInv, NEW t \in Tasks, NEW r \in Requests, Submit(t, r)
  PROVE  Counted'
<1> DEFINE f == NewFrame(r.node, r.hops, r.target, r.left, r.key, r.granted)
<1>1. f.status = "sent" /\ DOMAIN <<f>> = {1} /\ <<f>>[1] = f
  BY DEF NewFrame
<1>2. /\ request[t] = None /\ frames' = [frames EXCEPT ![t] = <<f>>]
      /\ active' = active /\ inflight' = inflight
  BY DEF Submit
<1>3. frames \in [Tasks -> Seq(Frame)] /\ frames[t] = <<>>
  BY <1>2, NoneAssumption, RequestsAssumption DEF CInv, IInv, TypeOK, Chains, Chain, Linked
<1> HIDE DEF f
<1>4. frames'[t] = <<f>> /\ DOMAIN frames[t] = {} /\ \A u \in Tasks : u # t => frames'[u] = frames[u]
  BY <1>2, <1>3
<1>5. \A n, p : ~Works(f, n) /\ ~Waits(f, n, p)
  BY <1>1 DEF Works, Waits, Live
<1>6. ASSUME NEW n, NEW p
      PROVE  LiveIn(frames', n) = LiveIn(frames, n) /\ WaitingIn(frames', n, p) = WaitingIn(frames, n, p)
  <2>1. PICK fs, gs : fs = frames /\ gs = frames'
    OBVIOUS
  <2>2. ASSUME NEW u \in Tasks, NEW j
        PROVE  /\ j \in DOMAIN fs[u] /\ Works(fs[u][j], n) <=> j \in DOMAIN gs[u] /\ Works(gs[u][j], n)
               /\ j \in DOMAIN fs[u] /\ Waits(fs[u][j], n, p) <=> j \in DOMAIN gs[u] /\ Waits(gs[u][j], n, p)
    BY <1>1, <1>4, <1>5, <2>1
  <2>3. LiveIn(fs, n) = LiveIn(gs, n) /\ WaitingIn(fs, n, p) = WaitingIn(gs, n, p)
    BY <2>2, SameSets
  <2> QED BY <2>1, <2>3
<1> QED BY <1>2, <1>6 DEF CInv, Counted

\* A node that restarts counts from zero, and no handler of it is left; the
\* counters of the other nodes are theirs.
LEMMA RestartCounted ==
  ASSUME CInv, NEW m \in Nodes, Restart(m)
  PROVE  Counted'
<1>1. IInv /\ frames \in [Tasks -> Seq(Frame)] /\ active \in [Nodes -> Int]
      /\ inflight \in [Nodes -> [Names -> Nat]]
  BY DEF CInv, IInv, TypeOK
<1>2. ASSUME NEW u \in Tasks
      PROVE  /\ DOMAIN frames'[u] = DOMAIN frames[u]
             /\ \A j \in DOMAIN frames[u] :
                  IF Works(frames[u][j], m)
                  THEN frames'[u][j].node = m /\ frames'[u][j].status = "lost"
                  ELSE frames'[u][j] = frames[u][j]
  <2> DEFINE s == frames[u]
             Ended(f) == [f EXCEPT !.status = "lost", !.ran = IF @ = "running" THEN "aborted" ELSE @]
             w == [j \in DOMAIN s |-> IF s[j].node = m /\ Live(s[j]) THEN Ended(s[j]) ELSE s[j]]
  <2>1. frames'[u] = w
    BY <1>1 DEF Restart
  <2>2. \A j \in DOMAIN s : s[j] \in Frame
    BY <1>1, FrameTyped
  <2>3. \A j \in DOMAIN s : Ended(s[j]).node = s[j].node /\ Ended(s[j]).status = "lost"
    BY <2>2 DEF Frame
  <2> HIDE DEF Ended
  <2>4. \A j \in DOMAIN s : w[j] = IF Works(s[j], m) THEN Ended(s[j]) ELSE s[j]
    BY DEF Works
  <2>5. DOMAIN w = DOMAIN s
    OBVIOUS
  <2> HIDE DEF w
  <2>6. \A j \in DOMAIN s : Works(s[j], m) => s[j].node = m
    BY DEF Works
  <2> QED BY <2>1, <2>3, <2>4, <2>5, <2>6
<1>3. PICK fs, gs : fs = frames /\ gs = frames'
  OBVIOUS
<1>4. ASSUME NEW u \in Tasks, NEW j \in DOMAIN gs[u] PROVE ~Works(gs[u][j], m)
  <2>1. CASE Works(fs[u][j], m)
    BY <1>2, <1>3, <2>1 DEF Works, Live
  <2>2. CASE ~Works(fs[u][j], m)
    BY <1>2, <1>3, <2>2
  <2> QED BY <2>1, <2>2
<1>5. ASSUME NEW n \in Nodes, n # m, NEW u \in Tasks, NEW j \in DOMAIN fs[u], NEW p
      PROVE  /\ Works(fs[u][j], n) <=> Works(gs[u][j], n)
             /\ Waits(fs[u][j], n, p) <=> Waits(gs[u][j], n, p)
  <2>1. CASE Works(fs[u][j], m)
    BY <1>2, <1>3, <1>5, <2>1 DEF Works, Waits
  <2>2. CASE ~Works(fs[u][j], m)
    BY <1>2, <1>3, <2>2
  <2> QED BY <2>1, <2>2
<1>6. ASSUME NEW n \in Nodes, n # m, NEW p
      PROVE  LiveIn(gs, n) = LiveIn(fs, n) /\ WaitingIn(gs, n, p) = WaitingIn(fs, n, p)
  <2>1. \A u \in Tasks : DOMAIN fs[u] = DOMAIN gs[u]
    BY <1>2, <1>3
  <2>2. ASSUME NEW u \in Tasks, NEW j
        PROVE  /\ j \in DOMAIN fs[u] /\ Works(fs[u][j], n) <=> j \in DOMAIN gs[u] /\ Works(gs[u][j], n)
               /\ j \in DOMAIN fs[u] /\ Waits(fs[u][j], n, p) <=> j \in DOMAIN gs[u] /\ Waits(gs[u][j], n, p)
    BY <1>5, <1>6, <2>1
  <2> QED BY <2>2, SameSets
<1>7. \A p : LiveIn(gs, m) = {} /\ WaitingIn(gs, m, p) = {}
  BY <1>4, EmptySets
<1>8. /\ active'[m] = 0 /\ \A n \in Nodes : n # m => active'[n] = active[n]
      /\ \A p \in Names : inflight'[m][p] = 0
      /\ \A n \in Nodes : n # m => inflight'[n] = inflight[n]
  BY <1>1 DEF Restart
<1>9. ASSUME NEW n \in Nodes
      PROVE  /\ IsFiniteSet(LiveIn(gs, n)) /\ active'[n] = Cardinality(LiveIn(gs, n))
             /\ \A p \in Names : /\ IsFiniteSet(WaitingIn(gs, n, p))
                                 /\ inflight'[n][p] = Cardinality(WaitingIn(gs, n, p))
  <2>1. CASE n = m
    BY <1>7, <1>8, <2>1, FS_EmptySet
  <2>2. CASE n # m
    <3>1. /\ IsFiniteSet(LiveIn(fs, n)) /\ active[n] = Cardinality(LiveIn(fs, n))
          /\ \A p \in Names : /\ IsFiniteSet(WaitingIn(fs, n, p))
                              /\ inflight[n][p] = Cardinality(WaitingIn(fs, n, p))
      BY <1>3 DEF CInv, Counted
    <3> QED BY <1>6, <1>8, <2>2, <3>1
  <2> QED BY <2>1, <2>2
<1> QED BY <1>3, <1>9 DEF Counted

\* Every step keeps the counters exact.
LEMMA StepCInv == CInv /\ [Next]_vars => CInv'
<1> SUFFICES ASSUME CInv, [Next]_vars PROVE CInv'
  OBVIOUS
<1>1. IInv'
  BY StepIInv DEF CInv
<1>2. ASSUME NEW t \in Tasks, NEW i \in DOMAIN frames[t],
             Handle(t, i) \/ Conclude(t, i) \/ TimesOut(t, i) \/ LoseRequest(t, i)
      PROVE  Counted'
  <2>1. CASE Refuse(t, i) \/ LoseRequest(t, i) \/ \E name \in Names : RelayFails(t, i, name)
    BY <2>1, RefusedCounted
  <2>2. CASE RunHere(t, i) \/ \E ran \in {"ok", "failed", "aborted"} : Finish(t, i, ran)
    BY <2>2, RunCounted
  <2>3. CASE \E name \in Names : Relay(t, i, name)
    BY <2>3, RelayCounted
  <2>4. CASE PeerAnswers(t, i) \/ PeerLost(t, i) \/ TimesOut(t, i)
    <3>1. \E oc : Resume(t, i, oc)
      BY <2>4 DEF PeerAnswers, PeerLost, TimesOut
    <3> QED BY <3>1, ResumeCounted
  <2> QED BY <1>2, <2>1, <2>2, <2>3, <2>4 DEF Handle, Conclude
<1>3. ASSUME frames' = frames, active' = active, inflight' = inflight PROVE Counted'
  BY <1>3 DEF CInv, Counted
<1>4. CASE Next
  <2>1. ASSUME NEW t \in Tasks, NEW r \in Requests, Submit(t, r) PROVE Counted'
    BY <2>1, SubmitCounted
  <2>2. ASSUME NEW n \in Nodes, Restart(n) PROVE Counted'
    BY <2>2, RestartCounted
  <2>3. ASSUME NEW n \in Nodes, NEW c \in Edits, EditSettings(n, c) PROVE Counted'
    BY <1>3, <2>3 DEF EditSettings
  <2>4. Counted'
    BY <1>2, <1>4, <2>1, <2>2, <2>3 DEF Next
  <2> QED BY <1>1, <2>4 DEF CInv
<1>5. CASE UNCHANGED vars
  BY <1>1, <1>3, <1>5 DEF CInv, vars
<1> QED BY <1>4, <1>5

\* Before the first request every counter is zero and every set empty.
LEMMA InitCInv == Init => CInv
<1> SUFFICES ASSUME Init PROVE Counted
  BY InitIInv DEF CInv
<1>1. \A n, p : LiveIn(frames, n) = {} /\ WaitingIn(frames, n, p) = {}
  <2>1. \A u \in Tasks : DOMAIN frames[u] = {}
    BY DEF Init
  <2> QED BY <2>1, EmptySets
<1> QED BY <1>1, FS_EmptySet DEF Init, Counted

\* The load figures are exact: what the counters of a router say is the number
\* of its handlers that run or wait, and for each peer of those that wait for
\* it, after every refusal, failure, timeout, cancellation, loss and restart.
THEOREM ExactLoad == Spec => []LoadIsExact
<1>1. CInv => LoadIsExact
  <2> SUFFICES ASSUME CInv PROVE LoadIsExact
    OBVIOUS
  <2>1. \A n : LiveAt(n) = LiveIn(frames, n)
    BY DEF LiveAt, AllFrames, FrameAt, LiveIn
  <2>2. \A n, p : WaitingFor(n, p) = WaitingIn(frames, n, p)
    BY DEF WaitingFor, AllFrames, FrameAt, WaitingIn
  <2> QED BY <2>1, <2>2 DEF CInv, Counted, LoadIsExact
<1> QED BY InitCInv, StepCInv, <1>1, PTL DEF Spec
=============================================================================
