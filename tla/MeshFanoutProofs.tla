-------------------------- MODULE MeshFanoutProofs --------------------------
(***************************************************************************)
(* What holds of fan-outs and delegations for any mesh, any requests and   *)
(* any faults.                                                             *)
(*                                                                         *)
(* The inductive invariant speaks of one leg at a time: how far the        *)
(* coordinator's view of it, the work at the peer and the reply between    *)
(* them may be apart.                                                      *)
(***************************************************************************)
EXTENDS MeshFanout, TLAPS

Statuses == {"idle", "refused", "open", "returned", "failed", "lost"}
Legs == {"none", "created", "waiting"} \cup Settled
Works == {"none", "sent", "refused", "running", "ok", "failed", "lost"}
Replies == {"none", "accepted", "rejected"}

\* A peer that did w has taken call r.
Backs(r, w) ==
  w \in CASE r.background -> {"running", "ok", "failed", "lost"}
          [] ~r.background /\ r.action = "agent" -> {"ok", "failed"}
          [] OTHER -> {"ok"}

\* A batch with request r and status s, and its leg to p: l at the coordinator, w
\* at the peer, y on the way back.
Fit(r, s, p, l, w, y) ==
  /\ s = "idle" => l = "none" /\ w = "none" /\ y = "none"
  /\ s # "idle" => r # None
  /\ l # "none" => p \in Targets(r)
  /\ w # "none" => p \in Targets(r) /\ p \in DOMAIN Peers[r.node]
  /\ l = "created" => w = "none"
  /\ w \in {"none", "sent"} => y = "none"
  /\ y = "accepted" => Backs(r, w)
  /\ l = "ok" => Backs(r, w)
  /\ s = "open" /\ p \in Targets(r) => l # "none"
  /\ s = "returned" /\ p \in Targets(r) => l \in Settled

FitAt(b, p) == Fit(request[b], status[b], p, leg[b][p], work[b][p], reply[b][p])

Inv ==
  /\ request \in [Batches -> Requests \cup {None}]
  /\ status \in [Batches -> Statuses]
  /\ leg \in [Batches -> [Names -> Legs]]
  /\ work \in [Batches -> [Names -> Works]]
  /\ reply \in [Batches -> [Names -> Replies]]
  /\ \A b \in Batches : \A p \in Names : FitAt(b, p)

\* f with another value at b, and at leg p of b.
Row(f, b, v) == [f EXCEPT ![b] = v]
Cell(f, b, p, v) == [f EXCEPT ![b][p] = v]

USE DEF Statuses, Legs, Works, Replies, Settled

-----------------------------------------------------------------------------
(***************************************************************************)
(* Steps.                                                                  *)
(***************************************************************************)
LEMMA Initially == Init => Inv
<1> SUFFICES ASSUME Init PROVE Inv
  OBVIOUS
<1>1. \A b \in Batches : \A p \in Names : FitAt(b, p)
  BY DEF Init, FitAt, Fit
<1> QED
  BY <1>1 DEF Init, Inv

\* A step that concerns one leg.
LEMMA LegStep ==
  ASSUME Inv, NEW b \in Batches, NEW p \in Names, NEW l \in Legs, NEW w \in Works,
         NEW y \in Replies, UNCHANGED <<request, status>>,
         leg' = Cell(leg, b, p, l), work' = Cell(work, b, p, w),
         reply' = Cell(reply, b, p, y),
         Fit(request[b], status[b], p, l, w, y)
  PROVE  Inv'
<1>1. /\ leg' \in [Batches -> [Names -> Legs]]
      /\ work' \in [Batches -> [Names -> Works]]
      /\ reply' \in [Batches -> [Names -> Replies]]
  BY DEF Inv, Cell
<1>2. ASSUME NEW c \in Batches, NEW q \in Names PROVE FitAt(c, q)'
  <2>1. CASE c = b /\ q = p
    <3>1. leg'[b][p] = l /\ work'[b][p] = w /\ reply'[b][p] = y
      BY DEF Inv, Cell
    <3> QED
      BY <2>1, <3>1 DEF FitAt
  <2>2. CASE c # b \/ q # p
    <3>1. leg'[c][q] = leg[c][q] /\ work'[c][q] = work[c][q] /\ reply'[c][q] = reply[c][q]
      BY <2>2 DEF Inv, Cell
    <3> QED
      BY <3>1 DEF Inv, FitAt
  <2> QED
    BY <2>1, <2>2
<1> QED
  BY <1>1, <1>2 DEF Inv

\* What is as it was can be said to have changed to what it was.
LEMMA Same ==
  ASSUME Inv, NEW b \in Batches, NEW p \in Names
  PROVE  /\ leg = Cell(leg, b, p, leg[b][p]) /\ leg[b][p] \in Legs
         /\ work = Cell(work, b, p, work[b][p]) /\ work[b][p] \in Works
         /\ reply = Cell(reply, b, p, reply[b][p]) /\ reply[b][p] \in Replies
         /\ FitAt(b, p)
BY DEF Inv, Cell

\* A step that concerns one batch as a whole.
LEMMA BatchStep ==
  ASSUME Inv, NEW b \in Batches, NEW r \in Requests \cup {None}, NEW s \in Statuses,
         NEW ls \in [Names -> Legs], UNCHANGED <<work, reply>>,
         request' = Row(request, b, r), status' = Row(status, b, s),
         leg' = Row(leg, b, ls),
         \A p \in Names : Fit(r, s, p, ls[p], work[b][p], reply[b][p])
  PROVE  Inv'
<1>1. /\ request' \in [Batches -> Requests \cup {None}]
      /\ status' \in [Batches -> Statuses]
      /\ leg' \in [Batches -> [Names -> Legs]]
  BY DEF Inv, Row
<1>2. ASSUME NEW c \in Batches, NEW q \in Names PROVE FitAt(c, q)'
  <2>1. CASE c = b
    <3>1. request'[b] = r /\ status'[b] = s /\ leg'[b] = ls
      BY DEF Inv, Row
    <3> QED
      BY <2>1, <3>1 DEF FitAt
  <2>2. CASE c # b
    <3>1. request'[c] = request[c] /\ status'[c] = status[c] /\ leg'[c] = leg[c]
      BY <2>2 DEF Inv, Row
    <3> QED
      BY <3>1 DEF Inv, FitAt
  <2> QED
    BY <2>1, <2>2
<1> QED
  BY <1>1, <1>2 DEF Inv

\* A fan-out is accepted and a leg is created for every target.
LEMMA SubmitKeeps ==
  ASSUME Inv, NEW b \in Batches, NEW r \in Requests, Submit(b, r)
  PROVE  Inv'
<1>1. r # None
  BY NoneIsNoRequest, RequestsAssumption
<1>2. \A p \in Names : leg[b][p] = "none" /\ work[b][p] = "none" /\ reply[b][p] = "none"
  BY DEF Submit, Inv, FitAt, Fit
<1>3. CASE Passes(r)
  <2> DEFINE ls == [p \in Names |-> IF p \in Targets(r) THEN "created" ELSE "none"]
  <2>1. ls \in [Names -> Legs]
    OBVIOUS
  <2>2. \A p \in Names : Fit(r, "open", p, ls[p], "none", "none")
    BY <1>1 DEF Fit
  <2>3. /\ request' = Row(request, b, r) /\ status' = Row(status, b, "open")
        /\ leg' = Row(leg, b, ls) /\ UNCHANGED <<work, reply>>
    BY <1>3 DEF Submit, Row
  <2>4. \A p \in Names : Fit(r, "open", p, ls[p], work[b][p], reply[b][p])
    BY <1>2, <2>2
  <2> HIDE DEF ls
  <2> QED
    BY <2>1, <2>3, <2>4, BatchStep
<1>4. CASE ~Passes(r)
  <2>1. leg' = Row(leg, b, leg[b]) /\ leg[b] \in [Names -> Legs]
    BY <1>4 DEF Submit, Inv, Row
  <2>2. \A p \in Names : Fit(r, "refused", p, "none", "none", "none")
    BY <1>1 DEF Fit
  <2>3. /\ request' = Row(request, b, r) /\ status' = Row(status, b, "refused")
        /\ UNCHANGED <<work, reply>>
    BY <1>4 DEF Submit, Row
  <2>4. \A p \in Names : Fit(r, "refused", p, leg[b][p], work[b][p], reply[b][p])
    BY <1>2, <2>2
  <2> QED
    BY <2>1, <2>3, <2>4, BatchStep
<1> QED
  BY <1>3, <1>4

\* The end of a batch, by an answer or a crash.
LEMMA ReturnKeeps == ASSUME Inv, NEW b \in Batches, Return(b) PROVE Inv'
<1>1. PICK s \in {"returned", "failed"} :
        /\ status' = Row(status, b, s)
        /\ status[b] = "open" /\ UNCHANGED <<request, leg, work, reply>>
  BY DEF Return, Row
<1>2. \A p \in Targets(request[b]) : leg[b][p] \in Settled
  BY DEF Return
<1>3. /\ request' = Row(request, b, request[b]) /\ request[b] \in Requests \cup {None}
      /\ leg' = Row(leg, b, leg[b]) /\ leg[b] \in [Names -> Legs]
  BY <1>1 DEF Inv, Row
<1>4. \A p \in Names : Fit(request[b], s, p, leg[b][p], work[b][p], reply[b][p])
  BY <1>1, <1>2 DEF Inv, FitAt, Fit
<1> QED
  BY <1>1, <1>3, <1>4, BatchStep

\* The node that fans out dies: its batch is lost.
LEMMA CrashKeeps == ASSUME Inv, NEW b \in Batches, Crash(b) PROVE Inv'
<1> DEFINE ls == [p \in Names |-> "none"]
<1>1. /\ status[b] = "open" /\ status' = Row(status, b, "lost")
      /\ leg' = Row(leg, b, ls) /\ ls \in [Names -> Legs]
      /\ UNCHANGED <<request, work, reply>>
  BY DEF Crash, Row
<1>2. request' = Row(request, b, request[b]) /\ request[b] \in Requests \cup {None}
  BY <1>1 DEF Inv, Row
<1>3. \A p \in Names : Fit(request[b], "lost", p, ls[p], work[b][p], reply[b][p])
  BY <1>1 DEF Inv, FitAt, Fit
<1> HIDE DEF ls
<1> QED
  BY <1>1, <1>2, <1>3, BatchStep

\* One leg of asyncio.gather sends its subtask.
LEMMA StartKeeps ==
  ASSUME Inv, NEW b \in Batches, NEW p \in Names, Start(b, p)
  PROVE  Inv'
<1>1. leg[b][p] = "created" /\ UNCHANGED <<request, status, reply>>
  BY DEF Start
<1>2. CASE Reachable(request[b].node, p)
  <2>1. Fit(request[b], status[b], p, "waiting", "sent", reply[b][p])
    BY <1>1, <1>2, Same DEF FitAt, Fit, Reachable
  <2>2. leg' = Cell(leg, b, p, "waiting") /\ work' = Cell(work, b, p, "sent")
    BY <1>2 DEF Start, SetLeg, Cell
  <2> QED
    BY <1>1, <2>1, <2>2, Same, LegStep
<1>3. CASE ~Reachable(request[b].node, p)
  <2>1. Fit(request[b], status[b], p, "error", work[b][p], reply[b][p])
    BY <1>1, Same DEF FitAt, Fit
  <2>2. leg' = Cell(leg, b, p, "error") /\ UNCHANGED work
    BY <1>3 DEF Start, SetLeg, Cell
  <2> QED
    BY <1>1, <2>1, <2>2, Same, LegStep
<1> QED
  BY <1>2, <1>3

\* A peer receives a subtask and runs it.
LEMMA ArriveKeeps ==
  ASSUME Inv, NEW b \in Batches, NEW p \in Names, Arrive(b, p)
  PROVE  Inv'
<1>1. work[b][p] = "sent" /\ UNCHANGED <<request, status, leg>> /\ reply[b][p] = "none"
  BY Same DEF Arrive, FitAt, Fit
<1>2. CASE /\ work' = Cell(work, b, p, "refused")
           /\ reply' = Cell(reply, b, p, "rejected")
  <2>1. Fit(request[b], status[b], p, leg[b][p], "refused", "rejected")
    BY <1>1, Same DEF FitAt, Fit, Backs
  <2> QED
    BY <1>1, <1>2, <2>1, Same, LegStep
<1>3. CASE /\ work' = Cell(work, b, p, "running") /\ request[b].background
           /\ reply' = Cell(reply, b, p, "accepted")
  <2>1. Backs(request[b], "running")
    BY <1>3 DEF Backs
  <2>2. Fit(request[b], status[b], p, leg[b][p], "running", "accepted")
    BY <1>1, <2>1, Same DEF FitAt, Fit
  <2> QED
    BY <1>1, <1>3, <2>2, Same, LegStep
<1>4. CASE work' = Cell(work, b, p, "running") /\ UNCHANGED reply
  <2>1. ~Backs(request[b], "sent")
    BY DEF Backs
  <2>2. Fit(request[b], status[b], p, leg[b][p], "running", reply[b][p])
    BY <1>1, <2>1, Same DEF FitAt, Fit
  <2> QED
    BY <1>1, <1>4, <2>2, Same, LegStep
<1> QED
  BY <1>2, <1>3, <1>4 DEF Arrive, Cell

\* What a leg with an accepted call rests on is not lost when the work ends.
LEMMA Ended ==
  ASSUME NEW r, NEW w, NEW end \in {"ok", "failed"}, w = "running", Backs(r, w)
  PROVE  Backs(r, end)
BY DEF Backs

\* The work on a peer ends, well or not, and a caller that still waits is answered.
LEMMA FinishKeeps ==
  ASSUME Inv, NEW b \in Batches, NEW p \in Names, Finish(b, p)
  PROVE  Inv'
<1>1. PICK end \in {"ok", "failed"} :
        /\ work' = Cell(work, b, p, end)
        /\ reply' = IF reply[b][p] # "none" THEN reply
                    ELSE Cell(reply, b, p,
                              IF end = "ok" \/ request[b].action = "agent"
                              THEN "accepted" ELSE "rejected")
  BY DEF Finish, Cell
<1>2. work[b][p] = "running" /\ UNCHANGED <<request, status, leg>>
  BY DEF Finish
<1>3. Backs(request[b], "running") => Backs(request[b], end)
  BY Ended
<1>4. CASE reply[b][p] # "none"
  <2>1. Fit(request[b], status[b], p, leg[b][p], end, reply[b][p])
    BY <1>2, <1>3, <1>4, Same DEF FitAt, Fit
  <2> QED
    BY <1>1, <1>2, <1>4, <2>1, Same, LegStep
<1>5. CASE reply[b][p] = "none" /\ (end = "ok" \/ request[b].action = "agent")
  <2>1. Backs(request[b], end)
    BY <1>5 DEF Backs
  <2>2. Fit(request[b], status[b], p, leg[b][p], end, "accepted")
    BY <1>2, <2>1, Same DEF FitAt, Fit
  <2>3. reply' = Cell(reply, b, p, "accepted")
    BY <1>1, <1>5
  <2> QED
    BY <1>1, <1>2, <2>2, <2>3, Same, LegStep
<1>6. CASE reply[b][p] = "none" /\ ~(end = "ok" \/ request[b].action = "agent")
  <2>1. Fit(request[b], status[b], p, leg[b][p], end, "rejected")
    BY <1>2, <1>3, Same DEF FitAt, Fit
  <2>2. reply' = Cell(reply, b, p, "rejected")
    BY <1>1, <1>6
  <2> QED
    BY <1>1, <1>2, <2>1, <2>2, Same, LegStep
<1> QED
  BY <1>4, <1>5, <1>6

\* The coordinator's side of a leg: an answer, a timeout, a broken connection.
LEMMA SettleKeeps ==
  ASSUME Inv, NEW b \in Batches, NEW p \in Names, Deliver(b, p) \/ Timeout(b, p)
  PROVE  Inv'
<1>1. leg[b][p] = "waiting" /\ UNCHANGED <<request, status, work, reply>>
  BY DEF Deliver, Timeout
<1>2. PICK l \in Settled :
        leg' = Cell(leg, b, p, l) /\ (l = "ok" => reply[b][p] = "accepted")
  BY DEF Deliver, Timeout, SetLeg, Cell
<1>3. Fit(request[b], status[b], p, l, work[b][p], reply[b][p])
  BY <1>1, <1>2, Same DEF FitAt, Fit
<1> QED
  BY <1>1, <1>2, <1>3, Same, LegStep

\* A call breaks off, or the peer dies with the work it does.
LEMMA LossKeeps ==
  ASSUME Inv, NEW b \in Batches, NEW p \in Names, Break(b, p) \/ PeerDies(b, p)
  PROVE  Inv'
<1>1. UNCHANGED <<request, status, reply>>
  BY DEF Break, PeerDies
<1>2. /\ UNCHANGED leg \/ (leg' = Cell(leg, b, p, "error") /\ leg[b][p] = "waiting")
      /\ \/ UNCHANGED work
         \/ work' = Cell(work, b, p, "lost") /\ work[b][p] \in {"sent", "running"}
  BY DEF Break, PeerDies, SetLeg, Cell
<1>3. PICK l \in Legs : leg' = Cell(leg, b, p, l) /\ (l = leg[b][p] \/ (l = "error" /\ leg[b][p] = "waiting"))
  BY <1>2, Same
<1>4. PICK w \in Works :
        /\ work' = Cell(work, b, p, w)
        /\ w = work[b][p] \/ (w = "lost" /\ work[b][p] \in {"sent", "running"})
  BY <1>2, Same
<1>5. Backs(request[b], work[b][p]) /\ work[b][p] \in {"sent", "running"} =>
        Backs(request[b], "lost")
  BY DEF Backs
<1>6. Fit(request[b], status[b], p, l, w, reply[b][p])
  BY <1>3, <1>4, <1>5, Same DEF FitAt, Fit
<1> QED
  BY <1>1, <1>3, <1>4, <1>6, Same, LegStep

\* Every step of a batch, of a peer and of the network keeps the invariant.
LEMMA Inductive == Inv /\ [Next]_vars => Inv'
<1> SUFFICES ASSUME Inv, [Next]_vars PROVE Inv'
  OBVIOUS
<1>1. CASE UNCHANGED vars
  BY <1>1 DEF vars, Inv, FitAt
<1>2. ASSUME NEW b \in Batches, NEW r \in Requests, Submit(b, r) PROVE Inv'
  BY <1>2, SubmitKeeps
<1>3. ASSUME NEW b \in Batches, Crash(b) \/ Return(b) PROVE Inv'
  BY <1>3, CrashKeeps, ReturnKeeps
<1>4. ASSUME NEW b \in Batches, NEW p \in Names,
             \/ Start(b, p) \/ Arrive(b, p) \/ Finish(b, p) \/ Deliver(b, p)
             \/ Timeout(b, p) \/ Break(b, p) \/ PeerDies(b, p)
      PROVE  Inv'
  BY <1>4, StartKeeps, ArriveKeeps, FinishKeeps, SettleKeeps, LossKeeps
<1> QED
  BY <1>1, <1>2, <1>3, <1>4 DEF Next

\* The invariant holds in every state of every batch, for any set of peers.
THEOREM Invariance == Spec => []Inv
BY Initially, Inductive, PTL DEF Spec

-----------------------------------------------------------------------------
(***************************************************************************)
(* The properties.                                                         *)
(***************************************************************************)
\* The legs of a batch keep their types and are among its targets.
THEOREM FanoutTypes == Spec => []TypeOK
<1>1. Inv => TypeOK
  BY DEF Inv, TypeOK, FitAt, Fit
<1> QED
  BY <1>1, Invariance, PTL

\* coordinate returns one entry for each of its targets, and no other.
THEOREM CompleteAggregates == Spec => []AggregateIsComplete
<1>1. Inv => AggregateIsComplete
  BY DEF Inv, AggregateIsComplete, FitAt, Fit
<1> QED
  BY <1>1, Invariance, PTL

\* _invoke: an entry says ok of nothing that its peer did not take.
THEOREM BackedOks == Spec => []OkIsBacked
<1>1. Inv => OkIsBacked
  BY DEF Inv, OkIsBacked, FitAt, Fit, Backs
<1> QED
  BY <1>1, Invariance, PTL

\* coordinate with _is_upstream: in a mesh with declared ids, nothing reaches a node
\* that the task has come through.
THEOREM NothingUpstream == Spec => []NoSubtaskUpstream
<1>1. ASSUME Inv, WellDeclared, NEW b \in Batches, NEW p \in Names,
             work[b][p] # "none", request[b].kind = "coordinate"
      PROVE  NodeId[Peers[request[b].node][p].node]
               \notin Range(Visited(request[b].node, request[b].hops))
  <2> DEFINE r == request[b]
  <2>1. p \in Targets(r) /\ p \in DOMAIN Peers[r.node] /\ r # None
    BY <1>1 DEF Inv, FitAt, Fit
  <2>2. r.node \in Nodes
    BY <1>1, <2>1, RequestsAssumption DEF Inv, Request
  <2>3. PeerNodeId(r.node, p) = NodeId[Peers[r.node][p].node]
    BY <1>1, <2>1, <2>2 DEF WellDeclared
  <2>4. PeerNodeId(r.node, p) \notin Range(Visited(r.node, r.hops))
    BY <1>1, <2>1 DEF Targets, IsUpstream
  <2> QED
    BY <2>3, <2>4
<1>2. Inv => NoSubtaskUpstream
  BY <1>1 DEF NoSubtaskUpstream
<1> QED
  BY <1>2, Invariance, PTL

\* What the client was told of a leg stays what the leg ended with.
THEOREM FinalEntries == Spec => EntriesAreFinal
<1>1. ASSUME Inv, [Next]_vars, NEW c \in Batches, NEW q \in Names, leg[c][q] \in Settled
      PROVE  leg'[c][q] = leg[c][q] \/ status'[c] = "lost"
  <2>1. CASE UNCHANGED vars
    BY <2>1 DEF vars
  <2>2. ASSUME NEW b \in Batches, NEW r \in Requests, Submit(b, r)
        PROVE  leg'[c][q] = leg[c][q]
    <3>1. status[c] # "idle"
      BY <1>1 DEF Inv, FitAt, Fit
    <3> QED
      BY <1>1, <2>2, <3>1 DEF Submit, Inv
  <2>3. ASSUME NEW b \in Batches, Crash(b) \/ Return(b)
        PROVE  leg'[c][q] = leg[c][q] \/ status'[c] = "lost"
    BY <1>1, <2>3 DEF Crash, Return, Inv
  <2>4. ASSUME NEW b \in Batches, NEW p \in Names,
               \/ Start(b, p) \/ Arrive(b, p) \/ Finish(b, p) \/ Deliver(b, p)
               \/ Timeout(b, p) \/ Break(b, p) \/ PeerDies(b, p)
        PROVE  leg'[c][q] = leg[c][q]
    <3>1. \/ leg' = leg \/ leg' = Cell(leg, b, p, "waiting") \/ leg' = Cell(leg, b, p, "ok")
          \/ leg' = Cell(leg, b, p, "error") \/ leg' = Cell(leg, b, p, "timeout")
      BY <2>4 DEF Start, Arrive, Finish, Deliver, Timeout, Break, PeerDies, SetLeg, Cell
    <3>2. leg' = leg \/ leg[b][p] \in {"created", "waiting"}
      BY <2>4 DEF Start, Arrive, Finish, Deliver, Timeout, Break, PeerDies
    <3>3. CASE leg' = leg
      BY <3>3
    <3>4. CASE leg[b][p] \in {"created", "waiting"}
      <4>1. b # c \/ p # q
        BY <1>1, <3>4
      <4>2. \A l \in Legs : Cell(leg, b, p, l)[c][q] = leg[c][q]
        BY <1>1, <4>1 DEF Inv, Cell
      <4> QED
        BY <3>1, <4>2
    <3> QED
      BY <3>2, <3>3, <3>4
  <2> QED
    BY <1>1, <2>1, <2>2, <2>3, <2>4 DEF Next
<1>2. Inv /\ [Next]_vars =>
        [\A b \in Batches : \A p \in Names :
           leg[b][p] \in Settled => leg'[b][p] = leg[b][p] \/ status'[b] = "lost"]_vars
  BY <1>1
<1> QED
  BY <1>2, Invariance, PTL DEF Spec, EntriesAreFinal
=============================================================================
