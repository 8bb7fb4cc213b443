------------------------- MODULE DesktopWorkerProofs -------------------------
(***************************************************************************)
(* Theorems about DesktopWorker, for any calls, requests, settings and     *)
(* faults: types, and that nothing is done twice unheard.                  *)
(***************************************************************************)
EXTENDS DesktopWorker, TLAPS


\* The node before its first call has values of the right types.
LEMMA TypeInit == Init => TypeOK
<1> SUFFICES ASSUME Init PROVE TypeOK
  OBVIOUS
<1>1. settings \in Settings
  BY EditsAssumption DEF Init
<1>2. worker \in [up : BOOLEAN, enabled : BOOLEAN]
  BY <1>1 DEF Init, Settings
<1>3. edits \in 0..MaxEdits
  BY MaxEditsAssumption DEF Init
<1>4. /\ req \in [Calls -> Request \cup {None}] /\ phase \in [Calls -> Phases]
      /\ link \in [Calls -> {"none", "waiting", "open", "closed"}]
      /\ why \in [Calls -> {None, "unavailable", "lost", "reported"}]
      /\ reply \in [Calls -> {None, "ok", "error"}]
      /\ acted \in [Calls -> SUBSET {"worker", "core"}]
      /\ answer \in [Calls -> Answers \cup {None}]
  BY DEF Init, Phases
<1>5. loop = None /\ serving = None /\ ghost = FALSE
  BY DEF Init
<1> QED
  BY <1>1, <1>2, <1>3, <1>4, <1>5 DEF TypeOK

\* Where a call that turns from the worker to the core, or fails, may be.
LEMMA TurnsTypes ==
  ASSUME TypeOK, NEW c \in Calls, NEW reason \in {"unavailable", "lost", "reported"}, Turns(c, reason)
  PROVE  /\ phase' \in [Calls -> Phases]
         /\ why' \in [Calls -> {None, "unavailable", "lost", "reported"}]
         /\ answer' \in [Calls -> Answers \cup {None}]
         /\ phase' = [phase EXCEPT ![c] = phase'[c]]
         /\ phase'[c] \in {"core", "over"}
<1>1. CASE req[c].office /\ ~settings.fallback
  <2>1. Failure \in Answers
    BY DEF Failure, Answers
  <2>2. phase' = [phase EXCEPT ![c] = "over"] /\ answer' = [answer EXCEPT ![c] = Failure] /\ why' = why
    BY <1>1 DEF Turns, SetPhase
  <2> QED
    BY <2>1, <2>2 DEF TypeOK, Phases
<1>2. CASE ~(req[c].office /\ ~settings.fallback)
  BY <1>2 DEF Turns, TypeOK, SetPhase, Phases
<1> QED
  BY <1>1, <1>2

\* Every step keeps the types.
LEMMA TypeStep == TypeOK /\ [Next]_vars => TypeOK'
<1> SUFFICES ASSUME TypeOK, [Next]_vars PROVE TypeOK'
  OBVIOUS
<1> USE NoneAssumption
<1>1. CASE UNCHANGED vars
  BY <1>1 DEF TypeOK, vars
<1>2. ASSUME NEW c \in Calls, NEW r \in Requests, Begin(c, r) PROVE TypeOK'
  <2>1. r \in Request
    BY RequestsAssumption
  <2>2. phase' \in [Calls -> Phases] /\ phase' = [phase EXCEPT ![c] = phase'[c]] /\ phase'[c] \in {"calling", "core", "over"}
    BY <1>2 DEF TypeOK, Begin, SetPhase, Phases
  <2>3. answer' \in [Calls -> Answers \cup {None}]
    <3>1. Failure \in Answers
      BY DEF Failure, Answers
    <3>2. answer' = [answer EXCEPT ![c] = Failure] \/ answer' = answer
      BY <1>2 DEF Begin
    <3> QED
      BY <3>1, <3>2 DEF TypeOK
  <2>4. req' \in [Calls -> Request \cup {None}] /\ req'[c] = r
    BY <1>2, <2>1 DEF TypeOK, Begin
  <2>5. loop' \in Calls \cup {None} /\ (loop' # None => loop' = c /\ r.onLoop)
    BY <1>2 DEF TypeOK, Begin
  <2> QED
    BY <1>2, <2>2, <2>3, <2>4, <2>5 DEF TypeOK, Begin, process
<1>3. ASSUME NEW c \in Calls, Connect(c) PROVE TypeOK'
  BY <1>3 DEF TypeOK, Connect, node, process
<1>4. ASSUME NEW c \in Calls, Unavailable(c) PROVE TypeOK'
  <2>1. Turns(c, "unavailable")
    BY <1>4 DEF Unavailable
  <2> QED
    BY <1>4, <2>1, TurnsTypes DEF TypeOK, Unavailable, process
<1>5. ASSUME NEW c \in Calls, Breaks(c) PROVE TypeOK'
  <2>1. Turns(c, "lost")
    BY <1>5 DEF Breaks
  <2> QED
    BY <1>5, <2>1, TurnsTypes DEF TypeOK, Breaks, process
<1>6. ASSUME NEW c \in Calls, Receive(c) PROVE TypeOK'
  <2>1. /\ phase' \in [Calls -> Phases] /\ phase' = [phase EXCEPT ![c] = phase'[c]] /\ phase'[c] \in {"core", "over"}
        /\ why' \in [Calls -> {None, "unavailable", "lost", "reported"}]
        /\ answer' \in [Calls -> Answers \cup {None}]
    <3>1. CASE req[c].office /\ reply[c] = "error"
      BY <1>6, <3>1, TurnsTypes DEF Receive
    <3>2. CASE ~(req[c].office /\ reply[c] = "error")
      <4>1. [ok |-> reply[c] = "ok", warned |-> FALSE] \in Answers
        BY DEF Answers
      <4>2. /\ phase' = [phase EXCEPT ![c] = "over"] /\ why' = why
            /\ answer' = [answer EXCEPT ![c] = [ok |-> reply[c] = "ok", warned |-> FALSE]]
        BY <1>6, <3>2 DEF Receive, SetPhase
      <4> QED
        BY <4>1, <4>2 DEF TypeOK, Phases
    <3> QED
      BY <3>1, <3>2
  <2> QED
    BY <1>6, <2>1 DEF TypeOK, Receive, process
<1>7. ASSUME NEW c \in Calls, Act(c) PROVE TypeOK'
  <2>1. acted' \in [Calls -> SUBSET {"worker", "core"}]
    BY <1>7 DEF TypeOK, Act
  <2>2. answer' \in [Calls -> Answers \cup {None}]
    BY <1>7 DEF TypeOK, Act, Answers, Outcomes, Warns
  <2>3. phase' = [phase EXCEPT ![c] = "over"]
    BY <1>7 DEF Act, SetPhase
  <2> QED
    BY <1>7, <2>1, <2>2, <2>3 DEF TypeOK, Act, process, Phases
<1>8. ASSUME NEW c \in Calls, Return(c) PROVE TypeOK'
  BY <1>8 DEF TypeOK, Return, SetPhase, process, Phases
<1>9. ASSUME NEW s \in Edits, Edit(s) PROVE TypeOK'
  BY <1>9, EditsAssumption, MaxEditsAssumption DEF TypeOK, Edit, process
<1>10. CASE NodeRestarts
  <2>1. phase' \in [Calls -> Phases] /\ link' \in [Calls -> {"none", "waiting", "open", "closed"}]
        /\ reply' \in [Calls -> {None, "ok", "error"}] /\ ghost' \in BOOLEAN
    BY <1>10 DEF TypeOK, NodeRestarts, Phases, Free
  <2> QED
    BY <1>10, <2>1 DEF TypeOK, NodeRestarts
<1>11. ASSUME NEW c \in Calls, Accept(c) PROVE TypeOK'
  BY <1>11 DEF TypeOK, Accept, SetPhase, node, Phases
<1>12. ASSUME NEW c \in Calls, Serve(c) PROVE TypeOK'
  BY <1>12 DEF TypeOK, Serve, node
<1>13. CASE WorkerDies \/ AcceptGhost
  <2>1. Ends /\ acted' \in [Calls -> SUBSET {"worker", "core"}]
    BY <1>13 DEF TypeOK, WorkerDies, AcceptGhost
  <2>2. link' \in [Calls -> {"none", "waiting", "open", "closed"}]
    BY <2>1 DEF TypeOK, Ends
  <2> QED
    BY <2>1, <2>2 DEF TypeOK, Ends, node
<1>14. CASE WorkerStarts
  BY <1>14 DEF TypeOK, WorkerStarts, node, Settings
<1> QED
  BY <1>1, <1>2, <1>3, <1>4, <1>5, <1>6, <1>7, <1>8, <1>9, <1>10, <1>11, <1>12, <1>13, <1>14
  DEF Next, Step

\* Every variable keeps its type, and whoever holds the loop is under way on it.
THEOREM WorkerTypes == Spec => []TypeOK
<1> QED
  BY TypeInit, TypeStep, PTL DEF Spec

-----------------------------------------------------------------------------
(***************************************************************************)
(* What is done, and how often.                                            *)
(***************************************************************************)
\* Where a call is says what was done for it so far.
Fresh(c) ==
  phase[c] \in {"new", "calling"} =>
    acted[c] = {} /\ why[c] = None /\ answer[c] = None /\ reply[c] = None
Waiting(c) == link[c] = "waiting" => phase[c] = "calling"
Sent(c) ==
  phase[c] = "sent" =>
    /\ why[c] = None /\ answer[c] = None
    /\ acted[c] \subseteq {"worker"} /\ (reply[c] = "ok" => acted[c] = {"worker"})
Core(c) ==
  phase[c] = "core" =>
    /\ answer[c] = None /\ acted[c] \subseteq {"worker"}
    /\ why[c] \in {None, "unavailable"} => acted[c] = {}
    /\ why[c] = "reported" => req[c].office
Served(c) ==
  serving = c =>
    /\ phase[c] \in {"sent", "gone"} /\ link[c] # "closed"
    /\ acted[c] = {} /\ why[c] = None /\ answer[c] = None /\ reply[c] = None
Once(c) ==
  answer[c] # None /\ req[c].dict /\ answer[c].ok /\ ~answer[c].warned
    => why[c] = None /\ \E who \in {"worker", "core"} : acted[c] = {who}
Twice(c) ==
  acted[c] = {"worker", "core"} => why[c] = "lost" \/ (req[c].office /\ why[c] = "reported")

CallInv(c) ==
  Fresh(c) /\ Waiting(c) /\ Sent(c) /\ Core(c) /\ Served(c) /\ Once(c) /\ Twice(c)
Inv == TypeOK /\ \A c \in Calls : CallInv(c)

\* A step of another call leaves all this as it is.
LEMMA Elsewhere ==
  ASSUME NEW d \in Calls, CallInv(d),
         phase'[d] = phase[d], acted'[d] = acted[d], why'[d] = why[d], answer'[d] = answer[d],
         reply'[d] = reply[d], link'[d] = link[d], req'[d] = req[d],
         serving' = d => serving = d
  PROVE  CallInv(d)'
BY DEF CallInv, Fresh, Waiting, Sent, Core, Served, Once, Twice

\* Before its first call no call is waiting, sent or served.
LEMMA InvInit == Init => Inv
<1> SUFFICES ASSUME Init PROVE Inv
  OBVIOUS
<1> QED
  BY TypeInit, NoneAssumption
  DEF Init, Inv, CallInv, Fresh, Waiting, Sent, Core, Served, Once, Twice

\* A call turns from the worker: it goes on in the core, or has failed.
LEMMA TurnsInv ==
  ASSUME Inv, NEW c \in Calls, NEW reason \in {"unavailable", "lost", "reported"}, Turns(c, reason),
         phase[c] \in {"calling", "sent"}, serving # c, serving' = serving,
         reason = "unavailable" => acted[c] = {},
         reason = "reported" => req[c].office,
         link' = [link EXCEPT ![c] = "none"], req' = req, acted' = acted,
         \A d \in Calls : d # c => reply'[d] = reply[d]
  PROVE  \A d \in Calls : CallInv(d)'
<1> USE NoneAssumption
<1>1. CallInv(c) /\ TypeOK
  BY DEF Inv
<1>2. acted[c] \subseteq {"worker"}
  BY <1>1 DEF CallInv, Fresh, Sent
<1>3. answer[c] = None /\ why[c] = None
  BY <1>1 DEF CallInv, Fresh, Sent
<1>4. CASE req[c].office /\ ~settings.fallback
  <2>1. phase' = [phase EXCEPT ![c] = "over"] /\ answer' = [answer EXCEPT ![c] = Failure] /\ why' = why
    BY <1>4 DEF Turns, SetPhase
  <2>2. CallInv(c)'
    <3>1. phase'[c] = "over" /\ answer'[c] = Failure /\ link'[c] = "none" /\ acted'[c] = acted[c]
      BY <1>1, <2>1 DEF TypeOK
    <3>2. ~answer'[c].ok
      BY <3>1 DEF Failure
    <3> QED
      BY <1>2, <3>1, <3>2 DEF CallInv, Fresh, Waiting, Sent, Core, Served, Once, Twice
  <2>3. ASSUME NEW d \in Calls, d # c PROVE CallInv(d)'
    BY <1>1, <2>1, <2>3, Elsewhere DEF Inv, TypeOK
  <2> QED
    BY <2>2, <2>3
<1>5. CASE ~(req[c].office /\ ~settings.fallback)
  <2>1. phase' = [phase EXCEPT ![c] = "core"] /\ answer' = answer /\ why' = [why EXCEPT ![c] = reason]
    BY <1>5 DEF Turns, SetPhase
  <2>2. CallInv(c)'
    <3>1. phase'[c] = "core" /\ answer'[c] = None /\ link'[c] = "none" /\ acted'[c] = acted[c] /\ why'[c] = reason
      BY <1>1, <1>3, <2>1 DEF TypeOK
    <3> QED
      BY <1>2, <3>1 DEF CallInv, Fresh, Waiting, Sent, Core, Served, Once, Twice
  <2>3. ASSUME NEW d \in Calls, d # c PROVE CallInv(d)'
    BY <1>1, <2>1, <2>3, Elsewhere DEF Inv, TypeOK
  <2> QED
    BY <2>2, <2>3
<1> QED
  BY <1>4, <1>5

\* Only what changes a call can disturb what is known of it.
LEMMA InvStep == Inv /\ [Next]_vars => Inv'
<1> SUFFICES ASSUME Inv, [Next]_vars PROVE Inv'
  OBVIOUS
<1> USE NoneAssumption
<1>0. TypeOK /\ TypeOK' /\ \A d \in Calls : CallInv(d)
  BY TypeStep DEF Inv
<1>1. CASE UNCHANGED vars
  BY <1>0, <1>1, Elsewhere DEF Inv, vars
<1>2. ASSUME NEW c \in Calls, NEW r \in Requests, Begin(c, r) PROVE Inv'
  <2>1. /\ phase' = [phase EXCEPT ![c] = phase'[c]] /\ phase'[c] \in {"calling", "core", "over"}
        /\ answer' = [answer EXCEPT ![c] = answer'[c]] /\ (answer'[c] = answer[c] \/ answer'[c] = Failure)
        /\ phase'[c] # "over" => answer' = answer
        /\ req' = [req EXCEPT ![c] = r]
        /\ UNCHANGED <<link, why, reply, acted, serving>>
    BY <1>0, <1>2 DEF Begin, SetPhase, process, TypeOK
  <2>2. phase[c] = "new"
    BY <1>2 DEF Begin
  <2>3. ~Failure.ok
    BY DEF Failure
  <2>4. CallInv(c)'
    BY <1>0, <2>1, <2>2, <2>3 DEF CallInv, Fresh, Waiting, Sent, Core, Served, Once, Twice
  <2>5. ASSUME NEW d \in Calls, d # c PROVE CallInv(d)'
    BY <1>0, <2>1, <2>5, Elsewhere DEF TypeOK
  <2> QED
    BY <1>0, <2>4, <2>5 DEF Inv
<1>3. ASSUME NEW c \in Calls, Connect(c) PROVE Inv'
  <2>1. CallInv(c)'
    BY <1>0, <1>3 DEF Connect, node, process, TypeOK, CallInv, Fresh, Waiting, Sent, Core, Served, Once, Twice
  <2>2. ASSUME NEW d \in Calls, d # c PROVE CallInv(d)'
    BY <1>0, <1>3, <2>2, Elsewhere DEF Connect, node, process, TypeOK
  <2> QED
    BY <1>0, <2>1, <2>2 DEF Inv
<1>4. ASSUME NEW c \in Calls, Unavailable(c) PROVE Inv'
  <2>1. phase[c] = "calling" /\ Turns(c, "unavailable") /\ link' = [link EXCEPT ![c] = "none"]
        /\ UNCHANGED <<req, reply, acted, serving>>
    BY <1>4 DEF Unavailable, process
  <2>2. acted[c] = {} /\ serving # c
    BY <1>0, <2>1 DEF CallInv, Fresh, Served
  <2> QED
    BY <1>0, <2>1, <2>2, TurnsInv DEF Inv
<1>5. ASSUME NEW c \in Calls, Breaks(c) PROVE Inv'
  <2>1. phase[c] = "sent" /\ link[c] = "closed" /\ Turns(c, "lost") /\ link' = [link EXCEPT ![c] = "none"]
        /\ UNCHANGED <<req, reply, acted, serving>>
    BY <1>5 DEF Breaks, process
  <2>2. serving # c
    BY <1>0, <2>1 DEF CallInv, Served
  <2> QED
    BY <1>0, <2>1, <2>2, TurnsInv DEF Inv
<1>6. ASSUME NEW c \in Calls, Receive(c) PROVE Inv'
  <2>1. /\ phase[c] = "sent" /\ reply[c] # None
        /\ link' = [link EXCEPT ![c] = "none"] /\ reply' = [reply EXCEPT ![c] = None]
        /\ UNCHANGED <<req, acted, serving>>
    BY <1>6 DEF Receive, process
  <2>2. serving # c
    BY <1>0, <2>1 DEF CallInv, Served
  <2>3. CASE req[c].office /\ reply[c] = "error"
    <3>1. Turns(c, "reported")
      BY <1>6, <2>3 DEF Receive
    <3>2. \A d \in Calls : d # c => reply'[d] = reply[d]
      BY <1>0, <2>1 DEF TypeOK
    <3> QED
      BY <1>0, <2>1, <2>2, <2>3, <3>1, <3>2, TurnsInv DEF Inv
  <2>4. CASE ~(req[c].office /\ reply[c] = "error")
    <3>1. /\ phase' = [phase EXCEPT ![c] = "over"] /\ why' = why
          /\ answer' = [answer EXCEPT ![c] = [ok |-> reply[c] = "ok", warned |-> FALSE]]
      BY <1>6, <2>4 DEF Receive, SetPhase
    <3>2. /\ phase'[c] = "over" /\ link'[c] = "none" /\ why'[c] = None /\ acted'[c] = acted[c]
          /\ acted[c] \subseteq {"worker"} /\ (reply[c] = "ok" => acted[c] = {"worker"})
          /\ answer'[c] = [ok |-> reply[c] = "ok", warned |-> FALSE]
      BY <1>0, <2>1, <3>1 DEF TypeOK, CallInv, Sent
    <3>3. answer'[c].ok => acted'[c] = {"worker"}
      <4>1. CASE reply[c] = "ok"
        BY <3>2, <4>1
      <4>2. CASE reply[c] # "ok"
        <5>1. (reply[c] = "ok") = FALSE
          BY <4>2
        <5>2. answer'[c] = [ok |-> FALSE, warned |-> FALSE]
          BY <3>2, <5>1, Zenon
        <5> QED
          BY <5>2
      <4> QED
        BY <4>1, <4>2
    <3>4. CallInv(c)'
      BY <2>1, <2>2, <3>2, <3>3 DEF CallInv, Fresh, Waiting, Sent, Core, Served, Once, Twice
    <3>5. ASSUME NEW d \in Calls, d # c PROVE CallInv(d)'
      BY <1>0, <2>1, <3>1, <3>5, Elsewhere DEF TypeOK
    <3> QED
      BY <1>0, <3>4, <3>5 DEF Inv
  <2> QED
    BY <2>3, <2>4
<1>7. ASSUME NEW c \in Calls, Act(c) PROVE Inv'
  <2>1. phase[c] = "core" /\ phase' = [phase EXCEPT ![c] = "over"]
        /\ UNCHANGED <<req, link, why, reply, serving>>
    BY <1>7 DEF Act, SetPhase, process
  <2>2. PICK o \in Outcomes(req[c], settings.enabled), returns \in BOOLEAN :
          /\ o.ok => returns
          /\ acted' = [acted EXCEPT ![c] = @ \cup (IF o.did THEN {"core"} ELSE {})]
          /\ answer' = [answer EXCEPT ![c] = [ok |-> o.ok, warned |-> returns /\ Warns(c)]]
    BY <1>7 DEF Act
  <2>3. o.ok => o.did
    BY <2>2 DEF Outcomes
  <2>4. /\ acted[c] \subseteq {"worker"} /\ serving # c
        /\ why[c] \in {None, "unavailable"} => acted[c] = {}
        /\ why[c] = "reported" => req[c].office
        /\ why[c] \in {None, "unavailable", "lost", "reported"}
    BY <1>0, <2>1 DEF CallInv, Core, Served, TypeOK
  <2>5. /\ acted'[c] = acted[c] \cup (IF o.did THEN {"core"} ELSE {})
        /\ answer'[c].ok = o.ok /\ answer'[c].warned = (returns /\ Warns(c))
        /\ phase'[c] = "over"
    BY <1>0, <2>1, <2>2 DEF TypeOK
  <2>6. Once(c)'
    <3>1. SUFFICES ASSUME req[c].dict, answer'[c].ok, ~answer'[c].warned
                   PROVE  why[c] = None /\ acted'[c] = {"core"}
      BY <2>1 DEF Once
    <3>2. o.ok /\ returns /\ ~Warns(c)
      BY <2>2, <2>5, <3>1
    <3> QED
      BY <2>3, <2>4, <2>5, <3>1, <3>2 DEF Warns
  <2>7. Twice(c)'
    BY <2>1, <2>4, <2>5 DEF Twice
  <2>8. CallInv(c)'
    BY <1>0, <2>1, <2>4, <2>5, <2>6, <2>7 DEF CallInv, Fresh, Waiting, Sent, Core, Served
  <2>9. ASSUME NEW d \in Calls, d # c PROVE CallInv(d)'
    BY <1>0, <2>1, <2>2, <2>9, Elsewhere DEF TypeOK
  <2> QED
    BY <1>0, <2>8, <2>9 DEF Inv
<1>8. ASSUME NEW c \in Calls, Return(c) PROVE Inv'
  <2>1. CallInv(c)'
    BY <1>0, <1>8 DEF Return, SetPhase, process, TypeOK, CallInv, Fresh, Waiting, Sent, Core, Served, Once, Twice
  <2>2. ASSUME NEW d \in Calls, d # c PROVE CallInv(d)'
    BY <1>0, <1>8, <2>2, Elsewhere DEF Return, SetPhase, process, TypeOK
  <2> QED
    BY <1>0, <2>1, <2>2 DEF Inv
<1>9. ASSUME NEW s \in Edits, Edit(s) PROVE Inv'
  BY <1>0, <1>9, Elsewhere DEF Inv, Edit, process
<1>10. CASE NodeRestarts
  <2> SUFFICES ASSUME NEW d \in Calls PROVE CallInv(d)'
    BY <1>0 DEF Inv
  <2>1. /\ phase'[d] = IF phase[d] \in {"new", "answered"} THEN phase[d] ELSE "gone"
        /\ link'[d] = "none" /\ reply'[d] = None
        /\ UNCHANGED <<req, why, acted, answer, serving>>
    BY <1>10 DEF NodeRestarts
  <2> QED
    BY <1>0, <2>1 DEF CallInv, Fresh, Waiting, Sent, Core, Served, Once, Twice
<1>11. ASSUME NEW c \in Calls, Accept(c) PROVE Inv'
  <2>1. link[c] = "waiting" /\ phase[c] = "calling"
    BY <1>0, <1>11 DEF Accept, CallInv, Waiting
  <2>2. CallInv(c)'
    BY <1>0, <1>11, <2>1 DEF Accept, SetPhase, node, TypeOK, CallInv, Fresh, Waiting, Sent, Core, Served, Once, Twice
  <2>3. ASSUME NEW d \in Calls, d # c PROVE CallInv(d)'
    BY <1>0, <1>11, <2>3, Elsewhere DEF Accept, SetPhase, node, TypeOK
  <2> QED
    BY <1>0, <2>2, <2>3 DEF Inv
<1>12. ASSUME NEW c \in Calls, Serve(c) PROVE Inv'
  <2>1. serving = c /\ serving' = None /\ UNCHANGED <<req, why, answer, phase, link>>
    BY <1>12 DEF Serve, node
  <2>2. PICK o \in Outcomes(req[c], worker.enabled) :
          /\ acted' = [acted EXCEPT ![c] = @ \cup (IF o.did THEN {"worker"} ELSE {})]
          /\ reply' = [reply EXCEPT ![c] = IF o.ok THEN "ok" ELSE "error"]
    BY <1>12 DEF Serve
  <2>3. o.ok => o.did
    BY <2>2 DEF Outcomes
  <2>4. /\ phase[c] \in {"sent", "gone"} /\ link[c] # "closed"
        /\ acted[c] = {} /\ why[c] = None /\ answer[c] = None
    BY <1>0, <2>1 DEF CallInv, Served
  <2>5. acted'[c] = (IF o.did THEN {"worker"} ELSE {}) /\ (reply'[c] = "ok" => o.ok)
    BY <1>0, <2>2, <2>4 DEF TypeOK
  <2>6. CallInv(c)'
    BY <1>0, <2>1, <2>3, <2>4, <2>5 DEF CallInv, Fresh, Waiting, Sent, Core, Served, Once, Twice
  <2>7. ASSUME NEW d \in Calls, d # c PROVE CallInv(d)'
    BY <1>0, <2>1, <2>2, <2>7, Elsewhere DEF TypeOK
  <2> QED
    BY <1>0, <2>6, <2>7 DEF Inv
<1>13. CASE WorkerDies \/ AcceptGhost
  <2>1. Ends
    BY <1>13 DEF WorkerDies, AcceptGhost
  <2>2. serving' = None /\ UNCHANGED <<req, why, answer, phase, reply>>
    BY <2>1 DEF Ends, node
  <2> SUFFICES ASSUME NEW d \in Calls PROVE CallInv(d)'
    BY <1>0 DEF Inv
  <2>3. link'[d] = IF link[d] = "none" THEN "none" ELSE "closed"
    BY <2>1 DEF Ends
  <2>4. acted'[d] = acted[d] \/ (serving = d /\ acted'[d] = acted[d] \cup {"worker"})
    BY <1>0, <1>13 DEF WorkerDies, AcceptGhost, TypeOK
  <2>5. CASE acted'[d] = acted[d]
    BY <1>0, <2>2, <2>3, <2>5 DEF CallInv, Fresh, Waiting, Sent, Core, Served, Once, Twice
  <2>6. CASE serving = d /\ acted'[d] = acted[d] \cup {"worker"}
    <3>1. acted'[d] = {"worker"} /\ phase[d] \in {"sent", "gone"} /\ answer[d] = None /\ why[d] = None
      BY <1>0, <2>6 DEF CallInv, Served
    <3> QED
      BY <1>0, <2>2, <2>3, <3>1 DEF CallInv, Fresh, Waiting, Sent, Core, Served, Once, Twice
  <2> QED
    BY <2>4, <2>5, <2>6
<1>14. CASE WorkerStarts
  BY <1>0, <1>14, Elsewhere DEF Inv, WorkerStarts, node
<1> QED
  BY <1>1, <1>2, <1>3, <1>4, <1>5, <1>6, <1>7, <1>8, <1>9, <1>10, <1>11, <1>12, <1>13, <1>14
  DEF Next, Step

\* A client that is told ok without a warning had its request done exactly once.
THEOREM DoneOnce == Spec => []OkMeansDoneOnce
<1>1. Inv => OkMeansDoneOnce
  BY DEF Inv, CallInv, Once, OkMeansDoneOnce
<1> QED
  BY <1>1, InvInit, InvStep, PTL DEF Spec

\* What the worker has answered is not done again, but by Office with the fallback.
THEOREM NeverTwiceHeard == Spec => []TwiceOnlyIfUnheard
<1>1. Inv => TwiceOnlyIfUnheard
  BY DEF Inv, CallInv, Twice, TwiceOnlyIfUnheard
<1> QED
  BY <1>1, InvInit, InvStep, PTL DEF Spec
=============================================================================
