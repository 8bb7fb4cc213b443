---------------------------- MODULE DesktopWorker ----------------------------
(***************************************************************************)
(* Desktop and Office calls on Windows, where the node runs in Session 0   *)
(* and hands them over a named pipe to a Desktop Worker in the session of  *)
(* the user.  The worker serves one connection at a time.                  *)
(*                                                                         *)
(* Desktop endpoints are coroutines that call the worker without an await: *)
(* they hold the event loop until they return.  Office endpoints and the   *)
(* desktop graph run on threads, but they begin and are answered on the    *)
(* loop.                                                                   *)
(***************************************************************************)
EXTENDS Naturals

CONSTANTS
  Calls,       \* calls to the endpoints
  Requests,    \* what clients ask for
  Edits,       \* settings an administrator may store
  Faults,      \* "worker": the worker dies; "node": the node restarts
  MaxEdits,    \* bound of the model: edits of the settings
  None

\* office or desktop; on the loop or on a thread; whether the result is a dict.
Request == [office : BOOLEAN, onLoop : BOOLEAN, dict : BOOLEAN]
\* office.enabled, office.use_desktop_worker, office.allow_core_fallback.
Settings == [enabled : BOOLEAN, useWorker : BOOLEAN, fallback : BOOLEAN]

ASSUME RequestsAssumption == Requests \subseteq Request
ASSUME EditsAssumption == Edits \subseteq Settings /\ Edits # {}
ASSUME MaxEditsAssumption == MaxEdits \in Nat
ASSUME NoneAssumption ==
  /\ None \notin Calls /\ None \notin Request /\ None \notin [ok : BOOLEAN, warned : BOOLEAN]
  /\ None \notin {"unavailable", "lost", "reported", "ok", "error"}

VARIABLES
  settings,    \* the running configuration of the node, and its file
  edits,       \* bound: how often it was edited
  loop,        \* the call that holds the event loop
  req,         \* req[c]: its request
  phase,       \* phase[c]: where the handler of c is
  link,        \* link[c]: the connection of c to the worker, as c sees it
  why,         \* why[c]: what made c turn from the worker to the core
  reply,       \* reply[c]: what the worker sent to c and c has not read
  acted,       \* acted[c]: who did what c asks for, or part of it
  answer,      \* answer[c]: the HTTP answer
  worker,      \* the process of the worker, and its copy of office.enabled
  serving,     \* the call that it serves
  ghost        \* whether a connection of a node that has gone waits for it

vars == <<settings, edits, loop, req, phase, link, why, reply, acted, answer, worker, serving, ghost>>
node == <<settings, edits, loop, req, why, answer>>
process == <<worker, serving, ghost>>

Phases == {"new", "calling", "sent", "core", "over", "answered", "gone"}
Answers == [ok : BOOLEAN, warned : BOOLEAN]
Failure == [ok |-> FALSE, warned |-> FALSE]

Init ==
  /\ settings \in Edits /\ edits = 0
  /\ loop = None
  /\ req = [c \in Calls |-> None]
  /\ phase = [c \in Calls |-> "new"]
  /\ link = [c \in Calls |-> "none"]
  /\ why = [c \in Calls |-> None]
  /\ reply = [c \in Calls |-> None]
  /\ acted = [c \in Calls |-> {}]
  /\ answer = [c \in Calls |-> None]
  /\ worker = [up |-> TRUE, enabled |-> settings.enabled]
  /\ serving = None
  /\ ghost = FALSE

SetPhase(c, p) == phase' = [phase EXCEPT ![c] = p]

(***************************************************************************)
(* The node.                                                               *)
(***************************************************************************)
\* The endpoint is dispatched and the manager decides where the call goes.
UsesWorker(r) == r.office => settings.useWorker

Begin(c, r) ==
  /\ phase[c] = "new" /\ loop = None
  /\ req' = [req EXCEPT ![c] = r]
  /\ IF r.office /\ ~settings.enabled
       THEN SetPhase(c, "over") /\ answer' = [answer EXCEPT ![c] = Failure]
       ELSE SetPhase(c, IF UsesWorker(r) THEN "calling" ELSE "core") /\ UNCHANGED answer
  /\ loop' = IF r.onLoop THEN c ELSE None
  /\ UNCHANGED <<settings, edits, link, why, reply, acted, process>>

\* The pipe has one free instance: who gets it waits there to be accepted.
Free == ~ghost /\ \A c \in Calls : link[c] # "waiting"

Connect(c) ==
  /\ phase[c] = "calling" /\ link[c] = "none" /\ worker.up /\ Free
  /\ link' = [link EXCEPT ![c] = "waiting"]
  /\ UNCHANGED <<node, phase, reply, acted, process>>

\* The call of the worker raises: the desktop manager turns to the local backend,
\* the Office manager if the settings now allow it.
Turns(c, reason) ==
  IF req[c].office /\ ~settings.fallback
    THEN SetPhase(c, "over") /\ answer' = [answer EXCEPT ![c] = Failure] /\ UNCHANGED why
    ELSE /\ SetPhase(c, "core")
         /\ why' = [why EXCEPT ![c] = reason]
         /\ UNCHANGED answer

\* Client raises: there is no worker, the pipe was busy for 20 s, or the worker
\* went before it accepted.
Unavailable(c) ==
  /\ phase[c] = "calling"
  /\ link[c] = "closed" \/ (link[c] = "none" /\ (~worker.up \/ ~Free))
  /\ Turns(c, "unavailable")
  /\ link' = [link EXCEPT ![c] = "none"]
  /\ UNCHANGED <<settings, edits, loop, req, reply, acted, process>>

\* recv raises: the worker died with the request.
Breaks(c) ==
  /\ phase[c] = "sent" /\ link[c] = "closed" /\ reply[c] = None
  /\ Turns(c, "lost")
  /\ link' = [link EXCEPT ![c] = "none"]
  /\ UNCHANGED <<settings, edits, loop, req, reply, acted, process>>

\* Variant: the desktop manager takes an error for a failed worker, too.
ReceiveChecking(c) ==
  /\ phase[c] = "sent" /\ reply[c] # None
  /\ IF reply[c] = "error"
       THEN Turns(c, "reported")
       ELSE /\ SetPhase(c, "over")
            /\ answer' = [answer EXCEPT ![c] = [ok |-> TRUE, warned |-> FALSE]]
            /\ UNCHANGED why
  /\ link' = [link EXCEPT ![c] = "none"] /\ reply' = [reply EXCEPT ![c] = None]
  /\ UNCHANGED <<settings, edits, loop, req, acted, process>>
\* recv returns.  The Office manager raises an error that it finds in the result,
\* the desktop manager returns it.
Receive(c) ==
  /\ phase[c] = "sent" /\ reply[c] # None
  /\ IF req[c].office /\ reply[c] = "error"
       THEN Turns(c, "reported")
       ELSE /\ SetPhase(c, "over")
            /\ answer' = [answer EXCEPT ![c] = [ok |-> reply[c] = "ok", warned |-> FALSE]]
            /\ UNCHANGED why
  /\ link' = [link EXCEPT ![c] = "none"] /\ reply' = [reply EXCEPT ![c] = None]
  /\ UNCHANGED <<settings, edits, loop, req, acted, process>>

\* Whoever does what a request asks for does it and says so, or fails before or
\* after it has done something; Office refuses where it is disabled.
Outcomes(r, enabled) ==
  {o \in [ok : BOOLEAN, did : BOOLEAN] :
     o.ok => o.did /\ (r.office => enabled)} \ {o \in [ok : BOOLEAN, did : {TRUE}] : r.office /\ ~enabled}

\* Variant: only a call that never reached the worker is warned about.
WarnsUnreached(c) == why[c] = "unavailable" /\ req[c].dict
\* A dict that was to come from the worker gets a warning; a list cannot.
Warns(c) == why[c] # None /\ req[c].dict

\* The core does it: it returns a result or an error, or raises.
Act(c) ==
  /\ phase[c] = "core"
  /\ \E o \in Outcomes(req[c], settings.enabled), returns \in BOOLEAN :
       /\ o.ok => returns
       /\ acted' = [acted EXCEPT ![c] = @ \cup (IF o.did THEN {"core"} ELSE {})]
       /\ answer' = [answer EXCEPT ![c] =
            [ok |-> o.ok, warned |-> returns /\ Warns(c)]]
  /\ SetPhase(c, "over")
  /\ UNCHANGED <<settings, edits, loop, req, link, why, reply, process>>

\* The handler returns, to the loop that it held or, from a thread, to a loop that
\* nobody holds.
Return(c) ==
  /\ phase[c] = "over" /\ loop \in {None, c}
  /\ SetPhase(c, "answered")
  /\ loop' = None
  /\ UNCHANGED <<settings, edits, req, link, why, reply, acted, answer, process>>

\* POST /api/v1/config, on the loop.
Edit(s) ==
  /\ loop = None /\ edits < MaxEdits
  /\ settings' = s /\ edits' = edits + 1
  /\ UNCHANGED <<loop, req, phase, link, why, reply, acted, answer, process>>

\* The node dies and starts again.  The worker goes on, and may come upon a
\* connection that nobody is at the end of.
NodeRestarts ==
  /\ "node" \in Faults
  /\ phase' = [c \in Calls |-> IF phase[c] \in {"new", "answered"} THEN phase[c] ELSE "gone"]
  /\ loop' = None
  /\ ghost' = (ghost \/ ~Free)
  /\ link' = [c \in Calls |-> "none"] /\ reply' = [c \in Calls |-> None]
  /\ UNCHANGED <<settings, edits, req, why, acted, answer, worker, serving>>

(***************************************************************************)
(* The worker.                                                             *)
(***************************************************************************)
\* It accepts the connection that waits; the client sends its request.
Accept(c) ==
  /\ worker.up /\ serving = None /\ link[c] = "waiting"
  /\ link' = [link EXCEPT ![c] = "open"] /\ SetPhase(c, "sent")
  /\ serving' = c
  /\ UNCHANGED <<node, reply, acted, worker, ghost>>

\* Variant: an exception of the operation is not sent.
ServeSilently(c) ==
  /\ serving = c
  /\ \E o \in Outcomes(req[c], worker.enabled) :
       /\ acted' = [acted EXCEPT ![c] = @ \cup (IF o.did THEN {"worker"} ELSE {})]
       /\ reply' = [reply EXCEPT ![c] = IF o.ok THEN "ok" ELSE None]
  /\ serving' = None
  /\ UNCHANGED <<node, phase, link, worker, ghost>>
\* It performs the request, sends the result or the error, and closes.
Serve(c) ==
  /\ serving = c
  /\ \E o \in Outcomes(req[c], worker.enabled) :
       /\ acted' = [acted EXCEPT ![c] = @ \cup (IF o.did THEN {"worker"} ELSE {})]
       /\ reply' = [reply EXCEPT ![c] = IF o.ok THEN "ok" ELSE "error"]
  /\ serving' = None
  /\ UNCHANGED <<node, phase, link, worker, ghost>>

\* The process of the worker ends, maybe in the middle of an operation.
Ends ==
  /\ worker' = [up |-> FALSE, enabled |-> FALSE]
  /\ serving' = None /\ ghost' = FALSE
  /\ link' = [c \in Calls |-> IF link[c] = "none" THEN "none" ELSE "closed"]
  /\ UNCHANGED <<node, phase, reply>>
WorkerDies ==
  /\ "worker" \in Faults /\ worker.up
  /\ Ends
  /\ \/ UNCHANGED acted
     \/ serving # None /\ acted' = [acted EXCEPT ![serving] = @ \cup {"worker"}]

\* accept is outside the try: the handshake with a client that has gone ends it.
AcceptGhost ==
  /\ worker.up /\ serving = None /\ ghost
  /\ Ends /\ UNCHANGED acted

\* The user logs on.
WorkerStarts ==
  /\ ~worker.up
  /\ worker' = [up |-> TRUE, enabled |-> settings.enabled]
  /\ UNCHANGED <<node, phase, link, reply, acted, serving, ghost>>

Step(c) ==
  \/ Connect(c) \/ Unavailable(c) \/ Breaks(c) \/ Receive(c) \/ Act(c) \/ Return(c)

Next ==
  \/ \E c \in Calls :
       (\E r \in Requests : Begin(c, r)) \/ Step(c) \/ Accept(c) \/ Serve(c)
  \/ \E s \in Edits : Edit(s)
  \/ NodeRestarts \/ WorkerDies \/ AcceptGhost \/ WorkerStarts

Spec == Init /\ [][Next]_vars

\* Threads and the loop run, the worker accepts, and operations end; nobody needs
\* to log on again.
Fairness ==
  \A c \in Calls : WF_vars(Step(c)) /\ WF_vars(Accept(c)) /\ WF_vars(Serve(c))
FairSpec == Spec /\ Fairness

-----------------------------------------------------------------------------
\* Every variable has its type, and the loop is held by a call under way on it.
TypeOK ==
  /\ settings \in Settings /\ edits \in 0..MaxEdits
  /\ loop \in Calls \cup {None}
  /\ req \in [Calls -> Request \cup {None}]
  /\ phase \in [Calls -> Phases]
  /\ link \in [Calls -> {"none", "waiting", "open", "closed"}]
  /\ why \in [Calls -> {None, "unavailable", "lost", "reported"}]
  /\ reply \in [Calls -> {None, "ok", "error"}]
  /\ acted \in [Calls -> SUBSET {"worker", "core"}]
  /\ answer \in [Calls -> Answers \cup {None}]
  /\ worker \in [up : BOOLEAN, enabled : BOOLEAN]
  /\ serving \in Calls \cup {None} /\ ghost \in BOOLEAN
  /\ loop # None => phase[loop] \in {"calling", "sent", "core", "over"} /\ req[loop].onLoop

\* A client that is told ok without a warning had its request done exactly once,
\* and by the worker when the call went there; only lists cannot carry a warning.
OkMeansDoneOnce ==
  \A c \in Calls :
    answer[c] # None /\ req[c].dict /\ answer[c].ok /\ ~answer[c].warned
      => why[c] = None /\ \E who \in {"worker", "core"} : acted[c] = {who}

\* Nothing is done twice unless the worker died with the request or, for Office with
\* the fallback, reported an error: an input that the worker answered is not repeated.
TwiceOnlyIfUnheard ==
  \A c \in Calls :
    acted[c] = {"worker", "core"} => why[c] = "lost" \/ (req[c].office /\ why[c] = "reported")

\* The worker may die at any time and never come back, or be killed by what a
\* restarted node left on its pipe: every call is still answered.
EveryCallReturns == \A c \in Calls : phase[c] # "new" ~> phase[c] \in {"answered", "gone"}
=============================================================================
