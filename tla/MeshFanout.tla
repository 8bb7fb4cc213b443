----------------------------- MODULE MeshFanout -----------------------------
(***************************************************************************)
(* Calls from one AgentNode to others that run where they are sent: the    *)
(* 1:N fan-out of MeshRouter.coordinate and the 1:1 MeshRouter.delegate,   *)
(* both over MeshRouter._invoke, and the /shell and /agent endpoints that  *)
(* serve them.                                                             *)
(*                                                                         *)
(* A batch is one request to coordinate or delegate; a leg is the call to  *)
(* one peer.  The coordinator's view of a leg, the work at the peer and    *)
(* the HTTP reply between them are separate: a call times out or breaks    *)
(* while the peer goes on, and a background job outlives its reply.        *)
(***************************************************************************)
EXTENDS Mesh

CONSTANTS
  Batches,     \* the requests that may be made
  Requests,    \* what they may ask
  MaxHops,     \* MaxHops[n]: mesh.max_hops of n
  Faults       \* the faults that may occur

Request == [kind : {"coordinate", "delegate"}, node : Nodes, hops : Seq(Names),
            peers : SUBSET Names \cup {None}, parallel : BOOLEAN, granted : BOOLEAN,
            action : {"shell", "agent"}, background : BOOLEAN]

ASSUME NoneIsNoRequest == None \notin Request
ASSUME RequestsAssumption ==
  Requests \subseteq {r \in Request :
    r.kind = "delegate" => r.peers # None /\ Cardinality(r.peers) = 1}
ASSUME MaxHopsAssumption == MaxHops \in [Nodes -> Int]
ASSUME FaultsAssumption == Faults \subseteq {"timeout", "break", "peer crash", "crash"}

VARIABLES
  request,     \* request[b], None before it is made
  status,      \* status[b]: the handler of b
  leg,         \* leg[b][p]: the coordinator's task for peer p and its entry
  work,        \* work[b][p]: what happens to the call at the peer
  reply        \* reply[b][p]: the HTTP status class the peer sent

vars == <<request, status, leg, work, reply>>

Settled == {"ok", "timeout", "error"}

Init ==
  /\ request = [b \in Batches |-> None]
  /\ status = [b \in Batches |-> "idle"]
  /\ leg = [b \in Batches |-> [p \in Names |-> "none"]]
  /\ work = [b \in Batches |-> [p \in Names |-> "none"]]
  /\ reply = [b \in Batches |-> [p \in Names |-> "none"]]

Passes(r) ==
  r.granted /\ ~Loops(r.node, r.hops) /\ ~TooFar(r.node, r.hops, MaxHops[r.node])

\* Variant: the path without the coordinator itself.
TargetsOffPath(r) ==
  IF r.kind = "delegate" THEN r.peers
  ELSE {p \in DOMAIN Peers[r.node] :
          ~IsUpstream(r.node, p, r.hops) /\ (r.peers # None => p \in r.peers)}
\* delegate takes the peer it is given; coordinate drops the unknown ones and
\* those on the path, which its own id is part of.
Targets(r) ==
  IF r.kind = "delegate" THEN r.peers
  ELSE {p \in DOMAIN Peers[r.node] :
          ~IsUpstream(r.node, p, Visited(r.node, r.hops)) /\ (r.peers # None => p \in r.peers)}

\* The checks run, and a task is created for every target, before any await.
Submit(b, r) ==
  /\ status[b] = "idle"
  /\ request' = [request EXCEPT ![b] = r]
  /\ IF Passes(r)
     THEN /\ status' = [status EXCEPT ![b] = "open"]
          /\ leg' = [leg EXCEPT ![b] =
                       [p \in Names |-> IF p \in Targets(r) THEN "created" ELSE "none"]]
     ELSE /\ status' = [status EXCEPT ![b] = "refused"]
          /\ UNCHANGED leg
  /\ UNCHANGED <<work, reply>>

SetLeg(b, p, value) == leg' = [leg EXCEPT ![b][p] = value]

\* The task runs up to its HTTP call, which needs a configured peer and token.
Start(b, p) ==
  /\ leg[b][p] = "created"
  /\ IF Reachable(request[b].node, p)
     THEN SetLeg(b, p, "waiting") /\ work' = [work EXCEPT ![b][p] = "sent"]
     ELSE SetLeg(b, p, "error") /\ UNCHANGED work
  /\ UNCHANGED <<request, status, reply>>

\* The peer rejects the call (always for a bad token, else by its own roles and
\* shell policy), or runs it; a background call is answered with a queued job.
Arrive(b, p) ==
  /\ work[b][p] = "sent"
  /\ \/ /\ work' = [work EXCEPT ![b][p] = "refused"]
        /\ reply' = [reply EXCEPT ![b][p] = "rejected"]
     \/ /\ Peers[request[b].node][p].token = "good"
        /\ work' = [work EXCEPT ![b][p] = "running"]
        /\ reply' = IF request[b].background
                    THEN [reply EXCEPT ![b][p] = "accepted"] ELSE reply
  /\ UNCHANGED <<request, status, leg>>

\* Variant: a shell command that fails is answered like one that does not.
FinishAccepting(b, p) ==
  /\ work[b][p] = "running"
  /\ \E end \in {"ok", "failed"} :
       /\ work' = [work EXCEPT ![b][p] = end]
       /\ reply' = IF reply[b][p] = "none"
                   THEN [reply EXCEPT ![b][p] = "accepted"] ELSE reply
  /\ UNCHANGED <<request, status, leg>>
\* A failing shell execution raises; a failing agent is a job with state failed,
\* returned with status 200 like any other.
Finish(b, p) ==
  /\ work[b][p] = "running"
  /\ \E end \in {"ok", "failed"} :
       /\ work' = [work EXCEPT ![b][p] = end]
       /\ reply' = IF reply[b][p] # "none" THEN reply
                   ELSE [reply EXCEPT ![b][p] =
                          IF end = "ok" \/ request[b].action = "agent"
                          THEN "accepted" ELSE "rejected"]
  /\ UNCHANGED <<request, status, leg>>

\* Variant: an answer that comes after the timeout replaces the entry.
DeliverLate(b, p) ==
  /\ leg[b][p] \in {"waiting", "timeout"} /\ reply[b][p] # "none"
  /\ SetLeg(b, p, IF reply[b][p] = "accepted" THEN "ok" ELSE "error")
  /\ UNCHANGED <<request, status, work, reply>>
\* The reply reaches a leg that still waits: raise_for_status, then the entry.
Deliver(b, p) ==
  /\ leg[b][p] = "waiting" /\ reply[b][p] # "none"
  /\ SetLeg(b, p, IF reply[b][p] = "accepted" THEN "ok" ELSE "error")
  /\ UNCHANGED <<request, status, work, reply>>

\* Variant: only a call that has not reached the peer times out.
TimeoutUnanswered(b, p) ==
  /\ "timeout" \in Faults
  /\ leg[b][p] = "waiting" /\ work[b][p] \in {"sent", "lost"}
  /\ SetLeg(b, p, "timeout")
  /\ UNCHANGED <<request, status, work, reply>>
\* wait_for, or the read timeout of the HTTP client, ends the leg; nothing tells
\* the peer.
Timeout(b, p) ==
  /\ "timeout" \in Faults
  /\ leg[b][p] = "waiting"
  /\ SetLeg(b, p, "timeout")
  /\ UNCHANGED <<request, status, work, reply>>

\* The connection breaks; a request on its way may be lost with it or not.
Break(b, p) ==
  /\ "break" \in Faults
  /\ leg[b][p] = "waiting"
  /\ SetLeg(b, p, "error")
  /\ \/ UNCHANGED work
     \/ work[b][p] = "sent" /\ work' = [work EXCEPT ![b][p] = "lost"]
  /\ UNCHANGED <<request, status, reply>>

\* The process at the peer dies with the call; its socket closes.
PeerDies(b, p) ==
  /\ "peer crash" \in Faults
  /\ work[b][p] \in {"sent", "running"}
  /\ work' = [work EXCEPT ![b][p] = "lost"]
  /\ IF leg[b][p] = "waiting" /\ reply[b][p] = "none"
     THEN SetLeg(b, p, "error") ELSE UNCHANGED leg
  /\ UNCHANGED <<request, status, reply>>

\* The coordinator restarts; the batch and its tasks are only in memory.
Crash(b) ==
  /\ "crash" \in Faults
  /\ status[b] = "open"
  /\ status' = [status EXCEPT ![b] = "lost"]
  /\ leg' = [leg EXCEPT ![b] = [p \in Names |-> "none"]]
  /\ UNCHANGED <<request, work, reply>>

\* Variant: the batch is answered when the first leg is.
ReturnFirst(b) ==
  /\ status[b] = "open"
  /\ LET targets == Targets(request[b]) IN
       /\ targets = {} \/ \E p \in targets : leg[b][p] \in Settled
       /\ status' = [status EXCEPT ![b] =
            IF request[b].kind = "delegate" /\ \E p \in targets : leg[b][p] # "ok"
            THEN "failed" ELSE "returned"]
  /\ UNCHANGED <<request, leg, work, reply>>
\* Every task is awaited, in parallel or one after the other.  A failed leg is an
\* entry of a fan-out, and the failure of a delegation.
Return(b) ==
  /\ status[b] = "open"
  /\ LET targets == Targets(request[b]) IN
       /\ \A p \in targets : leg[b][p] \in Settled
       /\ status' = [status EXCEPT ![b] =
            IF request[b].kind = "delegate" /\ \E p \in targets : leg[b][p] # "ok"
            THEN "failed" ELSE "returned"]
  /\ UNCHANGED <<request, leg, work, reply>>

Next ==
  \E b \in Batches :
    \/ \E r \in Requests : Submit(b, r)
    \/ Crash(b) \/ Return(b)
    \/ \E p \in Names :
         \/ Start(b, p) \/ Arrive(b, p) \/ Finish(b, p) \/ Deliver(b, p)
         \/ Timeout(b, p) \/ Break(b, p) \/ PeerDies(b, p)

Spec == Init /\ [][Next]_vars

\* The coordinator's loop runs its ready tasks and its timers fire.  Nothing is
\* assumed of the peers or of the network.
Fairness ==
  \A b \in Batches :
    /\ WF_vars(Return(b))
    /\ \A p \in Names : WF_vars(Start(b, p)) /\ WF_vars(Timeout(b, p))
FairSpec == Spec /\ Fairness

-----------------------------------------------------------------------------
(***************************************************************************)
(* Properties.                                                             *)
(***************************************************************************)
\* Every variable has its type, and the legs of a batch are among its targets.
TypeOK ==
  /\ request \in [Batches -> Requests \cup {None}]
  /\ status \in [Batches -> {"idle", "refused", "open", "returned", "failed", "lost"}]
  /\ leg \in [Batches -> [Names -> {"none", "created", "waiting"} \cup Settled]]
  /\ work \in [Batches -> [Names ->
                {"none", "sent", "refused", "running", "ok", "failed", "lost"}]]
  /\ reply \in [Batches -> [Names -> {"none", "accepted", "rejected"}]]
  /\ \A b \in Batches : \A p \in Names :
       leg[b][p] # "none" => request[b] # None /\ p \in Targets(request[b])

\* docs/API.md: the answer to a fan-out has exactly one entry for every target,
\* however the other legs ended, and none for another peer.
AggregateIsComplete ==
  \A b \in Batches : status[b] = "returned" =>
    \A p \in Names : leg[b][p] \in Settled <=> p \in Targets(request[b])

\* An entry says ok only of a call its peer took: a foreground command has run to
\* its end without raising, a foreground agent has ended, a background job at
\* least exists.
OkIsBacked ==
  \A b \in Batches : \A p \in Names : leg[b][p] = "ok" =>
    work[b][p] \in
      CASE request[b].background -> {"running", "ok", "failed", "lost"}
        [] ~request[b].background /\ request[b].action = "agent" -> {"ok", "failed"}
        [] OTHER -> {"ok"}

\* README "Loop avoidance": with node ids declared, a fan-out never calls its own
\* node or one that the task came through.
NoSubtaskUpstream ==
  WellDeclared =>
    \A b \in Batches : \A p \in Names :
      work[b][p] # "none" /\ request[b].kind = "coordinate" =>
        LET r == request[b] IN NodeId[Peers[r.node][p].node] \notin Range(Visited(r.node, r.hops))

\* What a leg ended with stays: an answer that arrives after the timeout, or
\* after the batch was answered, changes nothing the client may have been told.
EntriesAreFinal ==
  [][\A b \in Batches : \A p \in Names :
       leg[b][p] \in Settled => leg'[b][p] = leg[b][p] \/ status'[b] = "lost"]_vars

\* Partial failures do not fail or block the fan-out: whatever its peers do, an
\* accepted batch is answered, and a fan-out never with a failure.
EveryBatchReturns ==
  \A b \in Batches :
    status[b] = "open" ~>
      \/ status[b] \in {"returned", "lost"}
      \/ status[b] = "failed" /\ request[b].kind = "delegate"
=============================================================================
