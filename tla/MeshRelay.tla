----------------------------- MODULE MeshRelay -----------------------------
(***************************************************************************)
(* Task relay between AgentNode processes: POST /api/v1/mesh/forward,      *)
(* MeshRouter.forward and _forward_to, and the local executor they call.   *)
(*                                                                         *)
(* A relayed task leaves a chain of frames, one per node that received it. *)
(* Frame i is the run of the forward handler at its node; a handler that   *)
(* relays waits for the handler of frame i + 1, which it called over HTTP. *)
(* Everything a handler does between two awaits is one step, because each  *)
(* node runs its handlers on a single asyncio loop.  Handlers of different *)
(* frames interleave, calls time out while the callee goes on, requests    *)
(* are lost, nodes restart, and settings are edited under running tasks.   *)
(***************************************************************************)
EXTENDS Mesh

CONSTANTS
  InitConf,    \* InitConf[n]: the editable mesh settings n starts with
  Edits,       \* settings an administrator may install at run time
  Tasks,       \* task instances a client may submit, one request each
  Requests,    \* the requests clients send
  Faults       \* the faults that may occur

\* timed: the timeout of its executor covers the run.  It does not for an agent that
\* leaves its prompt unread (the drain of _run_pi).
Settings == [key : STRING, mode : {"off", "offload", "distribute"},
             after : Int, maxf : Int, maxhops : Int]
Request == [node : Nodes, hops : Seq(Names), target : Names \cup {None},
            left : Int \cup {None}, forwardable : BOOLEAN,
            mode : STRING \cup {None}, after : Int \cup {None},
            maxf : Int \cup {None}, key : STRING, granted : BOOLEAN,
            action : {"shell", "agent"}, timed : BOOLEAN]

ASSUME NoneAssumption == None \notin Int /\ None \notin Request
ASSUME SettingsAssumption == InitConf \in [Nodes -> Settings] /\ Edits \subseteq Settings
ASSUME RequestsAssumption == Requests \subseteq Request
ASSUME FaultsAssumption == Faults \subseteq {"timeout", "loss", "crash", "cancel"}

VARIABLES
  request,     \* request[t]: what the client sent, None before it did
  frames,      \* frames[t]: the chain of handler runs of t
  active,      \* active[n]: _active of n's router
  inflight,    \* inflight[n][p]: _inflight of n's router (0 for a missing key)
  conf         \* conf[n]: the editable mesh settings of n

vars == <<request, frames, active, inflight, conf>>

Refusals == {"forbidden", "loop", "too_far", "upstream"}
Frame == [node : Nodes, hops : Seq(Names), target : Names \cup {None},
          left : Int \cup {None}, key : STRING, granted : BOOLEAN,
          status : {"sent", "running", "waiting", "returned", "lost"},
          peer : Names \cup {None},
          ran : {"no", "running", "ok", "failed", "aborted"},
          outcome : {"none", "result", "error", "aborted"} \cup Refusals]

(***************************************************************************)
(* The decisions of the handler, as functions of the arriving frame f.     *)
(***************************************************************************)
NewFrame(node, hops, target, left, key, granted) ==
  [node |-> node, hops |-> hops, target |-> target, left |-> left, key |-> key,
   granted |-> granted, status |-> "sent", peer |-> None, ran |-> "no", outcome |-> "none"]

Mode(t, n) == Default(request[t].mode, conf[n].mode)
OffloadAfter(t, n) == Default(request[t].after, conf[n].after)
\* Variant: the policy of the request before the budget that travels.
ForwardsLeftByPolicy(t, f) == Default(request[t].maxf, Default(f.left, conf[f.node].maxf))
ForwardsLeft(t, f) == Default(f.left, Default(request[t].maxf, conf[f.node].maxf))

Path(f) == Visited(f.node, f.hops)
IsOrigin(f) == f.hops = <<>>

\* The handler counts itself in _active before it decides, hence active + 1.
Relays(t, n) ==
  \/ Mode(t, n) = "distribute"
  \/ Mode(t, n) = "offload" /\ OffloadAfter(t, n) > 0 /\ active[n] + 1 > OffloadAfter(t, n)

\* The peers _pick_target may return; none of them means it returns None.  Ties
\* are broken by the order of the keys of mesh.peers, which is left open.
PickTarget(t, f) ==
  LET n == f.node
      candidates == {p \in DOMAIN Peers[n] : ~IsUpstream(n, p, Path(f))}
  IN  IF Relays(t, n)
      THEN {p \in candidates : \A q \in candidates : inflight[n][p] <= inflight[n][q]}
      ELSE {}

\* Variant: a relayed task forgets that it must stay.
StaysHereAtOrigin(t, f) == ~request[t].forwardable /\ IsOrigin(f) /\ f.target = None
StaysHere(t, f) == ~request[t].forwardable /\ (~IsOrigin(f) \/ f.target = None)

\* Where the handler hands the task; the empty set means it runs it itself.
Destinations(t, f) ==
  IF StaysHere(t, f) THEN {}
  ELSE IF f.target # None THEN {f.target}
  ELSE IF ForwardsLeft(t, f) <= 0 THEN {}
  ELSE PickTarget(t, f)

\* Variant: the loop check is missing.
VerdictWithoutLoop(t, f) ==
  LET c == conf[f.node] IN
  IF ~f.granted \/ c.key = "" \/ f.key # c.key THEN "forbidden"
  ELSE IF TooFar(f.node, f.hops, c.maxhops) THEN "too_far" ELSE "accepted"

\* Variant: the hop limit is one too low.
VerdictOffByOne(t, f) ==
  LET c == conf[f.node] IN
  IF ~f.granted \/ c.key = "" \/ f.key # c.key THEN "forbidden"
  ELSE IF Loops(f.node, f.hops) THEN "loop"
  ELSE IF TooFar(f.node, f.hops, c.maxhops - 1) THEN "too_far" ELSE "accepted"

\* The checks in the order the handler makes them.
Verdict(t, f) ==
  LET c == conf[f.node] IN
  IF ~f.granted \/ c.key = "" \/ f.key # c.key THEN "forbidden"
  ELSE IF Loops(f.node, f.hops) THEN "loop"
  ELSE IF TooFar(f.node, f.hops, c.maxhops) THEN "too_far"
  ELSE IF f.target # None /\ ~StaysHere(t, f) /\ IsUpstream(f.node, f.target, Path(f))
       THEN "upstream"
  ELSE "accepted"

(***************************************************************************)
(* Actions.                                                                *)
(***************************************************************************)
Init ==
  /\ request = [t \in Tasks |-> None]
  /\ frames = [t \in Tasks |-> <<>>]
  /\ active = [n \in Nodes |-> 0]
  /\ inflight = [n \in Nodes |-> [p \in Names |-> 0]]
  /\ conf = InitConf

Submit(t, r) ==
  /\ request[t] = None
  /\ request' = [request EXCEPT ![t] = r]
  /\ frames' = [frames EXCEPT ![t] =
                  <<NewFrame(r.node, r.hops, r.target, r.left, r.key, r.granted)>>]
  /\ UNCHANGED <<active, inflight, conf>>

\* Frame i of t is a request that has arrived and passed every check.
Accepted(t, i) ==
  /\ frames[t][i].status = "sent"
  /\ Verdict(t, frames[t][i]) = "accepted"

\* A check raises: the caller gets an HTTP error and nothing is left counted.
Refuse(t, i) ==
  /\ frames[t][i].status = "sent"
  /\ Verdict(t, frames[t][i]) \in Refusals
  /\ frames' = [frames EXCEPT ![t][i].status = "returned",
                              ![t][i].outcome = Verdict(t, frames[t][i])]
  /\ UNCHANGED <<request, active, inflight, conf>>

RunHere(t, i) ==
  /\ Accepted(t, i)
  /\ Destinations(t, frames[t][i]) = {}
  /\ frames' = [frames EXCEPT ![t][i].status = "running", ![t][i].ran = "running"]
  /\ active' = [active EXCEPT ![frames[t][i].node] = @ + 1]
  /\ UNCHANGED <<request, inflight, conf>>

\* The request leaves for the peer with this node appended to its hops, the
\* budget less one, no target, and this node's own helper key.
Relay(t, i, name) ==
  LET f == frames[t][i]
      peer == Peers[f.node][name]
      call == NewFrame(peer.node, Path(f), None, ForwardsLeft(t, f) - 1,
                       conf[f.node].key, peer.token = "good")
  IN
  /\ Accepted(t, i)
  /\ name \in Destinations(t, f)
  /\ Reachable(f.node, name)
  /\ frames' = [frames EXCEPT ![t] =
                  Append([@ EXCEPT ![i].status = "waiting", ![i].peer = name], call)]
  /\ active' = [active EXCEPT ![f.node] = @ + 1]
  /\ inflight' = [inflight EXCEPT ![f.node][name] = @ + 1]
  /\ UNCHANGED <<request, conf>>

\* An unknown peer or one without a token raises before anything is sent; the
\* handler answers with the error, its counters back where they were.
RelayFails(t, i, name) ==
  /\ Accepted(t, i)
  /\ name \in Destinations(t, frames[t][i])
  /\ ~Reachable(frames[t][i].node, name)
  /\ frames' = [frames EXCEPT ![t][i].status = "returned", ![t][i].peer = name,
                              ![t][i].outcome = "error"]
  /\ UNCHANGED <<request, active, inflight, conf>>

\* Variant: a failed run is answered like one that succeeded.
FinishSwallowing(t, i, ran) ==
  /\ frames[t][i].status = "running" /\ ran # "aborted"
  /\ frames' = [frames EXCEPT ![t][i].status = "returned", ![t][i].ran = ran,
                              ![t][i].outcome = "result"]
  /\ active' = [active EXCEPT ![frames[t][i].node] = @ - 1]
  /\ UNCHANGED <<request, inflight, conf>>

\* The local executor ends.  A failure is an answer that carries the error; the
\* cancellation of the job of an agent task goes through every except clause.
Finish(t, i, ran) ==
  /\ frames[t][i].status = "running"
  /\ ran = "aborted" => "cancel" \in Faults /\ request[t].action = "agent"
  /\ frames' = [frames EXCEPT ![t][i].status = "returned", ![t][i].ran = ran,
                  ![t][i].outcome = CASE ran = "ok" -> "result"
                                      [] ran = "failed" -> "error"
                                      [] ran = "aborted" -> "aborted"]
  /\ active' = [active EXCEPT ![frames[t][i].node] = @ - 1]
  /\ UNCHANGED <<request, inflight, conf>>

Decrement(k) == IF k > 0 THEN k - 1 ELSE 0

\* The handler of a waiting frame resumes and answers with this outcome.
Resume(t, i, outcome) ==
  LET f == frames[t][i] IN
  /\ f.status = "waiting"
  /\ frames' = [frames EXCEPT ![t][i].status = "returned", ![t][i].outcome = outcome]
  /\ active' = [active EXCEPT ![f.node] = @ - 1]
  /\ inflight' = [inflight EXCEPT ![f.node][f.peer] = Decrement(@)]
  /\ UNCHANGED <<request, conf>>

\* The peer answers.  Its HTTP error, or the error inside its answer, is an
\* error for the caller; there is no retry and no local run instead.
PeerAnswers(t, i) ==
  /\ frames[t][i].status = "waiting" /\ frames[t][i + 1].status = "returned"
  /\ Resume(t, i, IF frames[t][i + 1].outcome = "result" THEN "result" ELSE "error")

\* The connection is gone: the peer restarted or never got the request.
PeerLost(t, i) ==
  /\ frames[t][i].status = "waiting" /\ frames[t][i + 1].status = "lost"
  /\ Resume(t, i, "error")

\* Variant: the node runs the task itself when the call fails.
TimesOutAndRuns(t, i) ==
  /\ "timeout" \in Faults /\ frames[t][i].status = "waiting"
  /\ frames' = [frames EXCEPT ![t][i].status = "running", ![t][i].ran = "running"]
  /\ UNCHANGED <<request, active, inflight, conf>>

\* Variant: a timeout is answered as success.
TimesOutAsResult(t, i) == "timeout" \in Faults /\ Resume(t, i, "result")

\* Variant: a timeout leaves the peer's count as it was.
TimesOutUncounted(t, i) ==
  /\ "timeout" \in Faults /\ frames[t][i].status = "waiting"
  /\ frames' = [frames EXCEPT ![t][i].status = "returned", ![t][i].outcome = "error"]
  /\ active' = [active EXCEPT ![frames[t][i].node] = @ - 1]
  /\ UNCHANGED <<request, inflight, conf>>

\* Variant: only a connection that is not accepted times out.
TimesOutConnecting(t, i) ==
  /\ "timeout" \in Faults
  /\ frames[t][i].status = "waiting" /\ frames[t][i + 1].status = "sent"
  /\ Resume(t, i, "error")

\* The 60 s of the HTTP client are over; the peer knows nothing of it.
TimesOut(t, i) ==
  /\ "timeout" \in Faults
  /\ Resume(t, i, "error")

LoseRequest(t, i) ==
  /\ "loss" \in Faults
  /\ frames[t][i].status = "sent"
  /\ frames' = [frames EXCEPT ![t][i].status = "lost"]
  /\ UNCHANGED <<request, active, inflight, conf>>

Live(f) == f.status \in {"running", "waiting"}

\* The process of n ends and starts again: its handlers and counters are gone,
\* its settings are in the configuration file.
Restart(n) ==
  /\ "crash" \in Faults
  /\ \E t \in Tasks : \E i \in DOMAIN frames[t] : frames[t][i].node = n /\ Live(frames[t][i])
  /\ frames' = [t \in Tasks |-> [i \in DOMAIN frames[t] |->
       LET f == frames[t][i] IN
       IF f.node = n /\ Live(f)
       THEN [f EXCEPT !.status = "lost", !.ran = IF @ = "running" THEN "aborted" ELSE @]
       ELSE f]]
  /\ active' = [active EXCEPT ![n] = 0]
  /\ inflight' = [inflight EXCEPT ![n] = [p \in Names |-> 0]]
  /\ UNCHANGED <<request, conf>>

EditSettings(n, c) ==
  /\ conf' = [conf EXCEPT ![n] = c]
  /\ UNCHANGED <<request, frames, active, inflight>>

Handle(t, i) ==
  \/ Refuse(t, i)
  \/ RunHere(t, i)
  \/ \E name \in Names : Relay(t, i, name) \/ RelayFails(t, i, name)

Conclude(t, i) ==
  \/ \E ran \in {"ok", "failed", "aborted"} : Finish(t, i, ran)
  \/ PeerAnswers(t, i)
  \/ PeerLost(t, i)

Next ==
  \/ \E t \in Tasks : \E r \in Requests : Submit(t, r)
  \/ \E t \in Tasks : \E i \in DOMAIN frames[t] :
       Handle(t, i) \/ Conclude(t, i) \/ TimesOut(t, i) \/ LoseRequest(t, i)
  \/ \E n \in Nodes : Restart(n)
  \/ \E n \in Nodes : \E c \in Edits : EditSettings(n, c)

Spec == Init /\ [][Next]_vars

\* A request that is sent arrives or is lost; a run ends if its executor has a timeout
\* for it; a call ends at the latest when the HTTP client gives up.  A run that is not
\* timed may go on for good.
MaxChain == Cardinality(Nodes) + 1
GoesOn(t, i) ==
  /\ i \in DOMAIN frames[t]
  /\ frames[t][i].status = "running" => request[t].timed
  /\ Handle(t, i) \/ Conclude(t, i) \/ TimesOut(t, i)
Fairness == \A t \in Tasks : \A i \in 1..MaxChain : WF_vars(GoesOn(t, i))

FairSpec == Spec /\ Fairness

(***************************************************************************)
(* Properties.                                                             *)
(***************************************************************************)

\* Every variable keeps its type.
TypeOK ==
  /\ request \in [Tasks -> Requests \cup {None}]
  /\ frames \in [Tasks -> Seq(Frame)]
  /\ active \in [Nodes -> Int]
  /\ inflight \in [Nodes -> [Names -> Nat]]
  /\ conf \in [Nodes -> Settings]

\* The handler went past its checks: it ran the task or chose a peer for it.
Admitted(f) == Live(f) \/ f.ran # "no" \/ f.peer # None

\* Loop avoidance (_check_trace and _is_upstream): no two handlers that took
\* the task on belong to nodes with the same id, whatever the peers are called,
\* whoever edits the settings, and with requests that outlive their callers.
NoNodeTwice ==
  \A t \in Tasks : \A i, j \in DOMAIN frames[t] :
    i < j /\ Admitted(frames[t][i]) /\ Admitted(frames[t][j])
      => NodeId[frames[t][i].node] # NodeId[frames[t][j].node]

\* A task has one run in the whole mesh: a node that handed it off never runs
\* it itself after the call failed or timed out (forward, _forward_to).
RunsAtMostOnce ==
  \A t \in Tasks : \A i, j \in DOMAIN frames[t] :
    frames[t][i].ran # "no" /\ frames[t][j].ran # "no" => i = j

\* forwardable = False: the task leaves its origin only for an explicit target
\* and the node that receives it keeps it.
NonForwardableStops ==
  \A t \in Tasks : request[t] # None /\ ~request[t].forwardable =>
    Len(frames[t]) <= IF request[t].target # None /\ request[t].hops = <<>> THEN 2 ELSE 1

\* The budget travels with the task: the first hand-off fixes how far the
\* chain can still grow, and neither the settings of the nodes further down nor
\* the policy in the request, which are read there again, can extend it.
BudgetFixedAtFirstHandOff ==
  \A t \in Tasks : Len(frames[t]) >= 2 =>
    Len(frames[t]) <= 2 + (IF frames[t][2].left > 0 THEN frames[t][2].left ELSE 0)

\* When the client has its result, no node still works on the task and no
\* request for it is under way.
NoWorkAfterResult ==
  \A t \in Tasks : frames[t] # <<>> /\ frames[t][1].outcome = "result" =>
    \A i \in DOMAIN frames[t] : frames[t][i].status = "returned"

\* The handlers that run or wait at n, and those of them that wait for p.
AllFrames == UNION {{t} \X DOMAIN frames[t] : t \in Tasks}
FrameAt(x) == frames[x[1]][x[2]]
LiveAt(n) == {x \in AllFrames : FrameAt(x).node = n /\ Live(FrameAt(x))}
WaitingFor(n, p) ==
  {x \in AllFrames : FrameAt(x).node = n /\ FrameAt(x).status = "waiting" /\ FrameAt(x).peer = p}

\* The load figures offload and distribute decide on are exact: every refusal,
\* error, timeout, cancellation and restart gives back what it counted.
LoadIsExact ==
  \A n \in Nodes :
    /\ active[n] = Cardinality(LiveAt(n))
    /\ \A p \in Names : inflight[n][p] = Cardinality(WaitingFor(n, p))

\* With declared node ids a node never relays a task to one that then refuses
\* it as a loop: the sender's check is as strong as the receiver's.
RelayNeverLoops ==
  WellDeclared => \A t \in Tasks : \A i \in DOMAIN frames[t] :
                    i > 1 => frames[t][i].outcome # "loop"

\* The deployment the documentation describes: ids declared, tokens accepted,
\* one helper key that nobody edits, and hop limits that leave room for every
\* request's budget (an explicit target hands on once whatever the budget).
Budget(r) == Default(r.left, Default(r.maxf, InitConf[r.node].maxf))
WellConfigured ==
  /\ WellDeclared /\ Edits = {}
  /\ \A n \in Nodes : \A p \in DOMAIN Peers[n] : Peers[n][p].token = "good"
  /\ \A m, n \in Nodes : InitConf[m].key = InitConf[n].key
  /\ \A r \in Requests : \A n \in Nodes :
       Len(r.hops) + 1 + (IF Budget(r) > 1 THEN Budget(r) ELSE 1) <= InitConf[n].maxhops

\* In such a deployment the node a task is handed to never refuses it, so that
\* a hand-off cannot lose a task that the sender could have run itself.
RelayedNeverRefused ==
  WellConfigured => \A t \in Tasks : \A i \in DOMAIN frames[t] :
                      i > 1 => frames[t][i].outcome \notin Refusals

\* A handler of t has not answered its caller, and its run is not one that may never end.
Unanswered(t) ==
  \E i \in DOMAIN frames[t] :
    \/ frames[t][i].status \in {"sent", "waiting"}
    \/ frames[t][i].status = "running" /\ request[t].timed

\* Every caller along a chain, the client first, gets an answer or loses its connection,
\* whatever happens to the nodes further down: a run that never ends keeps the one
\* handler that runs the task, and no handler that waits for it.
EveryCallAnswered == \A t \in Tasks : Unanswered(t) ~> ~Unanswered(t)

\* What the client of a task with these frames can observe, and the promise about it.
RunOf(chain) ==
  LET ran == {i \in DOMAIN chain : chain[i].ran # "no"}
  IN  IF ran = {} THEN "none" ELSE chain[CHOOSE i \in ran : TRUE].ran
AnswerOf(chain) ==
  IF chain = <<>> THEN "unsent"
  ELSE LET f == chain[1] IN
       IF f.status = "lost" THEN "lost"
       ELSE IF f.status # "returned" THEN "awaited"
       ELSE IF f.outcome \in Refusals THEN "refused" ELSE f.outcome

Promise == INSTANCE TaskRelay WITH run <- [t \in Tasks |-> RunOf(frames[t])],
                                   answer <- [t \in Tasks |-> AnswerOf(frames[t])]

\* The relay protocol keeps the promise made to the client.
KeepsPromise == Promise!Spec
=============================================================================
