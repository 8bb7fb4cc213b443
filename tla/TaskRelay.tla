----------------------------- MODULE TaskRelay -----------------------------
(***************************************************************************)
(* What POST /api/v1/mesh/forward promises the client of a task, whatever  *)
(* nodes the task travels through: it is run at most once, by one node; an *)
(* answer "result" means the run succeeded and "refused" that there is     *)
(* none and never will be.  An answer "error" promises nothing: the run    *)
(* may have failed, may still go on, and may even begin later.             *)
(***************************************************************************)
CONSTANT Tasks
VARIABLES run, answer

vars == <<run, answer>>

Runs == {"none", "running", "ok", "failed", "aborted"}
Answers == {"unsent", "awaited", "result", "error", "aborted", "refused", "lost"}

Init == /\ run = [t \in Tasks |-> "none"]
        /\ answer = [t \in Tasks |-> "unsent"]

\* At most one run, which starts only for a task that was sent and not refused.
RunStep(t) ==
  \/ run'[t] = run[t]
  \/ run[t] = "none" /\ run'[t] = "running" /\ answer[t] \notin {"unsent", "refused"}
  \/ run[t] = "running" /\ run'[t] \in {"ok", "failed", "aborted"}

\* At most one answer, which agrees with the run at that moment.
AnswerStep(t) ==
  \/ answer'[t] = answer[t]
  \/ answer[t] = "unsent" /\ answer'[t] = "awaited"
  \/ /\ answer[t] = "awaited"
     /\ \/ answer'[t] \in {"error", "lost"}
        \/ answer'[t] = "result" /\ run'[t] = "ok"
        \/ answer'[t] = "aborted" /\ run'[t] = "aborted"
        \/ answer'[t] = "refused" /\ run'[t] = "none"

\* A node that restarts moves every task it worked on, so tasks step together.
Next == /\ run' \in [Tasks -> Runs]
        /\ answer' \in [Tasks -> Answers]
        /\ \A t \in Tasks : RunStep(t) /\ AnswerStep(t)

Spec == Init /\ [][Next]_vars
=============================================================================
