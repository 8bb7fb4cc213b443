------------------------------ MODULE JobStore ------------------------------
(***************************************************************************)
(* The job store of an AgentNode: jobs in memory, one asyncio task per     *)
(* job, and jobs.jsonl, to which every change of a job appends its whole   *)
(* record and from which a restarted node reads the last record of each.   *)
(*                                                                         *)
(* The file is kept as what a reader makes of it: the last readable record *)
(* of every job, and the bytes after the last newline.  An append that is  *)
(* cut short leaves such a tail, and the next append goes on behind it.    *)
(* Records are written with every character above ASCII as it is, and the  *)
(* reader ends a line at each that Python takes for a line boundary        *)
(* (U+0085, U+2028, U+2029): a record with one of them is no line.         *)
(***************************************************************************)
EXTENDS Integers

CONSTANTS
  Jobs,        \* job ids
  Faults,      \* "disk": an append raises; "crash": the process dies
  Splits,      \* the records with a line boundary in their input, result or error
  None,        \* Python's None
  Garbage      \* bytes that are no record

States == {"queued", "running", "succeeded", "failed", "cancelled", "interrupted"}
Live == {"queued", "running"}
Terminal == States \ Live
Record == [job : Jobs, state : States]
Tails == {None, Garbage} \cup Record

ASSUME NoneAssumption == None \notin States /\ None \notin Record /\ None # Garbage
ASSUME GarbageAssumption == Garbage \notin Record
ASSUME SplitsAssumption == Splits \subseteq Record
ASSUME FaultsAssumption == Faults \subseteq {"disk", "crash"}

VARIABLES
  job,         \* job[j]: state of j in memory, None when the node has no such job
  task,        \* task[j]: the asyncio task that runs j
  disk,        \* disk[j]: state in the last readable record of j in the file
  tail,        \* what follows the last newline of the file
  raised,      \* history: jobs for which an append raised since the node started
  damaged      \* history: whether an append was ever cut short

vars == <<job, task, disk, tail, raised, damaged>>

Init ==
  /\ job = [j \in Jobs |-> None]
  /\ task = [j \in Jobs |-> "none"]
  /\ disk = [j \in Jobs |-> None]
  /\ tail = None
  /\ raised = {}
  /\ damaged = FALSE

(***************************************************************************)
(* Appending a record.                                                     *)
(***************************************************************************)
Rec(j, s) == [job |-> j, state |-> s]

\* What an append that stops early may leave behind a tail t: nothing, part of
\* the record, or all of it but the newline; a part may end at a line boundary.
CutShort(t, r) ==
  {t, Garbage} \cup (IF r \in Splits THEN {None} ELSE IF t = None THEN {r} ELSE {})

\* A whole record behind tail t: behind a tail it only completes a line that
\* nobody can parse, and one that splits leaves several.
Appended(d, t, r) ==
  IF t = None /\ r \notin Splits THEN [d EXCEPT ![r.job] = r.state] ELSE d

\* The append of r behind tail t succeeds.
Saves(t, r) ==
  /\ disk' = Appended(disk, t, r)
  /\ tail' = None
  /\ UNCHANGED raised

\* It raises.
Raises(t, r) ==
  /\ "disk" \in Faults
  /\ tail' \in CutShort(t, r)
  /\ raised' = raised \cup {r.job}
  /\ damaged' = TRUE
  /\ UNCHANGED disk

SetJob(j, s) == job' = [job EXCEPT ![j] = s]
SetTask(j, s) == task' = [task EXCEPT ![j] = s]

(***************************************************************************)
(* Actions: each is what the loop does between two awaits.                 *)
(***************************************************************************)
\* An endpoint creates a job with a new id and submits it at once, unless the
\* append in between raises out of the endpoint.
Create(j) ==
  /\ job[j] = None /\ disk[j] = None /\ task[j] = "none"
  /\ SetJob(j, "queued")
  /\ \/ Saves(tail, Rec(j, "queued")) /\ SetTask(j, "ready") /\ UNCHANGED damaged
     \/ Raises(tail, Rec(j, "queued")) /\ UNCHANGED task

\* Variant: the update sets no state.
StartUnrecorded(j) ==
  /\ task[j] = "ready"
  /\ SetTask(j, "running") /\ Saves(tail, Rec(j, "running")) /\ UNCHANGED <<job, damaged>>
\* The task starts.  The update is outside the try: if it raises, that is the end
\* of the task.
Start(j) ==
  /\ task[j] = "ready"
  /\ SetJob(j, "running")
  /\ \/ Saves(tail, Rec(j, "running")) /\ SetTask(j, "running") /\ UNCHANGED damaged
     \/ Raises(tail, Rec(j, "running")) /\ SetTask(j, "done")

\* Variant: the end is not appended.
EndsInMemory(j, s) ==
  /\ SetJob(j, s) /\ SetTask(j, "done")
  /\ UNCHANGED <<disk, tail, raised, damaged>>
\* The work of j ends with state s and the task with it.
Ends(j, s) ==
  /\ SetJob(j, s) /\ SetTask(j, "done")
  /\ \/ Saves(tail, Rec(j, s)) /\ UNCHANGED damaged
     \/ Raises(tail, Rec(j, s))

\* The update to succeeded raises inside the try, and the handler of that
\* exception makes it a failure, with an update of its own.
FailsToSucceed(j) ==
  /\ SetJob(j, "failed") /\ SetTask(j, "done")
  /\ "disk" \in Faults
  /\ \E t \in CutShort(tail, Rec(j, "succeeded")) :
       \/ Saves(t, Rec(j, "failed")) /\ damaged' = TRUE
       \/ Raises(t, Rec(j, "failed"))

\* The coroutine of j returns, also when wait_for of Python 3.11 drops a
\* cancellation that met a finished result.
Succeed(j) ==
  /\ task[j] \in {"running", "cancelling"}
  /\ Ends(j, "succeeded") \/ FailsToSucceed(j)

\* It raises an exception.
Fail(j) ==
  /\ task[j] \in {"running", "cancelling"}
  /\ Ends(j, "failed")

\* Variant: the exception of a cancelled task is not recorded.
CancelledSilently(j) ==
  /\ task[j] = "cancelling"
  /\ SetTask(j, "done")
  /\ UNCHANGED <<job, disk, tail, raised, damaged>>
\* The CancelledError arrives in it.
Cancelled(j) ==
  /\ task[j] = "cancelling"
  /\ Ends(j, "cancelled")

\* Variant: cancel does not ask whether the task is done.
CancelAlways(j) ==
  /\ task[j] \in {"running", "done"}
  /\ SetTask(j, "cancelling")
  /\ UNCHANGED <<job, disk, tail, raised, damaged>>
\* JobStore.cancel of a task that is not done.  The id of a job is known to
\* clients only after its task has started.
Cancel(j) ==
  /\ task[j] = "running"
  /\ SetTask(j, "cancelling")
  /\ UNCHANGED <<job, disk, tail, raised, damaged>>

\* The records that a process may be in the middle of appending.
InAppend ==
  {Rec(j, "queued") : j \in {i \in Jobs : job[i] = None /\ disk[i] = None}}
  \cup {Rec(j, "running") : j \in {i \in Jobs : task[i] = "ready"}}
  \cup {Rec(j, s) : j \in {i \in Jobs : task[i] \in {"running", "cancelling"}},
                    s \in {"succeeded", "failed"}}
  \cup {Rec(j, "cancelled") : j \in {i \in Jobs : task[i] = "cancelling"}}

\* What load makes of job j with tail t: the last readable record wins, and a job
\* that was not over is interrupted (in memory only).
Loaded(t, j) ==
  LET s == IF t \in Record /\ t.job = j THEN t.state ELSE disk[j]
  IN  IF s \in Live THEN "interrupted" ELSE s

\* The process dies, maybe during an append, and the node starts again.
Restart ==
  /\ "crash" \in Faults
  /\ tail' \in {tail} \cup UNION {CutShort(tail, r) : r \in InAppend}
  /\ damaged' = (damaged \/ tail' # tail)
  /\ job' = [j \in Jobs |-> Loaded(tail', j)]
  /\ task' = [j \in Jobs |-> "none"]
  /\ raised' = {}
  /\ UNCHANGED disk

Next ==
  \/ Restart
  \/ \E j \in Jobs : Create(j) \/ Start(j) \/ Succeed(j) \/ Fail(j) \/ Cancelled(j) \/ Cancel(j)

Spec == Init /\ [][Next]_vars

-----------------------------------------------------------------------------
(***************************************************************************)
(* Properties.                                                             *)
(***************************************************************************)
TaskStates == {"none", "ready", "running", "cancelling", "done"}

\* Every variable has its type; an interruption is never written.
TypeOK ==
  /\ job \in [Jobs -> States \cup {None}]
  /\ task \in [Jobs -> TaskStates]
  /\ disk \in [Jobs -> (States \ {"interrupted"}) \cup {None}]
  /\ tail \in Tails
  /\ tail \in Record => tail.state # "interrupted"
  /\ raised \subseteq Jobs
  /\ damaged \in BOOLEAN

\* A job shown as queued or running has a task that is going to end it, so it can
\* be waited for and cancelled; only a job whose own record could not be written
\* may be left behind.
NoZombie ==
  \A j \in Jobs :
    job[j] \in Live /\ j \notin raised => task[j] \in {"ready", "running", "cancelling"}

\* A task that has not started or is at work belongs to a job in that state: the
\* list of jobs never shows as over what still runs.
WorkIsShown ==
  \A j \in Jobs :
    /\ task[j] = "ready" => job[j] = "queued"
    /\ task[j] \in {"running", "cancelling"} => job[j] = "running"

\* No record of j splits.
Whole(j) == \A s \in States : Rec(j, s) \notin Splits

\* As long as no append was cut short, a restart finds every job as it was, apart
\* from the interruption of those that were at work; only a job with a record
\* that splits may be found in an earlier state, or not at all.
RestartFindsJobs ==
  ~damaged =>
    \A j \in {i \in Jobs : Whole(i)} :
      Loaded(tail, j) = IF job[j] \in Live THEN "interrupted" ELSE job[j]

\* The states a job may show next.  A restart may interrupt or forget it.
Follows(s) ==
  CASE s = None -> States
    [] s = "queued" -> {"running", "interrupted", None}
    [] s = "running" -> Terminal \cup {None}
    [] OTHER -> {"interrupted", None}

\* No crash, torn record or failing disk brings a job back to life or turns one
\* ending into another; a job the disk failed for in this very process may come
\* back from the file with the ending that memory does not show.
LifeCycle ==
  [][\A j \in Jobs \ raised : job'[j] = job[j] \/ job'[j] \in Follows(job[j])]_vars
=============================================================================
