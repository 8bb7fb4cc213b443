------------------------------ MODULE JobProofs ------------------------------
(***************************************************************************)
(* What holds of the job store, and of it together with the processes its  *)
(* jobs run, for any set of jobs and any faults.                           *)
(***************************************************************************)
EXTENDS JobProcesses, TLAPS

(***************************************************************************)
(* The job store by itself.                                                *)
(*                                                                         *)
(* The inductive invariant adds to the properties what memory and file     *)
(* tell about each other: a job whose append raised has no task any more,  *)
(* an ending in the file is the one in memory and the last record of the   *)
(* job, and without damage the file agrees with memory.                    *)
(***************************************************************************)

\* The bytes after the last newline are a whole record of j.
Tailed(j) == tail \in Record /\ tail.job = j

RaisedIsOver == \A j \in raised : task[j] \in {"none", "done"} /\ job[j] # None

Recorded ==
  \A j \in Jobs :
    /\ disk[j] \in Terminal => job[j] = disk[j] /\ ~Tailed(j)
    /\ Tailed(j) => job[j] # None
    /\ Tailed(j) /\ j \notin raised => job[j] \in Terminal
    /\ Tailed(j) /\ tail.state \in Terminal =>
         job[j] \in Terminal /\ (j \notin raised => job[j] = tail.state)

Undamaged ==
  ~damaged =>
    /\ tail = None
    /\ \A j \in Jobs :
         Whole(j) => disk[j] = job[j] \/ (job[j] = "interrupted" /\ disk[j] \in Live)

IInv == TypeOK /\ NoZombie /\ WorkIsShown /\ RaisedIsOver /\ Recorded /\ Undamaged

USE DEF States, Live, Terminal, TaskStates

-----------------------------------------------------------------------------
(***************************************************************************)
(* The two ways an append ends.                                            *)
(***************************************************************************)
LEMMA RecordOf ==
  ASSUME NEW j \in Jobs, NEW s \in States
  PROVE  Rec(j, s) \in Record /\ Rec(j, s).job = j /\ Rec(j, s).state = s
BY DEF Rec, Record

\* Behind any tail a save leaves no tail; it changes the file for one job at most.
LEMMA SaveEffect ==
  ASSUME NEW t, NEW j \in Jobs, NEW s \in States,
         disk \in [Jobs -> (States \ {"interrupted"}) \cup {None}],
         s # "interrupted", Saves(t, Rec(j, s))
  PROVE  /\ tail' = None /\ raised' = raised
         /\ disk' \in [Jobs -> (States \ {"interrupted"}) \cup {None}]
         /\ \A i \in Jobs : i # j => disk'[i] = disk[i]
         /\ disk'[j] = IF t = None /\ Rec(j, s) \notin Splits THEN s ELSE disk[j]
BY RecordOf DEF Saves, Appended

\* A save that fails leaves the file alone but for its tail.
LEMMA RaiseEffect ==
  ASSUME NEW t \in Tails, NEW j \in Jobs, NEW s \in States,
         t \in Record => t.state # "interrupted",
         s # "interrupted", Raises(t, Rec(j, s))
  PROVE  /\ disk' = disk /\ raised' = raised \cup {j} /\ damaged' = TRUE
         /\ tail' \in Tails
         /\ tail' \in Record => tail'.state # "interrupted"
         /\ tail' \in Record => tail' = t \/ (tail'.job = j /\ tail'.state = s)
<1>1. tail' \in {t, Garbage, None} \/ tail' = Rec(j, s)
  BY DEF Raises, CutShort
<1>2. Rec(j, s) \in Record /\ Rec(j, s).job = j /\ Rec(j, s).state = s
  BY RecordOf
<1>3. disk' = disk /\ raised' = raised \cup {j} /\ damaged' = TRUE
  BY <1>2 DEF Raises
<1>. QED
  BY <1>1, <1>2, <1>3, NoneAssumption, GarbageAssumption DEF Tails

-----------------------------------------------------------------------------
(***************************************************************************)
(* The invariant.                                                          *)
(***************************************************************************)
\* The empty store.
LEMMA Initially == Init => IInv
<1> SUFFICES ASSUME Init PROVE IInv
  OBVIOUS
<1> USE NoneAssumption DEF Init
<1>1. TypeOK
  BY DEF TypeOK, Tails
<1>2. NoZombie /\ WorkIsShown /\ RaisedIsOver /\ Undamaged
  BY DEF NoZombie, WorkIsShown, RaisedIsOver, Undamaged
<1>3. Recorded
  BY DEF Recorded, Tailed
<1>. QED
  BY <1>1, <1>2, <1>3 DEF IInv

\* A step that moves job j from s to s2 and its task to k, and saves the record
\* behind a tail t, which is the current one unless damage is noted.
LEMMA SavedStep ==
  ASSUME IInv, NEW j \in Jobs, NEW s \in States, NEW k \in TaskStates, NEW t \in Tails,
         job[j] \in {None, "queued", "running"},
         j \notin raised, ~Tailed(j), disk[j] \notin Terminal,
         s # "interrupted",
         s = "queued" <=> k = "ready", s = "running" <=> k = "running",
         s \notin {"queued", "running"} => k = "done",
         job' = [job EXCEPT ![j] = s], task' = [task EXCEPT ![j] = k],
         Saves(t, Rec(j, s)),
         (damaged' = damaged /\ t = tail) \/ damaged' = TRUE
  PROVE  IInv'
<1>1. /\ tail' = None /\ raised' = raised
      /\ disk' \in [Jobs -> (States \ {"interrupted"}) \cup {None}]
      /\ \A i \in Jobs : i # j => disk'[i] = disk[i]
      /\ disk'[j] = IF t = None /\ Rec(j, s) \notin Splits THEN s ELSE disk[j]
  BY SaveEffect DEF IInv, TypeOK
<1>2. TypeOK'
  BY <1>1, NoneAssumption DEF IInv, TypeOK, Tails
<1>3. NoZombie' /\ WorkIsShown'
  BY <1>1 DEF IInv, TypeOK, NoZombie, WorkIsShown
<1>4. RaisedIsOver'
  BY <1>1, NoneAssumption DEF IInv, TypeOK, RaisedIsOver
<1>5. Recorded'
  BY <1>1, NoneAssumption DEF IInv, TypeOK, Recorded, Tailed
<1>6. Undamaged'
  BY <1>1 DEF IInv, TypeOK, Undamaged, Whole
<1>. QED
  BY <1>2, <1>3, <1>4, <1>5, <1>6 DEF IInv

\* The same when the save fails, which leaves the job without a task.
LEMMA RaisedStep ==
  ASSUME IInv, NEW j \in Jobs, NEW s \in States, NEW k \in {"none", "done"},
         NEW r \in States, NEW t \in Tails,
         job[j] \in {None, "queued", "running"},
         j \notin raised, ~Tailed(j), disk[j] \notin Terminal,
         s # "interrupted", r # "interrupted",
         r \in Terminal => s \in Terminal,
         t \in Record => t.state # "interrupted",
         t \in Record => t = tail \/ (t.job = j /\ (t.state \in Terminal => s \in Terminal)),
         job' = [job EXCEPT ![j] = s], task' = [task EXCEPT ![j] = k],
         Raises(t, Rec(j, r))
  PROVE  IInv'
<1>1. /\ disk' = disk /\ raised' = raised \cup {j} /\ damaged' = TRUE
      /\ tail' \in Tails
      /\ tail' \in Record => tail'.state # "interrupted"
      /\ tail' \in Record => tail' = t \/ (tail'.job = j /\ tail'.state = r)
  BY RaiseEffect
<1>2. TypeOK'
  BY <1>1 DEF IInv, TypeOK
<1>3. NoZombie' /\ WorkIsShown'
  BY <1>1 DEF IInv, TypeOK, NoZombie, WorkIsShown
<1>4. RaisedIsOver'
  BY <1>1, NoneAssumption DEF IInv, TypeOK, RaisedIsOver
<1>5. Recorded'
  <2> SUFFICES ASSUME NEW i \in Jobs
               PROVE /\ disk'[i] \in Terminal => job'[i] = disk'[i] /\ ~Tailed(i)'
                     /\ Tailed(i)' => job'[i] # None
                     /\ Tailed(i)' /\ i \notin raised' => job'[i] \in Terminal
                     /\ Tailed(i)' /\ tail'.state \in Terminal =>
                          job'[i] \in Terminal /\ (i \notin raised' => job'[i] = tail'.state)
    BY DEF Recorded
  <2>1. CASE i = j
    BY <1>1, <2>1, NoneAssumption DEF IInv, TypeOK, Recorded, Tailed
  <2>2. CASE i # j
    <3>1. Tailed(i)' => tail' = tail
      BY <1>1, <2>2 DEF Tailed
    <3>. QED
      BY <1>1, <2>2, <3>1 DEF IInv, TypeOK, Recorded, Tailed
  <2>. QED
    BY <2>1, <2>2
<1>6. Undamaged'
  BY <1>1 DEF Undamaged
<1>. QED
  BY <1>2, <1>3, <1>4, <1>5, <1>6 DEF IInv

\* A job that is not over, or does not exist yet, is not recorded as over, and no
\* append of it has failed.
LEMMA Unended ==
  ASSUME IInv, NEW j \in Jobs,
         job[j] = None \/ task[j] \in {"ready", "running", "cancelling"}
  PROVE  /\ job[j] \in {None, "queued", "running"}
         /\ j \notin raised /\ ~Tailed(j) /\ disk[j] \notin Terminal
BY NoneAssumption DEF IInv, TypeOK, WorkIsShown, RaisedIsOver, Recorded

-----------------------------------------------------------------------------
(***************************************************************************)
(* The actions.                                                            *)
(***************************************************************************)
\* create and submit.
LEMMA CreateKeeps == ASSUME IInv, NEW j \in Jobs, Create(j) PROVE IInv'
<1>1. /\ job[j] \in {None, "queued", "running"}
      /\ j \notin raised /\ ~Tailed(j) /\ disk[j] \notin Terminal
  BY Unended DEF Create
<1>2. CASE Saves(tail, Rec(j, "queued")) /\ SetTask(j, "ready") /\ UNCHANGED damaged
  BY <1>1, <1>2, SavedStep DEF Create, SetJob, SetTask, IInv, TypeOK
<1>3. CASE Raises(tail, Rec(j, "queued")) /\ UNCHANGED task
  <2>1. task' = [task EXCEPT ![j] = "none"]
    BY <1>3 DEF Create, IInv, TypeOK
  <2>. QED
    BY <1>1, <1>3, <2>1, RaisedStep DEF Create, SetJob, IInv, TypeOK
<1>. QED
  BY <1>2, <1>3 DEF Create

\* run, up to the first await.
LEMMA StartKeeps == ASSUME IInv, NEW j \in Jobs, Start(j) PROVE IInv'
<1>1. /\ job[j] \in {None, "queued", "running"}
      /\ j \notin raised /\ ~Tailed(j) /\ disk[j] \notin Terminal
  BY Unended DEF Start
<1>2. CASE Saves(tail, Rec(j, "running")) /\ SetTask(j, "running") /\ UNCHANGED damaged
  BY <1>1, <1>2, SavedStep DEF Start, SetJob, SetTask, IInv, TypeOK
<1>3. CASE Raises(tail, Rec(j, "running")) /\ SetTask(j, "done")
  BY <1>1, <1>3, RaisedStep DEF Start, SetJob, SetTask, IInv, TypeOK
<1>. QED
  BY <1>2, <1>3 DEF Start

\* The last update of run, in any of its branches.
LEMMA EndsKeeps ==
  ASSUME IInv, NEW j \in Jobs, NEW s \in {"succeeded", "failed", "cancelled"},
         task[j] \in {"running", "cancelling"}, Ends(j, s)
  PROVE  IInv'
<1>1. /\ job[j] \in {None, "queued", "running"}
      /\ j \notin raised /\ ~Tailed(j) /\ disk[j] \notin Terminal
  BY Unended
<1>2. CASE Saves(tail, Rec(j, s)) /\ UNCHANGED damaged
  BY <1>1, <1>2, SavedStep DEF Ends, SetJob, SetTask, IInv, TypeOK
<1>3. CASE Raises(tail, Rec(j, s))
  BY <1>1, <1>3, RaisedStep DEF Ends, SetJob, SetTask, IInv, TypeOK
<1>. QED
  BY <1>2, <1>3 DEF Ends

\* The two updates of a success that cannot be written.
LEMMA FailsToSucceedKeeps ==
  ASSUME IInv, NEW j \in Jobs, task[j] \in {"running", "cancelling"}, FailsToSucceed(j)
  PROVE  IInv'
<1>1. /\ job[j] \in {None, "queued", "running"}
      /\ j \notin raised /\ ~Tailed(j) /\ disk[j] \notin Terminal
  BY Unended
<1>2. PICK t \in CutShort(tail, Rec(j, "succeeded")) :
        \/ Saves(t, Rec(j, "failed")) /\ damaged' = TRUE
        \/ Raises(t, Rec(j, "failed"))
  BY DEF FailsToSucceed
<1>3. job' = [job EXCEPT ![j] = "failed"] /\ task' = [task EXCEPT ![j] = "done"]
  BY DEF FailsToSucceed, SetJob, SetTask
<1>4. t \in Tails /\ (t \in Record => t.state # "interrupted")
      /\ (t \in Record => t = tail \/ (t.job = j /\ t.state = "succeeded"))
  BY <1>2, RecordOf, NoneAssumption, GarbageAssumption DEF CutShort, Tails, IInv, TypeOK
<1>5. CASE Saves(t, Rec(j, "failed")) /\ damaged' = TRUE
  BY <1>1, <1>3, <1>4, <1>5, SavedStep
<1>6. CASE Raises(t, Rec(j, "failed"))
  BY <1>1, <1>3, <1>4, <1>6, RaisedStep
<1>. QED
  BY <1>2, <1>5, <1>6

\* cancel.
LEMMA CancelKeeps == ASSUME IInv, NEW j \in Jobs, Cancel(j) PROVE IInv'
BY DEF Cancel, SetTask, IInv, TypeOK, NoZombie, WorkIsShown, RaisedIsOver, Recorded,
       Tailed, Undamaged

\* What a restart finds behind the last newline: what was there, or a record of a
\* job that was not over, in a state that may follow the one it had.
LEMMA RestartTail ==
  ASSUME IInv, Restart, tail' # tail
  PROVE  /\ damaged' = TRUE
         /\ tail' \in Tails
         /\ tail' \in Record =>
              /\ tail'.state \in States \ {"interrupted"}
              /\ job[tail'.job] \in {None, "queued", "running"}
              /\ disk[tail'.job] \notin Terminal
              /\ job[tail'.job] = "queued" => tail'.state = "running"
<1>1. PICK r \in InAppend : tail' \in CutShort(tail, r)
  BY DEF Restart
<1>2. PICK j \in Jobs, s \in States \ {"interrupted"} :
        /\ r = Rec(j, s)
        /\ \/ job[j] = None
           \/ task[j] = "ready" /\ s = "running"
           \/ task[j] \in {"running", "cancelling"}
  BY <1>1 DEF InAppend
<1>3. r \in Record /\ r.job = j /\ r.state = s
  BY <1>2, RecordOf
<1>4. job[j] \in {None, "queued", "running"} /\ disk[j] \notin Terminal
  BY <1>2, Unended
<1>5. job[j] = "queued" => s = "running"
  BY <1>2, NoneAssumption DEF IInv, WorkIsShown
<1>6. tail' \in {None, Garbage} \/ tail' = r
  BY <1>1 DEF CutShort
<1>7. damaged' = TRUE
  BY DEF Restart, IInv, TypeOK
<1>. QED
  BY <1>2, <1>3, <1>4, <1>5, <1>6, <1>7, NoneAssumption, GarbageAssumption DEF Tails

\* What a restart makes of one job.
LEMMA RestartOf ==
  ASSUME IInv, Restart, NEW j \in Jobs
  PROVE  /\ job'[j] \in Terminal \cup {None}
         /\ Tailed(j)' => /\ job'[j] = IF tail'.state \in Live THEN "interrupted" ELSE tail'.state
                          /\ disk[j] \notin Terminal
         /\ ~Tailed(j)' => job'[j] = IF disk[j] \in Live THEN "interrupted" ELSE disk[j]
<1>1. job'[j] = Loaded(tail', j)
  BY DEF Restart
<1>2. tail' \in Record => tail'.state \in States
  BY DEF Record
<1>3. disk[j] \in States \cup {None}
  BY DEF IInv, TypeOK
<1>4. Tailed(j)' => disk[j] \notin Terminal
  BY RestartTail DEF Tailed, IInv, Recorded
<1>. QED
  BY <1>1, <1>2, <1>3, <1>4, NoneAssumption DEF Loaded, Tailed

\* A crash, maybe during an append, and load.
LEMMA RestartKeeps == ASSUME IInv, Restart PROVE IInv'
<1>1. /\ job' \in [Jobs -> Terminal \cup {None}]
      /\ task' = [j \in Jobs |-> "none"]
      /\ disk' = disk /\ raised' = {}
      /\ damaged' = (damaged \/ tail' # tail)
  BY RestartOf DEF Restart
<1>2. TypeOK'
  BY <1>1, RestartTail DEF IInv, TypeOK
<1>3. NoZombie' /\ WorkIsShown' /\ RaisedIsOver'
  BY <1>1, NoneAssumption DEF NoZombie, WorkIsShown, RaisedIsOver
<1>4. Recorded'
  <2> SUFFICES ASSUME NEW j \in Jobs
               PROVE /\ disk'[j] \in Terminal => job'[j] = disk'[j] /\ ~Tailed(j)'
                     /\ Tailed(j)' => job'[j] # None
                     /\ Tailed(j)' /\ j \notin raised' => job'[j] \in Terminal
                     /\ Tailed(j)' /\ tail'.state \in Terminal =>
                          job'[j] \in Terminal /\ (j \notin raised' => job'[j] = tail'.state)
    BY DEF Recorded
  <2>1. Tailed(j)' => tail'.state \in States
    BY DEF Tailed, Record
  <2>. QED
    BY <1>1, <2>1, RestartOf, NoneAssumption
<1>5. Undamaged'
  <2> SUFFICES ASSUME ~damaged'
               PROVE /\ tail' = None
                     /\ \A j \in Jobs : Whole(j) =>
                          disk'[j] = job'[j] \/ (job'[j] = "interrupted" /\ disk'[j] \in Live)
    BY DEF Undamaged, Whole
  <2>1. ~damaged /\ tail' = tail
    BY <1>1 DEF IInv, TypeOK
  <2>2. tail' = None
    BY <2>1 DEF IInv, Undamaged
  <2>. QED
    BY <1>1, <2>2, RestartOf, NoneAssumption DEF Tailed
<1>. QED
  BY <1>2, <1>3, <1>4, <1>5 DEF IInv

\* All steps together.
LEMMA Inductive == IInv /\ [Next]_vars => IInv'
<1> SUFFICES ASSUME IInv, [Next]_vars PROVE IInv'
  OBVIOUS
<1>1. CASE UNCHANGED vars
  BY <1>1 DEF vars, IInv, TypeOK, NoZombie, WorkIsShown, RaisedIsOver, Recorded, Tailed,
              Undamaged
<1>2. CASE Restart
  BY <1>2, RestartKeeps
<1>3. ASSUME NEW j \in Jobs,
             Create(j) \/ Start(j) \/ Succeed(j) \/ Fail(j) \/ Cancelled(j) \/ Cancel(j)
      PROVE IInv'
  <2>1. CASE Create(j)
    BY <2>1, CreateKeeps
  <2>2. CASE Start(j)
    BY <2>2, StartKeeps
  <2>3. CASE Succeed(j)
    BY <2>3, EndsKeeps, FailsToSucceedKeeps DEF Succeed
  <2>4. CASE Fail(j)
    BY <2>4, EndsKeeps DEF Fail
  <2>5. CASE Cancelled(j)
    BY <2>5, EndsKeeps DEF Cancelled
  <2>6. CASE Cancel(j)
    BY <2>6, CancelKeeps
  <2>. QED
    BY <1>3, <2>1, <2>2, <2>3, <2>4, <2>5, <2>6
<1>. QED
  BY <1>1, <1>2, <1>3 DEF Next

\* Every step of the node, its crashes and its failing disk included, keeps the
\* invariant.
THEOREM Invariance == Spec => []IInv
BY Initially, Inductive, PTL DEF Spec

-----------------------------------------------------------------------------
(***************************************************************************)
(* The properties.                                                         *)
(***************************************************************************)
\* Memory, tasks and file keep their types; an interruption is never written.
THEOREM JobTypes == Spec => []TypeOK
BY Invariance, PTL DEF IInv

\* A job shown as queued or running is going to be ended by its task (run), unless
\* one of its own records could not be written.
THEOREM NoZombies == Spec => []NoZombie
BY Invariance, PTL DEF IInv

\* What runs or waits to run is shown so.
THEOREM WorkShown == Spec => []WorkIsShown
BY Invariance, PTL DEF IInv

\* load finds what the process before it knew, as long as no append was cut short.
THEOREM JobsFound == Spec => []RestartFindsJobs
<1>1. IInv => RestartFindsJobs
  BY NoneAssumption DEF IInv, TypeOK, Undamaged, RestartFindsJobs, Loaded
<1>. QED
  BY <1>1, Invariance, PTL

\* What one step may do to a job for which no append has failed.
LEMMA StepFollows ==
  ASSUME IInv, [Next]_vars, NEW j \in Jobs, j \notin raised
  PROVE  job'[j] = job[j] \/ job'[j] \in Follows(job[j])
<1>1. CASE UNCHANGED vars
  BY <1>1 DEF vars
<1>2. CASE Restart
  <2>1. job[j] \in States \cup {None}
    BY DEF IInv, TypeOK
  <2>2. CASE job[j] = None
    BY <1>2, <2>2, RestartOf, NoneAssumption DEF Follows
  <2>3. CASE job[j] = "running"
    BY <1>2, <2>3, RestartOf, NoneAssumption DEF Follows
  <2>4. CASE job[j] = "queued"
    <3>1. disk[j] \notin Terminal /\ ~Tailed(j)
      BY <2>4, NoneAssumption DEF IInv, Recorded
    <3>2. Tailed(j)' => tail'.state = "running"
      BY <1>2, <2>4, <3>1, RestartTail DEF Tailed
    <3>3. disk[j] \in States \cup {None}
      BY DEF IInv, TypeOK
    <3>. QED
      BY <1>2, <2>4, <3>1, <3>2, <3>3, RestartOf, NoneAssumption DEF Follows
  <2>5. CASE job[j] \in Terminal
    <3>1. Tailed(j)' => tail' = tail
      BY <1>2, <2>5, RestartTail, NoneAssumption DEF Tailed
    <3>2. Tailed(j)' => tail'.state \in States
      BY DEF Tailed, Record
    <3>3. Tailed(j)' => job'[j] \in {job[j], "interrupted"}
      BY <1>2, <3>1, <3>2, RestartOf DEF Tailed, IInv, Recorded
    <3>4. ~Tailed(j)' => job'[j] \in {job[j], "interrupted", None}
      BY <1>2, RestartOf DEF IInv, TypeOK, Recorded
    <3>. QED
      BY <2>5, <3>3, <3>4, NoneAssumption DEF Follows
  <2>. QED
    BY <2>1, <2>2, <2>3, <2>4, <2>5
<1>3. ASSUME NEW i \in Jobs,
             Create(i) \/ Start(i) \/ Succeed(i) \/ Fail(i) \/ Cancelled(i) \/ Cancel(i)
      PROVE job'[j] = job[j] \/ job'[j] \in Follows(job[j])
  <2>1. CASE Create(i)
    BY <2>1, NoneAssumption DEF Create, SetJob, Follows, IInv, TypeOK
  <2>2. CASE Start(i)
    BY <2>2, NoneAssumption DEF Start, SetJob, Follows, IInv, TypeOK, WorkIsShown
  <2>3. CASE Succeed(i)
    BY <2>3, NoneAssumption
       DEF Succeed, Ends, FailsToSucceed, SetJob, Follows, IInv, TypeOK, WorkIsShown
  <2>4. CASE Fail(i)
    BY <2>4, NoneAssumption DEF Fail, Ends, SetJob, Follows, IInv, TypeOK, WorkIsShown
  <2>5. CASE Cancelled(i)
    BY <2>5, NoneAssumption DEF Cancelled, Ends, SetJob, Follows, IInv, TypeOK, WorkIsShown
  <2>6. CASE Cancel(i)
    BY <2>6 DEF Cancel
  <2>. QED
    BY <1>3, <2>1, <2>2, <2>3, <2>4, <2>5, <2>6
<1>. QED
  BY <1>1, <1>2, <1>3 DEF Next

\* Through crashes, torn records and a failing disk, a job only ever moves on in
\* its life cycle.
THEOREM LifeCycles == Spec => LifeCycle
<1>1. IInv /\ [Next]_vars =>
        [\A j \in Jobs \ raised : job'[j] = job[j] \/ job'[j] \in Follows(job[j])]_vars
  BY StepFollows
<1>. QED
  BY <1>1, Invariance, PTL DEF Spec, LifeCycle

(***************************************************************************)
(* The jobs together with their processes.                                 *)
(*                                                                         *)
(* Every step of a job with its processes is one of the store or none, so  *)
(* the invariant of the store holds here too.  What is added to it is that *)
(* an ending fits the processes, in memory and in a record that was left   *)
(* behind the last newline, from where a restart may take it.              *)
(***************************************************************************)
\* That j ended with s is true of its processes.
Fits(j, s) ==
  /\ s = "succeeded" => Over(j)
  /\ s = "failed" /\ kind[j] = "shell" => proc[j] # "leader"

EndingsFit ==
  \A j \in Jobs : Fits(j, job[j]) /\ (Tailed(j) => Fits(j, tail.state))

PInv == IInv /\ ProcessTypeOK /\ EndingsFit

USE DEF Kinds, Trees, Talk

-----------------------------------------------------------------------------
(***************************************************************************)
(* The store in it.                                                        *)
(***************************************************************************)
\* What a job does with its processes is a step of the store, or none.
LEMMA StepOfStore == [ProcessNext]_allvars => [Next]_vars
<1> SUFFICES ASSUME [ProcessNext]_allvars PROVE [Next]_vars
  OBVIOUS
<1>1. CASE UNCHANGED allvars
  BY <1>1 DEF allvars
<1>2. CASE RestartNode
  BY <1>2 DEF RestartNode, Next
<1>3. ASSUME NEW j \in Jobs,
             \/ Post(j) \/ Begin(j) \/ Refuse(j) \/ Complete(j) \/ TimesOut(j)
             \/ AgentFails(j) \/ CancelWork(j) \/ CancelledWork(j)
      PROVE  [Next]_vars
  BY <1>3 DEF Post, Begin, Refuse, Complete, TimesOut, AgentFails, CancelWork, CancelledWork, Next
<1>4. ASSUME NEW j \in Jobs, Spawn(j) \/ Prompted(j) \/ Frame(j) \/ Exit(j)
      PROVE  UNCHANGED vars
  BY <1>4 DEF Spawn, Prompted, Frame, Exit
<1>. QED
  BY <1>1, <1>2, <1>3, <1>4 DEF ProcessNext

\* The jobs as clients and files see them are those of the store, whatever their
\* processes do.
THEOREM JobsAreStore == ProcessSpec => Spec
<1>1. ProcessInit => Init
  BY DEF ProcessInit
<1>. QED
  BY <1>1, StepOfStore, PTL DEF ProcessSpec, Spec

-----------------------------------------------------------------------------
(***************************************************************************)
(* Single steps.                                                           *)
(***************************************************************************)
\* The step changes the processes of j at most, from p and t to p2 and t2.
LEMMA TypesKept ==
  ASSUME ProcessTypeOK, TypeOK', NEW j \in Jobs, NEW p \in Trees, NEW t \in Talk,
         proc' = [proc EXCEPT ![j] = p], said' = [said EXCEPT ![j] = t], kind' = kind,
         \A i \in Jobs : task'[i] = "ready" => task[i] = "ready" \/ proc[i] = "none",
         task'[j] = "ready" => p = "none",
         t # "nothing" => kind[j] = "pi" /\ p # "none"
  PROVE  ProcessTypeOK'
BY DEF ProcessTypeOK

\* An ending of j that fits its processes fits them still, unless they are started.
LEMMA FitsOn ==
  ASSUME ProcessTypeOK, NEW j \in Jobs, NEW s \in States, Fits(j, s), kind' = kind,
         proc'[j] = proc[j] \/ (proc[j] # "none" /\ proc'[j] # "leader"),
         proc[j] = "gone" => proc'[j] = "gone",
         said'[j] = said[j] \/ (said[j] # "settled" /\ proc[j] # "gone")
  PROVE  Fits(j, s)'
BY DEF Fits, Over, ProcessTypeOK

\* A step that ends j with one of S, or the record of which may lie behind the last
\* newline.
LEMMA EndingsKept ==
  ASSUME EndingsFit, TypeOK, TypeOK', NEW j \in Jobs, NEW S \in SUBSET States,
         \A i \in Jobs : job'[i] = job[i] \/ (i = j /\ job'[i] \in S),
         \A i \in Jobs : Tailed(i)' => tail' = tail \/ (i = j /\ tail'.state \in S),
         \A i \in Jobs : \A s \in States :
           Fits(i, s) /\ (s = job[i] \/ (Tailed(i) /\ s = tail.state)) => Fits(i, s)',
         \A s \in S : Fits(j, s)'
  PROVE  EndingsFit'
<1> SUFFICES ASSUME NEW i \in Jobs
             PROVE  Fits(i, job[i])' /\ (Tailed(i)' => Fits(i, tail.state)')
  BY DEF EndingsFit
<1>1. Fits(i, job[i])'
  <2>1. CASE i = j /\ job'[i] \in S
    BY <2>1 DEF Fits
  <2>2. CASE job'[i] = job[i] /\ job[i] \in States
    <3>1. PICK s \in States : s = job[i]
      BY <2>2
    <3>2. Fits(i, s)
      BY <3>1 DEF EndingsFit, Fits
    <3>3. Fits(i, s)'
      BY <3>1, <3>2
    <3> QED
      BY <2>2, <3>1, <3>3 DEF Fits
  <2>3. CASE job'[i] = None
    BY <2>3, NoneAssumption DEF Fits
  <2> QED
    BY <2>1, <2>2, <2>3 DEF TypeOK
<1>2. ASSUME Tailed(i)' PROVE Fits(i, tail.state)'
  <2>1. CASE i = j /\ tail'.state \in S
    BY <2>1 DEF Fits
  <2>2. CASE tail' = tail
    <3>1. Tailed(i) /\ tail.state \in States
      BY <1>2, <2>2 DEF Tailed, Record
    <3>2. PICK s \in States : s = tail.state
      BY <3>1
    <3>3. Fits(i, s)
      BY <3>1, <3>2 DEF EndingsFit, Fits
    <3>4. Fits(i, s)'
      BY <3>1, <3>2, <3>3
    <3> QED
      BY <2>2, <3>2, <3>4 DEF Fits
  <2> QED
    BY <1>2, <2>1, <2>2
<1> QED
  BY <1>1, <1>2

\* An append of r, whether it succeeds or raises, leaves behind the last newline
\* what was there, r, or nothing that is a record.
LEMMA TailAfter ==
  ASSUME NEW t \in Tails, NEW j \in Jobs, NEW s \in States,
         Saves(t, Rec(j, s)) \/ Raises(t, Rec(j, s)), NEW i \in Jobs, Tailed(i)'
  PROVE  tail' = t \/ (i = j /\ tail'.state = s)
BY RecordOf, NoneAssumption, GarbageAssumption DEF Saves, Raises, CutShort, Tailed

\* What the end of j with s does to memory and to what is behind the last newline.
LEMMA EndOf ==
  ASSUME TypeOK, NEW j \in Jobs, NEW s \in States, Ends(j, s)
  PROVE  /\ \A i \in Jobs : job'[i] = job[i] \/ (i = j /\ job'[i] \in {s})
         /\ \A i \in Jobs : Tailed(i)' => tail' = tail \/ (i = j /\ tail'.state \in {s})
<1>1. Saves(tail, Rec(j, s)) \/ Raises(tail, Rec(j, s))
  BY DEF Ends
<1> QED
  BY <1>1, TailAfter DEF Ends, SetJob, TypeOK

\* A job that ends without an error is the only one whose row changes, and it ends as its exit says.
LEMMA EndOfSuccess ==
  ASSUME TypeOK, NEW j \in Jobs, Succeed(j)
  PROVE  LET S == {"succeeded", "failed"} IN
         /\ \A i \in Jobs : job'[i] = job[i] \/ (i = j /\ job'[i] \in S)
         /\ \A i \in Jobs : Tailed(i)' => tail' = tail \/ (i = j /\ tail'.state \in S)
<1>1. CASE Ends(j, "succeeded")
  BY <1>1, EndOf
<1>2. CASE FailsToSucceed(j)
  <2>1. PICK t \in CutShort(tail, Rec(j, "succeeded")) :
          Saves(t, Rec(j, "failed")) \/ Raises(t, Rec(j, "failed"))
    BY <1>2 DEF FailsToSucceed
  <2>2. t \in {tail, Garbage, None, Rec(j, "succeeded")}
    BY DEF CutShort
  <2>3. t \in Tails
    BY <2>2, RecordOf DEF TypeOK, Tails
  <2>4. ASSUME NEW i \in Jobs, Tailed(i)'
        PROVE  tail' = tail \/ (i = j /\ tail'.state \in {"succeeded", "failed"})
    <3>1. tail' = t \/ (i = j /\ tail'.state = "failed")
      BY <2>1, <2>3, <2>4, TailAfter
    <3> QED
      BY <2>2, <2>4, <3>1, RecordOf, NoneAssumption, GarbageAssumption DEF Tailed
  <2> QED
    BY <1>2, <2>4 DEF FailsToSucceed, SetJob, TypeOK
<1> QED
  BY <1>1, <1>2 DEF Succeed

-----------------------------------------------------------------------------
(***************************************************************************)
(* The steps.                                                              *)
(***************************************************************************)
\* A step of j that does not end it, nor leave a record of an end.
LEMMA NoEnd ==
  ASSUME EndingsFit, TypeOK, TypeOK', NEW j \in Jobs,
         \A i \in Jobs : job'[i] = job[i] \/ (i = j /\ job'[i] \in {"queued", "running"}),
         \A i \in Jobs : Tailed(i)' =>
           tail' = tail \/ (i = j /\ tail'.state \in {"queued", "running"}),
         \A i \in Jobs : \A s \in States :
           Fits(i, s) /\ (s = job[i] \/ (Tailed(i) /\ s = tail.state)) => Fits(i, s)'
  PROVE  EndingsFit'
<1> DEFINE S == {"queued", "running"}
<1>1. \A s \in S : Fits(j, s)'
  BY DEF Fits
<1>2. /\ \A i \in Jobs : job'[i] = job[i] \/ (i = j /\ job'[i] \in S)
      /\ \A i \in Jobs : Tailed(i)' => tail' = tail \/ (i = j /\ tail'.state \in S)
  OBVIOUS
<1>3. S \in SUBSET States
  OBVIOUS
<1> HIDE DEF S
<1> QED
  BY <1>1, <1>2, <1>3, EndingsKept

\* A step of the store alone.
LEMMA ProcessesAlone ==
  ASSUME ProcessTypeOK, UNCHANGED processes
  PROVE  \A i \in Jobs : \A s \in States : Fits(i, s) => Fits(i, s)'
BY FitsOn DEF processes

\* POST /v1/jobs, which creates the row.
LEMMA PostKeeps == ASSUME PInv, IInv', NEW j \in Jobs, Post(j) PROVE PInv'
<1>1. TypeOK /\ TypeOK' /\ UNCHANGED processes /\ proc[j] = "none"
  BY DEF PInv, IInv, Post
<1>2. Saves(tail, Rec(j, "queued")) \/ Raises(tail, Rec(j, "queued"))
  BY DEF Post, Create
<1>3. \A i \in Jobs : task'[i] = task[i] \/ i = j
  BY <1>1 DEF Post, Create, SetTask, TypeOK
<1>4. ProcessTypeOK'
  BY <1>1, <1>3 DEF PInv, ProcessTypeOK, processes
<1>5. \A i \in Jobs : job'[i] = job[i] \/ (i = j /\ job'[i] \in {"queued", "running"})
  BY <1>1 DEF Post, Create, SetJob, TypeOK
<1>6. \A i \in Jobs : Tailed(i)' =>
        tail' = tail \/ (i = j /\ tail'.state \in {"queued", "running"})
  BY <1>1, <1>2, TailAfter DEF TypeOK
<1>7. EndingsFit'
  BY <1>1, <1>5, <1>6, ProcessesAlone, NoEnd DEF PInv
<1> QED
  BY <1>4, <1>7 DEF PInv

\* The task of a job starts, which may raise before its first await.
LEMMA BeginKeeps == ASSUME PInv, IInv', NEW j \in Jobs, Begin(j) PROVE PInv'
<1>1. TypeOK /\ TypeOK' /\ UNCHANGED processes
  BY DEF PInv, IInv, Begin
<1>2. Saves(tail, Rec(j, "running")) \/ Raises(tail, Rec(j, "running"))
  BY DEF Begin, Start
<1>3. \A i \in Jobs : task'[i] = "ready" => task[i] = "ready"
  BY <1>1 DEF Begin, Start, SetTask, TypeOK
<1>4. ProcessTypeOK'
  BY <1>1, <1>3 DEF PInv, ProcessTypeOK, processes
<1>5. \A i \in Jobs : job'[i] = job[i] \/ (i = j /\ job'[i] \in {"queued", "running"})
  BY <1>1 DEF Begin, Start, SetJob, TypeOK
<1>6. \A i \in Jobs : Tailed(i)' =>
        tail' = tail \/ (i = j /\ tail'.state \in {"queued", "running"})
  BY <1>1, <1>2, TailAfter DEF TypeOK
<1>7. EndingsFit'
  BY <1>1, <1>5, <1>6, ProcessesAlone, NoEnd DEF PInv
<1> QED
  BY <1>4, <1>7 DEF PInv

\* A job whose task is at work has not ended, and no record says so.
LEMMA AtWork ==
  ASSUME IInv, NEW j \in Jobs, task[j] \in {"running", "cancelling"}
  PROVE  job[j] = "running" /\ ~Tailed(j)
BY Unended DEF IInv, WorkIsShown

\* The steps of the processes alone.
LEMMA ProcessKeeps ==
  ASSUME PInv, IInv', NEW j \in Jobs, Spawn(j) \/ Prompted(j) \/ Frame(j) \/ Exit(j)
  PROVE  PInv'
<1>1. TypeOK /\ TypeOK' /\ ProcessTypeOK /\ EndingsFit /\ UNCHANGED <<vars, kind>>
  BY DEF PInv, IInv, Spawn, Prompted, Frame, Exit
<1>2. ProcessTypeOK'
  <2>1. CASE Spawn(j)
    BY <1>1, <2>1 DEF Spawn, SetProc, SetSaid, ProcessTypeOK, vars
  <2>2. CASE Prompted(j)
    BY <1>1, <2>2 DEF Prompted, SetProc, SetSaid, ProcessTypeOK, vars
  <2>3. CASE Frame(j)
    BY <1>1, <2>3 DEF Frame, SetProc, SetSaid, ProcessTypeOK, vars
  <2>4. CASE Exit(j)
    BY <1>1, <2>4 DEF Exit, SetProc, SetSaid, ProcessTypeOK, vars
  <2> QED
    BY <2>1, <2>2, <2>3, <2>4
<1>3. ASSUME NEW i \in Jobs, NEW s \in States, Fits(i, s),
             s = job[i] \/ (Tailed(i) /\ s = tail.state)
      PROVE  Fits(i, s)'
  <2>1. CASE Spawn(j) /\ i = j
    BY <1>3, <2>1, AtWork DEF Spawn, Fits, PInv
  <2>2. CASE ~(Spawn(j) /\ i = j)
    <3>1. /\ proc'[i] = proc[i] \/ (proc[i] # "none" /\ proc'[i] # "leader")
          /\ proc[i] = "gone" => proc'[i] = "gone"
          /\ said'[i] = said[i] \/ (said[i] # "settled" /\ proc[i] # "gone")
      BY <1>1, <2>2 DEF Spawn, Prompted, Frame, Exit, SetProc, SetSaid, ProcessTypeOK
    <3> QED
      BY <1>1, <1>3, <3>1, FitsOn
  <2> QED
    BY <2>1, <2>2
<1>4. EndingsFit'
  <2>1. \A i \in Jobs : job'[i] = job[i]
    BY <1>1 DEF vars
  <2>2. tail' = tail
    BY <1>1 DEF vars
  <2> QED
    BY <1>1, <1>3, <2>1, <2>2, NoEnd
<1> QED
  BY <1>2, <1>4 DEF PInv

\* The step ends j with one of S, which fits the processes as it leaves them.
LEMMA EndKeeps ==
  ASSUME PInv, IInv', NEW j \in Jobs, NEW S \in SUBSET States, NEW p \in Trees,
         task[j] \in {"running", "cancelling"}, task' = [task EXCEPT ![j] = "done"],
         \A i \in Jobs : job'[i] = job[i] \/ (i = j /\ job'[i] \in S),
         \A i \in Jobs : Tailed(i)' => tail' = tail \/ (i = j /\ tail'.state \in S),
         UNCHANGED <<kind, said>>, proc' = [proc EXCEPT ![j] = p],
         p = proc[j] \/ (proc[j] \in {"leader", "signalled"} /\ p \in {"signalled", "gone"}),
         \A s \in S : Fits(j, s)'
  PROVE  PInv'
<1>1. TypeOK /\ TypeOK' /\ ProcessTypeOK /\ EndingsFit
  BY DEF PInv, IInv
<1>2. ProcessTypeOK'
  BY <1>1 DEF ProcessTypeOK
<1>3. \A i \in Jobs : \A s \in States : Fits(i, s) => Fits(i, s)'
  <2>1. \A i \in Jobs : /\ proc'[i] = proc[i] \/ (proc[i] # "none" /\ proc'[i] # "leader")
                        /\ proc[i] = "gone" => proc'[i] = "gone"
    BY <1>1 DEF ProcessTypeOK
  <2> QED
    BY <1>1, <2>1, FitsOn
<1>4. EndingsFit'
  BY <1>1, <1>3, EndingsKept
<1> QED
  BY <1>2, <1>4 DEF PInv

\* execute or run returns and the job ends as its output says.
LEMMA CompleteKeeps == ASSUME PInv, IInv', NEW j \in Jobs, Complete(j) PROVE PInv'
<1> DEFINE p == IF proc[j] = "leader" THEN "signalled" ELSE proc[j]
           S == {"succeeded", "failed"}
<1>1. TypeOK /\ ProcessTypeOK /\ Over(j) /\ Succeed(j) /\ UNCHANGED <<kind, said>>
      /\ proc' = [proc EXCEPT ![j] = p]
  BY DEF PInv, IInv, Complete, SetProc
<1>2. task[j] \in {"running", "cancelling"} /\ task' = [task EXCEPT ![j] = "done"]
  BY <1>1 DEF Succeed, Ends, FailsToSucceed, SetTask
<1>3. /\ \A i \in Jobs : job'[i] = job[i] \/ (i = j /\ job'[i] \in S)
      /\ \A i \in Jobs : Tailed(i)' => tail' = tail \/ (i = j /\ tail'.state \in S)
  BY <1>1, EndOfSuccess
<1>4. p \in Trees /\ proc'[j] = p
  BY <1>1 DEF ProcessTypeOK
<1>5. \A s \in S : Fits(j, s)'
  BY <1>1, <1>4 DEF Fits, Over, ProcessTypeOK
<1>6. p = proc[j] \/ (proc[j] \in {"leader", "signalled"} /\ p \in {"signalled", "gone"})
  OBVIOUS
<1> HIDE DEF p, S
<1>7. S \in SUBSET States
  BY DEF S
<1> QED
  BY <1>1, <1>2, <1>3, <1>4, <1>5, <1>6, <1>7, EndKeeps

\* A failure, after which the tree is as p says, and a cancellation.
LEMMA FailureKeeps ==
  ASSUME PInv, IInv', NEW j \in Jobs, Fail(j), UNCHANGED <<kind, said>>, NEW p \in Trees,
         proc' = [proc EXCEPT ![j] = p], p = proc[j] \/ (proc[j] = "leader" /\ p = "gone"),
         kind[j] = "shell" => p # "leader"
  PROVE  PInv'
<1>1. TypeOK /\ ProcessTypeOK
  BY DEF PInv, IInv
<1>2. task[j] \in {"running", "cancelling"} /\ task' = [task EXCEPT ![j] = "done"]
  BY DEF Fail, Ends, SetTask
<1>3. /\ \A i \in Jobs : job'[i] = job[i] \/ (i = j /\ job'[i] \in {"failed"})
      /\ \A i \in Jobs : Tailed(i)' => tail' = tail \/ (i = j /\ tail'.state \in {"failed"})
  BY <1>1, EndOf DEF Fail
<1>4. \A s \in {"failed"} : Fits(j, s)'
  BY <1>1 DEF Fits, ProcessTypeOK
<1> QED
  BY <1>2, <1>3, <1>4, EndKeeps

\* A job that is refused, runs into its timeout or whose agent fails.
LEMMA FailKeeps ==
  ASSUME PInv, IInv', NEW j \in Jobs, Refuse(j) \/ TimesOut(j) \/ AgentFails(j)
  PROVE  PInv'
<1>1. ProcessTypeOK
  BY DEF PInv
<1>2. CASE Refuse(j)
  <2>1. proc' = [proc EXCEPT ![j] = "none"] /\ proc[j] = "none"
    BY <1>1, <1>2 DEF Refuse, processes, ProcessTypeOK
  <2> QED
    BY <1>2, <2>1, FailureKeeps DEF Refuse, processes
<1>3. CASE TimesOut(j)
  <2>1. Killed(j) \in Trees
    BY <1>1 DEF Killed, ProcessTypeOK
  <2> QED
    BY <1>3, <2>1, FailureKeeps DEF TimesOut, SetProc, Killed
<1>4. CASE AgentFails(j)
  <2>1. proc' = [proc EXCEPT ![j] = proc[j]] /\ proc[j] \in Trees
    BY <1>1, <1>4 DEF AgentFails, processes, ProcessTypeOK
  <2> QED
    BY <1>4, <2>1, FailureKeeps DEF AgentFails, processes
<1> QED
  BY <1>2, <1>3, <1>4

\* A cancellation reaches the work of a job, whose processes it leaves alone.
LEMMA CancelWorkKeeps ==
  ASSUME PInv, IInv', NEW j \in Jobs, CancelWork(j) \/ CancelledWork(j)
  PROVE  PInv'
<1>1. TypeOK /\ TypeOK' /\ ProcessTypeOK /\ EndingsFit /\ UNCHANGED processes
  BY DEF PInv, IInv, CancelWork, CancelledWork
<1>2. CASE CancelWork(j)
  <2>1. ProcessTypeOK'
    BY <1>1, <1>2 DEF CancelWork, Cancel, SetTask, ProcessTypeOK, processes, TypeOK
  <2>2. (\A i \in Jobs : job'[i] = job[i]) /\ tail' = tail
    BY <1>2 DEF CancelWork, Cancel
  <2> QED
    BY <1>1, <2>1, <2>2, ProcessesAlone, NoEnd DEF PInv
<1>3. CASE CancelledWork(j)
  <2> DEFINE S == {"cancelled"}
             p == proc[j]
  <2>1. /\ task[j] \in {"running", "cancelling"} /\ task' = [task EXCEPT ![j] = "done"]
        /\ Ends(j, "cancelled")
    BY <1>3 DEF CancelledWork, Cancelled, Ends, SetTask
  <2>2. /\ \A i \in Jobs : job'[i] = job[i] \/ (i = j /\ job'[i] \in S)
        /\ \A i \in Jobs : Tailed(i)' => tail' = tail \/ (i = j /\ tail'.state \in S)
    BY <1>1, <2>1, EndOf
  <2>3. proc' = [proc EXCEPT ![j] = p] /\ p \in Trees /\ UNCHANGED <<kind, said>>
    BY <1>1 DEF processes, ProcessTypeOK
  <2>4. \A s \in S : Fits(j, s)'
    BY DEF Fits
  <2>5. S \in SUBSET States /\ p = proc[j]
    OBVIOUS
  <2> HIDE DEF S, p
  <2> QED
    BY <2>1, <2>2, <2>3, <2>4, <2>5, EndKeeps
<1> QED
  BY <1>2, <1>3

\* A restart takes an ending from the file, where it is the one in memory, or from
\* behind the last newline.
LEMMA RestartNodeKeeps == ASSUME PInv, IInv', RestartNode PROVE PInv'
<1>1. /\ TypeOK /\ TypeOK' /\ ProcessTypeOK /\ EndingsFit /\ Restart
      /\ kind' = kind /\ said' = said
  BY DEF PInv, IInv, RestartNode
<1>2. \A i \in Jobs :
        \/ proc'[i] = IF tail' = Rec(i, "failed") THEN Killed(i) ELSE proc[i]
        \/ proc'[i] = IF proc[i] = "none" THEN "none" ELSE "gone"
  BY DEF RestartNode
<1>3. proc' \in [Jobs -> Trees]
  BY <1>1 DEF RestartNode, Killed, ProcessTypeOK
<1>4. ProcessTypeOK'
  BY <1>1, <1>2, <1>3 DEF ProcessTypeOK, Restart, Killed
<1>5. \A i \in Jobs : \A s \in States : Fits(i, s) => Fits(i, s)'
  <2>1. \A i \in Jobs : /\ proc'[i] = proc[i] \/ (proc[i] # "none" /\ proc'[i] # "leader")
                        /\ proc[i] = "gone" => proc'[i] = "gone"
    BY <1>2 DEF Killed
  <2> QED
    BY <1>1, <2>1, FitsOn
<1>6. ASSUME NEW i \in Jobs, Tailed(i)' PROVE Fits(i, tail.state)'
  <2>1. tail' \in Record /\ tail'.job = i /\ tail'.state \in States
    BY <1>6 DEF Tailed, Record
  <2>2. tail' = Rec(i, tail'.state)
    BY <2>1 DEF Rec, Record
  <2>3. CASE tail'.state = "succeeded"
    <3>1. Over(i)
      BY <2>2, <2>3 DEF RestartNode
    <3>2. Fits(i, "succeeded")
      BY <3>1 DEF Fits
    <3>3. Fits(i, "succeeded")'
      BY <1>5, <3>2
    <3> QED
      BY <2>3, <3>3 DEF Fits
  <2>4. CASE tail'.state = "failed"
    BY <1>1, <1>2, <2>2, <2>4 DEF Fits, Killed
  <2>5. CASE tail'.state \notin {"succeeded", "failed"}
    BY <2>5 DEF Fits
  <2> QED
    BY <2>3, <2>4, <2>5
<1>7. ASSUME NEW i \in Jobs PROVE Fits(i, job[i])'
  <2>1. job'[i] = Loaded(tail', i)
    BY <1>1 DEF Restart
  <2>2. CASE Tailed(i)'
    <3>1. job'[i] = tail'.state \/ job'[i] = "interrupted"
      BY <2>1, <2>2 DEF Loaded, Tailed
    <3> QED
      BY <1>6, <2>2, <3>1 DEF Fits
  <2>3. CASE ~Tailed(i)'
    <3>1. job'[i] = IF disk[i] \in Live THEN "interrupted" ELSE disk[i]
      BY <2>1, <2>3 DEF Loaded, Tailed
    <3>2. CASE job'[i] \in {"succeeded", "failed"}
      <4>1. job'[i] = job[i]
        BY <3>1, <3>2 DEF PInv, IInv, Recorded
      <4>2. PICK s \in States : s = job[i]
        BY <3>2, <4>1
      <4>3. Fits(i, s)
        BY <1>1, <4>2 DEF EndingsFit, Fits
      <4>4. Fits(i, s)'
        BY <1>5, <4>3
      <4> QED
        BY <4>1, <4>2, <4>4 DEF Fits
    <3>3. CASE job'[i] \notin {"succeeded", "failed"}
      BY <3>3 DEF Fits
    <3> QED
      BY <3>2, <3>3
  <2> QED
    BY <2>2, <2>3
<1>8. EndingsFit'
  BY <1>6, <1>7 DEF EndingsFit
<1> QED
  BY <1>4, <1>8 DEF PInv

-----------------------------------------------------------------------------
(***************************************************************************)
(* The invariant and what follows from it.                                 *)
(***************************************************************************)
LEMMA ProcessInitially == ProcessInit => PInv
<1> SUFFICES ASSUME ProcessInit PROVE PInv
  OBVIOUS
<1>1. IInv
  BY Initially DEF ProcessInit
<1>2. ProcessTypeOK
  BY <1>1 DEF ProcessInit, Init, ProcessTypeOK, IInv
<1>3. EndingsFit
  BY NoneAssumption DEF ProcessInit, Init, EndingsFit, Fits, Tailed
<1> QED
  BY <1>1, <1>2, <1>3 DEF PInv

\* Every step of the jobs and of their processes keeps the invariant.
LEMMA ProcessInductive == PInv /\ [ProcessNext]_allvars => PInv'
<1> SUFFICES ASSUME PInv, [ProcessNext]_allvars PROVE PInv'
  OBVIOUS
<1>1. IInv'
  BY StepOfStore, Inductive DEF PInv
<1>2. CASE UNCHANGED allvars
  BY <1>1, <1>2 DEF allvars, vars, processes, PInv, IInv, ProcessTypeOK, EndingsFit, Fits, Over, Tailed
<1>3. CASE RestartNode
  BY <1>1, <1>3, RestartNodeKeeps
<1>4. ASSUME NEW j \in Jobs,
             \/ Post(j) \/ Begin(j) \/ Spawn(j) \/ Refuse(j) \/ Prompted(j) \/ Frame(j)
             \/ Exit(j) \/ Complete(j) \/ TimesOut(j) \/ AgentFails(j)
             \/ CancelWork(j) \/ CancelledWork(j)
      PROVE  PInv'
  BY <1>1, <1>4, PostKeeps, BeginKeeps, ProcessKeeps, CompleteKeeps, FailKeeps, CancelWorkKeeps
<1> QED
  BY <1>2, <1>3, <1>4 DEF ProcessNext

\* The invariant of rows and processes holds in every state of the node.
THEOREM ProcessInvariance == ProcessSpec => []PInv
BY ProcessInitially, ProcessInductive, PTL DEF ProcessSpec

\* Jobs, tasks, file and processes keep their types, and only a job whose task has
\* started has processes.
THEOREM ProcessTypes == ProcessSpec => []ProcessTypeOK
BY ProcessInvariance, PTL DEF PInv

\* execute and run: a job ends as succeeded or failed only when its processes have,
\* for any number of jobs, any crash and any failing append.
THEOREM TrueEndings == ProcessSpec => []EndingsAreTrue
<1>1. PInv => EndingsAreTrue
  BY DEF PInv, EndingsFit, Fits, Over, EndingsAreTrue
<1> QED
  BY <1>1, ProcessInvariance, PTL
=============================================================================
