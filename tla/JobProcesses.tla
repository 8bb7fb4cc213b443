---------------------------- MODULE JobProcesses ----------------------------
(***************************************************************************)
(* Background jobs: the job store composed with what its jobs run, which   *)
(* is a command (ShellRunner) or an external agent (AgentRuntimeManager),  *)
(* and with the processes of these, on POSIX.                              *)
(*                                                                         *)
(* The tree of a job is its leader and the descendants that hold its       *)
(* pipes; the output of a tree ends when all of it has gone.  A command    *)
(* and a generic agent are awaited to that end.  A pi agent is sent a      *)
(* prompt and answers with frames, each of which becomes an event of the   *)
(* job, up to the frame that says it has settled.                          *)
(***************************************************************************)
EXTENDS JobStore

VARIABLES
  kind,        \* kind[j]: what j runs
  proc,        \* proc[j]: the process tree of j
  said         \* said[j]: how far the talk with a pi agent has come

processes == <<kind, proc, said>>
allvars == <<vars, processes>>

Kinds == {"shell", "generic", "pi"}
Trees == {"none", "leader", "signalled", "descendants", "gone"}
Talk == {"nothing", "prompting", "prompted", "frame", "settled"}

SetProc(j, value) == proc' = [proc EXCEPT ![j] = value]
SetSaid(j, value) == said' = [said EXCEPT ![j] = value]

ProcessInit ==
  /\ Init
  /\ kind \in [Jobs -> Kinds]
  /\ proc = [j \in Jobs |-> "none"]
  /\ said = [j \in Jobs |-> "nothing"]

\* The endpoints, and the start of the task; ids are new, also to the processes.
Post(j) == proc[j] = "none" /\ Create(j) /\ UNCHANGED processes
Begin(j) == Start(j) /\ UNCHANGED processes

\* The process is started.  A prompt to pi either fits its pipe or waits for the
\* agent to read it, which no timeout covers.
Spawn(j) ==
  /\ task[j] = "running" /\ proc[j] = "none"
  /\ SetProc(j, "leader")
  /\ \E s \in IF kind[j] = "pi" THEN {"prompting", "prompted"} ELSE {"nothing"} : SetSaid(j, s)
  /\ UNCHANGED <<vars, kind>>

\* It is not: the policy forbids the command, the runtime is disabled, there is no
\* such program or directory.
Refuse(j) == proc[j] = "none" /\ Fail(j) /\ UNCHANGED processes

\* The agent reads the rest of its prompt.
Prompted(j) ==
  /\ task[j] = "running" /\ said[j] = "prompting" /\ proc[j] = "leader"
  /\ SetSaid(j, "prompted")
  /\ UNCHANGED <<vars, kind, proc>>

\* The next frame is read, and appended to the events of the job.
Frame(j) ==
  /\ task[j] = "running" /\ proc[j] = "leader" /\ said[j] \in {"prompted", "frame"}
  /\ \E s \in {"frame", "settled"} : SetSaid(j, s)
  /\ UNCHANGED <<vars, kind, proc>>

\* The leader exits, with or without descendants left; so do these at last.
Exit(j) ==
  /\ \/ proc[j] \in {"leader", "signalled"} /\ \E rest \in {"descendants", "gone"} : SetProc(j, rest)
     \/ proc[j] = "descendants" /\ SetProc(j, "gone")
  /\ UNCHANGED <<vars, kind, said>>

\* What the coroutine of j waits for has come: the end of the output or, from a
\* pi agent, the frame that says it has settled.
Over(j) ==
  \/ proc[j] = "gone" /\ said[j] # "prompting"
  \/ said[j] = "settled"

\* Variant: the exit of the leader is taken for the end.
CompleteEarly(j) ==
  /\ Over(j) \/ proc[j] = "descendants"
  /\ Succeed(j)
  /\ UNCHANGED processes
\* execute or run returns; a pi agent that is still there is sent SIGTERM.
Complete(j) ==
  /\ Over(j)
  /\ Succeed(j)
  /\ SetProc(j, IF proc[j] = "leader" THEN "signalled" ELSE proc[j])
  /\ UNCHANGED <<kind, said>>

\* ShellRunner.kill returns at once when the leader has exited, else it kills the
\* process group.  The runtimes have no kill.
Killed(j) == IF kind[j] = "shell" /\ proc[j] = "leader" THEN "gone" ELSE proc[j]

\* Variant: the timeout covers the leader only.
TimesOutWaiting(j) ==
  /\ task[j] = "running" /\ proc[j] = "leader" /\ ~Over(j) /\ said[j] # "prompting"
  /\ Fail(j)
  /\ SetProc(j, Killed(j))
  /\ UNCHANGED <<kind, said>>
\* wait_for ends: kill, and a TimeoutError that makes the job a failure.
TimesOut(j) ==
  /\ task[j] = "running" /\ proc[j] # "none" /\ said[j] \notin {"prompting", "settled"}
  /\ Fail(j)
  /\ SetProc(j, Killed(j))
  /\ UNCHANGED <<kind, said>>

\* A runtime fails in other ways: an exit status, a frame over the limit of the
\* stream, an event that cannot be written, a prompt to an agent that has gone.
AgentFails(j) ==
  /\ kind[j] # "shell" /\ proc[j] # "none" /\ said[j] # "settled"
  /\ said[j] = "prompting" => proc[j] # "leader"
  /\ Fail(j)
  /\ UNCHANGED processes

\* A cancellation is no TimeoutError: nothing is killed.
CancelWork(j) == Cancel(j) /\ UNCHANGED processes
CancelledWork(j) == Cancelled(j) /\ UNCHANGED processes

\* The node dies.  Its commands are in sessions of their own and may live on, as
\* may agents, or a service manager ends them too.  A record of an end that it was
\* writing is one it had come to: after the exit, or after the kill.
RestartNode ==
  /\ Restart
  /\ \A j \in Jobs : tail' = Rec(j, "succeeded") => Over(j)
  /\ LET left(j) == IF tail' = Rec(j, "failed") THEN Killed(j) ELSE proc[j]
     IN  \/ proc' = [j \in Jobs |-> left(j)]
         \/ proc' = [j \in Jobs |-> IF proc[j] = "none" THEN "none" ELSE "gone"]
  /\ UNCHANGED <<kind, said>>

ProcessNext ==
  \/ RestartNode
  \/ \E j \in Jobs :
       \/ Post(j) \/ Begin(j) \/ Spawn(j) \/ Refuse(j) \/ Prompted(j) \/ Frame(j)
       \/ Exit(j) \/ Complete(j) \/ TimesOut(j) \/ AgentFails(j)
       \/ CancelWork(j) \/ CancelledWork(j)

ProcessSpec == ProcessInit /\ [][ProcessNext]_allvars

\* The loop runs its tasks and the timer of wait_for fires.  Processes need never
\* say anything, read or exit.
ProcessFairness ==
  \A j \in Jobs :
    /\ WF_allvars(Begin(j)) /\ WF_allvars(Spawn(j) \/ Refuse(j))
    /\ WF_allvars(Complete(j)) /\ WF_allvars(TimesOut(j)) /\ WF_allvars(CancelledWork(j))
FairProcessSpec == ProcessSpec /\ ProcessFairness

-----------------------------------------------------------------------------
\* Every variable has its type, and only a job that started has processes.
ProcessTypeOK ==
  /\ TypeOK
  /\ kind \in [Jobs -> Kinds]
  /\ proc \in [Jobs -> Trees]
  /\ said \in [Jobs -> Talk]
  /\ \A j \in Jobs : task[j] = "ready" => proc[j] = "none"
  /\ \A j \in Jobs : said[j] # "nothing" => kind[j] = "pi" /\ proc[j] # "none"

\* What the store says of an ended job is true of its processes, whatever crash,
\* torn record or failing disk came between.  One that succeeded has printed all it
\* will print, or is an agent that has settled; a command that failed, by a timeout
\* in particular, has not left its leader running.
EndingsAreTrue ==
  \A j \in Jobs :
    /\ job[j] = "succeeded" => proc[j] = "gone" \/ said[j] = "settled"
    /\ job[j] = "failed" /\ kind[j] = "shell" => proc[j] # "leader"

\* A job ends even when its processes never do, as the timeouts do not depend on
\* them; the exceptions are a job the disk failed for and an agent that does not
\* read its prompt.
EveryWorkEnds ==
  \A j \in Jobs :
    job[j] \in Live ~> job[j] \notin Live \/ j \in raised \/ said[j] = "prompting"

\* README: "process-tree cancellation".
CancelledHasNoProcess ==
  \A j \in Jobs : job[j] = "cancelled" => proc[j] \in {"none", "gone"}

\* docs/PI_AGENT.md: on success "the events stream contains agent.rpc events (each
\* pi RPC frame) ending with an agent_settled frame".
SucceededHasSettled ==
  \A j \in Jobs : job[j] = "succeeded" /\ kind[j] = "pi" => said[j] = "settled"
=============================================================================
