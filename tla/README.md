# AgentNode in TLA+

AgentNode is one asyncio process per machine (a FastAPI application) that runs
commands, agents, terminal sessions, searches and file operations for its
clients, and that hands work to other AgentNodes over HTTP. This directory
models the parts of it whose correctness depends on the order in which things
happen, checks them with TLC and proves what matters most with TLAPS.

Paths such as `mesh/router.py` are relative to `src/agentnode/` of the repository.

## The system and its parts

| Part | State | Operations | What is hard | What makes it correct |
| --- | --- | --- | --- | --- |
| Task relay (`mesh/router.py`: `forward`) | `_active`, `_inflight`, the mesh settings; the handlers that wait for each other along a chain of nodes | accept or refuse, run here, hand on, answer, time out | chains of HTTP calls that time out one by one while the work goes on, restarts in the middle, settings edited under way, peers with local names | one run at most, no node twice, exact load figures, an answer for every task |
| Fan-out and delegation (`coordinate`, `delegate`) | the tasks and results of a batch | check, start, settle each leg, answer | peers that hang, die, refuse or answer late | one truthful entry per target, no sub-task upstream, always an answer |
| Job store (`core/jobs.py`) | `jobs`, `tasks`, `jobs.jsonl` | create and submit, run, update, cancel, load | torn and failing appends, restarts, cancellation against completion | no zombie, no second life, a restart finds what was there |
| Shell (`core/shell.py`) | `_procs`, the process tree of a command | execute, kill | timeout and cancellation with descendants alive | what a job says of its processes is true |
| Terminal sessions (`core/terminal.py`) | buffer, `cursor`, `evicted`, `closed` | start, pump, wait, read, write, close | two writers, a bounded buffer, a client that pages through it | lines in order, none twice, none lost but the evicted |
| Search sessions (`core/search.py`) | results, `complete`, `error`, a task and its thread or process | start, read, list, stop | a thread that outlives its cancelled task | pages that fit together; stopped means stopped |
| Documents (`plugins/documents`) and files (`core/files.py`) | the files | read, write, replace, move, merge | threads that rewrite one file through one temporary name | whole files, no lost update |
| Settings (`core/settings.py`) | the running configuration, the YAML file and its backup | view, set | a save that fails after the change, concurrent saves | a valid file at every moment, equal to what runs |
| Audit, history, events (`core/`) | files of JSON lines | emit, record, compact, read | appends that are cut short, compaction in place, line separators inside records | what ran is on record, the newest rows are kept, events are read in order and once |
| Agent runtimes (`agent/runtime.py`) | an external process per job | run | a protocol of prompt and frames, a timeout that does not cover all of it | success means the agent was done |
| Desktop and Office (`desktop/`, `office/`) | a worker process behind a pipe, which serves one call at a time, and a fallback inside the node | observe, act, Office calls | a worker that dies after it acted and before it answered, a node that restarts under its pipe, switches edited under way | ok without a warning means done once |
| Browser, code executor, services, system | none between calls | one request each | the outside world | - |
| HTTP and MCP interface (`app.py`, `core/http_security.py`) | none between calls | endpoints of the above | a body over the limit | - |

The parts interact like this. Clients and other nodes call the endpoints of
`app.py`. An endpoint authenticates, then calls the router, the job store or a
manager on the one event loop of the process, so everything between two awaits
is atomic; document, Office and desktop-graph endpoints run on threads. The
router reaches other nodes through the same endpoints: `forward` calls
`forward`, `coordinate` and `delegate` call `/shell` and `/agent`. `/agent`, and
`/shell` in the background, create jobs; a job runs a shell command or an agent
runtime. Administrators edit the settings that all of these read at run time.

## Modules

| Module | Models | State and actions |
| --- | --- | --- |
| `Mesh` | what all mesh operations share: peers, names, node ids, the visited path (`_check_trace`, `_peer_node_id`, `_is_upstream`) | constants and operators only |
| `TaskRelay` | the abstract promise of `POST /api/v1/mesh/forward` to the client of a task | `run[t]` and `answer[t]`; a step of a task's run and a step of its answer |
| `MeshRelay` | `MeshRouter.forward` and all it calls, on every node | a task has a chain of frames, one per handler: `Submit` (the client's request), `Refuse` (a check raises), `RunHere` and `Finish` (the local executor), `Relay`, `RelayFails`, `PeerAnswers`, `PeerLost`, `TimesOut` (`_forward_to`), `LoseRequest`, `Restart`, `EditSettings`; `active` and `inflight` are the router's counters |
| `MeshRelayProofs` | the theorems about `MeshRelay` | |
| `MeshFanout` | `MeshRouter.coordinate`, `delegate` and `_invoke`, and the `/shell` and `/agent` endpoints that answer them | `leg` is the coordinator's side of a call, `work` the peer's, `reply` the HTTP answer: `Submit`, `Start`, `Arrive`, `Finish`, `Deliver`, `Timeout`, `Break`, `PeerDies`, `Crash`, `Return` |
| `MeshFanoutProofs` | the theorems about `MeshFanout` | |
| `JobStore` | `JobStore` and `jobs.jsonl` | `job`, `task` and the file as a reader sees it (`disk`, `tail`): `Create`, `Start`, `Succeed`, `Fail`, `Cancel`, `Cancelled`, `Restart` |
| `JobProcesses` | the job store composed with `ShellRunner.execute` and `kill`, `AgentRuntimeManager.run` for generic and pi agents, and process trees | `proc` is the tree of a job, `said` how far a pi agent has come; the actions of `JobStore` with what they do to processes: `Post`, `Begin`, `Spawn`, `Refuse`, `Prompted`, `Frame`, `Exit`, `Complete`, `TimesOut`, `AgentFails`, `CancelWork`, `CancelledWork`, `RestartNode` |
| `JobProofs` | the theorems about `JobStore` and `JobProcesses` | |
| `TerminalSession` | one session, its pumps and a client that pages | `Write`, `Exit`, `Pump`, `PumpEnds`, `Wait`, `Read`, `Close` |
| `TerminalProofs` | the theorems about `TerminalSession` | |
| `SearchSessions` | searches, their tasks, the threads they share, ripgrep, and clients that page | `Start`, the task (`RipgrepFinds`, `RipgrepPassesOver`, `RipgrepEnds`, `RipgrepBreaks`, `Resume`, `ResumeRaised`, `Cancelled`), its thread (`Begin`, `ThreadFinds`, `ThreadPassesOver`, `ThreadReturns`, `ThreadRaises`), `Read`, `Stop`; `results` is the length of the list, which only grows at its end, and `missed` counts the matches that were passed over without an error |
| `SearchSessionsProofs` | the theorems about `SearchSessions` | |
| `AtomicStore` | the abstract promise of operations that write whole files | `file[f]`, the updates in a file; a file changes in the step in which an operation succeeds |
| `FileStore` | the document plugin, the file endpoints and the settings on one file system | names and inodes (`dir`, `data`), operations between system calls (`pc`, `loaded`, `fd`), the running settings: `Begin`, `Reject`, `Load`, `Open`, `Save`, `SaveFails`, `Rename`, `MoveClears`, `MoveRenames`, `Restart` |
| `FileStoreProofs` | the theorems about `FileStore` | |
| `DesktopWorker` | `DesktopManager`, `OfficeManager`, the worker of both and the operations inside the node | a call has its request, its end of the pipe (`link`, `reply`), what was done for it (`acted`) and its answer; `loop` is who holds the event loop, on which desktop input waits for the pipe. The actions follow a call from the switches through the pipe to its answer, the worker from one connection to the next, and the administrator, the deaths of the worker and of the node |
| `DesktopWorkerProofs` | the theorems about `DesktopWorker` | |
| `Logs` | `AuditLog`, `ToolHistory` and `EventStore`, the calls of `/shell` that write the first two, and a client that reads a job's events | a file is its lines, readable or not, and whether the last one is unfinished: `Request`, `Refuse`, `Finish`, `FinishUnrecorded`, `FailUnrecorded`, `Emit`, `EmitFails`, `Poll`, `Dies` |
| `LogsProofs` | the theorems about `Logs` | |
| `MC_*` | instances for TLC | |

Each step of a module is what one coroutine does between two awaits; that is
where the event loop may switch. A definition called *Variant* in a comment is
not part of a specification: it is a definition of the module as a plausible
mistake would have it, and putting it in the place of the one that follows it
violates a property. This is how each property was shown to say something.

## Runs

| Run | Question | Instance |
| --- | --- | --- |
| `relay` | Is the promise to the client kept, are the counters exact, is everybody who waits for a task answered in time, under every fault? | three nodes that know each other by other names than their ids, one policy of each kind, two tasks, nine kinds of request, one of them for an agent that may never end; timeouts, lost requests, restarts, cancelled jobs |
| `relay_edits` | Do loop avoidance and the budget survive edits of the settings and an undeclared node id? | three nodes that all distribute, two tasks, two edits, timeouts |
| `fanout` | Is every batch answered, completely and truthfully? | one coordinator with five peers: two that work, a bad token, no token, an alias of itself; thirteen kinds of request |
| `jobs` | Is a job ever left behind, brought back or given another ending, does what it says agree with its processes, does it end when they do not? | two jobs that run commands or agents, one with a result that is no single line; failing appends, crashes in the middle of one, processes that exit or never do, agents that stop reading or talking |
| `shell_cancel` | violated: "process-tree cancellation" (README.md:197) | two jobs, no faults |
| `agent_settled` | violated: events "ending with an `agent_settled` frame" on success (docs/PI_AGENT.md:157-159) | two jobs, no faults |
| `terminal` | Are lines numbered, kept and paged correctly? | a buffer of three lines, up to three lines per pipe, pages of one or two |
| `search` | Does a client that pages to the end have everything but what the search passed over, does a stop start nothing more, does every search end? | two sessions, one worker thread, seven kinds of search: by name, with and without ripgrep, a maximum of zero, below, at and above the matches, a pattern that only one engine knows; directories that cannot be listed, lines over the limit, files and records that cannot be read, a ripgrep that fails or is killed |
| `files` | Are files whole at every moment, are settings and their file the same, are updates atomic where writers keep apart? | three operations of twelve kinds on two documents and the configuration, full disks, crashes between any two system calls |
| `workers` | Is a call that is answered with ok done, and done once; is nothing repeated that the worker has answered; does every call return? | two calls, of desktop input on the event loop, of a desktop graph and of Office on threads; a worker that dies and comes back or not, a node that restarts, one edit of the switches |
| `logs` | Is what ran on record, does a compaction keep the newest rows, does a client that pages see every event once? | two calls and a job of three events; two faults, each an append that fails, a compaction that is cut short or a death of the node, after which the job may be unknown; a history that is compacted at three lines to two, pages of two events |
| `terminal_paging` | violated: "cursor paging" (README.md:198) for a client that uses the returned cursor | the same |

Bounds. Three nodes are the smallest mesh in which a task can go through one
node to another and come back; a second task is what makes the load of a node
more than its own handler. Chains are bounded by the loop check itself
(`MaxChain`), not by a bound of the model. One batch is enough for the fan-out,
as batches share nothing. Two jobs are what it takes to damage one record with
another. In `TerminalSession`
the lines of a process are bounded by `MaxLines`, so that the buffer overflows
by up to three lines; `BufferSize` stands for 8000. Two searches and one worker
are the smallest case in which one search waits for the thread of another. In
`FileStore` two operations meet on one temporary name and a third comes upon
what they, a crash or a full disk have left; operations are interchangeable, so
`files` uses their symmetry (it checks no liveness). In `DesktopWorker` two calls
are what it takes to wait for each other's turn at the pipe and at the loop; the
switches may change once (`MaxEdits`), which is between any two steps of both
calls. In `Logs` two faults (`MaxFaults`) tear two lines of one file, or one and
the rewriting of it, and the third row is the first that a compaction drops.

Deadlock is not checked: all of these systems may come to rest.

Fairness. The event loop runs what is ready and its timers fire: that is the
weak fairness of the handlers' own steps, of `Timeout` and `TimesOut`, and of
the pumps. Nothing is assumed of peers, of the network, of commands or of
agents. In `MeshRelay` a sent request is handled or lost, and a local run ends if the
timeout of its executor covers it (`timed`, an attribute of the request): commands
always do, an agent that does not read its prompt may not (`agent/runtime.py:28`), and
its node then never answers. That nobody else along the chain waits with it is due to
the timeout of the HTTP client, as `EveryCallAnswered` shows. In `JobProcesses` processes need never say
anything, read or exit; that a job ends all the same is what `EveryWorkEnds`
shows, but for an agent that does not read its prompt, which no timeout covers.
In `SearchSessions` ripgrep and the threads reach the end of a finite tree, or end
before it, and the executor starts what is queued when a worker is free. In `DesktopWorker` a worker
that is alive serves the call it has and then accepts the next, and an operation
inside the node ends; nobody need log on again, so a worker that is dead may
stay so. In `Logs` a client that wants the events goes on polling, while the node knows
the job.

## Proofs

Every safety property, action property and refinement that a run checks on its
instance is proved for all values of the constants, under the fairness-free
specification of its module. The theorems rest on the assumptions that the modules
name: the types of the constants, a room of at least one line in a bounded buffer or
file, and that the values that stand for nothing (`None`, a torn line) are none of
the values that stand for something. TLC evaluates them in every run. The invariants
were checked on the instances of the runs before they were proved.

`MeshRelayProofs`, for every number of nodes, tasks and peers, any settings, edits,
requests and set of faults:

- `TypeCorrect`, `LoopFreedom` (`NoNodeTwice`), `AtMostOneRun`
  (`RunsAtMostOnce`), `NoReforwarding` (`NonForwardableStops`), `BudgetFixed`
  (`BudgetFixedAtFirstHandOff`), `ResultIsFinal` (`NoWorkAfterResult`),
  `DeclaredIdsSuffice` (`RelayNeverLoops`), `HandOffsAccepted`
  (`RelayedNeverRefused`), `Implementation` (`KeepsPromise`: the nodes implement
  `TaskRelay`) and `ExactLoad` (`LoadIsExact`).

None of the properties is inductive. The invariant `IInv` adds what the frames of a
chain tell about each other: each frame was called by the one before it, with its path
and its budget (`Linked`, `Budgeted`); all but the last have handed the task off
and none of these has run it (`HandedOff`, `Coherent`); a frame that took the
task on has a node id that is not on its path (`NeverBack`); a result comes
only from a chain that is done (`Settled`); an answer on its way back says what
became of the task (`Honest`); and, in a mesh where all peers are configured, each
call has the token and the budget its receiver asks for (`Welcome`). `Invariance`
shows that every action preserves it. For the refinement a step is sorted by what it
does to a chain, a frame that moves on or a call that is opened, and each sort is a
step of the abstract relay or none. `ExactLoad` needs a second invariant (`Counted`): the
counters of a node are the cardinalities of the sets of its frames, and each action
moves the counter and the set alike, the refusals, timeouts and restarts included.

`JobProofs`, for any set of jobs and any faults. About the store by itself: type
correctness, `NoZombie`, `WorkIsShown`, `RestartFindsJobs` and the action property
`LifeCycle`. `RestartFindsJobs` and `LifeCycle` speak of what a restart would
find and are not inductive. The invariant adds that a job whose append raised has
no task any more (`RaisedIsOver`); that an ending in the file, or in a record that
misses only its newline, is the ending in memory (`Recorded`); and that memory and
file agree as long as no append was cut short (`Undamaged`). A step is proved for
a successful and a failing append in general (`SavedStep`, `RaisedStep`), for the
states a job may have when it comes to one (`Unended`), and then for each action.
About jobs with processes: they implement the store
(`JobsAreStore`: every step is one of the store or leaves it alone), which brings
the invariant of the store along. To it `EndingsFit` is added: an ending fits the
processes in memory, and also in a record that was left behind the last newline,
because a restart takes it from there. `TrueEndings` (`EndingsAreTrue`) follows.

`MeshFanoutProofs` proves type correctness and the four safety properties of
the run `fanout`, for any mesh, requests and faults. The invariant is one formula about one
leg (`Fit`): the coordinator's view, the peer's work and the reply may only be
apart in certain ways, which is why a late answer, a crash or a broken connection
is no exception to `OkIsBacked`. Each action changes one leg (`LegStep`) or a
batch as a whole (`BatchStep`).

`FileStoreProofs`, for any documents, operations and faults: the types, among
them that two names never share a file; that there always is a configuration
file (`ConfigExists`); `FilesWhole` (`WholeFiles`), `SettingsInForce`
(`ConfigIsRunning`) and `Implementation` (`KeepsDocuments`: files that are not exposed
behave as those of `AtomicStore`). A first invariant (`IInv`) says that an operation
has made no file before it opens one (`Unmade`). The second (`SInv`, shown by
`Separation`) is about two
operations at a time: no two that are at work share a file that is not exposed
(`Alone`), and therefore the temporary file of such an operation is its own
(`OwnTemp`), what it is about to put in place is whole (`SavedWhole`), and what it has
read is still what the file holds (`UpToDate`). The step of one operation is shown to
leave alone all that the others rely on (`Untouched`, `Unopened`).

`SearchSessionsProofs`, for any number of sessions and workers and any searches:
`TypeCorrect` (`TypeOK`, with the bound on the pool), `WholeResults`
(`WholeWhenDone`) and the action property `StopIsFinal` (`NothingBeginsAfterStop`).
The invariant says of each session where its thread may be in each phase
(`Threaded`), that the matches found, passed over and to come add up to what there is,
up to the maximum (`Counted`), and what a client may conclude from the fields (`Told`). Of
the pool it says that the threads at work are a finite set of at most `Workers`.

`DesktopWorkerProofs` proves type correctness, `OkMeansDoneOnce` and
`TwiceOnlyIfUnheard` for any number of calls, edits and deaths. The invariant
says of each call what may have been done for it at each point of its way
(`CallInv`), and of the worker that it holds the request it serves.

`TerminalProofs`, for a buffer of any size, any limits and any number of lines: the
types, `RecentBuffer` (`BufferIsRecent`), `LinesOnce` (`NeverTwice`), whichever
cursor the client goes on at, and `PagesComplete` (`PagesAreComplete`) for a client
that goes on at the last event it got; for the other client it is false, as the run
`terminal_paging` shows. A page is a run of consecutive numbers that starts behind the
cursor or where the buffer does (`ChunkSpans`), so a client's lines go on where they
ended (`Follows`), but for a gap that was evicted.

`LogsProofs`, for any number of calls, events and faults, any page and any bound of the
history: `RanAreAudited` (`RanIsAudited`), `EventsInOrder` (`SeenInOrder`),
`CallsShownOnce` (`NeverTwice`) and `NewestKept` (`KeepsNewest`). First comes the shape
of a file after an append: one that succeeds ends with the record (`Completes`), one
that fails has it at most as an unfinished last line (`Tears`), and both touch no line but an
unfinished last one (`Extends`). Each log then has an invariant of its own and a
classification of the steps by what they do to it:

- `AuditInv`: for each command that ran and is not in the log there is a torn line, and
  one more while a torn line is the last, as it will spoil the next record;
- `EventsInv`: lines are events in order up to the first spoiled one, and the client
  has read a prefix of those;
- `HistoryInv`: no two lines show the same call, though a failed append is repeated,
  because the first attempt is unfinished and the second spoils it (`OnlyLast`); no
  record is further from the end than its row from the last one (`Near`), and every
  recent row that is missing has a torn line to account for it (`Kept`), also after a
  compaction has dropped the oldest lines.

Only model-checked is liveness, which under fairness is out of the prover's reach:
`EveryCallAnswered`, `EveryBatchReturns`, `EveryWorkEnds`, `OutputDrains`,
`EverySearchEnds`, `EveryCallReturns` and `CatchesUp`.

## Where the code and its documents differ

The three violated runs show each a sentence of the documentation that the code
does not keep; `PROJECT.json` has the lines. Met while modelling and not the
subject of a run:

- Mesh: `distribute` may pick a peer without a token, which cannot be called
  (`mesh/router.py:45`, README.md:68); with `parallel:false` all peers are called
  at once and only awaited in turn (`mesh/router.py:139`, docs/API.md:20); an
  explicit target is followed even with a spent budget (`mesh/router.py:95`,
  README.md:69); the job of a relayed agent task carries no hops (`app.py:98`,
  README.md:73-76).
- Jobs: a timeout kills nothing once the leader of a process group has exited
  (`core/shell.py:23`); an agent whose output ends is a success whatever its exit
  status (`agent/runtime.py:33`), and the prompt is sent outside the timeout
  (`agent/runtime.py:28`); a record with a line separator is lost to a restart
  (`core/jobs.py:11`).
- Search: a stopped search is complete while its thread still adds results
  (`core/search.py:202`); an incomplete search is shown as a complete one: records of
  ripgrep that are not UTF-8 are dropped (`core/search.py:110`), whatever ends it,
  a pattern it rejects included, is no error (`core/search.py:112`), and files that
  cannot be read are passed over (`core/search.py:136`, `core/search.py:153`).
- Files: two document operations on one file share its temporary name and may
  leave a torn file (`plugins/documents/manager.py:66`); a move with overwrite
  onto itself, or from a source that is missing, deletes its destination
  (`core/files.py:189`); a setting that could not be saved stays in force and is
  saved with the next one (`core/settings.py:49`).
- Desktop and Office: the worker reads its configuration once
  (`desktop/worker.py:10`), while docs/API.md:117 says an edit "applies the
  change live without restart"; Office with the fallback repeats a call whose
  error the worker has reported (`office/manager.py`).
- Relayed agent tasks: the HTTP timeout of 60 s is the only bound on a hand-off whose
  agent does not read its prompt (`agent/runtime.py:28`, `app.py:101`); a client that
  waits for the node that runs it waits for good.
- Events: a job that a restart has lost has its events file and nobody who may read
  it (`app.py:166`).
- Logs: `tail` with a number that is not positive returns other lines than the
  last ones (`core/audit.py:13`); `usage` counts only the last 1000 rows
  (`core/history.py:68`); only the shell requests of the REST interface are in
  the audit log (`app.py:176`).

## Not modelled, and the plan

Left out for good: parsing and extraction of documents, COM, UI automation, OCR,
the browser protocol, services, the console and the command line. They are calls
without state of their own: what they do is an outcome in the modules that call
them. The owner checks of jobs and sessions are lookups. Readers of files,
listings, and `tail` and `usage` of the logs change nothing. `taskkill` on
Windows is left out of `JobProcesses`, which is about POSIX process groups.

Next, in this order:

1. Theorems about what the violated runs show: which clients and which endings are
   safe although the documented sentence is not (a client that pages by the last event
   has its theorem; a cancelled command and a pi agent that ends early do not).
2. Facts that hold at every restart and that no run states yet: what of a search, a
   worker call or a log survives one.
