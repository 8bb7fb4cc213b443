--------------------------- MODULE SearchSessions ---------------------------
(***************************************************************************)
(* Progressive searches of an AgentNode (core/search.py).  A session is an *)
(* asyncio task that waits for ripgrep or for a thread of the default      *)
(* executor, which has few of them, while the list of results grows and    *)
(* its client pages through it.  stop cancels the task; a thread that is   *)
(* at work knows nothing of that.                                          *)
(*                                                                         *)
(* Results are only ever appended, so the list is kept as its length.      *)
(***************************************************************************)
EXTENDS Integers, FiniteSets

CONSTANTS
  Sessions,    \* session ids
  Requests,    \* the searches clients ask for
  Workers,     \* threads of the default executor
  Lengths,     \* page lengths clients ask for
  Faults,      \* "walk": listing a directory raises; "line": ripgrep prints a line over
               \* the limit of the stream; "skip": a match is passed over without an
               \* error; "exit": ripgrep fails or is killed before its end
  None         \* no such session, no error

\* names: paths that match; text and office: lines that match in plain files and in
\* Office files.  A pattern may be one for ripgrep ("rg") or for Python ("re") only.
Request == [type : {"files", "content"}, ripgrep : BOOLEAN, pattern : SUBSET {"rg", "re"},
            max : Int, names : Nat, text : Nat, office : Nat]

ASSUME RequestsAssumption == Requests \subseteq Request /\ None \notin Request
ASSUME NoneIsNoError == None \notin {"cancelled", "exception"}
ASSUME WorkersAssumption == Workers \in Nat \ {0} /\ Lengths \subseteq Nat \ {0}
ASSUME FaultsAssumption == Faults \subseteq {"walk", "line", "skip", "exit"}

VARIABLES
  search,      \* search[s]: what s searches for
  phase,       \* phase[s]: what the task of s is awaiting
  left,        \* left[s]: matches its ripgrep or thread has not come to yet
  thread,      \* thread[s]: the thread that works for s
  cancelling,  \* cancelling[s]: whether a CancelledError is on its way to the task
  results, complete, error,  \* the fields of the session
  missed,      \* history, missed[s]: matches passed over without an error
  stopped,     \* history: sessions stopped before their search was over
  got,         \* got[s]: results the client of s has received
  seen         \* seen[s]: whether its last page told it that there is no more

work == <<phase, left, thread, missed>>
fields == <<results, complete, error>>
client == <<got, seen>>
vars == <<search, work, cancelling, fields, stopped, client>>

Each(value) == [s \in Sessions |-> value]
Init ==
  /\ search = Each(None)
  /\ phase = Each("none") /\ left = Each(0) /\ thread = Each("none")
  /\ cancelling = Each(FALSE)
  /\ results = Each(0) /\ complete = Each(FALSE) /\ error = Each(None)
  /\ missed = Each(0) /\ stopped = {}
  /\ got = Each(0) /\ seen = Each(FALSE)

Full(s) == results[s] >= search[s].max

(***************************************************************************)
(* The task of a session.                                                  *)
(***************************************************************************)
Awaits(s, p, n) ==
  /\ phase' = [phase EXCEPT ![s] = p]
  /\ left' = [left EXCEPT ![s] = n]
  /\ thread' = [thread EXCEPT ![s] = IF p = "ripgrep" THEN @ ELSE "queued"]

\* The task ends, by whatever way, with this error.
Completes(s, e) ==
  /\ phase' = [phase EXCEPT ![s] = "done"]
  /\ complete' = [complete EXCEPT ![s] = TRUE]
  /\ error' = [error EXCEPT ![s] = e]

\* POST /api/v1/searches; the task gets to its first await before anybody knows
\* the id.
Start(s, r) ==
  /\ search[s] = None
  /\ search' = [search EXCEPT ![s] = r]
  /\ IF r.type = "files" THEN Awaits(s, "names", r.names)
     ELSE IF ~r.ripgrep THEN Awaits(s, "text", r.text)
     ELSE Awaits(s, "ripgrep", r.text)
  /\ UNCHANGED <<missed, cancelling, fields, stopped, client>>

\* The search of s comes to its next match, which becomes a result.
Finds(s) ==
  /\ results' = [results EXCEPT ![s] = @ + 1]
  /\ left' = [left EXCEPT ![s] = @ - 1]
  /\ UNCHANGED <<search, phase, thread, missed, cancelling, complete, error, stopped, client>>

\* It passes over it.
PassesOver(s) ==
  /\ "skip" \in Faults
  /\ missed' = [missed EXCEPT ![s] = @ + 1]
  /\ left' = [left EXCEPT ![s] = @ - 1]
  /\ UNCHANGED <<search, phase, thread, cancelling, fields, stopped, client>>

\* ripgrep knows the pattern and goes on searching.
RipgrepSearches(s) ==
  phase[s] = "ripgrep" /\ "rg" \in search[s].pattern /\ left[s] > 0 /\ ~cancelling[s]

\* ripgrep prints a match.
RipgrepFinds(s) == RipgrepSearches(s) /\ ~Full(s) /\ Finds(s)

\* It cannot read the file, or the record it prints does not hold the path and the line
\* as text, because they are not UTF-8.
RipgrepPassesOver(s) == RipgrepSearches(s) /\ ~Full(s) /\ PassesOver(s)

\* The search of the plain files is over: the Office files are next, unless there
\* are results enough.  What it did not come to stays unfound.
TextDone(s) ==
  IF Full(s)
  THEN Completes(s, None) /\ UNCHANGED <<left, thread, missed, results>>
  ELSE /\ Awaits(s, "office", search[s].office)
       /\ missed' = [missed EXCEPT ![s] = @ + left[s]]
       /\ UNCHANGED fields

\* ripgrep has ended, or is terminated at the first line it prints beyond the
\* maximum.  Nobody looks at its exit status: one that rejects the pattern, fails or
\* is killed has ended like any other.
RipgrepEnds(s) ==
  /\ phase[s] = "ripgrep" /\ ~cancelling[s]
  /\ left[s] = 0 \/ Full(s) \/ "rg" \notin search[s].pattern \/ "exit" \in Faults
  /\ TextDone(s)
  /\ UNCHANGED <<search, cancelling, stopped, client>>

\* The stream raises; ripgrep is left to itself.
RipgrepBreaks(s) ==
  /\ "line" \in Faults
  /\ RipgrepSearches(s)
  /\ Completes(s, "exception")
  /\ UNCHANGED <<search, left, thread, missed, cancelling, results, stopped, client>>

\* Variant: the session is complete before the Office files are searched.
ResumeEarly(s) ==
  /\ phase[s] \in {"names", "text", "office"} /\ ~cancelling[s]
  /\ thread[s] = "returned"
  /\ IF phase[s] = "text" /\ ~Full(s)
     THEN /\ Awaits(s, "office", search[s].office)
          /\ complete' = [complete EXCEPT ![s] = TRUE] /\ UNCHANGED <<missed, results, error>>
     ELSE Completes(s, None) /\ UNCHANGED <<left, thread, missed, results>>
  /\ UNCHANGED <<search, cancelling, stopped, client>>
\* The thread the task waits for has returned.
Resume(s) ==
  /\ phase[s] \in {"names", "text", "office"} /\ ~cancelling[s]
  /\ thread[s] = "returned"
  /\ IF phase[s] = "text" THEN TextDone(s)
     ELSE Completes(s, None) /\ UNCHANGED <<left, thread, missed, results>>
  /\ UNCHANGED <<search, cancelling, stopped, client>>

\* Variant: an exception goes past the end of the session.
ResumeRaising(s) ==
  /\ phase[s] \in {"names", "text", "office"} /\ ~cancelling[s]
  /\ thread[s] = "raised"
  /\ phase' = [phase EXCEPT ![s] = "done"]
  /\ error' = [error EXCEPT ![s] = "exception"]
  /\ UNCHANGED <<search, left, thread, missed, cancelling, results, complete, stopped, client>>
\* It has raised.
ResumeRaised(s) ==
  /\ phase[s] \in {"names", "text", "office"} /\ ~cancelling[s]
  /\ thread[s] = "raised"
  /\ Completes(s, "exception")
  /\ UNCHANGED <<search, left, thread, missed, cancelling, results, stopped, client>>

\* Variant: a thread that has not begun stays in the queue.
CancelledQueued(s) ==
  /\ cancelling[s] /\ phase[s] # "done"
  /\ Completes(s, "cancelled")
  /\ UNCHANGED <<search, left, thread, missed, cancelling, results, stopped, client>>
\* The CancelledError arrives, also when what the task waited for has just ended.
\* A thread that has not begun is taken out of the queue, any other goes on.
Cancelled(s) ==
  /\ cancelling[s] /\ phase[s] # "done"
  /\ Completes(s, "cancelled")
  /\ thread' = [thread EXCEPT ![s] = IF @ = "queued" THEN "none" ELSE @]
  /\ UNCHANGED <<search, left, missed, cancelling, results, stopped, client>>

(***************************************************************************)
(* Threads.                                                                *)
(***************************************************************************)
SetThread(s, status) == thread' = [thread EXCEPT ![s] = status]
Working == {s \in Sessions : thread[s] = "running"}

\* A worker is free.
Begin(s) ==
  /\ thread[s] = "queued" /\ Cardinality(Working) < Workers
  /\ SetThread(s, "running")
  /\ UNCHANGED <<search, phase, left, missed, cancelling, fields, stopped, client>>

ThreadSearches(s) == thread[s] = "running" /\ "re" \in search[s].pattern /\ left[s] > 0

\* Variant: the inner loop does not look at the maximum.
ThreadFindsMore(s) == ThreadSearches(s) /\ Finds(s)
\* One more result of the phase, up to the maximum.
ThreadFinds(s) == ThreadSearches(s) /\ ~Full(s) /\ Finds(s)

\* A directory or a file cannot be read, or a file is too large or no document.
ThreadPassesOver(s) == ThreadSearches(s) /\ ~Full(s) /\ PassesOver(s)

ThreadReturns(s) ==
  /\ thread[s] = "running" /\ "re" \in search[s].pattern
  /\ left[s] = 0 \/ Full(s)
  /\ SetThread(s, "returned")
  /\ UNCHANGED <<search, phase, left, missed, cancelling, fields, stopped, client>>

\* The pattern does not compile, or a directory cannot be listed.
ThreadRaises(s) ==
  /\ thread[s] = "running"
  /\ "re" \notin search[s].pattern \/ "walk" \in Faults
  /\ SetThread(s, "raised")
  /\ UNCHANGED <<search, phase, left, missed, cancelling, fields, stopped, client>>

(***************************************************************************)
(* Requests about a session.                                               *)
(***************************************************************************)
\* SearchManager.read by a client that goes on from where its last page ended.  A
\* thread may append during read; has_more is computed last, so that this only
\* ever makes it true.
Read(s, length) ==
  /\ search[s] # None
  /\ LET n == IF results[s] - got[s] < length THEN results[s] - got[s] ELSE length
     IN  /\ got' = [got EXCEPT ![s] = @ + n]
         /\ seen' = [seen EXCEPT ![s] = complete[s] /\ got[s] + n = results[s]]
  /\ UNCHANGED <<search, work, cancelling, fields, stopped>>

\* SearchManager.stop.
Stop(s) ==
  /\ search[s] # None
  /\ complete' = [complete EXCEPT ![s] = TRUE]
  /\ IF phase[s] = "done" THEN UNCHANGED <<cancelling, stopped>>
     ELSE /\ cancelling' = [cancelling EXCEPT ![s] = TRUE]
          /\ stopped' = stopped \cup {s}
  /\ UNCHANGED <<search, work, results, error, client>>

Loop(s) ==
  \/ RipgrepFinds(s) \/ RipgrepPassesOver(s) \/ RipgrepEnds(s) \/ RipgrepBreaks(s)
  \/ Resume(s) \/ ResumeRaised(s) \/ Cancelled(s)
Thread(s) ==
  Begin(s) \/ ThreadFinds(s) \/ ThreadPassesOver(s) \/ ThreadReturns(s) \/ ThreadRaises(s)

Next ==
  \E s \in Sessions :
    \/ \E r \in Requests : Start(s, r)
    \/ \E length \in Lengths : Read(s, length)
    \/ Stop(s) \/ Loop(s) \/ Thread(s)

Spec == Init /\ [][Next]_vars

\* ripgrep and the threads come to the end of a finite tree, the executor starts
\* what is queued, and the loop resumes a task whose wait is over.
Fairness == \A s \in Sessions : WF_vars(Loop(s)) /\ WF_vars(Thread(s))
FairSpec == Spec /\ Fairness

-----------------------------------------------------------------------------
(***************************************************************************)
(* Properties.                                                             *)
(***************************************************************************)
\* Every variable has its type, no session has more results than it was to have,
\* and no more threads work than there are.
TypeOK ==
  /\ search \in [Sessions -> Requests \cup {None}]
  /\ phase \in [Sessions -> {"none", "names", "ripgrep", "text", "office", "done"}]
  /\ left \in [Sessions -> Nat] /\ results \in [Sessions -> Nat]
  /\ thread \in [Sessions -> {"none", "queued", "running", "returned", "raised"}]
  /\ cancelling \in [Sessions -> BOOLEAN] /\ complete \in [Sessions -> BOOLEAN]
  /\ error \in [Sessions -> {None, "cancelled", "exception"}]
  /\ missed \in [Sessions -> Nat] /\ stopped \subseteq Sessions
  /\ got \in [Sessions -> Nat] /\ seen \in [Sessions -> BOOLEAN]
  /\ \A s \in Sessions : results[s] > 0 => results[s] <= search[s].max
  /\ Cardinality(Working) <= Workers

\* All there is to find for s.
Matches(r) == IF r.type = "files" THEN r.names ELSE r.text + r.office

\* A client that has paged to the end of a session without an error, which nobody
\* stopped, has everything the search did not pass over, or as many results as it
\* asked for: complete comes after the last result of every phase, also for one that
\* read before and after it.  (Nothing tells the client what was passed over: a file
\* that cannot be read, a record that is not UTF-8, a ripgrep that failed.)
WholeWhenDone ==
  \A s \in Sessions :
    seen[s] /\ s \notin stopped /\ error[s] = None =>
      /\ got[s] = results[s]
      /\ results[s] + missed[s] = Matches(search[s]) \/ results[s] >= search[s].max

\* Once a stop has taken effect nothing begins to work for the session: of its
\* phases, only the thread that was running may go on to its end.
NothingBeginsAfterStop ==
  [][\A s \in stopped : phase[s] = "done" =>
       /\ phase'[s] = "done"
       /\ thread'[s] = "running" => thread[s] = "running"
       /\ results'[s] # results[s] => thread[s] = "running"]_vars

\* Every search completes and gives its thread back, whatever was stopped, failed
\* or waited for a worker.
EverySearchEnds ==
  \A s \in Sessions :
    search[s] # None ~> complete[s] /\ phase[s] = "done" /\ thread[s] \notin {"queued", "running"}
=============================================================================
