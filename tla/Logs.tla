--------------------------------- MODULE Logs ---------------------------------
(***************************************************************************)
(* What a node writes down as lines of JSON: the audit log, the history of *)
(* tool calls, and the events of a job, which a client reads page by page. *)
(*                                                                         *)
(* All of it is appended on the event loop, without an await, so appends   *)
(* never interleave.  They can fail or be cut short, by a full disk or the *)
(* death of the node, and the next append then goes on in the same line.   *)
(* Characters that are not ASCII are written as they are, so a record may  *)
(* hold a line separator and be two lines to splitlines().                 *)
(***************************************************************************)
EXTENDS Integers, Sequences, SequencesExt, FiniteSetsExt

CONSTANTS
  Calls,       \* calls of POST /shell
  MaxRecords,  \* max_records of the history
  MaxSize,     \* the size that makes it compact, in lines
  PageSize,    \* limit of EventStore.read
  MaxEvents,   \* bound of the model: events of the job
  MaxFaults    \* bound of the model: appends that fail and deaths of the node

ASSUME BoundsAssumption ==
  /\ {MaxRecords, MaxSize, PageSize} \subseteq Nat \ {0}
  /\ {MaxEvents, MaxFaults} \subseteq Nat
ASSUME CallsAssumption == Calls \subseteq Nat \ {0}

VARIABLES
  audit,       \* the files
  history,
  events,
  phase,       \* phase[c]: where the call is
  rows,        \* the rows of the history, in the order they were begun
  rewriting,   \* whether a compaction was ever cut short
  torn,        \* torn[f]: how many appends left an unfinished line in f
  emitted,     \* events written whole
  jobOver,     \* whether the job that emits them has ended
  known,       \* whether the node finds the job
  cursor,      \* of the client that reads them
  seen,        \* what it has read
  faults

vars == <<audit, history, events, phase, rows, rewriting, torn, emitted, jobOver, known, cursor, seen,
          faults>>
calls == <<audit, history, phase, rows, rewriting>>
job == <<events, emitted, jobOver, known, cursor, seen>>

\* A file: its lines, and whether the last one lacks its end.  A line is a record
\* or cannot be read.
Bad == 0
File(lines, open) == [lines |-> lines, open |-> open]
Empty == File(<<>>, FALSE)

\* Variant: an append first ends the line that an earlier one left.
JoinedOnNewLine(f, new) == f.lines \o new
\* What is appended goes on where the file ends.
Joined(f, new) ==
  IF f.open /\ new # <<>> THEN Front(f.lines) \o <<Bad>> \o Tail(new) ELSE f.lines \o new

\* A record as lines; and what there may be of it when its append fails.
Lines(r, split) == IF split THEN <<Bad, Bad>> ELSE <<r>>
Pieces(r, split) ==
  {File(<<Bad>>, TRUE), File(Lines(r, split), TRUE)} \cup (IF split THEN {File(<<Bad>>, FALSE)} ELSE {})

Written(f, r, split) == File(Joined(f, Lines(r, split)), FALSE)
CutShort(f, r, split) ==
  {f} \cup {File(Joined(f, x.lines), x.open) : x \in Pieces(r, split)}

Init ==
  /\ audit = Empty /\ history = Empty /\ events = Empty
  /\ phase = [c \in Calls |-> "new"]
  /\ rows = <<>> /\ rewriting = FALSE
  /\ torn = [f \in {"audit", "history", "events"} |-> 0]
  /\ emitted = 0 /\ jobOver = FALSE /\ known = TRUE
  /\ cursor = 0 /\ seen = <<>>
  /\ faults = 0

\* An append to f, now g, has failed.
Fault == faults < MaxFaults /\ faults' = faults + 1
Tore(f, g) == torn' = [torn EXCEPT ![f] = @ + (IF g.open THEN 1 ELSE 0)]

(***************************************************************************)
(* Calls: the audit log, then the command, then the history.               *)
(***************************************************************************)
\* Variant: a call whose audit record fails is made all the same.
RefuseLeniently(c) ==
  /\ phase[c] = "new" /\ Fault
  /\ audit' \in CutShort(audit, c, FALSE) /\ Tore("audit", audit')
  /\ phase' = [phase EXCEPT ![c] = "running"]
  /\ UNCHANGED <<history, rows, rewriting, job>>
\* AuditLog.emit raises: so does the endpoint, and nothing is run.
Refuse(c) ==
  /\ phase[c] = "new" /\ Fault
  /\ audit' \in CutShort(audit, c, FALSE) /\ Tore("audit", audit')
  /\ phase' = [phase EXCEPT ![c] = "refused"]
  /\ UNCHANGED <<history, rows, rewriting, job>>

Request(c) ==
  /\ phase[c] = "new"
  /\ audit' = Written(audit, c, FALSE)
  /\ phase' = [phase EXCEPT ![c] = "running"]
  /\ UNCHANGED <<history, rows, rewriting, torn, faults, job>>

\* Variant: one record too few is kept.
NewestButOne(lines) == SubSeq(lines, Max({0, Len(lines) - MaxRecords + 1}) + 1, Len(lines))
\* What a compaction keeps.
Newest(lines) == SubSeq(lines, Max({0, Len(lines) - MaxRecords}) + 1, Len(lines))

\* The file after a compaction, which a large file gets; one that cannot be read or
\* opened stays as it is.
Compactions(f) == {f} \cup (IF Len(f.lines) < MaxSize THEN {} ELSE {File(Newest(f.lines), FALSE)})
\* A compaction truncates the file and writes it again; when that fails the OSError is
\* passed over.
Rewritten(f) ==
  IF Len(f.lines) < MaxSize THEN {}
  ELSE LET kept == Newest(f.lines) IN
       {File(SubSeq(kept, 1, n), FALSE) : n \in 0..Len(kept)}
       \cup {File(SubSeq(kept, 1, n - 1) \o <<Bad>>, TRUE) : n \in 1..Len(kept)}

\* A row: its call, whether it holds a line separator, whether it was written whole.
Row(c, split, whole) == [call |-> c, split |-> split, whole |-> whole]
NewRow == Len(rows) + 1

\* The row is written; the file may be compacted, which may fail.
Finish(c, ok, split) ==
  /\ phase[c] = "running"
  /\ rows' = Append(rows, Row(c, split, TRUE))
  /\ phase' = [phase EXCEPT ![c] = IF ok THEN "ok" ELSE "error"]
  /\ LET file == Written(history, NewRow, split) IN
       \/ history' \in Compactions(file) /\ UNCHANGED <<rewriting, torn, faults>>
       \/ /\ Fault
          /\ history' \in Rewritten(file) /\ rewriting' = TRUE
          /\ Tore("history", history')
  /\ UNCHANGED <<audit, job>>

\* record raises on the row of a call that has ended well: the endpoint records that
\* as an error of the call, with the same arguments and no result, and answers it.
FinishUnrecorded(c, split) ==
  /\ phase[c] = "running" /\ Fault
  /\ phase' = [phase EXCEPT ![c] = "error"]
  /\ \E file \in CutShort(history, NewRow, split), again, split2 \in BOOLEAN :
       /\ split2 => split
       /\ rows' = rows \o <<Row(c, split, FALSE), Row(c, split2, again)>>
       /\ LET second == Written(file, NewRow + 1, split2) IN
            \/ again /\ history' \in Compactions(second) /\ UNCHANGED rewriting
            \/ again /\ history' \in Rewritten(second) /\ rewriting' = TRUE
            \/ ~again /\ history' \in CutShort(file, NewRow + 1, split2) /\ UNCHANGED rewriting
       /\ torn' = [torn EXCEPT !["history"] =
            @ + (IF file.open THEN 1 ELSE 0) + (IF history'.open THEN 1 ELSE 0)]
  /\ UNCHANGED <<audit, job>>

\* record raises on the row of a call that has failed.
FailUnrecorded(c, split) ==
  /\ phase[c] = "running" /\ Fault
  /\ phase' = [phase EXCEPT ![c] = "error"]
  /\ rows' = Append(rows, Row(c, split, FALSE))
  /\ history' \in CutShort(history, NewRow, split) /\ Tore("history", history')
  /\ UNCHANGED <<audit, rewriting, job>>

(***************************************************************************)
(* The events of a job and the client that reads them.                     *)
(***************************************************************************)
Emit(split) ==
  /\ ~jobOver /\ emitted < MaxEvents
  /\ events' = Written(events, emitted + 1, split)
  /\ emitted' = emitted + 1
  /\ UNCHANGED <<jobOver, known, cursor, seen, torn, faults, calls>>

\* EventStore.emit raises: so does the job.
EmitFails(split) ==
  /\ ~jobOver /\ emitted < MaxEvents /\ Fault
  /\ events' \in CutShort(events, emitted + 1, split) /\ Tore("events", events')
  /\ jobOver' = TRUE
  /\ UNCHANGED <<emitted, known, cursor, seen, calls>>

\* Variant: the cursor moves by the limit.
PageToLimit(lines, from) ==
  LET chunk == SubSeq(lines, from + 1, Min({from + PageSize, Len(lines)}))
  IN  [events |-> chunk, cursor |-> from + PageSize]
\* Variant: the limit is taken for the end of the page.
PageUpToLimit(lines, from) ==
  LET chunk == SubSeq(lines, from + 1, Min({PageSize, Len(lines)}))
  IN  [events |-> chunk, cursor |-> from + Len(chunk)]
\* EventStore.read.
Page(lines, from) ==
  LET chunk == SubSeq(lines, from + 1, Min({from + PageSize, Len(lines)}))
  IN  [events |-> chunk, cursor |-> from + Len(chunk)]

\* GET /jobs/{id}/events by the owner of the job.  A job that the node does not find is
\* a 404, and a line that cannot be read makes it answer an error.
Poll ==
  LET page == Page(events.lines, cursor) IN
  /\ known
  /\ Bad \notin Range(page.events)
  /\ cursor' = page.cursor /\ seen' = seen \o page.events
  /\ UNCHANGED <<events, emitted, jobOver, known, torn, faults, calls>>

\* The node dies, maybe while it appends to one of the files or compacts, and starts
\* again; it opens the files as they are.  It does not find the job again when the
\* record of it was torn or is two lines (JobStore.load).
Dies ==
  /\ Fault
  /\ jobOver' = TRUE /\ known' \in {known, FALSE}
  /\ \/ UNCHANGED <<audit, history, events, rows, rewriting, torn>>
     \/ /\ \E c \in Calls : phase[c] = "new" /\ audit' \in CutShort(audit, c, FALSE)
        /\ Tore("audit", audit')
        /\ UNCHANGED <<history, events, rows, rewriting>>
     \/ /\ \E c \in Calls, split, whole \in BOOLEAN :
             /\ phase[c] = "running"
             /\ rows' = Append(rows, Row(c, split, whole))
             /\ IF whole THEN /\ history' \in Rewritten(Written(history, NewRow, split))
                              /\ rewriting' = TRUE
                         ELSE history' \in CutShort(history, NewRow, split) /\ UNCHANGED rewriting
        /\ Tore("history", history')
        /\ UNCHANGED <<audit, events>>
     \/ /\ ~jobOver /\ emitted < MaxEvents
        /\ \E split \in BOOLEAN : events' \in CutShort(events, emitted + 1, split)
        /\ Tore("events", events')
        /\ UNCHANGED <<audit, history, rows, rewriting>>
  /\ phase' = [c \in Calls |-> IF phase[c] = "running" THEN "lost" ELSE phase[c]]
  /\ UNCHANGED <<emitted, cursor, seen>>

Next ==
  \/ \E c \in Calls :
       \/ Request(c) \/ Refuse(c)
       \/ \E split \in BOOLEAN :
            FinishUnrecorded(c, split) \/ FailUnrecorded(c, split) \/ \E ok \in BOOLEAN : Finish(c, ok, split)
  \/ \E split \in BOOLEAN : Emit(split) \/ EmitFails(split)
  \/ Poll \/ Dies

Spec == Init /\ [][Next]_vars
\* The client goes on asking.
FairSpec == Spec /\ WF_vars(Poll)

-----------------------------------------------------------------------------
\* The lines ToolHistory.recent answers with, without a limit and for every tool and
\* actor, by their places: it passes over those that cannot be read.
Recent == {k \in DOMAIN history.lines : history.lines[k] # Bad}

\* A command that ran is in the audit log: an append that was cut short hides at
\* most the one record that follows it.
RanIsAudited ==
  LET ran == {c \in Calls : phase[c] \in {"running", "ok", "error", "lost"}}
  IN  Cardinality(ran \ Range(audit.lines)) <= torn["audit"]

\* A call whose row could not be written is tried again as an error: the history
\* never shows it twice, because what is left of the first row spoils the second.
NeverTwice ==
  \A i, k \in Recent :
    i # k => rows[history.lines[i]].call # rows[history.lines[k]].call

\* How many lines the rows from the ith on take at most.
Taken(i) == Len(rows) + 1 - i + Cardinality({j \in i..Len(rows) : rows[j].split})
\* Compaction keeps the newest rows: unless a compaction was cut short, of those
\* that were written whole without a line separator and fit in max_records lines,
\* no more are missing than follow a row that was torn.
KeepsNewest ==
  ~rewriting =>
    LET fit == {i \in 1..Len(rows) : Taken(i) <= MaxRecords /\ rows[i].whole /\ ~rows[i].split}
    IN  Cardinality(fit \ {history.lines[k] : k \in Recent}) <= torn["history"]

\* A client that follows the cursor reads the events one by one, none skipped and
\* none twice.
SeenInOrder == seen = [i \in 1..Len(seen) |-> i]

\* As long as no line of the file is spoiled and no restart has lost the job, whose
\* events nobody can ask for then, it comes to have read every event there is.
CatchesUp ==
  []<>(1..emitted \subseteq Range(seen) \/ Bad \in Range(events.lines) \/ ~known)
=============================================================================
