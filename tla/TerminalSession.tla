--------------------------- MODULE TerminalSession ---------------------------
(***************************************************************************)
(* One terminal session of an AgentNode: a process, the two pump tasks     *)
(* that move its output from the pipes into a bounded buffer of numbered   *)
(* lines, and a client that pages through that buffer.                     *)
(***************************************************************************)
EXTENDS Integers, Sequences, FiniteSets

CONSTANTS
  BufferSize,    \* maxlen of the buffer (8000)
  Limits,        \* the limits a client may ask for
  PagesBy,       \* where the client takes its next cursor from: the field "cursor"
                 \* of the "answer", or the last "event" in it
  MaxLines       \* bound of the model: lines a process writes to one pipe

ASSUME SizeAssumption == BufferSize \in Nat \ {0} /\ MaxLines \in Nat
ASSUME LimitsAssumption == Limits \subseteq Nat \ {0}
ASSUME PagesByAssumption == PagesBy \in {"answer", "event"}

Sources == {"stdout", "stderr"}

VARIABLES
  process,     \* the tree: the leader runs, only descendants do, or it has exited
  written,     \* written[s]: lines written to pipe s so far
  pipe,        \* pipe[s]: the lines in it, each "short" or longer than the limit
  pump,        \* pump[s]: the task that reads pipe s
  buffer,      \* sess.buffer: lines [cursor, source]
  cursor, evicted, closed,   \* the fields of the session
  asked,       \* the cursor the client polls with next
  got          \* the cursors of the lines it has received, in this order

session == <<pump, buffer, cursor, evicted>>
client == <<asked, got>>
vars == <<process, written, pipe, session, closed, client>>

Init ==
  /\ process = "leader"
  /\ written = [s \in Sources |-> 0]
  /\ pipe = [s \in Sources |-> <<>>]
  /\ pump = [s \in Sources |-> "reading"]
  /\ buffer = <<>> /\ cursor = 0 /\ evicted = 0 /\ closed = FALSE
  /\ asked = 0 /\ got = <<>>

(***************************************************************************)
(* The process.                                                            *)
(***************************************************************************)
Write(s) ==
  /\ process # "exited"
  /\ written[s] < MaxLines
  /\ written' = [written EXCEPT ![s] = @ + 1]
  /\ \E line \in {"short", "long"} : pipe' = [pipe EXCEPT ![s] = Append(@, line)]
  /\ UNCHANGED <<process, session, closed, client>>

\* The leader exits, with or without descendants that hold the pipes.
Exit ==
  /\ \/ process = "leader" /\ process' \in {"descendants", "exited"}
     \/ process = "descendants" /\ process' = "exited"
  /\ UNCHANGED <<written, pipe, session, closed, client>>

(***************************************************************************)
(* The tasks of the session.                                               *)
(***************************************************************************)
\* Variant: every line beyond the first is counted as an eviction.
StoreCounting(s) ==
  /\ evicted' = IF Len(buffer) = BufferSize \/ cursor > 0 THEN evicted + 1 ELSE evicted
  /\ cursor' = cursor + 1
  /\ buffer' = LET line == [cursor |-> cursor + 1, source |-> s]
               IN  IF Len(buffer) = BufferSize THEN Append(Tail(buffer), line)
                   ELSE Append(buffer, line)
\* A line gets the next number; the oldest makes room when the buffer is full.
Store(s) ==
  /\ evicted' = IF Len(buffer) = BufferSize THEN evicted + 1 ELSE evicted
  /\ cursor' = cursor + 1
  /\ buffer' = LET line == [cursor |-> cursor + 1, source |-> s]
               IN  IF Len(buffer) = BufferSize THEN Append(Tail(buffer), line)
                   ELSE Append(buffer, line)

\* Variant: the pumps stop once the session is closed.
PumpUntilClosed(s) ==
  /\ pump[s] = "reading" /\ ~closed /\ pipe[s] # <<>>
  /\ pipe' = [pipe EXCEPT ![s] = Tail(@)]
  /\ IF Head(pipe[s]) = "short"
     THEN Store(s) /\ UNCHANGED pump
     ELSE pump' = [pump EXCEPT ![s] = "dead"] /\ UNCHANGED <<buffer, cursor, evicted>>
  /\ UNCHANGED <<process, written, closed, client>>
\* readline() returns a line, or raises for one over its limit, which ends the
\* task and leaves the rest of the pipe unread.
Pump(s) ==
  /\ pump[s] = "reading" /\ pipe[s] # <<>>
  /\ pipe' = [pipe EXCEPT ![s] = Tail(@)]
  /\ IF Head(pipe[s]) = "short"
     THEN Store(s) /\ UNCHANGED pump
     ELSE pump' = [pump EXCEPT ![s] = "dead"] /\ UNCHANGED <<buffer, cursor, evicted>>
  /\ UNCHANGED <<process, written, closed, client>>

\* End of file: every process that could write has gone.
PumpEnds(s) ==
  /\ pump[s] = "reading" /\ pipe[s] = <<>> /\ process = "exited"
  /\ pump' = [pump EXCEPT ![s] = "eof"]
  /\ UNCHANGED <<process, written, pipe, buffer, cursor, evicted, closed, client>>

\* _wait: the exit of the leader closes the session.
Wait ==
  /\ process # "leader" /\ ~closed
  /\ closed' = TRUE
  /\ UNCHANGED <<process, written, pipe, session, client>>

(***************************************************************************)
(* Requests.                                                               *)
(***************************************************************************)
\* Variant: the newest lines beyond the cursor, not the oldest.
ChunkOfNewest(c, limit) ==
  LET items == SelectSeq(buffer, LAMBDA line : line.cursor > c)
  IN  SubSeq(items, IF Len(items) > limit THEN Len(items) - limit + 1 ELSE 1, Len(items))
\* Variant: the line at the cursor is sent again.
ChunkFrom(c, limit) ==
  LET items == SelectSeq(buffer, LAMBDA line : line.cursor >= c)
      first == IF c = 0 /\ Len(buffer) > limit THEN Len(buffer) - limit + 1 ELSE 1
      last == IF c = 0 \/ Len(items) < limit THEN Len(items) ELSE limit
  IN  SubSeq(items, first, last)
\* The lines of the buffer beyond cursor c, in their order.
Beyond(c) ==
  LET places == {i \in DOMAIN buffer : buffer[i].cursor > c}
  IN  [k \in 1 .. Cardinality(places) |->
         buffer[CHOOSE i \in places : Cardinality({j \in places : j <= i}) = k]]
\* The oldest of them, and the newest of all for a client without a cursor.
Chunk(c, limit) ==
  IF c = 0
  THEN SubSeq(buffer, IF Len(buffer) > limit THEN Len(buffer) - limit + 1 ELSE 1, Len(buffer))
  ELSE SubSeq(Beyond(c), 1, IF Len(Beyond(c)) < limit THEN Len(Beyond(c)) ELSE limit)

\* TerminalManager.read; what it returns as "cursor" is that of the session.
Read(limit) ==
  LET chunk == Chunk(asked, limit) IN
  /\ got' = got \o [i \in DOMAIN chunk |-> chunk[i].cursor]
  /\ asked' = CASE PagesBy = "answer" -> cursor
                [] PagesBy = "event" /\ chunk # <<>> -> chunk[Len(chunk)].cursor
                [] OTHER -> asked
  /\ UNCHANGED <<process, written, pipe, session, closed>>

\* TerminalManager.close: SIGTERM to the group if the leader still runs, which
\* the processes may ignore.  The session stays, and so do its pumps.
Close ==
  /\ closed' = TRUE
  /\ \/ UNCHANGED process
     \/ process = "leader" /\ process' = "exited"
  /\ UNCHANGED <<written, pipe, session, client>>

Next ==
  \/ Exit \/ Wait \/ Close
  \/ \E s \in Sources : Write(s) \/ Pump(s) \/ PumpEnds(s)
  \/ \E limit \in Limits : Read(limit)

Spec == Init /\ [][Next]_vars

\* The loop runs the tasks of the session whose pipe or process is ready.
Fairness == WF_vars(Wait) /\ \A s \in Sources : WF_vars(Pump(s)) /\ WF_vars(PumpEnds(s))
FairSpec == Spec /\ Fairness

-----------------------------------------------------------------------------
(***************************************************************************)
(* Properties.                                                             *)
(***************************************************************************)
\* Every variable of the session and its process has its type, and the buffer its
\* bound.
TypeOK ==
  /\ process \in {"leader", "descendants", "exited"}
  /\ written \in [Sources -> 0 .. MaxLines]
  /\ pipe \in [Sources -> Seq({"short", "long"})]
  /\ pump \in [Sources -> {"reading", "dead", "eof"}]
  /\ buffer \in Seq([cursor : Nat, source : Sources])
  /\ Len(buffer) <= BufferSize
  /\ cursor \in Nat /\ evicted \in Nat /\ closed \in BOOLEAN

\* The two pumps together number the lines without a gap, and the buffer, the
\* cursor and the count of evicted lines that a client sees always fit: what is
\* not in the buffer was evicted, and there is nothing else.
BufferIsRecent ==
  /\ Len(buffer) = cursor - evicted
  /\ \A i \in DOMAIN buffer : buffer[i].cursor = evicted + i

\* A client that goes on polling never gets a line twice or out of order.
NeverTwice == \A i, k \in DOMAIN got : i < k => got[i] < got[k]

\* README: "cursor paging".  Between the first line it got and the last, a client
\* misses none, except one that was evicted.
PagesAreComplete ==
  got # <<>> =>
    \A c \in got[1] .. asked :
      c > evicted => \E i \in DOMAIN got : got[i] = c

\* What a process wrote is shown, also after it has exited and the session is
\* closed: a pump stops only at the end of its pipe or at a line over the limit.
OutputDrains ==
  \A s \in Sources : pipe[s] # <<>> ~> pipe[s] = <<>> \/ pump[s] = "dead"
=============================================================================
