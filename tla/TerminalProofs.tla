--------------------------- MODULE TerminalProofs ---------------------------
(***************************************************************************)
(* What holds of the buffer of a terminal session for any size of it, any  *)
(* limits and any number of lines: it is the most recent lines, numbered   *)
(* without a gap by two tasks that never wait for each other; and a client *)
(* that pages through it gets each line once and in order, and all that    *)
(* were not evicted before it came to them.                                *)
(***************************************************************************)
EXTENDS TerminalSession, SequenceTheorems, FiniteSetTheorems, TLAPS

Line == [cursor : Nat, source : Sources]

IInv == TypeOK /\ BufferIsRecent

-----------------------------------------------------------------------------
\* A deque of lines that end with number n has the most recent ones, with room for
\* another or without.
LEMMA StoreKeeps ==
  ASSUME TypeOK, BufferIsRecent, NEW s \in Sources, Store(s)
  PROVE  /\ buffer' \in Seq(Line) /\ Len(buffer') <= BufferSize
         /\ cursor' \in Nat /\ evicted' \in Nat
         /\ BufferIsRecent'
<1> DEFINE line == [cursor |-> cursor + 1, source |-> s]
<1>1. /\ buffer \in Seq(Line) /\ Len(buffer) \in Nat /\ Len(buffer) <= BufferSize
      /\ cursor \in Nat /\ evicted \in Nat /\ cursor' = cursor + 1
      /\ BufferSize \in Nat /\ BufferSize # 0
      /\ Len(buffer) = cursor - evicted
  BY SizeAssumption DEF TypeOK, BufferIsRecent, Line, Store
<1>2. line \in Line /\ line.cursor = cursor + 1
  BY <1>1 DEF Line
<1>3. \A i \in 1 .. Len(buffer) : buffer[i].cursor = evicted + i
  BY <1>1 DEF BufferIsRecent
<1> HIDE DEF line
<1>4. CASE Len(buffer) = BufferSize
  <2>1. evicted' = evicted + 1 /\ buffer' = Append(Tail(buffer), line)
    BY <1>4 DEF Store, line
  <2>2. Tail(buffer) \in Seq(Line) /\ Len(Tail(buffer)) = Len(buffer) - 1
    BY <1>1, <1>4
  <2>3. \A i \in 1 .. Len(buffer) - 1 : Tail(buffer)[i] = buffer[i + 1]
    BY <1>1, <1>4
  <2>4. buffer' \in Seq(Line) /\ Len(buffer') = Len(buffer)
    BY <1>1, <1>2, <2>1, <2>2
  <2>5. ASSUME NEW i \in 1 .. Len(buffer) PROVE buffer'[i].cursor = evicted' + i
    <3>1. CASE i = Len(buffer)
      BY <1>1, <1>2, <2>1, <2>2, <3>1
    <3>2. CASE i # Len(buffer)
      <4>1. i \in 1 .. Len(buffer) - 1 /\ i + 1 \in 1 .. Len(buffer)
        BY <1>1, <3>2
      <4>2. buffer'[i] = buffer[i + 1]
        BY <1>2, <2>1, <2>2, <2>3, <4>1
      <4> QED
        BY <1>1, <1>3, <2>1, <4>1, <4>2
    <3> QED
      BY <3>1, <3>2
  <2>6. BufferIsRecent'
    <3>1. Len(buffer') = cursor' - evicted'
      BY <1>1, <2>1, <2>4
    <3>2. DOMAIN buffer' = 1 .. Len(buffer)
      BY <2>4
    <3> QED
      BY <2>5, <3>1, <3>2 DEF BufferIsRecent
  <2> QED
    BY <1>1, <2>1, <2>4, <2>6
<1>5. CASE Len(buffer) # BufferSize
  <2>1. evicted' = evicted /\ buffer' = Append(buffer, line)
    BY <1>5 DEF Store, line
  <2>2. buffer' \in Seq(Line) /\ Len(buffer') = Len(buffer) + 1
    BY <1>1, <1>2, <2>1
  <2>3. ASSUME NEW i \in 1 .. Len(buffer) + 1 PROVE buffer'[i].cursor = evicted' + i
    <3>1. CASE i = Len(buffer) + 1
      BY <1>1, <1>2, <2>1, <3>1
    <3>2. CASE i # Len(buffer) + 1
      BY <1>1, <1>2, <1>3, <2>1, <3>2
    <3> QED
      BY <3>1, <3>2
  <2> QED
    BY <1>1, <1>5, <2>1, <2>2, <2>3 DEF BufferIsRecent
<1> QED
  BY <1>4, <1>5

\* Before its first line the session keeps nothing and forgets nothing.
LEMMA Initially == Init => IInv
<1> SUFFICES ASSUME Init PROVE IInv
  OBVIOUS
<1>1. TypeOK
  <2>1. /\ written \in [Sources -> 0 .. MaxLines]
        /\ pipe \in [Sources -> Seq({"short", "long"})]
        /\ pump \in [Sources -> {"reading", "dead", "eof"}]
    BY SizeAssumption DEF Init
  <2>2. buffer \in Seq([cursor : Nat, source : Sources]) /\ Len(buffer) = 0
    BY DEF Init
  <2>3. Len(buffer) <= BufferSize /\ cursor \in Nat /\ evicted \in Nat
    BY <2>2, SizeAssumption DEF Init
  <2>4. process \in {"leader", "descendants", "exited"} /\ closed \in BOOLEAN
    BY DEF Init
  <2> QED
    BY <2>1, <2>2, <2>3, <2>4 DEF TypeOK
<1>2. BufferIsRecent
  BY DEF Init, BufferIsRecent
<1> QED
  BY <1>1, <1>2 DEF IInv

\* _pump appends one line to the bounded buffer.
LEMMA PumpKeeps == ASSUME IInv, NEW s \in Sources, Pump(s) PROVE IInv'
<1>1. TypeOK /\ BufferIsRecent
  BY DEF IInv
<1>2. pipe' \in [Sources -> Seq({"short", "long"})]
  <2>1. pipe[s] \in Seq({"short", "long"}) /\ pipe[s] # <<>>
    BY <1>1 DEF TypeOK, Pump
  <2>2. Tail(pipe[s]) \in Seq({"short", "long"})
    BY <2>1
  <2> QED
    BY <1>1, <2>2 DEF TypeOK, Pump
<1>3. /\ process' = process /\ written' = written /\ closed' = closed
      /\ pump' \in [Sources -> {"reading", "dead", "eof"}]
  BY <1>1 DEF Pump, TypeOK
<1>4. CASE Store(s)
  <2>1. TypeOK'
    BY <1>1, <1>2, <1>3, <1>4, StoreKeeps DEF TypeOK, Line
  <2> QED
    BY <1>1, <1>4, <2>1, StoreKeeps DEF IInv
<1>5. CASE UNCHANGED <<buffer, cursor, evicted>>
  BY <1>1, <1>2, <1>3, <1>5 DEF IInv, TypeOK, BufferIsRecent
<1> QED
  BY <1>4, <1>5 DEF Pump

\* The steps of the process and of the client do not touch the session.
LEMMA Elsewhere ==
  ASSUME IInv, UNCHANGED session, UNCHANGED <<written, pipe>>,
         process' \in {"leader", "descendants", "exited"}, closed' \in BOOLEAN
  PROVE  IInv'
BY DEF IInv, TypeOK, BufferIsRecent, session

\* A process prints a line that the pump has not read.
LEMMA WriteKeeps == ASSUME IInv, NEW s \in Sources, Write(s) PROVE IInv'
<1>1. TypeOK /\ BufferIsRecent /\ UNCHANGED session /\ process' = process /\ closed' = closed
  BY DEF IInv, Write
<1>2. written' \in [Sources -> 0 .. MaxLines]
  BY <1>1, SizeAssumption DEF Write, TypeOK
<1>3. PICK line \in {"short", "long"} : pipe' = [pipe EXCEPT ![s] = Append(@, line)]
  BY DEF Write
<1>4. Append(pipe[s], line) \in Seq({"short", "long"})
  BY <1>1 DEF TypeOK
<1>5. pipe' \in [Sources -> Seq({"short", "long"})]
  BY <1>1, <1>3, <1>4 DEF TypeOK
<1> QED
  BY <1>1, <1>2, <1>5 DEF IInv, TypeOK, BufferIsRecent, session

\* Every step of the session, its process and its reader keeps the invariant.
LEMMA Inductive == IInv /\ [Next]_vars => IInv'
<1> SUFFICES ASSUME IInv, [Next]_vars PROVE IInv'
  OBVIOUS
<1>0. process \in {"leader", "descendants", "exited"} /\ closed \in BOOLEAN
  BY DEF IInv, TypeOK
<1>1. CASE UNCHANGED vars
  BY <1>0, <1>1, Elsewhere DEF vars
<1>2. CASE Exit
  BY <1>0, <1>2, Elsewhere DEF Exit
<1>3. CASE Wait
  BY <1>0, <1>3, Elsewhere DEF Wait
<1>4. CASE Close
  BY <1>0, <1>4, Elsewhere DEF Close
<1>5. ASSUME NEW limit \in Limits, Read(limit) PROVE IInv'
  BY <1>0, <1>5, Elsewhere DEF Read
<1>6. ASSUME NEW s \in Sources, PumpEnds(s) PROVE IInv'
  BY <1>6 DEF PumpEnds, IInv, TypeOK, BufferIsRecent
<1>7. ASSUME NEW s \in Sources, Write(s) \/ Pump(s) PROVE IInv'
  BY <1>7, WriteKeeps, PumpKeeps
<1> QED
  BY <1>1, <1>2, <1>3, <1>4, <1>5, <1>6, <1>7 DEF Next

\* The invariant holds in every state of a session, whatever the size of its buffer.
THEOREM Invariance == Spec => []IInv
BY Initially, Inductive, PTL DEF Spec

\* The session keeps its types, and the buffer its bound.
THEOREM SessionTypes == Spec => []TypeOK
BY Invariance, PTL DEF IInv

\* _append of the two pumps: the buffer, the cursor and the count of evicted lines
\* always fit, for a buffer of any size.
THEOREM RecentBuffer == Spec => []BufferIsRecent
BY Invariance, PTL DEF IInv

-----------------------------------------------------------------------------
(***************************************************************************)
(* What a client gets.                                                     *)
(***************************************************************************)
\* The chunk has the lines from a + 1 to b.
Spans(chunk, a, b) ==
  /\ a \in Nat /\ b \in Nat /\ a <= b
  /\ chunk \in Seq(Line) /\ Len(chunk) = b - a
  /\ \A i \in 1 .. b - a : chunk[i].cursor = a + i

\* A part of the lines that follow one another does so too.
LEMMA PartSpans ==
  ASSUME NEW s, NEW a, NEW b, Spans(s, a, b), NEW lo \in Nat, NEW hi \in Nat,
         lo <= hi, hi <= b - a
  PROVE  Spans(SubSeq(s, lo + 1, hi), a + lo, a + hi)
<1>1. a \in Nat /\ b \in Nat /\ s \in Seq(Line) /\ Len(s) = b - a
  BY DEF Spans
<1>2. \A i \in lo + 1 .. hi : s[i] \in Line
  BY <1>1, ElementOfSeq
<1>3. PICK t : t = SubSeq(s, lo + 1, hi)
  OBVIOUS
<1>4. /\ t \in Seq(Line)
      /\ Len(t) = IF lo + 1 <= hi THEN hi - (lo + 1) + 1 ELSE 0
      /\ \A i \in 1 .. hi - (lo + 1) + 1 : t[i] = s[(lo + 1) + i - 1]
  BY <1>2, <1>3, SubSeqProperties
<1>5. Len(t) = hi - lo /\ hi - (lo + 1) + 1 = hi - lo /\ (a + hi) - (a + lo) = hi - lo
  BY <1>1, <1>4
<1>6. ASSUME NEW i \in 1 .. hi - lo PROVE t[i].cursor = a + lo + i
  <2>1. (lo + 1) + i - 1 = lo + i /\ lo + i \in 1 .. b - a /\ a + (lo + i) = a + lo + i
    BY <1>1
  <2>2. t[i] = s[lo + i]
    BY <1>4, <1>5, <2>1
  <2> QED BY <2>1, <2>2 DEF Spans
<1> QED BY <1>1, <1>3, <1>4, <1>5, <1>6 DEF Spans

\* The buffer has the lines that were not evicted.
LEMMA BufferSpans ==
  ASSUME IInv
  PROVE  Spans(buffer, evicted, cursor)
<1>1. /\ buffer \in Seq(Line) /\ evicted \in Nat /\ cursor \in Nat /\ Len(buffer) \in Nat
      /\ Len(buffer) = cursor - evicted
  BY LenProperties DEF IInv, TypeOK, BufferIsRecent, Line
<1>2. \A i \in 1 .. Len(buffer) : buffer[i].cursor = evicted + i
  BY <1>1 DEF IInv, BufferIsRecent
<1> QED BY <1>1, <1>2 DEF Spans

\* What _append has put behind a cursor is the end of the buffer.
LEMMA BeyondSpans ==
  ASSUME IInv, NEW c \in Nat, c <= cursor
  PROVE  Spans(Beyond(c), IF c > evicted THEN c ELSE evicted, cursor)
<1>1. PICK n \in Nat, e \in Nat, m \in Nat :
        /\ n = Len(buffer) /\ e = evicted /\ m = cursor /\ m = e + n /\ c <= m
        /\ DOMAIN buffer = 1 .. n
        /\ \A i \in 1 .. n : buffer[i].cursor = e + i /\ buffer[i] \in Line
  BY BufferSpans, LenProperties, ElementOfSeq DEF Spans
<1>2. PICK lo \in 0 .. n : lo = IF c > e THEN c - e ELSE 0
  BY <1>1
<1>3. PICK places : places = {i \in DOMAIN buffer : buffer[i].cursor > c}
  OBVIOUS
<1>4. places = lo + 1 .. n
  BY <1>1, <1>2, <1>3
<1>5. \A i \in lo .. n : Cardinality(lo + 1 .. i) = i - lo
  <2>1. SUFFICES ASSUME NEW i \in lo .. n PROVE Cardinality(lo + 1 .. i) = i - lo
    OBVIOUS
  <2>2. lo + 1 \in Int /\ i \in Int /\ lo <= i
    BY <1>1, <1>2, <2>1
  <2>3. PICK a \in Int : a = lo + 1
    BY <2>2
  <2>4. Cardinality(a .. i) = IF a > i THEN 0 ELSE i - a + 1
    BY <2>2, <2>3, FS_Interval
  <2>5. (IF lo + 1 > i THEN 0 ELSE i - (lo + 1) + 1) = i - lo
    BY <1>2, <2>2
  <2> QED BY <2>3, <2>4, <2>5
<1>6. Cardinality(places) = n - lo
  BY <1>2, <1>4, <1>5
<1>7. PICK nth : nth = [k \in 1 .. n - lo |-> CHOOSE i \in places : Cardinality({j \in places : j <= i}) = k]
  OBVIOUS
<1>8. ASSUME NEW k \in 1 .. n - lo PROVE nth[k] = lo + k
  <2>1. ASSUME NEW i \in places PROVE Cardinality({j \in places : j <= i}) = i - lo
    <3>1. {j \in places : j <= i} = lo + 1 .. i
      BY <1>2, <1>4, <2>1
    <3>2. i \in lo .. n
      BY <1>2, <1>4, <2>1
    <3> QED BY <1>5, <3>1, <3>2
  <2>2. lo + k \in places /\ (lo + k) - lo = k
    BY <1>2, <1>4
  <2>3. \E i \in places : Cardinality({j \in places : j <= i}) = k
    BY <2>1, <2>2
  <2>4. nth[k] \in places /\ Cardinality({j \in places : j <= nth[k]}) = k
    BY <1>7, <2>3, Zenon
  <2>5. nth[k] - lo = k
    BY <2>1, <2>4
  <2> QED BY <1>2, <1>4, <2>4, <2>5
<1>9. Beyond(c) = [k \in 1 .. n - lo |-> buffer[nth[k]]]
  <2>1. Beyond(c) = [k \in 1 .. Cardinality(places) |->
                       buffer[CHOOSE i \in places : Cardinality({j \in places : j <= i}) = k]]
    BY <1>3 DEF Beyond
  <2> QED BY <1>6, <1>7, <2>1, Zenon
<1>10. PICK t : t = Beyond(c)
  OBVIOUS
<1>11. \A k \in 1 .. n - lo : t[k] = buffer[lo + k] /\ lo + k \in 1 .. n
  BY <1>2, <1>8, <1>9, <1>10
<1>12. t = [k \in 1 .. n - lo |-> t[k]] /\ n - lo \in Nat
  BY <1>2, <1>9, <1>10
<1>13. t \in Seq(Line) /\ Len(t) = n - lo
  <2>1. \A k \in 1 .. n - lo : t[k] \in Line
    BY <1>1, <1>11
  <2> QED BY <1>12, <2>1
<1>14. PICK a : a = IF c > e THEN c ELSE e
  OBVIOUS
<1>15. a \in Nat /\ a = e + lo /\ a <= m /\ n - lo = m - a
  BY <1>1, <1>2, <1>14
<1>16. ASSUME NEW k \in 1 .. m - a PROVE t[k].cursor = a + k
  <2>1. t[k] = buffer[lo + k] /\ lo + k \in 1 .. n
    BY <1>11, <1>15
  <2>2. buffer[lo + k].cursor = e + (lo + k)
    BY <1>1, <2>1
  <2>3. e + (lo + k) = a + k
    BY <1>1, <1>2, <1>15
  <2> QED BY <2>1, <2>2, <2>3
<1> QED BY <1>1, <1>10, <1>13, <1>14, <1>15, <1>16 DEF Spans

\* A page follows the cursor, but for what was evicted; a client without a cursor is
\* somewhere in the buffer.
LEMMA ChunkSpans ==
  ASSUME IInv, NEW c \in Nat, c <= cursor, NEW limit \in Limits
  PROVE  \E a, b \in Nat :
           /\ Spans(Chunk(c, limit), a, b) /\ c <= a /\ b <= cursor
           /\ c # 0 => a = c \/ a = evicted
<1>1. PICK n \in Nat, e \in Nat, m \in Nat, l \in Nat :
        n = Len(buffer) /\ e = evicted /\ m = cursor /\ l = limit /\ l > 0 /\ m = e + n /\ c <= m
  BY BufferSpans, LenProperties, LimitsAssumption DEF Spans
<1>2. CASE c = 0
  <2>0. PICK lo : lo = IF n > l THEN n - l ELSE 0
    OBVIOUS
  <2>1. lo \in Nat /\ lo <= n
    BY <1>1, <2>0
  <2>2. Chunk(c, limit) = SubSeq(buffer, lo + 1, n)
    <3>1. lo + 1 = IF n > l THEN n - l + 1 ELSE 1
      BY <1>1, <2>0
    <3> QED BY <1>1, <1>2, <3>1 DEF Chunk
  <2>3. Spans(SubSeq(buffer, lo + 1, n), e + lo, e + n)
    <3>1. n <= m - e /\ Spans(buffer, e, m)
      BY <1>1, BufferSpans
    <3> QED BY <1>1, <2>1, <3>1, PartSpans
  <2>4. e + lo \in Nat /\ e + n \in Nat /\ c <= e + lo /\ e + n <= cursor
    BY <1>1, <1>2, <2>1
  <2> QED BY <1>2, <2>2, <2>3, <2>4
<1>3. CASE c # 0
  <2>1. PICK a \in Nat : a = IF c > e THEN c ELSE e
    BY <1>1
  <2>2. PICK s : s = Beyond(c)
    OBVIOUS
  <2>3. Spans(s, a, m)
    BY <1>1, <2>1, <2>2, BeyondSpans
  <2>4. Len(s) = m - a /\ a <= m /\ m \in Nat /\ a \in Nat
    BY <2>3 DEF Spans
  <2>5. PICK q \in Int : q = m - a
    BY <2>4
  <2>6. q \in Nat /\ q = Len(s) /\ q = m - a
    BY <2>4, <2>5
  <2>7. PICK hi \in Nat : hi = (IF q < l THEN q ELSE l) /\ hi <= m - a
    BY <1>1, <2>6
  <2>8. Chunk(c, limit) = SubSeq(s, 1, hi)
    BY <1>1, <1>3, <2>2, <2>6, <2>7 DEF Chunk
  <2>9. PICK lo \in Nat : lo = 0
    OBVIOUS
  <2>10. Spans(SubSeq(s, lo + 1, hi), a + lo, a + hi)
    <3>1. lo <= hi
      BY <2>7, <2>9
    <3> QED BY <2>3, <2>7, <3>1, PartSpans
  <2>11. Spans(SubSeq(s, 1, hi), a, a + hi) /\ a + hi \in Nat /\ a + hi <= m /\ c <= a
    <3>1. a + lo = a /\ lo + 1 = 1 /\ a + hi \in Nat /\ a + hi <= m /\ c <= a
      BY <1>1, <2>1, <2>7, <2>9
    <3> QED BY <2>10, <3>1
  <2>12. a = c \/ a = evicted
    BY <1>1, <2>1
  <2> QED BY <1>1, <2>8, <2>11, <2>12
<1> QED BY <1>2, <1>3

\* The lines of the chunk as the client keeps them: their numbers.
Numbers(chunk) == [i \in DOMAIN chunk |-> chunk[i].cursor]

\* What a client has once it gets a chunk behind what it had.
With(lines, chunk) == lines \o Numbers(chunk)

\* The list h goes on with the numbers from a + 1 to b where g ends.
Follows(h, g, a, b) ==
  /\ h \in Seq(Nat) /\ Len(h) = Len(g) + (b - a)
  /\ \A i \in 1 .. Len(g) : h[i] = g[i]
  /\ \A i \in 1 .. b - a : h[Len(g) + i] = a + i

\* A client that gets the lines from a + 1 to b has them behind those it had.
LEMMA NumbersFollow ==
  ASSUME NEW s, NEW a, NEW b, Spans(s, a, b), NEW g \in Seq(Nat), NEW h, h = With(g, s)
  PROVE  Follows(h, g, a, b)
<1>1. /\ a \in Nat /\ b \in Nat /\ a <= b /\ s \in Seq(Line) /\ Len(s) = b - a
      /\ \A i \in 1 .. b - a : s[i].cursor = a + i
  BY DEF Spans
<1>2. PICK d \in Nat, n \in Nat : d = b - a /\ n = Len(g)
  BY <1>1, LenProperties
<1>3. DOMAIN s = 1 .. d
  BY <1>1, <1>2, LenProperties
<1>4. PICK t : t = Numbers(s)
  OBVIOUS
<1>5. t = [i \in 1 .. d |-> s[i].cursor]
  BY <1>3, <1>4 DEF Numbers
<1>6. ASSUME NEW i \in 1 .. d PROVE t[i] = a + i /\ t[i] \in Nat
  BY <1>1, <1>2, <1>5
<1>7. t \in Seq(Nat) /\ Len(t) = d
  <2>1. t = [i \in 1 .. d |-> t[i]]
    BY <1>5
  <2> QED BY <1>6, <2>1
<1>8. h = g \o t
  BY <1>4 DEF With
<1>9. /\ h \in Seq(Nat) /\ Len(h) = n + d
      /\ \A i \in 1 .. n + d : h[i] = IF i <= n THEN g[i] ELSE t[i - n]
  BY <1>2, <1>7, <1>8, ConcatProperties
<1>10. \A i \in 1 .. n : h[i] = g[i]
  BY <1>9
<1>11. ASSUME NEW i \in 1 .. d PROVE h[n + i] = a + i
  <2>1. n + i \in 1 .. n + d /\ ~ (n + i <= n) /\ (n + i) - n = i
    OBVIOUS
  <2> QED BY <1>6, <1>9, <2>1
<1> QED BY <1>2, <1>9, <1>10, <1>11 DEF Follows

\* What a client has, and where it goes on.
Paged ==
  /\ asked \in Nat /\ asked <= cursor
  /\ got \in Seq(Nat)
  /\ \A i \in 1 .. Len(got) : 1 <= got[i] /\ got[i] <= asked
  /\ NeverTwice

\* A client that goes on at the last line it got has asked for no more than that.
Complete ==
  /\ PagesAreComplete
  /\ got = <<>> <=> asked = 0

\* The cursor a client goes on at is the last number it has seen or one behind it.
LEMMA AskedFollows ==
  ASSUME IInv, Paged, NEW limit \in Limits, Read(limit),
         NEW a, NEW b, Spans(Chunk(asked, limit), a, b), asked <= a, b <= cursor
  PROVE  /\ asked' \in Nat /\ asked <= asked' /\ asked' <= cursor
         /\ a < b => b <= asked'
         /\ PagesBy = "event" => asked' = IF a < b THEN b ELSE asked
<1>1. PICK s : s = Chunk(asked, limit)
  OBVIOUS
<1>2. /\ asked' = CASE PagesBy = "answer" -> cursor
                    [] PagesBy = "event" /\ s # <<>> -> s[Len(s)].cursor
                    [] OTHER -> asked
  BY <1>1 DEF Read
<1>3. /\ a \in Nat /\ b \in Nat /\ a <= b /\ s \in Seq(Line) /\ Len(s) = b - a
      /\ \A i \in 1 .. b - a : s[i].cursor = a + i
  BY <1>1 DEF Spans
<1>4. asked \in Nat /\ asked <= cursor /\ cursor \in Nat
  BY DEF IInv, TypeOK, Paged
<1>5. CASE PagesBy = "answer"
  <2>1. asked' = cursor
    BY <1>2, <1>5
  <2> QED BY <1>3, <1>4, <1>5, <2>1
<1>6. CASE PagesBy = "event"
  <2>1. CASE a < b
    <3>1. s # <<>> /\ b - a \in 1 .. b - a
      BY <1>3, <2>1
    <3>2. asked' = s[Len(s)].cursor
      BY <1>2, <1>6, <3>1
    <3>3. asked' = a + (b - a) /\ a + (b - a) = b
      BY <1>3, <3>1, <3>2
    <3> QED BY <1>3, <1>4, <2>1, <3>3
  <2>2. CASE ~ (a < b)
    <3>1. s = <<>>
      BY <1>3, <2>2, EmptySeq
    <3>2. asked' = asked
      BY <1>2, <1>6, <3>1
    <3> QED BY <1>3, <1>4, <2>2, <3>2
  <2> QED BY <2>1, <2>2
<1> QED BY <1>5, <1>6, PagesByAssumption

\* A read gives the client lines that are newer than any it has.
LEMMA ReadKeepsPaged ==
  ASSUME IInv, Paged, NEW limit \in Limits, Read(limit)
  PROVE  Paged'
<1>1. asked \in Nat /\ asked <= cursor /\ got \in Seq(Nat)
  BY DEF Paged
<1>2. PICK a \in Nat, b \in Nat :
        Spans(Chunk(asked, limit), a, b) /\ asked <= a /\ b <= cursor
  BY <1>1, ChunkSpans
<1>3. /\ asked' \in Nat /\ asked <= asked' /\ asked' <= cursor
      /\ a < b => b <= asked'
  BY <1>2, AskedFollows
<1>4. got' = With(got, Chunk(asked, limit))
  BY DEF Read, Numbers, With
<1>5. PICK n \in Nat, d \in Nat : n = Len(got) /\ d = b - a /\ a <= b
  BY <1>1, <1>2, LenProperties DEF Spans
<1>6. /\ got' \in Seq(Nat) /\ Len(got') = n + d
      /\ \A i \in 1 .. n : got'[i] = got[i]
      /\ \A i \in 1 .. d : got'[n + i] = a + i
  <2>0. PICK g \in Seq(Nat) : g = got
    BY <1>1
  <2>1. PICK s : s = Chunk(asked, limit)
    OBVIOUS
  <2>2. Spans(s, a, b)
    BY <1>2, <2>1
  <2>3. PICK h : h = With(g, s)
    OBVIOUS
  <2>4. Follows(h, g, a, b)
    BY <2>0, <2>2, <2>3, NumbersFollow, Zenon
  <2>5. got' = h /\ got = g /\ n = Len(g)
    BY <1>4, <1>5, <2>0, <2>1, <2>3
  <2> QED BY <1>5, <2>4, <2>5 DEF Follows
<1>7. \A i \in 1 .. n : 1 <= got[i] /\ got[i] <= asked /\ got[i] \in Nat
  BY <1>1, <1>5, ElementOfSeq DEF Paged
<1>8. \A i, k \in 1 .. n : i < k => got[i] < got[k]
  BY <1>1, <1>5, LenProperties DEF Paged, NeverTwice
<1>9. ASSUME NEW i \in 1 .. n + d
      PROVE  \/ i \in 1 .. n
             \/ i - n \in 1 .. d /\ got'[i] = a + (i - n)
  <2>1. CASE i <= n
    BY <2>1
  <2>2. CASE ~ (i <= n)
    <3>1. i - n \in 1 .. d /\ n + (i - n) = i
      BY <2>2
    <3> QED BY <1>6, <3>1
  <2> QED BY <2>1, <2>2
<1>10. ASSUME NEW i \in 1 .. n + d PROVE 1 <= got'[i] /\ got'[i] <= asked'
  <2>1. CASE i \in 1 .. n
    <3>1. got'[i] = got[i] /\ 1 <= got[i] /\ got[i] <= asked /\ got[i] \in Nat
      BY <1>6, <1>7, <2>1
    <3> QED BY <1>1, <1>3, <3>1
  <2>2. CASE i - n \in 1 .. d /\ got'[i] = a + (i - n)
    BY <1>3, <1>5, <2>2
  <2> QED BY <1>9, <2>1, <2>2
<1>11. ASSUME NEW i \in 1 .. n + d, NEW k \in 1 .. n + d, i < k PROVE got'[i] < got'[k]
  <2>1. CASE i \in 1 .. n /\ k \in 1 .. n
    BY <1>6, <1>8, <1>11, <2>1
  <2>2. CASE i \in 1 .. n /\ k - n \in 1 .. d /\ got'[k] = a + (k - n)
    <3>1. got'[i] = got[i] /\ got[i] <= asked /\ got[i] \in Nat
      BY <1>6, <1>7, <2>2
    <3> QED BY <1>1, <1>2, <2>2, <3>1
  <2>3. CASE i - n \in 1 .. d /\ got'[i] = a + (i - n) /\ k - n \in 1 .. d /\ got'[k] = a + (k - n)
    BY <1>11, <2>3
  <2>4. CASE i - n \in 1 .. d /\ k \in 1 .. n
    BY <1>11, <2>4
  <2> QED BY <1>9, <2>1, <2>2, <2>3, <2>4
<1>12. NeverTwice'
  <2>1. DOMAIN got' = 1 .. n + d
    BY <1>6, LenProperties
  <2> QED BY <1>11, <2>1 DEF NeverTwice
<1>13. cursor' = cursor
  BY DEF Read, session
<1> QED BY <1>3, <1>6, <1>10, <1>12, <1>13 DEF Paged

\* A client that goes on behind the last line it got leaves out evicted lines only.
LEMMA ReadKeepsComplete ==
  ASSUME PagesBy = "event", IInv, Paged, Complete, NEW limit \in Limits, Read(limit)
  PROVE  Complete'
<1>1. asked \in Nat /\ asked <= cursor /\ got \in Seq(Nat) /\ evicted \in Nat
  BY DEF Paged, IInv, TypeOK
<1>2. PICK a \in Nat, b \in Nat :
        /\ Spans(Chunk(asked, limit), a, b) /\ asked <= a /\ b <= cursor
        /\ asked # 0 => a = asked \/ a = evicted
  BY <1>1, ChunkSpans
<1>3. asked' = IF a < b THEN b ELSE asked
  BY <1>2, AskedFollows
<1>4. got' = With(got, Chunk(asked, limit))
  BY DEF Read, Numbers, With
<1>5. PICK n \in Nat, d \in Nat : n = Len(got) /\ d = b - a /\ a <= b
  BY <1>1, <1>2, LenProperties DEF Spans
<1>6. /\ got' \in Seq(Nat) /\ Len(got') = n + d
      /\ \A i \in 1 .. n : got'[i] = got[i]
      /\ \A i \in 1 .. d : got'[n + i] = a + i
  <2>0. PICK g \in Seq(Nat) : g = got
    BY <1>1
  <2>1. PICK s : s = Chunk(asked, limit)
    OBVIOUS
  <2>2. Spans(s, a, b)
    BY <1>2, <2>1
  <2>3. PICK h : h = With(g, s)
    OBVIOUS
  <2>4. Follows(h, g, a, b)
    BY <2>0, <2>2, <2>3, NumbersFollow, Zenon
  <2>5. got' = h /\ got = g /\ n = Len(g)
    BY <1>4, <1>5, <2>0, <2>1, <2>3
  <2> QED BY <1>5, <2>4, <2>5 DEF Follows
<1>7. DOMAIN got = 1 .. n /\ DOMAIN got' = 1 .. n + d /\ evicted' = evicted
  BY <1>1, <1>5, <1>6, LenProperties DEF Read, session
<1>8. (got = <<>> <=> n = 0) /\ (got' = <<>> <=> n + d = 0)
  BY <1>1, <1>5, <1>6, EmptySeq
<1>9. got' = <<>> <=> asked' = 0
  <2>1. n = 0 <=> asked = 0
    BY <1>8 DEF Complete
  <2>2. a < b <=> d # 0
    BY <1>5
  <2> QED BY <1>3, <1>5, <1>8, <2>1, <2>2
<1>10. ASSUME n + d # 0, NEW c \in got'[1] .. asked', c > evicted
       PROVE  \E i \in 1 .. n + d : got'[i] = c
  <2>1. CASE d = 0
    <3>1. asked' = asked /\ n # 0 /\ got'[1] = got[1] /\ got # <<>>
      BY <1>3, <1>5, <1>6, <1>8, <1>10, <2>1
    <3>2. c \in got[1] .. asked
      BY <3>1
    <3>3. PICK i \in 1 .. n : got[i] = c
      BY <1>7, <1>10, <3>1, <3>2 DEF Complete, PagesAreComplete
    <3> QED BY <1>6, <3>3
  <2>2. CASE d # 0 /\ n = 0
    <3>1. asked' = b /\ got'[1] = a + 1
      <4>1. got'[n + 1] = a + 1 /\ n + 1 = 1
        BY <1>6, <2>2
      <4> QED BY <1>3, <1>5, <2>2, <4>1
    <3>2. c - a \in 1 .. d /\ a + (c - a) = c /\ n + (c - a) = c - a
      BY <1>5, <2>2, <3>1
    <3>3. got'[n + (c - a)] = a + (c - a)
      BY <1>6, <3>2
    <3>4. c - a \in 1 .. n + d
      BY <2>2, <3>2
    <3> QED BY <3>2, <3>3, <3>4
  <2>3. CASE d # 0 /\ n # 0
    <3>1. asked' = b /\ got'[1] = got[1] /\ got # <<>> /\ asked # 0
      BY <1>3, <1>5, <1>6, <1>8, <2>3 DEF Complete
    <3>2. got[1] \in Nat
      BY <1>1, <1>5, <2>3, ElementOfSeq
    <3>3. CASE c <= asked
      <4>1. c \in got[1] .. asked
        BY <1>1, <3>1, <3>2, <3>3
      <4>2. PICK i \in 1 .. n : got[i] = c
        BY <1>7, <1>10, <3>1, <4>1 DEF Complete, PagesAreComplete
      <4> QED BY <1>6, <4>2
    <3>4. CASE a < c
      <4>1. c - a \in 1 .. d /\ a + (c - a) = c
        BY <1>5, <3>1, <3>2, <3>4
      <4>2. n + (c - a) \in 1 .. n + d
        BY <4>1
      <4> QED BY <1>6, <4>1, <4>2
    <3>5. c <= asked \/ a < c
      BY <1>1, <1>2, <1>10, <3>1, <3>2
    <3> QED BY <3>3, <3>4, <3>5
  <2> QED BY <2>1, <2>2, <2>3
<1>11. PagesAreComplete'
  <2>1. got' # <<>> => \A c \in got'[1] .. asked' :
                         c > evicted' => \E i \in DOMAIN got' : got'[i] = c
    BY <1>7, <1>8, <1>10
  <2> QED BY <2>1 DEF PagesAreComplete
<1> QED BY <1>9, <1>11 DEF Complete

\* The session only goes on: while a client does nothing its lines stay as they are,
\* and the numbers and the evictions only grow.
LEMMA SessionGoesOn ==
  ASSUME IInv, [Next]_vars
  PROVE  \/ \E limit \in Limits : Read(limit)
         \/ asked' = asked /\ got' = got /\ cursor <= cursor' /\ evicted <= evicted'
<1>0. cursor \in Nat /\ evicted \in Nat
  BY DEF IInv, TypeOK
<1>1. CASE UNCHANGED vars \/ Exit \/ Wait \/ Close
  BY <1>0, <1>1 DEF vars, session, client, Exit, Wait, Close
<1>2. ASSUME NEW s \in Sources, Write(s) \/ PumpEnds(s)
      PROVE  asked' = asked /\ got' = got /\ cursor <= cursor' /\ evicted <= evicted'
  BY <1>0, <1>2 DEF Write, PumpEnds, session, client
<1>3. ASSUME NEW s \in Sources, Pump(s)
      PROVE  asked' = asked /\ got' = got /\ cursor <= cursor' /\ evicted <= evicted'
  <2>1. asked' = asked /\ got' = got /\ (Store(s) \/ UNCHANGED <<buffer, cursor, evicted>>)
    BY <1>3 DEF Pump, client
  <2>2. CASE Store(s)
    BY <1>0, <2>1, <2>2 DEF Store
  <2>3. CASE UNCHANGED <<buffer, cursor, evicted>>
    BY <1>0, <2>1, <2>3
  <2> QED BY <2>1, <2>2, <2>3
<1> QED BY <1>1, <1>2, <1>3 DEF Next

\* Every step keeps what a client has in order.
LEMMA PagedStep == IInv /\ Paged /\ [Next]_vars => Paged'
<1> SUFFICES ASSUME IInv, Paged, [Next]_vars PROVE Paged'
  OBVIOUS
<1>1. CASE \E limit \in Limits : Read(limit)
  BY <1>1, ReadKeepsPaged
<1>2. CASE asked' = asked /\ got' = got /\ cursor <= cursor' /\ evicted <= evicted'
  <2>1. cursor \in Nat /\ cursor' \in Nat
    BY Inductive DEF IInv, TypeOK
  <2>2. asked \in Nat /\ asked <= cursor'
    BY <1>2, <2>1 DEF Paged
  <2>3. NeverTwice'
    BY <1>2 DEF Paged, NeverTwice
  <2> QED BY <1>2, <2>2, <2>3 DEF Paged
<1> QED BY <1>1, <1>2, SessionGoesOn

\* Every step keeps what a client has complete, but for what is evicted.
LEMMA CompleteStep ==
  PagesBy = "event" /\ IInv /\ Paged /\ Complete /\ [Next]_vars => Complete'
<1> SUFFICES ASSUME PagesBy = "event", IInv, Paged, Complete, [Next]_vars PROVE Complete'
  OBVIOUS
<1>1. CASE \E limit \in Limits : Read(limit)
  BY <1>1, ReadKeepsComplete
<1>2. CASE asked' = asked /\ got' = got /\ cursor <= cursor' /\ evicted <= evicted'
  <2>1. evicted \in Nat /\ evicted' \in Nat
    BY Inductive DEF IInv, TypeOK
  <2>2. ASSUME got # <<>>, NEW c \in got[1] .. asked, c > evicted'
        PROVE  \E i \in DOMAIN got : got[i] = c
    <3>1. got[1] \in Nat /\ asked \in Nat
      <4>1. got \in Seq(Nat) /\ asked \in Nat
        BY DEF Paged
      <4>2. 1 \in 1 .. Len(got)
        BY <2>2, <4>1, EmptySeq, LenProperties
      <4> QED BY <4>1, <4>2, ElementOfSeq
    <3>2. c > evicted
      BY <1>2, <2>1, <2>2, <3>1
    <3> QED BY <2>2, <3>2 DEF Complete, PagesAreComplete
  <2>3. PagesAreComplete'
    BY <1>2, <2>2 DEF PagesAreComplete
  <2> QED BY <1>2, <2>3 DEF Complete
<1> QED BY <1>1, <1>2, SessionGoesOn

\* A client that has read nothing has nothing and goes on at the start.
LEMMA ClientInitially == Init => Paged /\ Complete
<1> SUFFICES ASSUME Init PROVE Paged /\ Complete
  OBVIOUS
<1>1. asked = 0 /\ got = <<>> /\ cursor = 0
  BY DEF Init
<1>2. got \in Seq(Nat) /\ Len(got) = 0 /\ DOMAIN got = {}
  BY <1>1
<1>3. Paged
  BY <1>1, <1>2 DEF Paged, NeverTwice
<1>4. Complete
  BY <1>1 DEF Complete, PagesAreComplete
<1> QED BY <1>3, <1>4

\* TerminalManager.read: a client that goes on polling, at the cursor of the answer or
\* of the last event, never gets a line twice or out of order, whatever the pumps store
\* and evict between two polls.
THEOREM LinesOnce == Spec => []NeverTwice
<1>1. Init => IInv /\ Paged
  BY Initially, ClientInitially
<1>2. IInv /\ Paged /\ [Next]_vars => (IInv /\ Paged)'
  BY Inductive, PagedStep
<1>3. IInv /\ Paged => NeverTwice
  BY DEF Paged
<1> QED BY <1>1, <1>2, <1>3, PTL DEF Spec

\* The cursor paging the README speaks of: a client that goes on at the last event it
\* got misses no line behind its first, except one that was evicted before it asked.
THEOREM PagesComplete == ASSUME PagesBy = "event" PROVE Spec => []PagesAreComplete
<1>1. Init => IInv /\ Paged /\ Complete
  BY Initially, ClientInitially
<1>2. IInv /\ Paged /\ Complete /\ [Next]_vars => (IInv /\ Paged /\ Complete)'
  BY Inductive, PagedStep, CompleteStep
<1>3. IInv /\ Paged /\ Complete => PagesAreComplete
  BY DEF Complete
<1> QED BY <1>1, <1>2, <1>3, PTL DEF Spec
=============================================================================
