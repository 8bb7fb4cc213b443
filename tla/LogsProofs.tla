----------------------------- MODULE LogsProofs -----------------------------
(***************************************************************************)
(* What holds of the logs of a node for any number of calls, events and    *)
(* faults, any page and any bound of the history: the audit log has every  *)
(* command that ran but for those a torn line hides, the history never     *)
(* shows a call twice and keeps the newest rows, and a client that follows *)
(* the cursor reads the events in order.                                   *)
(*                                                                         *)
(* Each log has an invariant of its own.  All of them rest on the shape of *)
(* a file after one append, whole or cut short, which comes first.         *)
(***************************************************************************)
EXTENDS Logs, SequenceTheorems, FiniteSetTheorems, TLAPS

Open(f) == f.open

\* A file of numbered records; one that is open has a last line.
Fine(f) ==
  /\ f \in [lines : Seq(Nat), open : BOOLEAN]
  /\ Open(f) => Len(f.lines) > 0

Width(split) == IF split THEN 2 ELSE 1

\* What any append of record r leaves of f: it adds at most the lines of the record,
\* in an open file it spoils the last line, and it does not touch the others.
Extends(f, g, r, split) ==
  /\ Fine(g)
  /\ Len(f.lines) <= Len(g.lines) /\ Len(g.lines) <= Len(f.lines) + Width(split)
  /\ \A k \in 1 .. Len(f.lines) :
       g.lines[k] = f.lines[k] \/ (k = Len(f.lines) /\ Open(f) /\ g.lines[k] = Bad)
  /\ \A k \in Len(f.lines) + 1 .. Len(g.lines) :
       \/ g.lines[k] = Bad
       \/ g.lines[k] = r /\ k = Len(f.lines) + 1 /\ k = Len(g.lines) /\ ~Open(f) /\ ~split

\* One that succeeds.
Completes(f, g, r, split) ==
  /\ Extends(f, g, r, split) /\ ~Open(g)
  /\ Open(f) => g.lines[Len(f.lines)] = Bad
  /\ ~Open(f) => Len(g.lines) > Len(f.lines)
  /\ ~Open(f) /\ ~split => Len(g.lines) = Len(f.lines) + 1 /\ g.lines[Len(f.lines) + 1] = r

\* One that fails: the record is there only as the unfinished last line.
Tears(f, g, r, split) ==
  /\ Extends(f, g, r, split)
  /\ \/ g = f
     \/ /\ Open(f) => g.lines[Len(f.lines)] = Bad
        /\ Open(g) => g.lines[Len(g.lines)] \in {r, Bad}
        /\ ~Open(g) => \A k \in Len(f.lines) + 1 .. Len(g.lines) : g.lines[k] = Bad

-----------------------------------------------------------------------------
(***************************************************************************)
(* Appending.                                                              *)
(***************************************************************************)
\* The parts of a file.
LEMMA FileParts ==
  ASSUME NEW s \in Seq(Nat)
  PROVE  /\ File(s, TRUE).lines = s /\ Open(File(s, TRUE))
         /\ File(s, FALSE).lines = s /\ ~Open(File(s, FALSE))
         /\ File(s, TRUE) \in [lines : Seq(Nat), open : BOOLEAN]
         /\ File(s, FALSE) \in [lines : Seq(Nat), open : BOOLEAN]
BY DEF File, Open

\* The lines j that a file f of n lines has with the lines new appended to it.
Grows(f, new, n, j) ==
  /\ j \in Seq(Nat) /\ n \in Nat
  /\ ~Open(f) => /\ Len(j) = n + Len(new)
                 /\ \A k \in 1 .. n : j[k] = f.lines[k]
                 /\ \A k \in 1 .. Len(new) : j[n + k] = new[k]
  /\ Open(f) => /\ n > 0 /\ Len(j) = n + Len(new) - 1
                /\ \A k \in 1 .. n - 1 : j[k] = f.lines[k]
                /\ j[n] = Bad
                /\ \A k \in 1 .. Len(new) - 1 : j[n + k] = new[k + 1]

\* Where the lines go that are appended to a file.
LEMMA JoinedShape ==
  ASSUME NEW f, Fine(f), NEW new \in Seq(Nat), Len(new) > 0
  PROVE  Grows(f, new, Len(f.lines), Joined(f, new))
<1>1. SUFFICES ASSUME NEW n, n = Len(f.lines), NEW j, j = Joined(f, new) PROVE Grows(f, new, n, j)
  OBVIOUS
<1>2. PICK s \in Seq(Nat), m \in Nat : s = f.lines /\ n = Len(s) /\ m = Len(new) /\ m > 0
  BY <1>1, LenProperties DEF Fine
<1>3. n \in Nat /\ new # <<>>
  BY <1>2, EmptySeq, LenProperties
<1>4. CASE ~Open(f)
  <2>1. j = s \o new
    BY <1>1, <1>2, <1>3, <1>4, Zenon DEF Joined, Open
  <2>2. j \in Seq(Nat) /\ Len(j) = n + m
        /\ \A k \in 1 .. n + m : j[k] = IF k <= n THEN s[k] ELSE new[k - n]
    BY <1>2, <2>1, ConcatProperties
  <2>3. \A k \in 1 .. m : n + k \in 1 .. n + m /\ ~(n + k <= n) /\ (n + k) - n = k
    BY <1>2, <1>3
  <2>4. \A k \in 1 .. n : k \in 1 .. n + m /\ k <= n
    BY <1>2, <1>3
  <2>5. \A k \in 1 .. n : j[k] = s[k]
    BY <2>2, <2>4
  <2>6. \A k \in 1 .. m : j[n + k] = new[k]
    BY <2>2, <2>3
  <2> QED BY <1>2, <1>3, <1>4, <2>2, <2>5, <2>6 DEF Grows
<1>5. CASE Open(f)
  <2> DEFINE a == Front(s)
             b == a \o <<Bad>>
             c == Tail(new)
  <2>1. j = b \o c
    BY <1>1, <1>2, <1>3, <1>5, Zenon DEF Joined, Open
  <2>2. n > 0
    BY <1>2, <1>5 DEF Fine
  <2>3. a \in Seq(Nat) /\ Len(a) = n - 1 /\ \A k \in 1 .. n - 1 : a[k] = s[k]
    BY <1>2, <1>3, <2>2 DEF Front
  <2> HIDE DEF a
  <2>4. b \in Seq(Nat) /\ Len(b) = n /\ b[n] = Bad /\ \A k \in 1 .. n - 1 : b[k] = s[k]
    <3>1. <<Bad>> \in Seq(Nat) /\ Len(<<Bad>>) = 1 /\ <<Bad>>[1] = Bad
      BY DEF Bad
    <3>2. PICK d \in Seq(Nat) : d = <<Bad>>
      BY <3>1
    <3>3. b \in Seq(Nat) /\ Len(b) = Len(a) + Len(d)
          /\ \A k \in 1 .. Len(a) + Len(d) : b[k] = IF k <= Len(a) THEN a[k] ELSE d[k - Len(a)]
      BY <2>3, <3>2, ConcatProperties
    <3> HIDE DEF b
    <3>4. Len(a) + Len(d) = n /\ ~(n <= Len(a)) /\ n - Len(a) = 1 /\ n \in 1 .. n
      BY <1>3, <2>2, <2>3, <3>1, <3>2
    <3>5. b[n] = Bad
      BY <3>1, <3>2, <3>3, <3>4
    <3>6. ASSUME NEW k \in 1 .. n - 1 PROVE b[k] = s[k]
      <4>1. k \in 1 .. n /\ k <= Len(a)
        BY <1>3, <2>3
      <4> QED BY <2>3, <3>3, <3>4, <4>1
    <3> QED BY <3>3, <3>4, <3>5, <3>6
  <2>5. c \in Seq(Nat) /\ Len(c) = m - 1 /\ \A k \in 1 .. m - 1 : c[k] = new[k + 1]
    BY <1>2, <1>3, HeadTailProperties
  <2> HIDE DEF b, c
  <2>6. j \in Seq(Nat) /\ Len(j) = n + (m - 1)
        /\ \A k \in 1 .. n + (m - 1) : j[k] = IF k <= n THEN b[k] ELSE c[k - n]
    <3>1. PICK t \in Seq(Nat), u \in Seq(Nat) : t = b /\ u = c
      BY <2>4, <2>5
    <3>2. j \in Seq(Nat) /\ Len(j) = Len(t) + Len(u)
          /\ \A k \in 1 .. Len(t) + Len(u) : j[k] = IF k <= Len(t) THEN t[k] ELSE u[k - Len(t)]
      BY <2>1, <3>1, ConcatProperties
    <3> QED BY <2>4, <2>5, <3>1, <3>2
  <2>7. ASSUME NEW k \in 1 .. n - 1 PROVE j[k] = s[k]
    <3>1. k \in 1 .. n + (m - 1) /\ k <= n
      BY <1>2, <1>3
    <3> QED BY <2>4, <2>6, <3>1
  <2>8. j[n] = Bad
    <3>1. n \in 1 .. n + (m - 1) /\ n <= n
      BY <1>2, <1>3, <2>2
    <3> QED BY <2>4, <2>6, <3>1
  <2>9. ASSUME NEW k \in 1 .. m - 1 PROVE j[n + k] = new[k + 1]
    <3>1. n + k \in 1 .. n + (m - 1) /\ ~(n + k <= n) /\ (n + k) - n = k
      BY <1>2, <1>3
    <3> QED BY <2>5, <2>6, <3>1
  <2>10. n + (m - 1) = n + m - 1
    BY <1>2, <1>3
  <2> QED BY <1>2, <1>3, <1>5, <2>2, <2>6, <2>7, <2>8, <2>9, <2>10 DEF Grows
<1> QED BY <1>4, <1>5

\* The ways an append can fail.
LEMMA CutCases ==
  ASSUME NEW f, NEW r, NEW split \in BOOLEAN, NEW g \in CutShort(f, r, split)
  PROVE  \/ g = f
         \/ g = File(Joined(f, <<Bad>>), TRUE)
         \/ ~split /\ g = File(Joined(f, <<r>>), TRUE)
         \/ split /\ g = File(Joined(f, <<Bad, Bad>>), TRUE)
         \/ split /\ g = File(Joined(f, <<Bad>>), FALSE)
<1>1. SUFFICES ASSUME NEW x \in Pieces(r, split), g = File(Joined(f, x.lines), x.open)
               PROVE  \/ g = File(Joined(f, <<Bad>>), TRUE)
                      \/ ~split /\ g = File(Joined(f, <<r>>), TRUE)
                      \/ split /\ g = File(Joined(f, <<Bad, Bad>>), TRUE)
                      \/ split /\ g = File(Joined(f, <<Bad>>), FALSE)
  BY DEF CutShort
<1>2. \A s, b : File(s, b).lines = s /\ File(s, b).open = b
  BY DEF File
<1>3. \/ x = File(<<Bad>>, TRUE)
      \/ ~split /\ x = File(<<r>>, TRUE)
      \/ split /\ x = File(<<Bad, Bad>>, TRUE)
      \/ split /\ x = File(<<Bad>>, FALSE)
  BY DEF Pieces, Lines
<1>4. CASE x = File(<<Bad>>, TRUE)
  BY <1>1, <1>2, <1>4, Zenon
<1>5. CASE ~split /\ x = File(<<r>>, TRUE)
  BY <1>1, <1>2, <1>5, Zenon
<1>6. CASE split /\ x = File(<<Bad, Bad>>, TRUE)
  BY <1>1, <1>2, <1>6, Zenon
<1>7. CASE split /\ x = File(<<Bad>>, FALSE)
  BY <1>1, <1>2, <1>7, Zenon
<1> QED BY <1>3, <1>4, <1>5, <1>6, <1>7

\* One line more.
LEMMA OneLine ==
  ASSUME NEW f, Fine(f), NEW x \in Nat
  PROVE  /\ Joined(f, <<x>>) \in Seq(Nat) /\ Len(f.lines) \in Nat
         /\ ~Open(f) => /\ Len(Joined(f, <<x>>)) = Len(f.lines) + 1
                        /\ Joined(f, <<x>>)[Len(f.lines) + 1] = x
                        /\ \A k \in 1 .. Len(f.lines) : Joined(f, <<x>>)[k] = f.lines[k]
         /\ Open(f) => /\ Len(f.lines) > 0 /\ Len(Joined(f, <<x>>)) = Len(f.lines)
                       /\ Joined(f, <<x>>)[Len(f.lines)] = Bad
                       /\ \A k \in 1 .. Len(f.lines) - 1 : Joined(f, <<x>>)[k] = f.lines[k]
<1>1. PICK new : new = <<x>>
  OBVIOUS
<1>2. new \in Seq(Nat) /\ Len(new) = 1 /\ Len(new) > 0 /\ new[1] = x
  BY <1>1
<1>3. PICK n, j : n = Len(f.lines) /\ j = Joined(f, new)
  OBVIOUS
<1>4. Grows(f, new, n, j)
  BY <1>2, <1>3, JoinedShape
<1>5. ~Open(f) => j[n + 1] = x /\ Len(j) = n + 1
  BY <1>2, <1>4 DEF Grows
<1>6. Open(f) => Len(j) = n
  BY <1>2, <1>4 DEF Grows
<1> QED BY <1>1, <1>3, <1>4, <1>5, <1>6 DEF Grows

\* Two lines that cannot be read.
LEMMA TwoLines ==
  ASSUME NEW f, Fine(f)
  PROVE  /\ Joined(f, <<Bad, Bad>>) \in Seq(Nat) /\ Len(f.lines) \in Nat
         /\ ~Open(f) => /\ Len(Joined(f, <<Bad, Bad>>)) = Len(f.lines) + 2
                        /\ Joined(f, <<Bad, Bad>>)[Len(f.lines) + 1] = Bad
                        /\ Joined(f, <<Bad, Bad>>)[Len(f.lines) + 2] = Bad
                        /\ \A k \in 1 .. Len(f.lines) : Joined(f, <<Bad, Bad>>)[k] = f.lines[k]
         /\ Open(f) => /\ Len(f.lines) > 0 /\ Len(Joined(f, <<Bad, Bad>>)) = Len(f.lines) + 1
                       /\ Joined(f, <<Bad, Bad>>)[Len(f.lines)] = Bad
                       /\ Joined(f, <<Bad, Bad>>)[Len(f.lines) + 1] = Bad
                       /\ \A k \in 1 .. Len(f.lines) - 1 : Joined(f, <<Bad, Bad>>)[k] = f.lines[k]
<1>1. PICK new : new = <<Bad, Bad>>
  OBVIOUS
<1>2. new \in Seq(Nat) /\ Len(new) = 2 /\ new[1] = Bad /\ new[2] = Bad
  BY <1>1 DEF Bad
<1>3. PICK n, j : n = Len(f.lines) /\ j = Joined(f, new)
  OBVIOUS
<1>4. Grows(f, new, n, j)
  BY <1>2, <1>3, JoinedShape
<1>5. ~Open(f) => j[n + 1] = Bad /\ j[n + 2] = Bad /\ Len(j) = n + 2
  BY <1>2, <1>4 DEF Grows
<1>6. Open(f) => j[n + 1] = Bad /\ Len(j) = n + 1
  BY <1>2, <1>4 DEF Grows
<1> QED BY <1>1, <1>3, <1>4, <1>5, <1>6 DEF Grows

\* A file that one line is appended to, the record or what is left of it.
LEMMA OneLineMore ==
  ASSUME NEW f, Fine(f), NEW r \in Nat, NEW split \in BOOLEAN, NEW x \in Nat,
         x = Bad \/ (x = r /\ ~split),
         NEW g, g \in [lines : Seq(Nat), open : BOOLEAN], g.lines = Joined(f, <<x>>)
  PROVE  /\ Extends(f, g, r, split)
         /\ Open(f) => g.lines[Len(f.lines)] = Bad
         /\ ~Open(f) => Len(g.lines) = Len(f.lines) + 1 /\ g.lines[Len(f.lines) + 1] = x
         /\ g.lines[Len(g.lines)] \in {r, Bad}
         /\ x = Bad => \A k \in Len(f.lines) + 1 .. Len(g.lines) : g.lines[k] = Bad
<1>1. PICK n, j, s : n = Len(f.lines) /\ j = g.lines /\ s = f.lines
  OBVIOUS
<1>2. /\ j \in Seq(Nat) /\ n \in Nat
      /\ ~Open(f) => /\ Len(j) = n + 1 /\ j[n + 1] = x /\ \A k \in 1 .. n : j[k] = s[k]
      /\ Open(f) => /\ n > 0 /\ Len(j) = n /\ j[n] = Bad /\ \A k \in 1 .. n - 1 : j[k] = s[k]
  BY <1>1, OneLine
<1>3. Width(split) \in Nat /\ Width(split) >= 1
  BY DEF Width
<1>4. Fine(g)
  BY <1>1, <1>2 DEF Fine
<1>5. CASE ~Open(f)
  <2>1. n <= Len(j) /\ Len(j) <= n + Width(split)
    BY <1>2, <1>3, <1>5
  <2>2. \A k \in 1 .. n : j[k] = s[k]
    BY <1>2, <1>5
  <2>3. \A k \in n + 1 .. Len(j) : k = n + 1 /\ k = Len(j) /\ j[k] = x
    BY <1>2, <1>5
  <2>4. Extends(f, g, r, split)
    BY <1>1, <1>4, <1>5, <2>1, <2>2, <2>3 DEF Extends
  <2> QED BY <1>1, <1>2, <1>5, <2>3, <2>4
<1>6. CASE Open(f)
  <2>1. n <= Len(j) /\ Len(j) <= n + Width(split)
    BY <1>2, <1>3, <1>6
  <2>2. \A k \in 1 .. n : j[k] = s[k] \/ (k = n /\ j[k] = Bad)
    BY <1>2, <1>6
  <2>3. \A k \in n + 1 .. Len(j) : FALSE
    BY <1>2, <1>6
  <2>4. Extends(f, g, r, split)
    BY <1>1, <1>4, <1>6, <2>1, <2>2, <2>3 DEF Extends
  <2> QED BY <1>1, <1>2, <1>6, <2>3, <2>4
<1> QED BY <1>5, <1>6

\* A file that a record of two lines is appended to, which cannot be read.
LEMMA TwoLinesMore ==
  ASSUME NEW f, Fine(f), NEW r \in Nat, NEW split \in BOOLEAN, Width(split) = 2,
         NEW g, g \in [lines : Seq(Nat), open : BOOLEAN], g.lines = Joined(f, <<Bad, Bad>>)
  PROVE  /\ Extends(f, g, r, split)
         /\ Open(f) => g.lines[Len(f.lines)] = Bad
         /\ ~Open(f) => Len(g.lines) > Len(f.lines)
         /\ g.lines[Len(g.lines)] = Bad
<1>1. PICK n, j, s : n = Len(f.lines) /\ j = g.lines /\ s = f.lines
  OBVIOUS
<1>2. /\ j \in Seq(Nat) /\ n \in Nat
      /\ ~Open(f) => /\ Len(j) = n + 2 /\ j[n + 1] = Bad /\ j[n + 2] = Bad
                     /\ \A k \in 1 .. n : j[k] = s[k]
      /\ Open(f) => /\ n > 0 /\ Len(j) = n + 1 /\ j[n] = Bad /\ j[n + 1] = Bad
                    /\ \A k \in 1 .. n - 1 : j[k] = s[k]
  BY <1>1, TwoLines
<1>3. PICK w \in Nat : w = Width(split) /\ w = 2
  OBVIOUS
<1>4. Fine(g)
  BY <1>1, <1>2 DEF Fine
<1>5. CASE ~Open(f)
  <2>1. n <= Len(j) /\ Len(j) <= n + w
    BY <1>2, <1>3, <1>5
  <2>2. \A k \in 1 .. n : j[k] = s[k]
    BY <1>2, <1>5
  <2>3. \A k \in n + 1 .. Len(j) : j[k] = Bad
    BY <1>2, <1>5
  <2>4. Extends(f, g, r, split)
    BY <1>1, <1>3, <1>4, <1>5, <2>1, <2>2, <2>3 DEF Extends
  <2> QED BY <1>1, <1>2, <1>5, <2>4
<1>6. CASE Open(f)
  <2>1. n <= Len(j) /\ Len(j) <= n + w
    BY <1>2, <1>3, <1>6
  <2>2. \A k \in 1 .. n : j[k] = s[k] \/ (k = n /\ j[k] = Bad)
    BY <1>2, <1>6
  <2>3. \A k \in n + 1 .. Len(j) : j[k] = Bad
    BY <1>2, <1>6
  <2>4. Extends(f, g, r, split)
    BY <1>1, <1>3, <1>4, <1>6, <2>1, <2>2, <2>3 DEF Extends
  <2> QED BY <1>1, <1>2, <1>6, <2>4
<1> QED BY <1>5, <1>6

\* An append that succeeds.
LEMMA WrittenCompletes ==
  ASSUME NEW f, Fine(f), NEW r \in Nat, NEW split \in BOOLEAN
  PROVE  Completes(f, Written(f, r, split), r, split)
<1>1. CASE split
  <2>1. PICK g : g = File(Joined(f, <<Bad, Bad>>), FALSE)
    OBVIOUS
  <2>2. Joined(f, <<Bad, Bad>>) \in Seq(Nat)
    BY TwoLines
  <2>3. g \in [lines : Seq(Nat), open : BOOLEAN] /\ g.lines = Joined(f, <<Bad, Bad>>) /\ ~Open(g)
    BY <2>1, <2>2, FileParts
  <2>6. Width(split) = 2
    BY <1>1 DEF Width
  <2>4. /\ Extends(f, g, r, split) /\ (Open(f) => g.lines[Len(f.lines)] = Bad)
        /\ ~Open(f) => Len(g.lines) > Len(f.lines)
    BY <2>6, <2>3, TwoLinesMore
  <2>5. g = Written(f, r, split)
    BY <1>1, <2>1 DEF Written, Lines
  <2> QED BY <1>1, <2>3, <2>4, <2>5 DEF Completes
<1>2. CASE ~split
  <2>1. PICK g : g = File(Joined(f, <<r>>), FALSE)
    OBVIOUS
  <2>2. Joined(f, <<r>>) \in Seq(Nat)
    BY OneLine
  <2>3. g \in [lines : Seq(Nat), open : BOOLEAN] /\ g.lines = Joined(f, <<r>>) /\ ~Open(g)
    BY <2>1, <2>2, FileParts
  <2>4. /\ Extends(f, g, r, split) /\ (Open(f) => g.lines[Len(f.lines)] = Bad)
        /\ ~Open(f) => Len(g.lines) = Len(f.lines) + 1 /\ g.lines[Len(f.lines) + 1] = r
    BY <1>2, <2>3, OneLineMore
  <2>5. g = Written(f, r, split)
    BY <1>2, <2>1 DEF Written, Lines
  <2>6. ~Open(f) => Len(g.lines) > Len(f.lines)
    BY <2>4 DEF Fine
  <2> QED BY <1>2, <2>3, <2>4, <2>5, <2>6 DEF Completes
<1> QED BY <1>1, <1>2

\* One that does not.
LEMMA CutTears ==
  ASSUME NEW f, Fine(f), NEW r \in Nat, NEW split \in BOOLEAN, NEW g \in CutShort(f, r, split)
  PROVE  Tears(f, g, r, split)
<1>1. CASE g = f
  <2>1. Len(f.lines) \in Nat /\ Width(split) \in Nat
    BY DEF Fine, Width
  <2> QED BY <1>1, <2>1 DEF Tears, Extends
<1>2. ASSUME NEW x \in Nat, x = Bad \/ (x = r /\ ~split), NEW b \in BOOLEAN,
             g = File(Joined(f, <<x>>), b), x = r /\ x # Bad => b
      PROVE  Tears(f, g, r, split)
  <2>1. Joined(f, <<x>>) \in Seq(Nat)
    BY OneLine
  <2>2. g \in [lines : Seq(Nat), open : BOOLEAN] /\ g.lines = Joined(f, <<x>>)
    BY <1>2, <2>1 DEF File
  <2>3. ~Open(g) => x = Bad
    BY <1>2 DEF File, Open
  <2>4. /\ Extends(f, g, r, split)
        /\ Open(f) => g.lines[Len(f.lines)] = Bad
        /\ g.lines[Len(g.lines)] \in {r, Bad}
        /\ x = Bad => \A k \in Len(f.lines) + 1 .. Len(g.lines) : g.lines[k] = Bad
    BY <1>2, <2>2, OneLineMore
  <2> QED BY <2>3, <2>4 DEF Tears
<1>3. CASE split /\ g = File(Joined(f, <<Bad, Bad>>), TRUE)
  <2>1. Joined(f, <<Bad, Bad>>) \in Seq(Nat)
    BY TwoLines
  <2>2. g \in [lines : Seq(Nat), open : BOOLEAN] /\ g.lines = Joined(f, <<Bad, Bad>>) /\ Open(g)
    BY <1>3, <2>1, FileParts
  <2>3. /\ Extends(f, g, r, split)
        /\ Open(f) => g.lines[Len(f.lines)] = Bad
        /\ g.lines[Len(g.lines)] = Bad
    <3>1. Width(split) = 2
      BY <1>3 DEF Width
    <3> QED BY <2>2, <3>1, TwoLinesMore
  <2> QED BY <2>2, <2>3 DEF Tears
<1>4. Bad \in Nat
  BY DEF Bad
<1>5. CASE g = File(Joined(f, <<Bad>>), TRUE)
  BY <1>2, <1>4, <1>5
<1>6. CASE ~split /\ g = File(Joined(f, <<r>>), TRUE)
  BY <1>2, <1>6
<1>7. CASE split /\ g = File(Joined(f, <<Bad>>), FALSE)
  BY <1>2, <1>4, <1>7
<1> QED BY <1>1, <1>3, <1>5, <1>6, <1>7, CutCases

-----------------------------------------------------------------------------
(***************************************************************************)
(* Reading and compacting.                                                 *)
(***************************************************************************)
\* The larger and the smaller of two numbers.
LEMMA MaxMin ==
  ASSUME NEW a \in Int, NEW b \in Int
  PROVE  /\ Max({a, b}) = IF a >= b THEN a ELSE b
         /\ Min({a, b}) = IF a <= b THEN a ELSE b
<1>1. \E x \in {a, b} : \A y \in {a, b} : x >= y
  OBVIOUS
<1>2. \E x \in {a, b} : \A y \in {a, b} : x <= y
  OBVIOUS
<1>3. Max({a, b}) \in {a, b} /\ \A y \in {a, b} : Max({a, b}) >= y
  BY <1>1, Zenon DEF Max
<1>4. Min({a, b}) \in {a, b} /\ \A y \in {a, b} : Min({a, b}) <= y
  BY <1>2, Zenon DEF Min
<1>5. PICK x, y : x = Max({a, b}) /\ y = Min({a, b})
  OBVIOUS
<1>6. x \in {a, b} /\ x >= a /\ x >= b /\ y \in {a, b} /\ y <= a /\ y <= b
  BY <1>3, <1>4, <1>5
<1>7. x = (IF a >= b THEN a ELSE b) /\ y = (IF a <= b THEN a ELSE b)
  BY <1>6
<1> QED BY <1>5, <1>7

\* The first d lines are gone.
Drops(f, g, d) ==
  /\ d \in Nat /\ d <= Len(f.lines) /\ Len(g.lines) = Len(f.lines) - d
  /\ \A k \in 1 .. Len(g.lines) : g.lines[k] = f.lines[k + d]

\* Of the lines after the first d there may be fewer, and one that cannot be read.
Parts(f, g, d) ==
  /\ d \in Nat
  /\ \A k \in 1 .. Len(g.lines) :
       g.lines[k] = Bad \/ (k + d \in 1 .. Len(f.lines) /\ g.lines[k] = f.lines[k + d])

\* What a compaction keeps of the lines.
LEMMA NewestShape ==
  ASSUME NEW s \in Seq(Nat)
  PROVE  \E d \in Nat :
           /\ d <= Len(s) /\ (d = 0 \/ d = Len(s) - MaxRecords)
           /\ Newest(s) \in Seq(Nat) /\ Len(Newest(s)) = Len(s) - d
           /\ \A k \in 1 .. Len(s) - d : Newest(s)[k] = s[k + d]
<1>1. PICK n \in Nat, m \in Nat : n = Len(s) /\ m = MaxRecords
  BY BoundsAssumption, LenProperties
<1>2. PICK d : d = Max({0, n - m})
  OBVIOUS
<1>3. d = IF 0 >= n - m THEN 0 ELSE n - m
  BY <1>1, <1>2, MaxMin
<1>4. d \in Nat /\ d <= n /\ (d = 0 \/ d = n - m)
  BY <1>1, <1>3
<1>5. PICK t : t = SubSeq(s, d + 1, n)
  OBVIOUS
<1>6. t = Newest(s)
  BY <1>1, <1>2, <1>5 DEF Newest
<1>7. t \in Seq(Nat) /\ Len(t) = n - d /\ \A k \in 1 .. n - d : t[k] = s[k + d]
  <2>1. \A k \in d + 1 .. n : s[k] \in Nat
    BY <1>1, <1>4, ElementOfSeq
  <2>2. /\ t \in Seq(Nat) /\ Len(t) = IF d + 1 <= n THEN n - (d + 1) + 1 ELSE 0
        /\ \A k \in 1 .. n - (d + 1) + 1 : t[k] = s[(d + 1) + k - 1]
    BY <1>1, <1>4, <1>5, <2>1, SubSeqProperties
  <2>3. Len(t) = n - d /\ n - (d + 1) + 1 = n - d
    BY <1>1, <1>4, <2>2
  <2>4. \A k \in 1 .. n - d : (d + 1) + k - 1 = k + d
    BY <1>1, <1>4
  <2> QED BY <2>2, <2>3, <2>4
<1> QED BY <1>1, <1>4, <1>6, <1>7

\* A compaction that succeeds keeps a finished file finished.
LEMMA CompactedShape ==
  ASSUME NEW f, Fine(f), ~Open(f), NEW g \in Compactions(f)
  PROVE  /\ Fine(g) /\ ~Open(g)
         /\ \E d : Drops(f, g, d) /\ (d = 0 \/ d = Len(f.lines) - MaxRecords)
<1>0. PICK s \in Seq(Nat) : s = f.lines
  BY DEF Fine
<1>1. g = f \/ g = File(Newest(s), FALSE)
  BY <1>0 DEF Compactions
<1>2. Len(s) \in Nat
  BY LenProperties
<1>3. CASE g = f
  <2>1. Drops(f, g, 0)
    BY <1>0, <1>2, <1>3 DEF Drops
  <2> QED BY <1>3, <2>1
<1>4. CASE g = File(Newest(s), FALSE)
  <2>1. PICK d \in Nat : /\ d <= Len(s) /\ (d = 0 \/ d = Len(s) - MaxRecords)
                         /\ Newest(s) \in Seq(Nat) /\ Len(Newest(s)) = Len(s) - d
                         /\ \A k \in 1 .. Len(s) - d : Newest(s)[k] = s[k + d]
    BY NewestShape
  <2>2. g.lines = Newest(s) /\ ~Open(g) /\ g \in [lines : Seq(Nat), open : BOOLEAN]
    BY <1>4, <2>1, FileParts
  <2>3. Fine(g)
    BY <2>2 DEF Fine
  <2>4. Drops(f, g, d)
    BY <1>0, <2>1, <2>2 DEF Drops
  <2> QED BY <1>0, <2>1, <2>2, <2>3, <2>4
<1> QED BY <1>1, <1>3, <1>4

\* One that is cut short leaves some of the lines.
LEMMA RewrittenShape ==
  ASSUME NEW f, Fine(f), NEW g \in Rewritten(f)
  PROVE  Fine(g) /\ \E d : Parts(f, g, d)
<1>1. PICK s \in Seq(Nat) : s = f.lines
  BY DEF Fine
<1>2. PICK d \in Nat : /\ d <= Len(s)
                       /\ Newest(s) \in Seq(Nat) /\ Len(Newest(s)) = Len(s) - d
                       /\ \A k \in 1 .. Len(s) - d : Newest(s)[k] = s[k + d]
  BY NewestShape
<1>3. PICK kept \in Seq(Nat), m \in Nat : kept = Newest(s) /\ m = Len(kept)
  BY <1>2, LenProperties
<1>4. Len(s) \in Nat /\ m = Len(s) - d
  BY <1>2, <1>3, LenProperties
<1>5. \A k \in 1 .. m : kept[k] = s[k + d] /\ k + d \in 1 .. Len(s)
  BY <1>2, <1>3, <1>4
<1>6. \/ \E n \in 0 .. m : g = File(SubSeq(kept, 1, n), FALSE)
      \/ \E n \in 1 .. m : g = File(SubSeq(kept, 1, n - 1) \o <<Bad>>, TRUE)
  <2>1. g \in {File(SubSeq(kept, 1, n), FALSE) : n \in 0 .. m}
             \cup {File(SubSeq(kept, 1, n - 1) \o <<Bad>>, TRUE) : n \in 1 .. m}
    <3>1. ~(Len(f.lines) < MaxSize)
      BY DEF Rewritten
    <3> QED BY <1>1, <1>3, <3>1 DEF Rewritten
  <2> QED BY <2>1
<1>7. ASSUME NEW n \in 0 .. m
      PROVE  /\ SubSeq(kept, 1, n) \in Seq(Nat) /\ Len(SubSeq(kept, 1, n)) = n
             /\ \A k \in 1 .. n : SubSeq(kept, 1, n)[k] = kept[k]
  <2>1. \A k \in 1 .. n : kept[k] \in Nat
    BY <1>3, ElementOfSeq
  <2>2. PICK t : t = SubSeq(kept, 1, n)
    OBVIOUS
  <2>3. /\ t \in Seq(Nat) /\ Len(t) = IF 1 <= n THEN n - 1 + 1 ELSE 0
        /\ \A k \in 1 .. n - 1 + 1 : t[k] = kept[1 + k - 1]
    BY <2>1, <2>2, SubSeqProperties
  <2>4. Len(t) = n /\ n - 1 + 1 = n /\ \A k \in 1 .. n : 1 + k - 1 = k
    BY <2>3
  <2> QED BY <2>2, <2>3, <2>4
<1>8. ASSUME NEW n \in 0 .. m, g = File(SubSeq(kept, 1, n), FALSE)
      PROVE  Fine(g) /\ Parts(f, g, d)
  <2>1. PICK t \in Seq(Nat) : t = SubSeq(kept, 1, n) /\ Len(t) = n /\ \A k \in 1 .. n : t[k] = kept[k]
    BY <1>7
  <2>2. g.lines = t /\ ~Open(g) /\ g \in [lines : Seq(Nat), open : BOOLEAN]
    BY <1>8, <2>1, FileParts
  <2>3. \A k \in 1 .. n : k \in 1 .. m
    BY <1>3
  <2> QED BY <1>1, <1>5, <2>1, <2>2, <2>3 DEF Fine, Parts
<1>9. ASSUME NEW n \in 1 .. m, g = File(SubSeq(kept, 1, n - 1) \o <<Bad>>, TRUE)
      PROVE  Fine(g) /\ Parts(f, g, d)
  <2>1. n - 1 \in 0 .. m
    BY <1>3
  <2>2. PICK t \in Seq(Nat) : /\ t = SubSeq(kept, 1, n - 1) /\ Len(t) = n - 1
                              /\ \A k \in 1 .. n - 1 : t[k] = kept[k]
    BY <1>7, <2>1
  <2>3. <<Bad>> \in Seq(Nat) /\ Len(<<Bad>>) = 1 /\ <<Bad>>[1] = Bad
    BY DEF Bad
  <2>4. PICK b, u : b = <<Bad>> /\ u = t \o b
    OBVIOUS
  <2>5. u \in Seq(Nat) /\ Len(u) = Len(t) + Len(b)
        /\ \A k \in 1 .. Len(t) + Len(b) : u[k] = IF k <= Len(t) THEN t[k] ELSE b[k - Len(t)]
    BY <2>3, <2>4, ConcatProperties
  <2>6. Len(u) = n /\ \A k \in 1 .. n : u[k] = Bad \/ (k \in 1 .. m /\ u[k] = kept[k])
    <3>1. Len(t) + Len(b) = n
      BY <2>2, <2>3, <2>4
    <3>2. ASSUME NEW k \in 1 .. n, k <= n - 1 PROVE k \in 1 .. m /\ u[k] = kept[k]
      <4>1. k \in 1 .. m /\ k \in 1 .. n - 1 /\ k <= Len(t)
        BY <1>3, <2>2, <3>2
      <4> QED BY <2>2, <2>5, <3>1, <4>1
    <3>3. ASSUME NEW k \in 1 .. n, ~(k <= n - 1) PROVE u[k] = Bad
      <4>1. k - Len(t) = 1
        BY <2>2, <3>3
      <4> QED BY <2>2, <2>3, <2>4, <2>5, <3>1, <3>3, <4>1
    <3> QED BY <2>5, <3>1, <3>2, <3>3
  <2>7. g.lines = u /\ g \in [lines : Seq(Nat), open : BOOLEAN]
    BY <1>9, <2>2, <2>4, <2>5, FileParts
  <2> QED BY <1>1, <1>5, <2>5, <2>6, <2>7 DEF Fine, Parts
<1> QED BY <1>6, <1>8, <1>9

\* What an append leaves is again a file, compacted or not.
LEMMA AppendsFine ==
  ASSUME NEW f, Fine(f), NEW r \in Nat, NEW split \in BOOLEAN
  PROVE  /\ Fine(Written(f, r, split)) /\ ~Open(Written(f, r, split))
         /\ \A g \in CutShort(f, r, split) : Fine(g)
         /\ \A g \in Compactions(Written(f, r, split)) : Fine(g)
         /\ \A g \in Rewritten(Written(f, r, split)) : Fine(g)
<1>1. PICK w : w = Written(f, r, split)
  OBVIOUS
<1>2. Fine(w) /\ ~Open(w)
  BY <1>1, WrittenCompletes DEF Completes, Extends
<1>3. \A g \in CutShort(f, r, split) : Fine(g)
  BY CutTears, Zenon DEF Tears, Extends
<1>4. \A g \in Compactions(w) : Fine(g)
  BY <1>2, CompactedShape
<1>5. \A g \in Rewritten(w) : Fine(g)
  BY <1>2, RewrittenShape
<1> QED BY <1>1, <1>2, <1>3, <1>4, <1>5

-----------------------------------------------------------------------------
(***************************************************************************)
(* Types.                                                                  *)
(***************************************************************************)
Phases == {"new", "refused", "running", "ok", "error", "lost"}
Files == {"audit", "history", "events"}
RowType == [call : Calls, split : BOOLEAN, whole : BOOLEAN]

Bit(f) == IF Open(f) THEN 1 ELSE 0

Typed ==
  /\ Fine(audit) /\ Fine(history) /\ Fine(events)
  /\ phase \in [Calls -> Phases]
  /\ rows \in Seq(RowType)
  /\ torn \in [Files -> Nat]
  /\ emitted \in Nat

\* An append that fails counts in torn when it leaves an unfinished line.
LEMMA Counts ==
  ASSUME torn \in [Files -> Nat], NEW x \in Files, NEW g, Tore(x, g)
  PROVE  /\ torn' \in [Files -> Nat]
         /\ torn'[x] = torn[x] + Bit(g)
         /\ \A y \in Files \ {x} : torn'[y] = torn[y]
<1>1. PICK b : b = Bit(g)
  OBVIOUS
<1>2. b \in Nat
  BY <1>1 DEF Bit
<1>3. torn' = [torn EXCEPT ![x] = torn[x] + b]
  BY <1>1, Zenon DEF Tore, Bit, Open
<1> QED BY <1>1, <1>2, <1>3

\* Two appends of which both may.
LEMMA CountsTwice ==
  ASSUME torn \in [Files -> Nat], NEW f, NEW g,
         torn' = [torn EXCEPT !["history"] =
                    @ + (IF f.open THEN 1 ELSE 0) + (IF g.open THEN 1 ELSE 0)]
  PROVE  /\ torn' \in [Files -> Nat]
         /\ torn'["history"] = torn["history"] + Bit(f) + Bit(g)
         /\ \A y \in Files \ {"history"} : torn'[y] = torn[y]
<1>1. PICK b, d : b = Bit(f) /\ d = Bit(g)
  OBVIOUS
<1>2. b \in Nat /\ d \in Nat
  BY <1>1 DEF Bit
<1>3. torn' = [torn EXCEPT !["history"] = torn["history"] + b + d]
  BY <1>1, Zenon DEF Bit, Open
<1>4. "history" \in Files
  BY DEF Files
<1> QED BY <1>1, <1>2, <1>3, <1>4

\* A row more.
LEMMA RowMore ==
  ASSUME NEW rs \in Seq(RowType), NEW c \in Calls, NEW split \in BOOLEAN, NEW whole \in BOOLEAN
  PROVE  /\ Row(c, split, whole) \in RowType
         /\ Append(rs, Row(c, split, whole)) \in Seq(RowType)
         /\ Len(rs) \in Nat /\ Len(Append(rs, Row(c, split, whole))) = Len(rs) + 1
         /\ \A i \in 1 .. Len(rs) : Append(rs, Row(c, split, whole))[i] = rs[i]
         /\ Append(rs, Row(c, split, whole))[Len(rs) + 1] = Row(c, split, whole)
<1>1. PICK x : x = Row(c, split, whole)
  OBVIOUS
<1>2. x \in RowType
  BY <1>1, Zenon DEF Row, RowType
<1> QED BY <1>1, <1>2, AppendProperties, LenProperties

\* The types are kept by a call that is requested or refused.
LEMMA TypedAudit ==
  ASSUME Typed, NEW c \in Calls, Request(c) \/ Refuse(c)
  PROVE  Typed'
<1>1. c \in Nat
  BY CallsAssumption
<1>2. CASE Request(c)
  <2>1. Fine(audit')
    BY <1>1, <1>2, AppendsFine DEF Request, Typed
  <2> QED BY <1>2, <2>1 DEF Request, Typed, Phases, job, Fine, Open
<1>3. CASE Refuse(c)
  <2>1. Fine(audit')
    BY <1>1, <1>3, AppendsFine DEF Refuse, Typed
  <2>2. torn' \in [Files -> Nat]
    BY <1>3, Counts DEF Refuse, Typed, Files
  <2> QED BY <1>3, <2>1, <2>2 DEF Refuse, Typed, Phases, job, Fine, Open
<1> QED BY <1>2, <1>3

\* By a call that ends, recorded or not.
LEMMA TypedHistory ==
  ASSUME Typed, NEW c \in Calls, NEW split \in BOOLEAN,
         \/ FinishUnrecorded(c, split) \/ FailUnrecorded(c, split)
         \/ \E ok \in BOOLEAN : Finish(c, ok, split)
  PROVE  Typed'
<1>1. NewRow \in Nat /\ NewRow + 1 \in Nat
  BY LenProperties DEF Typed, NewRow
<1>2. ASSUME NEW ok \in BOOLEAN, Finish(c, ok, split) PROVE Typed'
  <2>1. Fine(history')
    <3>1. \/ history' \in Compactions(Written(history, NewRow, split))
          \/ history' \in Rewritten(Written(history, NewRow, split))
      BY <1>2, Zenon DEF Finish
    <3> QED BY <1>1, <3>1, AppendsFine DEF Typed
  <2>2. torn' \in [Files -> Nat]
    <3>1. CASE torn' = torn
      BY <3>1 DEF Typed
    <3>2. CASE Tore("history", history')
      BY <3>2, Counts DEF Typed, Files
    <3> QED BY <1>2, <3>1, <3>2 DEF Finish
  <2>3. rows' \in Seq(RowType)
    BY <1>2, RowMore DEF Finish, Typed
  <2>4. phase' \in [Calls -> Phases]
    BY <1>2 DEF Finish, Typed, Phases
  <2> QED BY <1>2, <2>1, <2>2, <2>3, <2>4 DEF Finish, Typed, job, Fine, Open
<1>3. CASE FinishUnrecorded(c, split)
  <2>1. PICK file \in CutShort(history, NewRow, split), again \in BOOLEAN, split2 \in BOOLEAN :
          /\ rows' = rows \o <<Row(c, split, FALSE), Row(c, split2, again)>>
          /\ LET second == Written(file, NewRow + 1, split2) IN
               \/ again /\ history' \in Compactions(second) /\ UNCHANGED rewriting
               \/ again /\ history' \in Rewritten(second) /\ rewriting' = TRUE
               \/ ~again /\ history' \in CutShort(file, NewRow + 1, split2) /\ UNCHANGED rewriting
          /\ torn' = [torn EXCEPT !["history"] =
               @ + (IF file.open THEN 1 ELSE 0) + (IF history'.open THEN 1 ELSE 0)]
    BY <1>3, Zenon DEF FinishUnrecorded
  <2>2. Fine(file)
    BY <1>1, <2>1, AppendsFine DEF Typed
  <2>3. Fine(history')
    BY <1>1, <2>1, <2>2, AppendsFine
  <2>4. torn' \in [Files -> Nat]
    BY <2>1, CountsTwice, Zenon DEF Typed
  <2>5. rows' \in Seq(RowType)
    <3>1. PICK x, y : x = Row(c, split, FALSE) /\ y = Row(c, split2, again)
      OBVIOUS
    <3>2. x \in RowType /\ y \in RowType
      BY <2>1, <3>1, RowMore DEF Typed
    <3>3. <<x, y>> \in Seq(RowType)
      BY <3>2
    <3> QED BY <2>1, <3>1, <3>3, ConcatProperties DEF Typed
  <2>6. phase' \in [Calls -> Phases]
    BY <1>3 DEF FinishUnrecorded, Typed, Phases
  <2> QED BY <1>3, <2>3, <2>4, <2>5, <2>6 DEF FinishUnrecorded, Typed, job, Fine, Open
<1>4. CASE FailUnrecorded(c, split)
  <2>1. Fine(history')
    BY <1>1, <1>4, AppendsFine DEF FailUnrecorded, Typed
  <2>2. torn' \in [Files -> Nat]
    BY <1>4, Counts DEF FailUnrecorded, Typed, Files
  <2>3. rows' \in Seq(RowType)
    BY <1>4, RowMore DEF FailUnrecorded, Typed
  <2>4. phase' \in [Calls -> Phases]
    BY <1>4 DEF FailUnrecorded, Typed, Phases
  <2> QED BY <1>4, <2>1, <2>2, <2>3, <2>4 DEF FailUnrecorded, Typed, job, Fine, Open
<1> QED BY <1>2, <1>3, <1>4

\* By the job and its client.
LEMMA TypedEvents ==
  ASSUME Typed, (\E split \in BOOLEAN : Emit(split) \/ EmitFails(split)) \/ Poll
  PROVE  Typed'
<1>1. emitted + 1 \in Nat
  BY DEF Typed
<1>2. ASSUME NEW split \in BOOLEAN, Emit(split) PROVE Typed'
  <2>1. Fine(events')
    BY <1>1, <1>2, AppendsFine DEF Emit, Typed
  <2> QED BY <1>1, <1>2, <2>1 DEF Emit, Typed, calls, Fine, Open
<1>3. ASSUME NEW split \in BOOLEAN, EmitFails(split) PROVE Typed'
  <2>1. Fine(events')
    BY <1>1, <1>3, AppendsFine DEF EmitFails, Typed
  <2>2. torn' \in [Files -> Nat]
    BY <1>3, Counts DEF EmitFails, Typed, Files
  <2> QED BY <1>3, <2>1, <2>2 DEF EmitFails, Typed, calls, Fine, Open
<1>4. CASE Poll
  BY <1>4 DEF Poll, Typed, calls, Fine, Open
<1> QED BY <1>2, <1>3, <1>4

\* By a node that dies.
LEMMA TypedDies ==
  ASSUME Typed, Dies
  PROVE  Typed'
<1>1. NewRow \in Nat /\ emitted + 1 \in Nat /\ Calls \subseteq Nat
  BY CallsAssumption, LenProperties DEF Typed, NewRow
<1>2. phase' \in [Calls -> Phases] /\ emitted' \in Nat
  BY DEF Dies, Typed, Phases
<1>3. CASE UNCHANGED <<audit, history, events, rows, rewriting, torn>>
  BY <1>2, <1>3 DEF Typed, Fine, Open
<1>4. ASSUME NEW c \in Calls, audit' \in CutShort(audit, c, FALSE), Tore("audit", audit'),
             UNCHANGED <<history, events, rows, rewriting>>
      PROVE  Typed'
  <2>1. Fine(audit')
    BY <1>1, <1>4, AppendsFine DEF Typed
  <2>2. torn' \in [Files -> Nat]
    BY <1>4, Counts DEF Typed, Files
  <2> QED BY <1>2, <1>4, <2>1, <2>2 DEF Typed, Fine, Open
<1>5. ASSUME NEW c \in Calls, NEW split \in BOOLEAN, NEW whole \in BOOLEAN,
             rows' = Append(rows, Row(c, split, whole)),
             \/ history' \in Rewritten(Written(history, NewRow, split))
             \/ history' \in CutShort(history, NewRow, split),
             Tore("history", history'), UNCHANGED <<audit, events>>
      PROVE  Typed'
  <2>1. Fine(history')
    BY <1>1, <1>5, AppendsFine DEF Typed
  <2>2. torn' \in [Files -> Nat]
    BY <1>5, Counts DEF Typed, Files
  <2>3. rows' \in Seq(RowType)
    BY <1>5, RowMore DEF Typed
  <2> QED BY <1>2, <1>5, <2>1, <2>2, <2>3 DEF Typed, Fine, Open
<1>6. ASSUME NEW split \in BOOLEAN, events' \in CutShort(events, emitted + 1, split),
             Tore("events", events'), UNCHANGED <<audit, history, rows, rewriting>>
      PROVE  Typed'
  <2>1. Fine(events')
    BY <1>1, <1>6, AppendsFine DEF Typed
  <2>2. torn' \in [Files -> Nat]
    BY <1>6, Counts DEF Typed, Files
  <2> QED BY <1>2, <1>6, <2>1, <2>2 DEF Typed, Fine, Open
<1> QED BY <1>3, <1>4, <1>5, <1>6, Zenon DEF Dies

\* The types are an invariant.
LEMMA TypedStep ==
  ASSUME Typed, [Next]_vars
  PROVE  Typed'
<1>1. CASE UNCHANGED vars
  BY <1>1 DEF Typed, vars, Fine, Open
<1>2. CASE Next
  BY <1>2, TypedAudit, TypedHistory, TypedEvents, TypedDies, Zenon DEF Next
<1> QED BY <1>1, <1>2

-----------------------------------------------------------------------------
(***************************************************************************)
(* The audit log.                                                          *)
(***************************************************************************)
\* The calls whose command ran.
Ran == {c \in Calls : phase[c] \in {"running", "ok", "error", "lost"}}
Unaudited == Ran \ Range(audit.lines)

\* Every command that ran and is not in the log has a torn line to account for it.  A
\* line that may still be spoiled is not the record of a command that ran, and is
\* itself accounted for.
AuditInv ==
  /\ IsFiniteSet(Unaudited)
  /\ Cardinality(Unaudited) + Bit(audit) <= torn["audit"]
  /\ Open(audit) => audit.lines[Len(audit.lines)] \notin Ran

\* What a step does to the log: nothing, the record of a call that then runs, or what
\* is left of the record of one that does not.
AuditStep ==
  \/ audit' = audit /\ Ran' = Ran /\ torn'["audit"] = torn["audit"]
  \/ \E c \in Calls \ Ran :
       /\ Completes(audit, audit', c, FALSE)
       /\ Ran' = Ran \cup {c} /\ torn'["audit"] = torn["audit"]
  \/ \E c \in Calls \ Ran :
       /\ Tears(audit, audit', c, FALSE)
       /\ Ran' = Ran /\ torn'["audit"] = torn["audit"] + Bit(audit')

\* Every step is one of these.
LEMMA AuditSteps ==
  ASSUME Typed, [Next]_vars
  PROVE  AuditStep
<1>1. Calls \subseteq Nat /\ "audit" \in Files /\ "history" \in Files /\ "events" \in Files
  BY CallsAssumption DEF Files
<1>2. ASSUME NEW c \in Calls, Request(c) PROVE AuditStep
  <2>1. Completes(audit, audit', c, FALSE)
    BY <1>1, <1>2, WrittenCompletes DEF Request, Typed
  <2>2. c \notin Ran /\ Ran' = Ran \cup {c}
    BY <1>2 DEF Request, Typed, Ran
  <2> QED BY <1>2, <2>1, <2>2 DEF Request, AuditStep
<1>3. ASSUME NEW c \in Calls, Refuse(c) PROVE AuditStep
  <2>1. Tears(audit, audit', c, FALSE)
    BY <1>1, <1>3, CutTears DEF Refuse, Typed
  <2>2. c \notin Ran /\ Ran' = Ran
    BY <1>3 DEF Refuse, Typed, Ran
  <2>3. torn'["audit"] = torn["audit"] + Bit(audit')
    BY <1>1, <1>3, Counts DEF Refuse, Typed
  <2> QED BY <2>1, <2>2, <2>3 DEF AuditStep
<1>4. ASSUME audit' = audit, Ran' = Ran, torn'["audit"] = torn["audit"] PROVE AuditStep
  BY <1>4 DEF AuditStep
<1>5. ASSUME NEW c \in Calls, NEW split \in BOOLEAN, NEW ok \in BOOLEAN, Finish(c, ok, split)
      PROVE  AuditStep
  <2>1. audit' = audit /\ Ran' = Ran
    BY <1>5 DEF Finish, Typed, Ran
  <2>2. torn'["audit"] = torn["audit"]
    <3>1. torn' = torn \/ Tore("history", history')
      BY <1>5 DEF Finish
    <3> QED BY <1>1, <3>1, Counts DEF Typed
  <2> QED BY <1>4, <2>1, <2>2
<1>6. ASSUME NEW c \in Calls, NEW split \in BOOLEAN, FinishUnrecorded(c, split)
      PROVE  AuditStep
  <2>1. audit' = audit /\ Ran' = Ran
    BY <1>6 DEF FinishUnrecorded, Typed, Ran
  <2>2. PICK file :
          torn' = [torn EXCEPT !["history"] =
               @ + (IF file.open THEN 1 ELSE 0) + (IF history'.open THEN 1 ELSE 0)]
    BY <1>6, Zenon DEF FinishUnrecorded
  <2>3. torn'["audit"] = torn["audit"]
    BY <1>1, <2>2, CountsTwice DEF Typed
  <2> QED BY <1>4, <2>1, <2>3
<1>7. ASSUME NEW c \in Calls, NEW split \in BOOLEAN, FailUnrecorded(c, split)
      PROVE  AuditStep
  <2>1. audit' = audit /\ Ran' = Ran
    BY <1>7 DEF FailUnrecorded, Typed, Ran
  <2>2. torn'["audit"] = torn["audit"]
    BY <1>1, <1>7, Counts DEF FailUnrecorded, Typed
  <2> QED BY <1>4, <2>1, <2>2
<1>8. ASSUME NEW split \in BOOLEAN, Emit(split) PROVE AuditStep
  BY <1>8 DEF Emit, calls, Ran, AuditStep
<1>9. ASSUME NEW split \in BOOLEAN, EmitFails(split) PROVE AuditStep
  <2>1. audit' = audit /\ Ran' = Ran
    BY <1>9 DEF EmitFails, calls, Ran
  <2>2. torn'["audit"] = torn["audit"]
    BY <1>1, <1>9, Counts DEF EmitFails, Typed
  <2> QED BY <1>4, <2>1, <2>2
<1>10. CASE Poll
  BY <1>10 DEF Poll, calls, Ran, AuditStep
<1>11. CASE UNCHANGED vars
  BY <1>11 DEF vars, Ran, AuditStep
<1>12. CASE Dies
  <2>1. Ran' = Ran
    BY <1>12 DEF Dies, Typed, Ran
  <2>2. CASE UNCHANGED <<audit, torn>>
    BY <1>4, <2>1, <2>2
  <2>3. ASSUME NEW c \in Calls, phase[c] = "new", audit' \in CutShort(audit, c, FALSE),
               Tore("audit", audit')
        PROVE  AuditStep
    <3>1. Tears(audit, audit', c, FALSE)
      BY <1>1, <2>3, CutTears DEF Typed
    <3>2. c \notin Ran
      BY <2>3 DEF Ran
    <3>3. torn'["audit"] = torn["audit"] + Bit(audit')
      BY <1>1, <2>3, Counts DEF Typed
    <3> QED BY <2>1, <3>1, <3>2, <3>3 DEF AuditStep
  <2>4. ASSUME audit' = audit, Tore("history", history') \/ Tore("events", events')
        PROVE  AuditStep
    <3>1. torn'["audit"] = torn["audit"]
      BY <1>1, <2>4, Counts DEF Typed
    <3> QED BY <1>4, <2>1, <2>4, <3>1
  <2> QED BY <1>12, <2>2, <2>3, <2>4, Zenon DEF Dies
<1> QED BY <1>2, <1>3, <1>5, <1>6, <1>7, <1>8, <1>9, <1>10, <1>11, <1>12, Zenon DEF Next

\* An append leaves the records of commands that ran where they are.
LEMMA RecordsStay ==
  ASSUME NEW f, Fine(f), NEW g, NEW r, NEW split, Extends(f, g, r, split),
         NEW S, Open(f) => f.lines[Len(f.lines)] \notin S
  PROVE  S \ Range(g.lines) \subseteq S \ Range(f.lines)
<1>1. PICK s, u, n : s = f.lines /\ u = g.lines /\ n = Len(f.lines)
  OBVIOUS
<1>2. s \in Seq(Nat) /\ u \in Seq(Nat) /\ n = Len(s) /\ n \in Nat /\ Len(u) \in Nat /\ n <= Len(u)
  BY <1>1 DEF Fine, Extends
<1>3. SUFFICES ASSUME NEW x \in S, x \in Range(s) PROVE x \in Range(u)
  BY <1>1
<1>4. PICK k \in 1 .. n : x = s[k]
  BY <1>2, <1>3 DEF Range
<1>5. k \in DOMAIN u
  BY <1>2
<1>6. u[k] = s[k]
  BY <1>1, <1>3, <1>4 DEF Extends
<1> QED BY <1>4, <1>5, <1>6 DEF Range

\* It is kept by every step.
LEMMA AuditInvStep ==
  ASSUME Typed, Typed', AuditInv, AuditStep
  PROVE  AuditInv'
<1>0. /\ torn["audit"] \in Nat /\ torn'["audit"] \in Nat /\ Bit(audit) \in Nat /\ Bit(audit') \in Nat
      /\ Bad \notin Calls
  BY CallsAssumption DEF Typed, Files, Bit, Bad
<1>1. CASE audit' = audit /\ Ran' = Ran /\ torn'["audit"] = torn["audit"]
  BY <1>1 DEF AuditInv, Unaudited, Bit, Open
<1>2. ASSUME NEW c \in Calls \ Ran, Completes(audit, audit', c, FALSE),
             Ran' = Ran \cup {c}, torn'["audit"] = torn["audit"]
      PROVE  AuditInv'
  <2>1. Ran \ Range(audit'.lines) \subseteq Unaudited
    BY <1>2, RecordsStay DEF Completes, AuditInv, Typed, Unaudited
  <2>2. Bit(audit') = 0 /\ ~Open(audit')
    BY <1>2 DEF Completes, Bit
  <2>3. CASE Open(audit)
    <3>1. Unaudited' \subseteq Unaudited \cup {c}
      BY <1>2, <2>1 DEF Unaudited
    <3>2. /\ IsFiniteSet(Unaudited \cup {c})
          /\ Cardinality(Unaudited \cup {c}) <= Cardinality(Unaudited) + 1
          /\ Cardinality(Unaudited) \in Nat /\ Cardinality(Unaudited \cup {c}) \in Nat
      <4>1. PICK U : U = Unaudited /\ IsFiniteSet(U)
        BY DEF AuditInv
      <4>2. Cardinality(U) \in Nat
        BY <4>1, FS_CardinalityType
      <4>3. /\ IsFiniteSet(U \cup {c})
            /\ Cardinality(U \cup {c}) = Cardinality(U) \/ Cardinality(U \cup {c}) = Cardinality(U) + 1
        BY <4>1, FS_AddElement
      <4> QED BY <4>1, <4>2, <4>3
    <3>3. IsFiniteSet(Unaudited') /\ Cardinality(Unaudited') <= Cardinality(Unaudited \cup {c})
          /\ Cardinality(Unaudited') \in Nat
      BY <3>1, <3>2, FS_Subset, FS_CardinalityType
    <3>4. Bit(audit) = 1
      BY <2>3 DEF Bit
    <3> QED BY <1>0, <1>2, <2>2, <3>2, <3>3, <3>4 DEF AuditInv
  <2>4. CASE ~Open(audit)
    <3>1. c \in Range(audit'.lines)
      <4>1. PICK n, u : n = Len(audit.lines) /\ u = audit'.lines
        OBVIOUS
      <4>2. n \in Nat /\ u \in Seq(Nat) /\ Len(u) = n + 1 /\ u[n + 1] = c
        BY <1>2, <2>4, <4>1, LenProperties DEF Completes, Typed, Fine
      <4>3. n + 1 \in DOMAIN u
        BY <4>2
      <4> QED BY <4>1, <4>2, <4>3 DEF Range
    <3>2. Unaudited' \subseteq Unaudited
      BY <1>2, <2>1, <3>1 DEF Unaudited
    <3>3. /\ IsFiniteSet(Unaudited') /\ Cardinality(Unaudited') <= Cardinality(Unaudited)
          /\ Cardinality(Unaudited') \in Nat /\ Cardinality(Unaudited) \in Nat
      BY <3>2, FS_Subset, FS_CardinalityType DEF AuditInv
    <3> QED BY <1>0, <1>2, <2>2, <3>3 DEF AuditInv
  <2> QED BY <2>3, <2>4
<1>3. ASSUME NEW c \in Calls \ Ran, Tears(audit, audit', c, FALSE),
             Ran' = Ran, torn'["audit"] = torn["audit"] + Bit(audit')
      PROVE  AuditInv'
  <2>1. Unaudited' \subseteq Unaudited
    BY <1>3, RecordsStay DEF Tears, AuditInv, Typed, Unaudited
  <2>2. /\ IsFiniteSet(Unaudited') /\ Cardinality(Unaudited') <= Cardinality(Unaudited)
        /\ Cardinality(Unaudited') \in Nat /\ Cardinality(Unaudited) \in Nat
    BY <2>1, FS_Subset, FS_CardinalityType DEF AuditInv
  <2>3. ASSUME Open(audit') PROVE audit'.lines[Len(audit'.lines)] \notin Ran'
    <3>1. CASE audit' = audit
      BY <1>3, <2>3, <3>1 DEF AuditInv
    <3>2. CASE audit'.lines[Len(audit'.lines)] \in {c, Bad}
      BY <1>0, <1>3, <3>2 DEF Ran
    <3> QED BY <1>3, <2>3, <3>1, <3>2 DEF Tears
  <2> QED BY <1>0, <1>3, <2>2, <2>3 DEF AuditInv
<1> QED BY <1>1, <1>2, <1>3 DEF AuditStep

-----------------------------------------------------------------------------
(***************************************************************************)
(* The events of a job.                                                    *)
(***************************************************************************)
Emitting == ~jobOver

Readable(s, k) == \A j \in 1 .. k : s[j] # Bad

\* As long as no line before it is spoiled, the kth line is the kth event.
InOrder(s) == \A k \in 1 .. Len(s) : Readable(s, k) => s[k] = k

\* The client has read the first lines, none of them spoiled, and while the job goes on
\* the next event is the next line.
EventsInv ==
  /\ seen \in Seq(Nat) /\ cursor = Len(seen) /\ cursor <= Len(events.lines)
  /\ \A k \in 1 .. cursor : events.lines[k] # Bad /\ seen[k] = k
  /\ InOrder(events.lines)
  /\ Emitting => /\ ~Open(events)
                 /\ Readable(events.lines, Len(events.lines)) => Len(events.lines) = emitted

\* What a step does: nothing, or it ends the job; an event; what is left of one, at
\* which the job ends; or the client asks.
EventsStep ==
  \/ UNCHANGED <<events, emitted, cursor, seen>> /\ (Emitting' => Emitting)
  \/ /\ Emitting /\ emitted' = emitted + 1 /\ UNCHANGED <<cursor, seen>>
     /\ \E split \in BOOLEAN : Completes(events, events', emitted + 1, split)
  \/ /\ Emitting /\ ~Emitting' /\ UNCHANGED <<cursor, seen>>
     /\ \E split \in BOOLEAN : Tears(events, events', emitted + 1, split)
  \/ Poll

\* Every step is one of these.
LEMMA EventsSteps ==
  ASSUME Typed, [Next]_vars
  PROVE  EventsStep
<1>1. Fine(events) /\ emitted + 1 \in Nat
  BY DEF Typed
<1>2. ASSUME UNCHANGED <<events, emitted, cursor, seen>>, UNCHANGED jobOver \/ jobOver' = TRUE
      PROVE  EventsStep
  BY <1>2, Zenon DEF EventsStep, Emitting
<1>3. ASSUME NEW c \in Calls, Request(c) \/ Refuse(c) PROVE EventsStep
  BY <1>2, <1>3 DEF Request, Refuse, job
<1>4. ASSUME NEW c \in Calls, NEW split \in BOOLEAN,
             \/ FinishUnrecorded(c, split) \/ FailUnrecorded(c, split)
             \/ \E ok \in BOOLEAN : Finish(c, ok, split)
      PROVE  EventsStep
  BY <1>2, <1>4, Zenon DEF FinishUnrecorded, FailUnrecorded, Finish, job
<1>5. ASSUME NEW split \in BOOLEAN, Emit(split) PROVE EventsStep
  <2>1. Completes(events, events', emitted + 1, split)
    BY <1>1, <1>5, WrittenCompletes DEF Emit
  <2> QED BY <1>5, <2>1, Zenon DEF Emit, EventsStep, Emitting
<1>6. ASSUME NEW split \in BOOLEAN, EmitFails(split) PROVE EventsStep
  <2>1. Tears(events, events', emitted + 1, split)
    BY <1>1, <1>6, CutTears DEF EmitFails
  <2> QED BY <1>6, <2>1, Zenon DEF EmitFails, EventsStep, Emitting
<1>7. CASE Poll
  BY <1>7, Zenon DEF EventsStep
<1>8. CASE UNCHANGED vars
  BY <1>2, <1>8, Zenon DEF vars
<1>9. CASE Dies
  <2>1. CASE UNCHANGED events
    BY <1>2, <1>9, <2>1, Zenon DEF Dies
  <2>2. ASSUME ~jobOver, NEW split \in BOOLEAN, events' \in CutShort(events, emitted + 1, split)
        PROVE  EventsStep
    <3>1. Tears(events, events', emitted + 1, split)
      BY <1>1, <2>2, CutTears
    <3> QED BY <1>9, <2>2, <3>1, Zenon DEF Dies, EventsStep, Emitting
  <2> QED BY <1>9, <2>1, <2>2, Zenon DEF Dies
<1> QED BY <1>3, <1>4, <1>5, <1>6, <1>7, <1>8, <1>9, Zenon DEF Next

\* An event, or what is left of one, keeps the events in order.
LEMMA EventAppended ==
  ASSUME NEW f, Fine(f), NEW g, NEW split, NEW e \in Nat, ~Open(f), Extends(f, g, e + 1, split),
         InOrder(f.lines), Readable(f.lines, Len(f.lines)) => Len(f.lines) = e
  PROVE  /\ InOrder(g.lines) /\ Len(f.lines) <= Len(g.lines)
         /\ \A k \in 1 .. Len(f.lines) : g.lines[k] = f.lines[k]
<1>1. PICK s, u, n, m : s = f.lines /\ u = g.lines /\ n = Len(s) /\ m = Len(u)
  OBVIOUS
<1>2. /\ n \in Nat /\ m \in Nat /\ n <= m
      /\ \A k \in 1 .. n : u[k] = s[k]
      /\ \A k \in n + 1 .. m : u[k] = Bad \/ (u[k] = e + 1 /\ k = n + 1)
  BY <1>1, LenProperties DEF Fine, Extends
<1>3. ASSUME NEW k \in 1 .. m, Readable(u, k) PROVE u[k] = k
  <2>1. CASE k \in 1 .. n
    <3>1. Readable(s, k)
      BY <1>2, <1>3, <2>1 DEF Readable
    <3> QED BY <1>1, <1>2, <2>1, <3>1 DEF InOrder
  <2>2. CASE k \in n + 1 .. m
    <3>1. Readable(s, n)
      BY <1>2, <1>3, <2>2 DEF Readable
    <3>2. n = e
      BY <1>1, <3>1
    <3>3. u[k] # Bad
      BY <1>3, <2>2, <1>2 DEF Readable
    <3> QED BY <1>2, <2>2, <3>2, <3>3
  <2> QED BY <1>2, <2>1, <2>2
<1> QED BY <1>1, <1>2, <1>3 DEF InOrder

\* A page has the lines that follow the cursor, and moves it past them.
LEMMA PageShape ==
  ASSUME NEW s \in Seq(Nat), NEW from \in Nat, from <= Len(s)
  PROVE  \E hi \in from .. Len(s) :
           /\ Page(s, from).cursor = hi
           /\ Page(s, from).events \in Seq(Nat) /\ Len(Page(s, from).events) = hi - from
           /\ \A k \in 1 .. hi - from : Page(s, from).events[k] = s[from + k]
<1>1. PICK n \in Nat, p \in Nat : n = Len(s) /\ p = PageSize /\ from <= n
  BY BoundsAssumption, LenProperties
<1>2. PICK hi : hi = Min({from + p, n})
  OBVIOUS
<1>3. hi = IF from + p <= n THEN from + p ELSE n
  <2>1. PICK a \in Int, b \in Int : a = from + p /\ b = n
    BY <1>1
  <2> QED BY <1>2, <2>1, MaxMin
<1>4. hi \in from .. n
  BY <1>1, <1>3
<1>5. PICK chunk : chunk = SubSeq(s, from + 1, hi)
  OBVIOUS
<1>6. \A k \in from + 1 .. hi : s[k] \in Nat
  BY <1>1, <1>4, ElementOfSeq
<1>7. /\ chunk \in Seq(Nat)
      /\ Len(chunk) = IF from + 1 <= hi THEN hi - (from + 1) + 1 ELSE 0
      /\ \A k \in 1 .. hi - (from + 1) + 1 : chunk[k] = s[(from + 1) + k - 1]
  BY <1>4, <1>5, <1>6, SubSeqProperties
<1>8. Len(chunk) = hi - from /\ hi - (from + 1) + 1 = hi - from
      /\ \A k \in 1 .. hi - from : (from + 1) + k - 1 = from + k
  BY <1>4, <1>7
<1>9. Page(s, from).events = chunk /\ Page(s, from).cursor = from + Len(chunk)
  BY <1>1, <1>2, <1>5 DEF Page
<1>10. from + Len(chunk) = hi
  BY <1>4, <1>8
<1>11. hi \in from .. Len(s)
  BY <1>1, <1>4
<1>12. \A k \in 1 .. hi - from : chunk[k] = s[from + k]
  BY <1>7, <1>8
<1> QED BY <1>7, <1>8, <1>9, <1>10, <1>11, <1>12, Zenon

\* It is kept by every step.
LEMMA EventsInvStep ==
  ASSUME Typed, EventsInv, EventsStep
  PROVE  EventsInv'
<1>1. PICK f : f = events
  OBVIOUS
<1>2. PICK s \in Seq(Nat), n \in Nat : s = f.lines /\ n = Len(s)
  BY <1>1, LenProperties DEF Typed, Fine
<1>3. cursor \in Nat /\ cursor <= n
  BY <1>1, <1>2, LenProperties DEF EventsInv
<1>4. CASE UNCHANGED <<events, emitted, cursor, seen>> /\ (Emitting' => Emitting)
  BY <1>4 DEF EventsInv, Open
<1>5. ASSUME Emitting, UNCHANGED <<cursor, seen>>,
             NEW split \in BOOLEAN, Extends(events, events', emitted + 1, split),
             Emitting' => /\ ~Open(events')
                          /\ Readable(events'.lines, Len(events'.lines)) => Len(events'.lines) = emitted'
      PROVE  EventsInv'
  <2>1. PICK g, e : g = events' /\ e = emitted /\ e \in Nat
    BY DEF Typed
  <2>2. Fine(f) /\ ~Open(f) /\ InOrder(f.lines) /\ (Readable(f.lines, Len(f.lines)) => Len(f.lines) = e)
    BY <1>1, <1>5, <2>1 DEF Typed, EventsInv
  <2>3. Extends(f, g, e + 1, split)
    BY <1>1, <1>5, <2>1
  <2>4. /\ InOrder(g.lines) /\ Len(f.lines) <= Len(g.lines)
        /\ \A k \in 1 .. Len(f.lines) : g.lines[k] = f.lines[k]
    BY <2>1, <2>2, <2>3, EventAppended
  <2>5. Len(g.lines) \in Nat
    BY <2>3, LenProperties DEF Extends, Fine
  <2>6. cursor <= Len(g.lines)
    BY <1>2, <1>3, <2>4, <2>5
  <2>7. \A k \in 1 .. cursor : g.lines[k] # Bad /\ seen[k] = k
    BY <1>1, <1>2, <1>3, <2>4 DEF EventsInv
  <2>8. seen \in Seq(Nat) /\ cursor = Len(seen)
    BY DEF EventsInv
  <2> QED BY <1>5, <2>1, <2>4, <2>6, <2>7, <2>8, Zenon DEF EventsInv
<1>6. ASSUME Emitting, emitted' = emitted + 1, UNCHANGED <<cursor, seen>>,
             NEW split \in BOOLEAN, Completes(events, events', emitted + 1, split)
      PROVE  EventsInv'
  <2>1. Extends(events, events', emitted + 1, split) /\ ~Open(events')
    BY <1>6 DEF Completes
  <2>2. ~Open(events) /\ (Readable(events.lines, Len(events.lines)) => Len(events.lines) = emitted)
    BY <1>6 DEF EventsInv
  <2>3. ASSUME Readable(events'.lines, Len(events'.lines)) PROVE Len(events'.lines) = emitted + 1
    <3>1. PICK g, u, m, e : g = events' /\ u = g.lines /\ m = Len(u) /\ e = emitted /\ e \in Nat
      BY DEF Typed
    <3>2. /\ m \in Nat /\ n < m /\ \A k \in 1 .. n : u[k] = s[k]
          /\ \A k \in n + 1 .. m : u[k] = Bad \/ (u[k] = e + 1 /\ k = n + 1 /\ k = m)
      BY <1>1, <1>2, <1>6, <2>2, <3>1, LenProperties DEF Completes, Extends, Fine
    <3>3. \A k \in 1 .. m : u[k] # Bad
      BY <2>3, <3>1 DEF Readable
    <3>4. m = n + 1
      BY <3>2, <3>3
    <3>5. Readable(s, n)
      BY <3>2, <3>3 DEF Readable
    <3>6. n = e
      BY <1>1, <1>2, <2>2, <3>1, <3>5
    <3> QED BY <3>1, <3>4, <3>6
  <2> QED BY <1>5, <1>6, <2>1, <2>3
<1>7. ASSUME Emitting, ~Emitting', UNCHANGED <<cursor, seen>>,
             NEW split \in BOOLEAN, Tears(events, events', emitted + 1, split)
      PROVE  EventsInv'
  BY <1>5, <1>7 DEF Tears
<1>8. CASE Poll
  <2>1. PICK page : page = Page(s, cursor)
    OBVIOUS
  <2>2. Bad \notin Range(page.events) /\ cursor' = page.cursor /\ seen' = seen \o page.events
    BY <1>1, <1>2, <1>8, <2>1 DEF Poll
  <2>3. PICK hi \in cursor .. n :
          /\ page.cursor = hi /\ page.events \in Seq(Nat) /\ Len(page.events) = hi - cursor
          /\ \A k \in 1 .. hi - cursor : page.events[k] = s[cursor + k]
    <3>1. PICK c \in Nat : c = cursor /\ c <= n
      BY <1>3
    <3>2. \E hi \in c .. Len(s) :
            /\ Page(s, c).cursor = hi
            /\ Page(s, c).events \in Seq(Nat) /\ Len(Page(s, c).events) = hi - c
            /\ \A k \in 1 .. hi - c : Page(s, c).events[k] = s[c + k]
      BY <1>2, <3>1, PageShape
    <3> QED BY <1>2, <2>1, <3>1, <3>2, Zenon
  <2>4. PICK chunk \in Seq(Nat), c \in Nat, old \in Seq(Nat) :
          /\ chunk = page.events /\ c = cursor /\ old = seen
          /\ c = Len(old) /\ c <= n
    BY <1>3, <2>3 DEF EventsInv
  <2>5. \A k \in 1 .. c : s[k] # Bad /\ old[k] = k
    BY <1>1, <1>2, <2>4 DEF EventsInv
  <2>6. \A k \in 1 .. hi - c : chunk[k] = s[c + k] /\ chunk[k] # Bad
    <3>1. \A k \in 1 .. hi - c : k \in DOMAIN chunk
      BY <2>3, <2>4
    <3>2. \A k \in DOMAIN chunk : chunk[k] # Bad
      BY <2>2, <2>4 DEF Range
    <3> QED BY <2>3, <2>4, <3>1, <3>2
  <2>7. Readable(s, hi)
    <3>1. ASSUME NEW j \in 1 .. hi, ~(j <= c) PROVE s[j] # Bad
      <4>1. j - c \in 1 .. hi - c /\ c + (j - c) = j
        BY <2>3, <2>4, <3>1
      <4> QED BY <2>6, <4>1
    <3>2. \A j \in 1 .. hi : j <= c => j \in 1 .. c
      BY <2>4
    <3> QED BY <2>5, <3>1, <3>2 DEF Readable
  <2>8. \A k \in 1 .. hi : s[k] = k
    <3>1. \A k \in 1 .. hi : Readable(s, k) /\ k \in 1 .. n
      BY <1>2, <2>3, <2>4, <2>7 DEF Readable
    <3> QED BY <1>1, <1>2, <3>1 DEF EventsInv, InOrder
  <2>9. PICK new : new = old \o chunk
    OBVIOUS
  <2>10. /\ new \in Seq(Nat) /\ Len(new) = hi
         /\ \A k \in 1 .. hi : new[k] = k
    <3>1. /\ new \in Seq(Nat) /\ Len(new) = c + Len(chunk)
          /\ \A k \in 1 .. c + Len(chunk) : new[k] = IF k <= c THEN old[k] ELSE chunk[k - c]
      BY <2>4, <2>9, ConcatProperties
    <3>2. c + Len(chunk) = hi
      BY <2>3, <2>4
    <3>3. ASSUME NEW k \in 1 .. hi, k <= c PROVE new[k] = k
      <4>1. k \in 1 .. c
        BY <2>4, <3>3
      <4> QED BY <2>5, <3>1, <3>2, <3>3, <4>1
    <3>4. ASSUME NEW k \in 1 .. hi, ~(k <= c) PROVE new[k] = k
      <4>1. k - c \in 1 .. hi - c /\ c + (k - c) = k
        BY <2>3, <2>4, <3>4
      <4>2. chunk[k - c] = s[k]
        BY <2>6, <4>1
      <4> QED BY <2>8, <3>1, <3>2, <3>4, <4>2
    <3> QED BY <3>1, <3>2, <3>3, <3>4
  <2>11. seen' = new /\ cursor' = hi
    BY <2>2, <2>3, <2>4, <2>9
  <2>12. \A k \in 1 .. hi : s[k] # Bad
    BY <2>7 DEF Readable
  <2>13. events' = events /\ emitted' = emitted /\ (Emitting' => Emitting)
    BY <1>8, Zenon DEF Poll, Emitting
  <2>14. /\ seen' \in Seq(Nat) /\ cursor' = Len(seen') /\ cursor' <= Len(events'.lines)
         /\ \A k \in 1 .. cursor' : events'.lines[k] # Bad /\ seen'[k] = k
    BY <1>1, <1>2, <2>3, <2>10, <2>11, <2>12, <2>13
  <2> QED BY <2>13, <2>14, Zenon DEF EventsInv, Open
<1> QED BY <1>4, <1>6, <1>7, <1>8 DEF EventsStep

-----------------------------------------------------------------------------
(***************************************************************************)
(* The history: its rows.                                                  *)
(***************************************************************************)
SplitAt(rs, i) == rs[i].split
WholeAt(rs, i) == rs[i].whole

\* Rows with one more, of call c.
Adds(rs, rs2, c, split) ==
  /\ rs \in Seq(RowType) /\ rs2 \in Seq(RowType) /\ c \in Calls /\ split \in BOOLEAN
  /\ Len(rs2) = Len(rs) + 1
  /\ \A i \in 1 .. Len(rs) : rs2[i] = rs[i]
  /\ rs2[Len(rs) + 1].call = c
  /\ SplitAt(rs2, Len(rs) + 1) <=> Width(split) = 2

\* Taken and the rows that fit, of any rows.
TakenIn(rs, i) == Len(rs) + 1 - i + Cardinality({j \in i .. Len(rs) : SplitAt(rs, j)})
FitIn(rs) ==
  {i \in 1 .. Len(rs) : TakenIn(rs, i) <= MaxRecords /\ WholeAt(rs, i) /\ ~SplitAt(rs, i)}

\* A row that is begun is one more, whole or not.
LEMMA RowAdds ==
  ASSUME NEW rs \in Seq(RowType), NEW c \in Calls, NEW split \in BOOLEAN, NEW whole \in BOOLEAN
  PROVE  /\ Adds(rs, Append(rs, Row(c, split, whole)), c, split)
         /\ whole = TRUE => WholeAt(Append(rs, Row(c, split, whole)), Len(rs) + 1)
         /\ whole = FALSE => ~WholeAt(Append(rs, Row(c, split, whole)), Len(rs) + 1)
<1>1. PICK x, rs2 : x = Row(c, split, whole) /\ rs2 = Append(rs, x)
  OBVIOUS
<1>2. /\ x \in RowType /\ rs2 \in Seq(RowType) /\ Len(rs) \in Nat /\ Len(rs2) = Len(rs) + 1
      /\ \A i \in 1 .. Len(rs) : rs2[i] = rs[i]
      /\ rs2[Len(rs) + 1] = x
  BY <1>1, RowMore
<1>3. x.call = c /\ x.split = split /\ x.whole = whole
  BY <1>1 DEF Row
<1>4. split = TRUE <=> Width(split) = 2
  BY DEF Width
<1>5. SplitAt(rs2, Len(rs) + 1) <=> Width(split) = 2
  BY <1>2, <1>3, <1>4, Zenon DEF SplitAt
<1>6. /\ whole = TRUE => WholeAt(rs2, Len(rs) + 1)
      /\ whole = FALSE => ~WholeAt(rs2, Len(rs) + 1)
  BY <1>2, <1>3, Zenon DEF WholeAt
<1> QED BY <1>1, <1>2, <1>3, <1>5, <1>6 DEF Adds

\* The rows that were there before are as they were.
LEMMA SameRows ==
  ASSUME NEW rs, NEW rs2, NEW c, NEW split, Adds(rs, rs2, c, split)
  PROVE  /\ Len(rs) \in Nat /\ Len(rs2) = Len(rs) + 1
         /\ \A i \in 1 .. Len(rs) : (SplitAt(rs2, i) <=> SplitAt(rs, i)) /\ (WholeAt(rs2, i) <=> WholeAt(rs, i))
         /\ Width(split) \in {1, 2} /\ (SplitAt(rs2, Len(rs) + 1) <=> Width(split) = 2)
<1>1. \A i \in 1 .. Len(rs) : rs2[i] = rs[i]
  BY DEF Adds
<1>2. \A i \in 1 .. Len(rs) : (SplitAt(rs2, i) <=> SplitAt(rs, i)) /\ (WholeAt(rs2, i) <=> WholeAt(rs, i))
  BY <1>1, Zenon DEF SplitAt, WholeAt
<1>3. Width(split) \in {1, 2}
  BY DEF Width
<1> QED BY <1>2, <1>3, LenProperties DEF Adds

\* The lines that the rows take from one on grow by those of the new row.
LEMMA TakenGrows ==
  ASSUME NEW rs, NEW rs2, NEW c, NEW split, Adds(rs, rs2, c, split)
  PROVE  /\ \A i \in 1 .. Len(rs) : /\ TakenIn(rs, i) \in Int /\ TakenIn(rs2, i) \in Int
                                    /\ TakenIn(rs2, i) >= TakenIn(rs, i) + Width(split)
         /\ TakenIn(rs2, Len(rs) + 1) \in Int /\ TakenIn(rs2, Len(rs) + 1) >= 1
<1>1. PICK n \in Nat, w \in {1, 2} :
        /\ n = Len(rs) /\ Len(rs2) = n + 1 /\ w = Width(split)
        /\ \A j \in 1 .. n : SplitAt(rs2, j) <=> SplitAt(rs, j)
        /\ SplitAt(rs2, n + 1) <=> w = 2
  BY SameRows
<1>2. ASSUME NEW i \in 1 .. n
      PROVE  /\ TakenIn(rs, i) \in Int /\ TakenIn(rs2, i) \in Int
             /\ TakenIn(rs2, i) >= TakenIn(rs, i) + w
  <2>1. PICK S, S2 : S = {j \in i .. n : SplitAt(rs, j)} /\ S2 = {j \in i .. n + 1 : SplitAt(rs2, j)}
    OBVIOUS
  <2>2. IsFiniteSet(i .. n + 1) /\ IsFiniteSet(i .. n)
    BY FS_Interval
  <2>3. IsFiniteSet(S) /\ IsFiniteSet(S2)
    BY <2>1, <2>2, FS_Subset
  <2>4. PICK a \in Nat, a2 \in Nat : a = Cardinality(S) /\ a2 = Cardinality(S2)
    BY <2>3, FS_CardinalityType
  <2>5. \A j \in i .. n : j \in 1 .. n /\ j \in i .. n + 1
    OBVIOUS
  <2>6. S \subseteq S2
    BY <1>1, <2>1, <2>5
  <2>7. a <= a2
    BY <2>3, <2>4, <2>6, FS_Subset
  <2>8. w = 2 => a + 1 <= a2
    <3>1. SUFFICES ASSUME w = 2 PROVE a + 1 <= a2
      OBVIOUS
    <3>2. n + 1 \in S2 /\ n + 1 \notin S
      BY <1>1, <2>1, <3>1
    <3>3. Cardinality(S \cup {n + 1}) = a + 1
      BY <2>3, <2>4, <3>2, FS_AddElement
    <3>4. S \cup {n + 1} \subseteq S2
      BY <2>6, <3>2
    <3> QED BY <2>3, <2>4, <3>3, <3>4, FS_Subset
  <2>9. TakenIn(rs, i) = n + 1 - i + a /\ TakenIn(rs2, i) = n + 1 + 1 - i + a2
    BY <1>1, <2>1, <2>4 DEF TakenIn
  <2> QED BY <2>7, <2>8, <2>9
<1>3. TakenIn(rs2, n + 1) \in Int /\ TakenIn(rs2, n + 1) >= 1
  <2>1. PICK S : S = {j \in n + 1 .. n + 1 : SplitAt(rs2, j)}
    OBVIOUS
  <2>2. Cardinality(S) \in Nat
    <3>1. PICK p \in Int : p = n + 1
      OBVIOUS
    <3>2. IsFiniteSet(p .. p) /\ S \subseteq p .. p
      BY <2>1, <3>1, FS_Interval
    <3> QED BY <3>2, FS_Subset, FS_CardinalityType
  <2>3. TakenIn(rs2, n + 1) = n + 1 + 1 - (n + 1) + Cardinality(S)
    BY <1>1, <2>1 DEF TakenIn
  <2> QED BY <2>2, <2>3
<1> QED BY <1>1, <1>2, <1>3

\* Of the rows, only the new one can begin to fit: whole, and without a separator.
LEMMA FitGrows ==
  ASSUME NEW rs, NEW rs2, NEW c, NEW split, Adds(rs, rs2, c, split)
  PROVE  /\ IsFiniteSet(FitIn(rs)) /\ IsFiniteSet(FitIn(rs2))
         /\ FitIn(rs2) \subseteq FitIn(rs) \cup {Len(rs) + 1}
         /\ ~WholeAt(rs2, Len(rs) + 1) \/ Width(split) = 2 => FitIn(rs2) \subseteq FitIn(rs)
<1>1. PICK n \in Nat, w \in {1, 2} :
        /\ n = Len(rs) /\ Len(rs2) = n + 1 /\ w = Width(split)
        /\ \A j \in 1 .. n : (SplitAt(rs2, j) <=> SplitAt(rs, j)) /\ (WholeAt(rs2, j) <=> WholeAt(rs, j))
        /\ SplitAt(rs2, n + 1) <=> w = 2
  BY SameRows
<1>2. IsFiniteSet(FitIn(rs)) /\ IsFiniteSet(FitIn(rs2))
  <2>1. IsFiniteSet(1 .. n) /\ IsFiniteSet(1 .. n + 1)
    BY FS_Interval
  <2>2. FitIn(rs) \subseteq 1 .. n /\ FitIn(rs2) \subseteq 1 .. n + 1
    BY <1>1 DEF FitIn
  <2> QED BY <2>1, <2>2, FS_Subset
<1>3. ASSUME NEW i \in FitIn(rs2), i # n + 1 PROVE i \in FitIn(rs)
  <2>1. i \in 1 .. n + 1 /\ TakenIn(rs2, i) <= MaxRecords /\ WholeAt(rs2, i) /\ ~SplitAt(rs2, i)
    BY <1>1, <1>3 DEF FitIn
  <2>2. i \in 1 .. n
    BY <1>3, <2>1
  <2>3. TakenIn(rs, i) \in Int /\ TakenIn(rs2, i) \in Int /\ TakenIn(rs2, i) >= TakenIn(rs, i) + w
    BY <1>1, <2>2, TakenGrows
  <2>4. TakenIn(rs, i) <= MaxRecords
    BY <2>1, <2>3, BoundsAssumption
  <2> QED BY <1>1, <2>1, <2>2, <2>4 DEF FitIn
<1>4. n + 1 \in FitIn(rs2) => WholeAt(rs2, n + 1) /\ w # 2
  BY <1>1 DEF FitIn
<1> QED BY <1>1, <1>2, <1>3, <1>4

-----------------------------------------------------------------------------
(***************************************************************************)
(* The history: no call is shown twice.                                    *)
(***************************************************************************)
\* The lines of h are rows of rs; line k shows call c; no two show the same call.
Known(h, rs) == \A k \in 1 .. Len(h.lines) : h.lines[k] \in 0 .. Len(rs)
Shows(h, rs, k, c) == h.lines[k] # Bad /\ rs[h.lines[k]].call = c
Distinct(h, rs) ==
  \A i, k \in 1 .. Len(h.lines), c \in Calls : Shows(h, rs, i, c) /\ Shows(h, rs, k, c) => i = k

\* Call c is at most in the last line, where the next append spoils it.
OnlyLast(h, rs, c) == \A k \in 1 .. Len(h.lines) : Shows(h, rs, k, c) => Open(h) /\ k = Len(h.lines)

\* A row of c is appended to a file that does not show c, or not for long.
LEMMA RowShown ==
  ASSUME NEW f, Fine(f), NEW g, NEW rs, NEW rs2, NEW c, NEW split, Adds(rs, rs2, c, split),
         Known(f, rs), Distinct(f, rs), OnlyLast(f, rs, c),
         Extends(f, g, Len(rs) + 1, split), g = f \/ (Open(f) => g.lines[Len(f.lines)] = Bad)
  PROVE  /\ Known(g, rs2) /\ Distinct(g, rs2)
         /\ Tears(f, g, Len(rs) + 1, split) => OnlyLast(g, rs2, c)
<1>1. PICK s, u, n, m, q : s = f.lines /\ u = g.lines /\ n = Len(s) /\ m = Len(u) /\ q = Len(rs)
  OBVIOUS
<1>2. /\ n \in Nat /\ m \in Nat /\ n <= m /\ q \in Nat /\ Len(rs2) = q + 1
      /\ \A i \in 1 .. q : rs2[i] = rs[i]
      /\ rs2[q + 1].call = c /\ c \in Calls
  BY <1>1, LenProperties DEF Fine, Extends, Adds
<1>3. ASSUME NEW k \in 1 .. m
      PROVE  \/ u[k] = Bad
             \/ k \in 1 .. n /\ u[k] = s[k] /\ s[k] \in 1 .. q
             \/ u[k] = q + 1 /\ k = n + 1 /\ k = m /\ ~Open(f)
  <2>1. k \in 1 .. n \/ k \in n + 1 .. m
    BY <1>2
  <2>2. k \in 1 .. n => u[k] = Bad \/ u[k] = s[k]
    BY <1>1 DEF Extends
  <2>3. k \in 1 .. n => s[k] \in 0 .. q
    BY <1>1 DEF Known
  <2>4. k \in n + 1 .. m => u[k] = Bad \/ (u[k] = q + 1 /\ k = n + 1 /\ k = m /\ ~Open(f))
    BY <1>1 DEF Extends
  <2> QED BY <1>2, <2>1, <2>2, <2>3, <2>4 DEF Bad
<1>4. Known(g, rs2)
  <2>1. \A k \in 1 .. m : u[k] \in 0 .. q + 1
    BY <1>2, <1>3 DEF Bad
  <2> QED BY <1>1, <1>2, <2>1 DEF Known
<1>5. ASSUME NEW k \in 1 .. m, NEW d \in Calls, Shows(g, rs2, k, d)
      PROVE  \/ k \in 1 .. n /\ Shows(f, rs, k, d) /\ u[k] = s[k]
             \/ d = c /\ u[k] = q + 1 /\ k = n + 1 /\ k = m /\ ~Open(f)
  <2>1. u[k] # Bad /\ rs2[u[k]].call = d
    BY <1>1, <1>5 DEF Shows
  <2>2. CASE k \in 1 .. n /\ u[k] = s[k] /\ s[k] \in 1 .. q
    BY <1>1, <1>2, <2>1, <2>2 DEF Shows
  <2>3. CASE u[k] = q + 1 /\ k = n + 1 /\ k = m /\ ~Open(f)
    BY <1>2, <2>1, <2>3
  <2> QED BY <1>3, <2>1, <2>2, <2>3
<1>6. Distinct(g, rs2)
  <2>1. SUFFICES ASSUME NEW i \in 1 .. m, NEW k \in 1 .. m, NEW d \in Calls,
                        Shows(g, rs2, i, d), Shows(g, rs2, k, d)
                 PROVE  i = k
    BY <1>1 DEF Distinct
  <2>2. CASE i \in 1 .. n /\ Shows(f, rs, i, d) /\ k \in 1 .. n /\ Shows(f, rs, k, d)
    BY <1>1, <2>2 DEF Distinct
  <2>3. ASSUME NEW j \in 1 .. n, Shows(f, rs, j, c), ~Open(f) PROVE FALSE
    BY <1>1, <2>3 DEF OnlyLast
  <2> QED BY <1>5, <2>1, <2>2, <2>3
<1>7. ASSUME Tears(f, g, q + 1, split) PROVE OnlyLast(g, rs2, c)
  <2>1. SUFFICES ASSUME NEW k \in 1 .. m, Shows(g, rs2, k, c) PROVE Open(g) /\ k = m
    BY <1>1 DEF OnlyLast
  <2>2. CASE g = f
    BY <1>1, <1>2, <1>5, <2>1, <2>2 DEF OnlyLast
  <2>3. CASE ~(g = f)
    <3>1. /\ Open(f) => u[n] = Bad
          /\ ~Open(g) => \A j \in n + 1 .. m : u[j] = Bad
      BY <1>1, <1>7, <2>3 DEF Tears
    <3>2. u[k] # Bad
      BY <1>1, <2>1 DEF Shows
    <3>3. CASE k \in 1 .. n /\ Shows(f, rs, k, c)
      BY <1>1, <3>1, <3>2, <3>3 DEF OnlyLast
    <3>4. CASE k = n + 1 /\ k = m
      BY <1>2, <3>1, <3>2, <3>4
    <3> QED BY <1>2, <1>5, <2>1, <3>3, <3>4
  <2> QED BY <2>2, <2>3
<1> QED BY <1>1, <1>4, <1>6, <1>7

\* Taking lines away shows no call twice.
LEMMA PartsShown ==
  ASSUME NEW f, Fine(f), NEW g, Fine(g), NEW d, Parts(f, g, d), NEW rs \in Seq(RowType),
         Known(f, rs), Distinct(f, rs)
  PROVE  Known(g, rs) /\ Distinct(g, rs)
<1>1. PICK s, u, n, m, q : s = f.lines /\ u = g.lines /\ n = Len(s) /\ m = Len(u) /\ q = Len(rs)
  OBVIOUS
<1>2. /\ n \in Nat /\ m \in Nat /\ q \in Nat /\ d \in Nat
      /\ \A k \in 1 .. m : u[k] = Bad \/ (k + d \in 1 .. n /\ u[k] = s[k + d])
  BY <1>1, LenProperties DEF Fine, Parts
<1>3. \A k \in 1 .. m : u[k] \in 0 .. q
  <2>1. \A k \in 1 .. n : s[k] \in 0 .. q
    BY <1>1 DEF Known
  <2>2. Bad \in 0 .. q
    BY <1>2 DEF Bad
  <2> QED BY <1>2, <2>1, <2>2
<1>4. ASSUME NEW k \in 1 .. m, NEW c \in Calls, Shows(g, rs, k, c)
      PROVE  k + d \in 1 .. n /\ Shows(f, rs, k + d, c)
  BY <1>1, <1>2, <1>4 DEF Shows
<1>5. ASSUME NEW i \in 1 .. m, NEW k \in 1 .. m, NEW c \in Calls, Shows(g, rs, i, c), Shows(g, rs, k, c)
      PROVE  i = k
  <2>1. i + d = k + d
    BY <1>1, <1>4, <1>5 DEF Distinct
  <2> QED BY <1>2, <2>1
<1> QED BY <1>1, <1>3, <1>5 DEF Known, Distinct

-----------------------------------------------------------------------------
(***************************************************************************)
(* The history: the newest rows are kept.                                  *)
(***************************************************************************)
\* A record is no further from the end of the file than its row from the last; every
\* row that fits and is not in the file has a torn line to account for it; and a line
\* that may still be spoiled is not that of a row written whole.
Near(h, rs) ==
  \A k \in 1 .. Len(h.lines) : h.lines[k] # Bad => Len(h.lines) - k + 1 <= TakenIn(rs, h.lines[k])
Missing(h, rs) == FitIn(rs) \ Range(h.lines)
Kept(h, rs, m) ==
  /\ Near(h, rs)
  /\ Cardinality(Missing(h, rs)) + Bit(h) <= m
  /\ Open(h) => h.lines[Len(h.lines)] = Bad \/ ~WholeAt(rs, h.lines[Len(h.lines)])

\* An append moves no record further from the end than it moves its row.
LEMMA NearGrows ==
  ASSUME NEW f, Fine(f), NEW g, NEW rs, NEW rs2, NEW c, NEW split, Adds(rs, rs2, c, split),
         Known(f, rs), Near(f, rs), Extends(f, g, Len(rs) + 1, split)
  PROVE  Near(g, rs2)
<1>0. PICK w \in {1, 2} : w = Width(split)
  BY SameRows
<1>1. PICK s, u, n, m, q :
        s = f.lines /\ u = g.lines /\ n = Len(s) /\ m = Len(u) /\ q = Len(rs) /\ w = Width(split)
  BY <1>0
<1>2. n \in Nat /\ m \in Nat /\ n <= m /\ m <= n + w /\ q \in Nat
  BY <1>1, LenProperties DEF Fine, Extends, Adds
<1>3. SUFFICES ASSUME NEW k \in 1 .. m, u[k] # Bad PROVE m - k + 1 <= TakenIn(rs2, u[k])
  BY <1>1 DEF Near
<1>4. CASE k \in 1 .. n
  <2>1. u[k] = s[k] /\ s[k] \in 0 .. q
    BY <1>1, <1>3, <1>4 DEF Extends, Known
  <2>2. PICK i \in 1 .. q : i = s[k] /\ i = u[k] /\ i # Bad
    BY <1>2, <1>3, <2>1 DEF Bad
  <2>3. n - k + 1 <= TakenIn(rs, i)
    BY <1>1, <1>4, <2>2 DEF Near
  <2>4. TakenIn(rs, i) \in Int /\ TakenIn(rs2, i) \in Int /\ TakenIn(rs2, i) >= TakenIn(rs, i) + w
    BY <1>1, TakenGrows
  <2> QED BY <1>2, <2>2, <2>3, <2>4
<1>5. CASE k \in n + 1 .. m
  <2>1. u[k] = q + 1 /\ k = m
    BY <1>1, <1>3, <1>5 DEF Extends
  <2>2. TakenIn(rs2, q + 1) \in Int /\ TakenIn(rs2, q + 1) >= 1
    BY <1>1, TakenGrows
  <2>3. m - k + 1 = 1
    BY <1>2, <2>1
  <2> QED BY <2>1, <2>2, <2>3
<1> QED BY <1>2, <1>3, <1>4, <1>5

\* An append leaves the rows that fit in the file.
LEMMA FitStays ==
  ASSUME NEW f, Fine(f), NEW g, NEW rs, NEW rs2, NEW c, NEW split, Adds(rs, rs2, c, split),
         NEW m, Kept(f, rs, m), Extends(f, g, Len(rs) + 1, split)
  PROVE  /\ FitIn(rs) \ Range(g.lines) \subseteq Missing(f, rs)
         /\ IsFiniteSet(Missing(f, rs)) /\ IsFiniteSet(Missing(g, rs2))
<1>1. Open(f) => f.lines[Len(f.lines)] \notin FitIn(rs)
  <2>1. \A i \in FitIn(rs) : i \in 1 .. Len(rs) /\ WholeAt(rs, i)
    BY DEF FitIn
  <2>2. Bad \notin FitIn(rs)
    BY <2>1 DEF Bad
  <2> QED BY <2>1, <2>2 DEF Kept
<1>2. FitIn(rs) \ Range(g.lines) \subseteq FitIn(rs) \ Range(f.lines)
  BY <1>1, RecordsStay
<1>3. IsFiniteSet(Missing(f, rs)) /\ IsFiniteSet(Missing(g, rs2))
  BY FitGrows, FS_Subset DEF Missing
<1> QED BY <1>2, <1>3 DEF Missing

\* A row that could not be written is none of those that must be kept; what is left of
\* it may spoil the row that follows.
LEMMA RowTorn ==
  ASSUME NEW f, Fine(f), NEW g, NEW rs, NEW rs2, NEW c, NEW split, Adds(rs, rs2, c, split),
         ~WholeAt(rs2, Len(rs) + 1), Known(f, rs), NEW m \in Nat, Kept(f, rs, m),
         Tears(f, g, Len(rs) + 1, split)
  PROVE  Kept(g, rs2, m + Bit(g))
<1>1. Extends(f, g, Len(rs) + 1, split)
  BY DEF Tears
<1>2. Near(g, rs2)
  BY <1>1, NearGrows DEF Kept
<1>3. Missing(g, rs2) \subseteq Missing(f, rs) /\ IsFiniteSet(Missing(f, rs)) /\ IsFiniteSet(Missing(g, rs2))
  BY <1>1, FitStays, FitGrows DEF Missing
<1>4. PICK a \in Nat, b \in Nat, x \in {0, 1}, y \in {0, 1} :
        /\ a = Cardinality(Missing(f, rs)) /\ b = Cardinality(Missing(g, rs2)) /\ b <= a
        /\ x = Bit(f) /\ y = Bit(g)
  BY <1>3, FS_Subset, FS_CardinalityType DEF Bit
<1>5. b + y <= m + y
  BY <1>4 DEF Kept
<1>6. ASSUME Open(g) PROVE g.lines[Len(g.lines)] = Bad \/ ~WholeAt(rs2, g.lines[Len(g.lines)])
  <2>1. CASE g = f
    <3>1. PICK k, i : k = Len(f.lines) /\ i = f.lines[k]
      OBVIOUS
    <3>2. i = Bad \/ ~WholeAt(rs, i)
      BY <1>6, <2>1, <3>1 DEF Kept
    <3>3. k \in 1 .. Len(f.lines)
      BY <1>6, <2>1, <3>1, LenProperties DEF Fine
    <3>4. i = Bad \/ i \in 1 .. Len(rs)
      BY <3>1, <3>3, SameRows DEF Known, Bad
    <3>5. i = Bad \/ ~WholeAt(rs2, i)
      BY <3>2, <3>4, SameRows
    <3> QED BY <2>1, <3>1, <3>5
  <2>2. CASE g.lines[Len(g.lines)] \in {Len(rs) + 1, Bad}
    BY <2>2
  <2> QED BY <1>6, <2>1, <2>2 DEF Tears
<1> QED BY <1>2, <1>4, <1>5, <1>6 DEF Kept

\* A row that is written is in the file, unless it follows one that was torn, or holds a
\* separator.
LEMMA RowWritten ==
  ASSUME NEW f, Fine(f), NEW g, NEW rs, NEW rs2, NEW c, NEW split, Adds(rs, rs2, c, split),
         Known(f, rs), NEW m \in Nat, Kept(f, rs, m), Completes(f, g, Len(rs) + 1, split)
  PROVE  Kept(g, rs2, m)
<1>1. Extends(f, g, Len(rs) + 1, split) /\ ~Open(g)
  BY DEF Completes
<1>2. Near(g, rs2)
  BY <1>1, NearGrows DEF Kept
<1>3. PICK M, M2 : M = Missing(f, rs) /\ M2 = Missing(g, rs2) /\ IsFiniteSet(M) /\ IsFiniteSet(M2)
  BY <1>1, FitStays
<1>4. FitIn(rs) \ Range(g.lines) \subseteq M
  BY <1>1, <1>3, FitStays
<1>5. PICK a \in Nat, b \in Nat : a = Cardinality(M) /\ b = Cardinality(M2)
  BY <1>3, FS_CardinalityType
<1>6. Bit(g) = 0
  BY <1>1 DEF Bit
<1>7. b <= m
  <2>1. CASE Open(f)
    <3>1. M2 \subseteq M \cup {Len(rs) + 1}
      BY <1>3, <1>4, FitGrows DEF Missing
    <3>2. /\ IsFiniteSet(M \cup {Len(rs) + 1})
          /\ Cardinality(M \cup {Len(rs) + 1}) = a \/ Cardinality(M \cup {Len(rs) + 1}) = a + 1
      BY <1>3, <1>5, FS_AddElement
    <3>3. b <= a + 1
      BY <1>3, <1>5, <3>1, <3>2, FS_Subset
    <3>4. a + 1 <= m
      BY <1>3, <1>5, <2>1 DEF Kept, Bit
    <3> QED BY <1>5, <3>3, <3>4
  <2>2. CASE ~Open(f)
    <3>1. M2 \subseteq M
      <4>1. CASE Width(split) = 2
        BY <1>3, <1>4, <4>1, FitGrows DEF Missing
      <4>2. CASE ~(Width(split) = 2)
        <5>1. ~split
          BY <4>2 DEF Width
        <5>2. PICK n, u, q : n = Len(f.lines) /\ u = g.lines /\ q = Len(rs) + 1
          OBVIOUS
        <5>3. n \in Nat /\ u \in Seq(Nat) /\ Len(u) = n + 1 /\ u[n + 1] = q
          BY <1>1, <2>2, <5>1, <5>2, LenProperties DEF Completes, Fine, Extends
        <5>4. q \in Range(u)
          BY <5>3 DEF Range
        <5> QED BY <1>3, <1>4, <5>2, <5>4, FitGrows DEF Missing
      <4> QED BY <4>1, <4>2
    <3>2. b <= a
      BY <1>3, <1>5, <3>1, FS_Subset
    <3>3. a <= m
      BY <1>3, <1>5, <2>2 DEF Kept, Bit
    <3> QED BY <1>5, <3>2, <3>3
  <2> QED BY <2>1, <2>2
<1> QED BY <1>1, <1>2, <1>3, <1>5, <1>6, <1>7 DEF Kept

\* A compaction takes away only rows that no longer fit.
LEMMA CompactionKeeps ==
  ASSUME NEW f, Fine(f), NEW g, Fine(g), ~Open(g), NEW d, Drops(f, g, d),
         d = 0 \/ d = Len(f.lines) - MaxRecords,
         NEW rs \in Seq(RowType), Known(f, rs), NEW m \in Nat, Kept(f, rs, m), IsFiniteSet(FitIn(rs))
  PROVE  Kept(g, rs, m)
<1>1. PICK s, u, n, p, q : s = f.lines /\ u = g.lines /\ n = Len(s) /\ p = Len(u) /\ q = Len(rs)
  OBVIOUS
<1>2. /\ s \in Seq(Nat) /\ u \in Seq(Nat) /\ n \in Nat /\ p \in Nat /\ q \in Nat
      /\ d \in Nat /\ d <= n /\ p = n - d /\ \A k \in 1 .. p : u[k] = s[k + d]
  BY <1>1, LenProperties DEF Fine, Drops
<1>3. Near(g, rs)
  <2>1. SUFFICES ASSUME NEW k \in 1 .. p, u[k] # Bad PROVE p - k + 1 <= TakenIn(rs, u[k])
    BY <1>1 DEF Near
  <2>2. k + d \in 1 .. n /\ u[k] = s[k + d] /\ n - (k + d) + 1 = p - k + 1
    BY <1>2
  <2>3. n - (k + d) + 1 <= TakenIn(rs, s[k + d])
    BY <1>1, <2>1, <2>2 DEF Kept, Near
  <2> QED BY <2>2, <2>3
<1>4. Missing(g, rs) \subseteq Missing(f, rs)
  <2>1. SUFFICES ASSUME NEW i \in FitIn(rs), i \in Range(s) PROVE i \in Range(u)
    BY <1>1 DEF Missing
  <2>2. PICK k \in 1 .. n : i = s[k]
    BY <1>1, <1>2, <2>1 DEF Range
  <2>3. i \in 1 .. q /\ TakenIn(rs, i) <= MaxRecords /\ i # Bad
    BY <1>1 DEF FitIn, Bad
  <2>4. n - k + 1 <= TakenIn(rs, i)
    BY <1>1, <2>2, <2>3 DEF Kept, Near
  <2>5. k > d
    <3>1. CASE d = 0
      BY <3>1
    <3>2. CASE d = n - MaxRecords
      <4>1. TakenIn(rs, i) \in Int
        <5>1. Cardinality({j \in i .. q : SplitAt(rs, j)}) \in Nat
          <6>1. IsFiniteSet(i .. q) /\ {j \in i .. q : SplitAt(rs, j)} \subseteq i .. q
            BY <1>2, FS_Interval, <2>3
          <6> QED BY <6>1, FS_Subset, FS_CardinalityType
        <5> QED BY <1>1, <1>2, <2>3, <5>1 DEF TakenIn
      <4>2. n - k + 1 <= MaxRecords
        BY <1>2, <2>3, <2>4, <4>1, BoundsAssumption
      <4> QED BY <1>2, <3>2, <4>2, BoundsAssumption
    <3> QED BY <1>1, <3>1, <3>2
  <2>6. k - d \in 1 .. p /\ (k - d) + d = k
    BY <1>2, <2>5
  <2>7. u[k - d] = i
    BY <1>2, <2>2, <2>6
  <2>8. PICK j \in 1 .. p : j = k - d
    BY <2>6
  <2>9. DOMAIN u = 1 .. p
    BY <1>1, <1>2, LenProperties
  <2> QED BY <2>7, <2>8, <2>9 DEF Range
<1>5. IsFiniteSet(Missing(f, rs)) /\ IsFiniteSet(Missing(g, rs))
  BY FS_Subset DEF Missing
<1>6. PICK a \in Nat, b \in Nat, x \in {0, 1} :
        a = Cardinality(Missing(f, rs)) /\ b = Cardinality(Missing(g, rs)) /\ b <= a /\ x = Bit(f)
  BY <1>4, <1>5, FS_Subset, FS_CardinalityType DEF Bit
<1>7. b + 0 <= m /\ Bit(g) = 0
  BY <1>6 DEF Kept, Bit
<1> QED BY <1>3, <1>6, <1>7 DEF Kept


-----------------------------------------------------------------------------
(***************************************************************************)
(* The history: its steps.                                                 *)
(***************************************************************************)
Done == {c \in Calls : phase[c] \in {"ok", "error", "lost"}}
Keeping == ~rewriting

HistoryInv ==
  /\ Known(history, rows) /\ Distinct(history, rows)
  /\ \A i \in 1 .. Len(rows) : rows[i].call \in Done
  /\ Keeping => Kept(history, rows, torn["history"])

\* What becomes of a file f and its rows rs when a row is begun: it is not written; it
\* is, and the file may be compacted; or the compaction is cut short.
TornRow(f, rs, g, rs2, c, split) ==
  /\ Adds(rs, rs2, c, split) /\ ~WholeAt(rs2, Len(rs) + 1)
  /\ Tears(f, g, Len(rs) + 1, split)
WrittenRow(f, rs, g, rs2, c, split) ==
  /\ Adds(rs, rs2, c, split) /\ Fine(g) /\ ~Open(g)
  /\ \E w, d : /\ Completes(f, w, Len(rs) + 1, split)
               /\ Drops(w, g, d) /\ (d = 0 \/ d = Len(w.lines) - MaxRecords)
SpoiledRow(f, rs, g, rs2, c, split) ==
  /\ Adds(rs, rs2, c, split) /\ Fine(g)
  /\ \E w, d : Completes(f, w, Len(rs) + 1, split) /\ Parts(w, g, d)

\* The row that ends a step, with m torn lines before it.
LastRow(f, rs, m, c) ==
  \E split \in BOOLEAN :
    \/ /\ TornRow(f, rs, history', rows', c, split)
       /\ torn'["history"] = m + Bit(history') /\ UNCHANGED rewriting
    \/ /\ WrittenRow(f, rs, history', rows', c, split)
       /\ torn'["history"] = m /\ UNCHANGED rewriting
    \/ SpoiledRow(f, rs, history', rows', c, split) /\ ~Keeping'

\* What a step does: nothing, or the row of a call that ends, if need be after one that
\* could not be written.
HistoryStep ==
  \/ UNCHANGED <<history, rows, rewriting>> /\ torn'["history"] = torn["history"] /\ Done \subseteq Done'
  \/ \E c \in Calls \ Done :
       /\ c \in Done' /\ Done \subseteq Done'
       /\ \/ LastRow(history, rows, torn["history"], c)
          \/ \E file, rs : \E split \in BOOLEAN :
               /\ TornRow(history, rows, file, rs, c, split)
               /\ LastRow(file, rs, torn["history"] + Bit(file), c)

\* A row that is not written is torn.
LEMMA CutIsTorn ==
  ASSUME NEW f, Fine(f), NEW rs \in Seq(RowType), NEW c \in Calls, NEW split \in BOOLEAN,
         NEW g \in CutShort(f, Len(rs) + 1, split)
  PROVE  TornRow(f, rs, g, Append(rs, Row(c, split, FALSE)), c, split)
<1>1. Len(rs) + 1 \in Nat
  BY LenProperties
<1>2. Tears(f, g, Len(rs) + 1, split)
  BY <1>1, CutTears
<1>3. PICK whole \in BOOLEAN : whole = FALSE
  OBVIOUS
<1>4. Adds(rs, Append(rs, Row(c, split, whole)), c, split) /\ ~WholeAt(Append(rs, Row(c, split, whole)), Len(rs) + 1)
  BY <1>3, RowAdds
<1> QED BY <1>2, <1>3, <1>4 DEF TornRow

\* One that is written may be followed by a compaction.
LEMMA WrittenIsKept ==
  ASSUME NEW f, Fine(f), NEW rs \in Seq(RowType), NEW c \in Calls, NEW split \in BOOLEAN, NEW g
  PROVE  /\ g \in Compactions(Written(f, Len(rs) + 1, split)) =>
              WrittenRow(f, rs, g, Append(rs, Row(c, split, TRUE)), c, split)
         /\ g \in Rewritten(Written(f, Len(rs) + 1, split)) =>
              SpoiledRow(f, rs, g, Append(rs, Row(c, split, TRUE)), c, split)
<1>1. Len(rs) + 1 \in Nat
  BY LenProperties
<1>2. PICK w : w = Written(f, Len(rs) + 1, split)
  OBVIOUS
<1>3. Completes(f, w, Len(rs) + 1, split) /\ Fine(w) /\ ~Open(w)
  <2>1. PICK r \in Nat : r = Len(rs) + 1
    BY <1>1
  <2>2. Completes(f, w, r, split)
    BY <1>2, <2>1, WrittenCompletes
  <2> QED BY <2>1, <2>2 DEF Completes, Extends
<1>4. PICK whole \in BOOLEAN : whole = TRUE
  OBVIOUS
<1>5. Adds(rs, Append(rs, Row(c, split, whole)), c, split)
  BY RowAdds
<1>6. ASSUME g \in Compactions(w) PROVE WrittenRow(f, rs, g, Append(rs, Row(c, split, TRUE)), c, split)
  <2>1. Fine(g) /\ ~Open(g) /\ \E d : Drops(w, g, d) /\ (d = 0 \/ d = Len(w.lines) - MaxRecords)
    BY <1>3, <1>6, CompactedShape
  <2> QED BY <1>3, <1>4, <1>5, <2>1 DEF WrittenRow
<1>7. ASSUME g \in Rewritten(w) PROVE SpoiledRow(f, rs, g, Append(rs, Row(c, split, TRUE)), c, split)
  <2>1. Fine(g) /\ \E d : Parts(w, g, d)
    BY <1>3, <1>7, RewrittenShape
  <2> QED BY <1>3, <1>4, <1>5, <2>1 DEF SpoiledRow
<1> QED BY <1>2, <1>6, <1>7

\* A call that ends is done, and those that were done before it still are.
LEMMA CallEnds ==
  ASSUME Typed, NEW c \in Calls, phase[c] = "running", NEW x \in {"ok", "error"},
         phase' = [phase EXCEPT ![c] = x]
  PROVE  c \in Calls \ Done /\ c \in Done' /\ Done \subseteq Done'
BY DEF Typed, Done

\* Every step is one of these.
LEMMA HistorySteps ==
  ASSUME Typed, [Next]_vars
  PROVE  HistoryStep
<1>1. /\ Fine(history) /\ rows \in Seq(RowType) /\ torn["history"] \in Nat
      /\ "audit" \in Files /\ "history" \in Files /\ "events" \in Files
  BY DEF Typed, Files
<1>2. PICK n \in Nat : n = Len(rows) /\ NewRow = n + 1 /\ NewRow + 1 = n + 1 + 1
  BY <1>1, LenProperties DEF NewRow
<1>3. ASSUME UNCHANGED <<history, rows, rewriting>>, torn'["history"] = torn["history"],
             Done \subseteq Done'
      PROVE  HistoryStep
  BY <1>3, Zenon DEF HistoryStep
<1>4. ASSUME NEW c \in Calls, Request(c) \/ Refuse(c) PROVE HistoryStep
  <2>1. UNCHANGED <<history, rows, rewriting>> /\ (torn' = torn \/ Tore("audit", audit'))
    BY <1>4, Zenon DEF Request, Refuse
  <2>2. torn'["history"] = torn["history"]
    BY <1>1, <2>1, Counts DEF Typed
  <2>3. Done \subseteq Done'
    BY <1>4 DEF Request, Refuse, Typed, Done
  <2> QED BY <1>3, <2>1, <2>2, <2>3
<1>5. ASSUME NEW c \in Calls, NEW split \in BOOLEAN, NEW ok \in BOOLEAN, Finish(c, ok, split)
      PROVE  HistoryStep
  <2>1. PICK x \in {"ok", "error"} : phase[c] = "running" /\ phase' = [phase EXCEPT ![c] = x]
    BY <1>5 DEF Finish
  <2>2. c \in Calls \ Done /\ c \in Done' /\ Done \subseteq Done'
    BY <2>1, CallEnds
  <2>3. rows' = Append(rows, Row(c, split, TRUE))
    BY <1>5 DEF Finish
  <2>4. CASE history' \in Compactions(Written(history, n + 1, split)) /\ UNCHANGED <<rewriting, torn>>
    <3>1. WrittenRow(history, rows, history', rows', c, split)
      BY <1>1, <1>2, <2>3, <2>4, WrittenIsKept
    <3>2. torn'["history"] = torn["history"] /\ UNCHANGED rewriting
      BY <2>4
    <3>3. LastRow(history, rows, torn["history"], c)
      BY <3>1, <3>2, Zenon DEF LastRow
    <3> QED BY <2>2, <3>3, Zenon DEF HistoryStep
  <2>5. CASE history' \in Rewritten(Written(history, n + 1, split)) /\ rewriting' = TRUE
    <3>1. SpoiledRow(history, rows, history', rows', c, split)
      BY <1>1, <1>2, <2>3, <2>5, WrittenIsKept
    <3>2. ~Keeping'
      BY <2>5, Zenon DEF Keeping
    <3>3. LastRow(history, rows, torn["history"], c)
      BY <3>1, <3>2, Zenon DEF LastRow
    <3> QED BY <2>2, <3>3, Zenon DEF HistoryStep
  <2> QED BY <1>2, <1>5, <2>4, <2>5, Zenon DEF Finish
<1>6. ASSUME NEW c \in Calls, NEW split \in BOOLEAN, FailUnrecorded(c, split) PROVE HistoryStep
  <2>1. phase[c] = "running" /\ phase' = [phase EXCEPT ![c] = "error"]
    BY <1>6 DEF FailUnrecorded
  <2>2. c \in Calls \ Done /\ c \in Done' /\ Done \subseteq Done'
    BY <2>1, CallEnds
  <2>3. /\ rows' = Append(rows, Row(c, split, FALSE)) /\ history' \in CutShort(history, n + 1, split)
        /\ Tore("history", history') /\ UNCHANGED rewriting
    BY <1>2, <1>6, Zenon DEF FailUnrecorded
  <2>4. TornRow(history, rows, history', rows', c, split)
    BY <1>1, <1>2, <2>3, CutIsTorn
  <2>5. torn'["history"] = torn["history"] + Bit(history')
    BY <1>1, <2>3, Counts DEF Typed
  <2>6. LastRow(history, rows, torn["history"], c)
    BY <2>3, <2>4, <2>5, Zenon DEF LastRow
  <2> QED BY <2>2, <2>6, Zenon DEF HistoryStep
<1>7. ASSUME NEW c \in Calls, NEW split \in BOOLEAN, FinishUnrecorded(c, split) PROVE HistoryStep
  <2>1. phase[c] = "running" /\ phase' = [phase EXCEPT ![c] = "error"]
    BY <1>7 DEF FinishUnrecorded
  <2>2. c \in Calls \ Done /\ c \in Done' /\ Done \subseteq Done'
    BY <2>1, CallEnds
  <2>3. PICK file \in CutShort(history, n + 1, split), again \in BOOLEAN, split2 \in BOOLEAN :
          /\ rows' = rows \o <<Row(c, split, FALSE), Row(c, split2, again)>>
          /\ \/ /\ again = TRUE
                /\ history' \in Compactions(Written(file, n + 1 + 1, split2)) /\ UNCHANGED rewriting
             \/ /\ again = TRUE
                /\ history' \in Rewritten(Written(file, n + 1 + 1, split2)) /\ rewriting' = TRUE
             \/ again = FALSE /\ history' \in CutShort(file, n + 1 + 1, split2) /\ UNCHANGED rewriting
          /\ torn' = [torn EXCEPT !["history"] =
               @ + (IF file.open THEN 1 ELSE 0) + (IF history'.open THEN 1 ELSE 0)]
    <3>1. n + 1 = NewRow /\ n + 1 + 1 = NewRow + 1
      BY <1>2
    <3> QED BY <1>7, <3>1, Zenon DEF FinishUnrecorded
  <2>4. PICK rs : rs = Append(rows, Row(c, split, FALSE))
    OBVIOUS
  <2>5. rs \in Seq(RowType) /\ Len(rs) = n + 1 /\ Len(rs) + 1 = n + 1 + 1
    BY <1>1, <1>2, <2>4, RowMore
  <2>6. rows' = Append(rs, Row(c, split2, again))
    <3>1. PICK x \in RowType, y \in RowType : x = Row(c, split, FALSE) /\ y = Row(c, split2, again)
      BY <1>1, <2>3, RowMore
    <3>2. x \in RowType /\ y \in RowType
      BY <3>1
    <3>3. <<x>> \in Seq(RowType) /\ <<y>> \in Seq(RowType) /\ <<x, y>> \in Seq(RowType)
      BY <3>2
    <3>4. PICK a \in Seq(RowType), b \in Seq(RowType), s \in Seq(RowType) :
            a = <<x>> /\ b = <<y>> /\ s = rows
      BY <1>1, <3>3
    <3>5. Append(s, x) = s \o a /\ s \o a \in Seq(RowType)
      BY <3>4, AppendIsConcat, ConcatProperties
    <3>6. Append(s \o a, y) = (s \o a) \o b
      BY <3>4, <3>5, AppendIsConcat
    <3>7. (s \o a) \o b = s \o (a \o b)
      BY ConcatAssociative
    <3>8. a \o b = <<x, y>>
      <4>1. PICK u, v : u = a \o b /\ v = <<x, y>>
        OBVIOUS
      <4>2. v \in Seq(RowType) /\ Len(v) = 2 /\ v[1] = x /\ v[2] = y
        BY <3>3, <4>1
      <4>3. Len(a) = 1 /\ a[1] = x /\ Len(b) = 1 /\ b[1] = y
        BY <3>4
      <4>4. u \in Seq(RowType) /\ Len(u) = 2 /\ u[1] = x /\ u[2] = y
        BY <3>4, <4>1, <4>3, ConcatProperties
      <4>5. Len(u) = Len(v) /\ \A i \in 1 .. Len(u) : u[i] = v[i]
        BY <4>2, <4>4
      <4> QED BY <4>1, <4>2, <4>4, <4>5, SeqEqual
    <3> QED BY <2>3, <2>4, <3>1, <3>4, <3>5, <3>6, <3>7, <3>8, Zenon
  <2>7. TornRow(history, rows, file, rs, c, split)
    BY <1>1, <1>2, <2>3, <2>4, CutIsTorn
  <2>8. Fine(file)
    BY <2>7 DEF TornRow, Tears, Extends
  <2>9. torn'["history"] = torn["history"] + Bit(file) + Bit(history')
    BY <1>1, <2>3, CountsTwice DEF Typed
  <2>10. PICK m \in Nat : m = torn["history"] + Bit(file)
    BY <1>1 DEF Bit
  <2>11. LastRow(file, rs, m, c)
    <3>1. CASE again = TRUE /\ history' \in Compactions(Written(file, n + 1 + 1, split2)) /\ UNCHANGED rewriting
      <4>1. WrittenRow(file, rs, history', rows', c, split2)
        BY <2>5, <2>6, <2>8, <3>1, WrittenIsKept
      <4>2. Bit(history') = 0
        BY <4>1 DEF WrittenRow, Bit
      <4>3. torn'["history"] = m
        BY <2>9, <2>10, <4>2
      <4> QED BY <3>1, <4>1, <4>3, Zenon DEF LastRow
    <3>2. CASE again = TRUE /\ history' \in Rewritten(Written(file, n + 1 + 1, split2)) /\ rewriting' = TRUE
      <4>1. SpoiledRow(file, rs, history', rows', c, split2)
        BY <2>5, <2>6, <2>8, <3>2, WrittenIsKept
      <4>2. ~Keeping'
        BY <3>2, Zenon DEF Keeping
      <4> QED BY <4>1, <4>2, Zenon DEF LastRow
    <3>3. CASE again = FALSE /\ history' \in CutShort(file, n + 1 + 1, split2) /\ UNCHANGED rewriting
      <4>1. TornRow(file, rs, history', rows', c, split2)
        BY <2>5, <2>6, <2>8, <3>3, CutIsTorn
      <4>2. torn'["history"] = m + Bit(history')
        BY <2>9, <2>10
      <4> QED BY <3>3, <4>1, <4>2, Zenon DEF LastRow
    <3> QED BY <2>3, <3>1, <3>2, <3>3
  <2> QED BY <2>2, <2>7, <2>10, <2>11, Zenon DEF HistoryStep
<1>8. ASSUME NEW split \in BOOLEAN, Emit(split) \/ EmitFails(split) PROVE HistoryStep
  <2>1. UNCHANGED calls /\ (torn' = torn \/ Tore("events", events'))
    BY <1>8, Zenon DEF Emit, EmitFails
  <2>2. torn'["history"] = torn["history"]
    BY <1>1, <2>1, Counts DEF Typed
  <2> QED BY <1>3, <2>1, <2>2 DEF calls, Done
<1>9. CASE Poll
  BY <1>3, <1>9 DEF Poll, calls, Done
<1>10. CASE UNCHANGED vars
  BY <1>3, <1>10 DEF vars, Done
<1>11. CASE Dies
  <2>1. Done \subseteq Done' /\ \A c \in Calls : phase[c] = "running" => c \in Calls \ Done /\ c \in Done'
    BY <1>11 DEF Dies, Typed, Done
  <2>2. CASE UNCHANGED <<history, rows, rewriting, torn>>
    BY <1>3, <2>1, <2>2
  <2>3. ASSUME UNCHANGED <<history, rows, rewriting>>, Tore("audit", audit') \/ Tore("events", events')
        PROVE  HistoryStep
    <3>1. torn'["history"] = torn["history"]
      BY <1>1, <2>3, Counts DEF Typed
    <3> QED BY <1>3, <2>1, <2>3, <3>1
  <2>4. ASSUME NEW c \in Calls, NEW split \in BOOLEAN, phase[c] = "running",
               rows' = Append(rows, Row(c, split, TRUE)),
               history' \in Rewritten(Written(history, n + 1, split)), rewriting' = TRUE
        PROVE  HistoryStep
    <3>1. SpoiledRow(history, rows, history', rows', c, split)
      BY <1>1, <1>2, <2>4, WrittenIsKept
    <3>2. ~Keeping'
      BY <2>4, Zenon DEF Keeping
    <3>3. LastRow(history, rows, torn["history"], c)
      BY <3>1, <3>2, Zenon DEF LastRow
    <3> QED BY <2>1, <2>4, <3>3, Zenon DEF HistoryStep
  <2>5. ASSUME NEW c \in Calls, NEW split \in BOOLEAN, phase[c] = "running",
               rows' = Append(rows, Row(c, split, FALSE)),
               history' \in CutShort(history, n + 1, split), UNCHANGED rewriting,
               Tore("history", history')
        PROVE  HistoryStep
    <3>1. TornRow(history, rows, history', rows', c, split)
      BY <1>1, <1>2, <2>5, CutIsTorn
    <3>2. torn'["history"] = torn["history"] + Bit(history')
      BY <1>1, <2>5, Counts DEF Typed
    <3>3. LastRow(history, rows, torn["history"], c)
      BY <2>5, <3>1, <3>2, Zenon DEF LastRow
    <3> QED BY <2>1, <2>5, <3>3, Zenon DEF HistoryStep
  <2>6. ASSUME NEW c \in Calls, NEW split \in BOOLEAN, NEW whole \in BOOLEAN, phase[c] = "running",
               rows' = Append(rows, Row(c, split, whole)),
               IF whole THEN /\ history' \in Rewritten(Written(history, NewRow, split))
                             /\ rewriting' = TRUE
                        ELSE history' \in CutShort(history, NewRow, split) /\ UNCHANGED rewriting,
               Tore("history", history')
        PROVE  HistoryStep
    <3>1. NewRow = n + 1
      BY <1>2
    <3>2. CASE whole = TRUE
      BY <2>4, <2>6, <3>1, <3>2, Zenon
    <3>3. CASE whole = FALSE
      BY <2>5, <2>6, <3>1, <3>3, Zenon
    <3> QED BY <3>2, <3>3
  <2> QED BY <1>11, <2>2, <2>3, <2>6, Zenon DEF Dies
<1> QED BY <1>4, <1>5, <1>6, <1>7, <1>8, <1>9, <1>10, <1>11, Zenon DEF Next


\* A row leaves the file with rows and calls of which none is shown twice, and keeps the
\* newest: when it is torn,
LEMMA TornKeeps ==
  ASSUME NEW f, Fine(f), NEW g, NEW rs, NEW rs2, NEW c, NEW split, TornRow(f, rs, g, rs2, c, split),
         Known(f, rs), Distinct(f, rs), OnlyLast(f, rs, c)
  PROVE  /\ Fine(g) /\ Known(g, rs2) /\ Distinct(g, rs2) /\ OnlyLast(g, rs2, c)
         /\ \A m \in Nat : Kept(f, rs, m) => Kept(g, rs2, m + Bit(g))
<1>1. /\ Adds(rs, rs2, c, split) /\ ~WholeAt(rs2, Len(rs) + 1) /\ Tears(f, g, Len(rs) + 1, split)
      /\ Extends(f, g, Len(rs) + 1, split) /\ Fine(g)
      /\ g = f \/ (Open(f) => g.lines[Len(f.lines)] = Bad)
  BY DEF TornRow, Tears, Extends
<1>2. Known(g, rs2) /\ Distinct(g, rs2) /\ OnlyLast(g, rs2, c)
  BY <1>1, RowShown
<1>3. ASSUME NEW m \in Nat, Kept(f, rs, m) PROVE Kept(g, rs2, m + Bit(g))
  BY <1>1, <1>3, RowTorn
<1> QED BY <1>1, <1>2, <1>3

\* when it is written,
LEMMA WrittenKeeps ==
  ASSUME NEW f, Fine(f), NEW g, NEW rs, NEW rs2, NEW c, NEW split, WrittenRow(f, rs, g, rs2, c, split),
         Known(f, rs), Distinct(f, rs), OnlyLast(f, rs, c)
  PROVE  /\ Known(g, rs2) /\ Distinct(g, rs2)
         /\ \A m \in Nat : Kept(f, rs, m) => Kept(g, rs2, m)
<1>1. PICK w, d : /\ Completes(f, w, Len(rs) + 1, split)
                  /\ Drops(w, g, d) /\ (d = 0 \/ d = Len(w.lines) - MaxRecords)
  BY DEF WrittenRow
<1>2. /\ Adds(rs, rs2, c, split) /\ Extends(f, w, Len(rs) + 1, split) /\ Fine(w) /\ Fine(g) /\ ~Open(g)
      /\ Open(f) => w.lines[Len(f.lines)] = Bad
      /\ rs2 \in Seq(RowType)
  BY <1>1 DEF WrittenRow, Completes, Extends, Adds
<1>3. Known(w, rs2) /\ Distinct(w, rs2)
  BY <1>2, RowShown
<1>4. Parts(w, g, d)
  <2>1. Len(w.lines) \in Nat /\ Len(g.lines) = Len(w.lines) - d /\ d \in Nat
    BY <1>1, <1>2, LenProperties DEF Drops, Fine
  <2>2. \A k \in 1 .. Len(g.lines) : k + d \in 1 .. Len(w.lines)
    BY <2>1
  <2> QED BY <1>1, <2>2 DEF Drops, Parts
<1>5. Known(g, rs2) /\ Distinct(g, rs2)
  BY <1>2, <1>3, <1>4, PartsShown
<1>6. ASSUME NEW m \in Nat, Kept(f, rs, m) PROVE Kept(g, rs2, m)
  <2>1. Kept(w, rs2, m)
    BY <1>1, <1>2, <1>6, RowWritten
  <2>2. IsFiniteSet(FitIn(rs2))
    BY <1>2, FitGrows
  <2> QED BY <1>1, <1>2, <1>3, <2>1, <2>2, CompactionKeeps
<1> QED BY <1>5, <1>6

\* and, but for the newest, when the compaction is cut short.
LEMMA SpoiledShows ==
  ASSUME NEW f, Fine(f), NEW g, NEW rs, NEW rs2, NEW c, NEW split, SpoiledRow(f, rs, g, rs2, c, split),
         Known(f, rs), Distinct(f, rs), OnlyLast(f, rs, c)
  PROVE  Known(g, rs2) /\ Distinct(g, rs2)
<1>1. PICK w, d : Completes(f, w, Len(rs) + 1, split) /\ Parts(w, g, d)
  BY DEF SpoiledRow
<1>2. /\ Adds(rs, rs2, c, split) /\ Extends(f, w, Len(rs) + 1, split) /\ Fine(w) /\ Fine(g)
      /\ Open(f) => w.lines[Len(f.lines)] = Bad
      /\ rs2 \in Seq(RowType)
  BY <1>1 DEF SpoiledRow, Completes, Extends, Adds
<1>3. Known(w, rs2) /\ Distinct(w, rs2)
  BY <1>2, RowShown
<1> QED BY <1>1, <1>2, <1>3, PartsShown

\* The rows of calls that are done, with one more.
LEMMA CallsDone ==
  ASSUME NEW rs, NEW rs2, NEW c, NEW split, Adds(rs, rs2, c, split), NEW D, c \in D,
         \A i \in 1 .. Len(rs) : rs[i].call \in D
  PROVE  \A i \in 1 .. Len(rs2) : rs2[i].call \in D
<1>1. PICK n \in Nat : n = Len(rs) /\ Len(rs2) = n + 1
  BY SameRows
<1>2. ASSUME NEW i \in 1 .. n + 1 PROVE rs2[i].call \in D
  <2>1. CASE i \in 1 .. n
    BY <1>1, <2>1 DEF Adds
  <2>2. CASE i = n + 1
    BY <1>1, <2>2 DEF Adds
  <2> QED BY <2>1, <2>2
<1> QED BY <1>1, <1>2

\* The row that ends a step establishes the invariant.
LEMMA LastRowKeeps ==
  ASSUME NEW f, Fine(f), NEW rs, NEW m \in Nat, NEW c, LastRow(f, rs, m, c),
         Known(f, rs), Distinct(f, rs), OnlyLast(f, rs, c), Keeping => Kept(f, rs, m),
         c \in Done', \A i \in 1 .. Len(rs) : rs[i].call \in Done'
  PROVE  HistoryInv'
<1>1. PICK split \in BOOLEAN :
        \/ /\ TornRow(f, rs, history', rows', c, split)
           /\ torn'["history"] = m + Bit(history') /\ UNCHANGED rewriting
        \/ /\ WrittenRow(f, rs, history', rows', c, split)
           /\ torn'["history"] = m /\ UNCHANGED rewriting
        \/ SpoiledRow(f, rs, history', rows', c, split) /\ ~Keeping'
  BY Zenon DEF LastRow
<1>2. PICK g, rs2, D : g = history' /\ rs2 = rows' /\ D = Done'
  OBVIOUS
<1>3. Adds(rs, rs2, c, split)
  BY <1>1, <1>2 DEF TornRow, WrittenRow, SpoiledRow
<1>4. \A i \in 1 .. Len(rs2) : rs2[i].call \in D
  BY <1>2, <1>3, CallsDone
<1>5. SUFFICES Known(g, rs2) /\ Distinct(g, rs2) /\ (Keeping' => Kept(g, rs2, torn'["history"]))
  BY <1>2, <1>4, Zenon DEF HistoryInv
<1>6. CASE TornRow(f, rs, g, rs2, c, split) /\ torn'["history"] = m + Bit(g) /\ UNCHANGED rewriting
  <2>1. Keeping' => Keeping
    BY <1>6, Zenon DEF Keeping
  <2>2. /\ Known(g, rs2) /\ Distinct(g, rs2)
        /\ \A k \in Nat : Kept(f, rs, k) => Kept(g, rs2, k + Bit(g))
    BY <1>6, TornKeeps
  <2> QED BY <1>6, <2>1, <2>2
<1>7. CASE WrittenRow(f, rs, g, rs2, c, split) /\ torn'["history"] = m /\ UNCHANGED rewriting
  <2>1. Keeping' => Keeping
    BY <1>7, Zenon DEF Keeping
  <2>2. /\ Known(g, rs2) /\ Distinct(g, rs2)
        /\ \A k \in Nat : Kept(f, rs, k) => Kept(g, rs2, k)
    BY <1>7, WrittenKeeps
  <2> QED BY <1>7, <2>1, <2>2
<1>8. CASE SpoiledRow(f, rs, g, rs2, c, split) /\ ~Keeping'
  BY <1>8, SpoiledShows
<1> QED BY <1>1, <1>2, <1>6, <1>7, <1>8

\* Every step keeps it.
LEMMA HistoryInvStep ==
  ASSUME Typed, HistoryInv, HistoryStep
  PROVE  HistoryInv'
<1>1. Fine(history) /\ torn["history"] \in Nat /\ rows \in Seq(RowType)
  BY DEF Typed, Files
<1>2. CASE UNCHANGED <<history, rows, rewriting>> /\ torn'["history"] = torn["history"] /\ Done \subseteq Done'
  <2>1. Keeping' => Keeping
    BY <1>2, Zenon DEF Keeping
  <2>2. /\ Known(history', rows') /\ Distinct(history', rows')
        /\ Keeping' => Kept(history', rows', torn'["history"])
    BY <1>2, <2>1 DEF HistoryInv
  <2>3. \A i \in 1 .. Len(rows') : rows'[i].call \in Done'
    BY <1>2 DEF HistoryInv
  <2> QED BY <2>2, <2>3, Zenon DEF HistoryInv
<1>3. ASSUME NEW c \in Calls, c \notin Done, c \in Done', Done \subseteq Done',
             \/ LastRow(history, rows, torn["history"], c)
             \/ \E file, rs : \E split \in BOOLEAN :
                  /\ TornRow(history, rows, file, rs, c, split)
                  /\ LastRow(file, rs, torn["history"] + Bit(file), c)
      PROVE  HistoryInv'
  <2>1. /\ Known(history, rows) /\ Distinct(history, rows)
        /\ Keeping => Kept(history, rows, torn["history"])
        /\ \A i \in 1 .. Len(rows) : rows[i].call \in Done
    BY Zenon DEF HistoryInv
  <2>2. \A i \in 1 .. Len(rows) : rows[i].call \in Done' /\ rows[i].call # c
    BY <1>3, <2>1
  <2>3. OnlyLast(history, rows, c)
    <3>1. SUFFICES ASSUME NEW k \in 1 .. Len(history.lines), Shows(history, rows, k, c) PROVE FALSE
      BY DEF OnlyLast
    <3>2. history.lines[k] \in 1 .. Len(rows)
      <4>1. history.lines[k] \in 0 .. Len(rows) /\ history.lines[k] # 0
        BY <2>1, <3>1 DEF Known, Shows, Bad
      <4> QED BY <1>1, <4>1, LenProperties
    <3> QED BY <2>2, <3>1, <3>2 DEF Shows
  <2>4. CASE LastRow(history, rows, torn["history"], c)
    BY <1>1, <1>3, <2>1, <2>2, <2>3, <2>4, LastRowKeeps
  <2>5. ASSUME NEW file, NEW rs, NEW split \in BOOLEAN, TornRow(history, rows, file, rs, c, split),
               LastRow(file, rs, torn["history"] + Bit(file), c)
        PROVE  HistoryInv'
    <3>1. PICK m \in Nat, a \in Nat : m = torn["history"] + Bit(file) /\ a = torn["history"]
      BY <1>1 DEF Bit
    <3>2. /\ Fine(file) /\ Known(file, rs) /\ Distinct(file, rs) /\ OnlyLast(file, rs, c)
          /\ \A k \in Nat : Kept(history, rows, k) => Kept(file, rs, k + Bit(file))
      BY <1>1, <2>1, <2>3, <2>5, TornKeeps
    <3>3. Keeping => Kept(file, rs, m)
      BY <2>1, <3>1, <3>2
    <3>4. \A i \in 1 .. Len(rs) : rs[i].call \in Done'
      <4>1. PICK D : D = Done'
        OBVIOUS
      <4>2. \A i \in 1 .. Len(rs) : rs[i].call \in D
        BY <1>3, <2>2, <2>5, <4>1, CallsDone DEF TornRow
      <4> QED BY <4>1, <4>2
    <3>5. LastRow(file, rs, m, c)
      BY <2>5, <3>1
    <3> QED BY <1>3, <3>2, <3>3, <3>4, <3>5, LastRowKeeps
  <2> QED BY <1>3, <2>4, <2>5, Zenon
<1> QED BY <1>2, <1>3, Zenon DEF HistoryStep


-----------------------------------------------------------------------------
(***************************************************************************)
(* The invariants hold of every behaviour.                                 *)
(***************************************************************************)
\* The files start empty, the calls unmade.
LEMMA Start ==
  ASSUME Init
  PROVE  Typed /\ AuditInv /\ EventsInv /\ HistoryInv
<1>1. Fine(Empty) /\ ~Open(Empty) /\ Empty.lines = <<>>
  BY DEF Fine, Open, Empty, File
<1>2. Typed
  BY <1>1 DEF Init, Typed, Phases, Files
<1>3. AuditInv
  <2>1. Ran = {} /\ Unaudited = {}
    BY DEF Init, Ran, Unaudited
  <2>2. torn["audit"] = 0 /\ Bit(audit) = 0 /\ ~Open(audit)
    BY <1>1 DEF Init, Bit
  <2> QED BY <2>1, <2>2, FS_EmptySet DEF AuditInv
<1>4. EventsInv
  BY <1>1 DEF Init, EventsInv, InOrder, Emitting
<1>5. HistoryInv
  <2>1. Len(history.lines) = 0 /\ ~Open(history) /\ rows = <<>> /\ torn["history"] = 0
    BY <1>1 DEF Init
  <2>2. Known(history, rows) /\ Distinct(history, rows) /\ Near(history, rows)
    BY <2>1 DEF Known, Distinct, Near
  <2>3. Missing(history, rows) = {}
    BY <2>1 DEF Missing, FitIn
  <2>4. Kept(history, rows, torn["history"])
    BY <2>1, <2>2, <2>3, FS_EmptySet DEF Kept, Bit
  <2> QED BY <2>1, <2>2, <2>4 DEF HistoryInv
<1> QED BY <1>2, <1>3, <1>4, <1>5

\* The files, and what each says of the node, are what the invariants describe,
\* whatever fails and whenever the node dies.
THEOREM Invariance == Spec => [](Typed /\ AuditInv /\ EventsInv /\ HistoryInv)
<1>1. Init => Typed /\ AuditInv /\ EventsInv /\ HistoryInv
  BY Start
<1>2. ASSUME Typed, AuditInv, EventsInv, HistoryInv, [Next]_vars
      PROVE  Typed' /\ AuditInv' /\ EventsInv' /\ HistoryInv'
  <2>1. Typed'
    BY <1>2, TypedStep
  <2>2. AuditInv'
    BY <1>2, <2>1, AuditSteps, AuditInvStep
  <2>3. EventsInv'
    BY <1>2, EventsSteps, EventsInvStep
  <2>4. HistoryInv'
    BY <1>2, HistorySteps, HistoryInvStep
  <2> QED BY <2>1, <2>2, <2>3, <2>4
<1> QED BY <1>1, <1>2, PTL DEF Spec

\* AuditLog.emit comes before the command, so a command that ran is in the log,
\* unless it is one of as many as there are torn lines.
THEOREM RanAreAudited == Spec => []RanIsAudited
<1>1. ASSUME Typed, AuditInv PROVE RanIsAudited
  <2>1. Cardinality(Unaudited) \in Nat /\ torn["audit"] \in Nat /\ Bit(audit) \in Nat
    BY <1>1, FS_CardinalityType DEF AuditInv, Typed, Files, Bit
  <2>2. Cardinality(Unaudited) <= torn["audit"]
    BY <1>1, <2>1 DEF AuditInv
  <2> QED BY <2>2 DEF RanIsAudited, Unaudited, Ran
<1> QED BY <1>1, Invariance, PTL

\* EventStore.read, called with the cursor it answered last, never skips an event or
\* shows one twice.
THEOREM EventsInOrder == Spec => []SeenInOrder
<1>1. ASSUME EventsInv PROVE SeenInOrder
  <2>1. /\ seen \in Seq(Nat) /\ \A k \in 1 .. Len(seen) : seen[k] = k
    BY <1>1 DEF EventsInv
  <2>2. seen = [k \in 1 .. Len(seen) |-> seen[k]]
    BY <2>1
  <2> QED BY <2>1, <2>2 DEF SeenInOrder
<1> QED BY <1>1, Invariance, PTL

\* ToolHistory.record, called again for a call whose row it could not write, never makes
\* ToolHistory.recent answer with that call twice.
THEOREM CallsShownOnce == Spec => []NeverTwice
<1>1. ASSUME Typed, HistoryInv PROVE NeverTwice
  <2>1. SUFFICES ASSUME NEW i \in Recent, NEW k \in Recent, i # k,
                        rows[history.lines[i]].call = rows[history.lines[k]].call
                 PROVE  FALSE
    BY DEF NeverTwice
  <2>2. PICK s \in Seq(Nat), n \in Nat : s = history.lines /\ n = Len(s)
    BY <1>1, LenProperties DEF Typed, Fine
  <2>3. i \in 1 .. n /\ k \in 1 .. n /\ s[i] # Bad /\ s[k] # Bad
    BY <2>2 DEF Recent
  <2>4. s[i] \in 1 .. Len(rows) /\ rows \in Seq(RowType)
    <3>1. s[i] \in 0 .. Len(rows) /\ s[i] # 0
      BY <1>1, <2>2, <2>3 DEF HistoryInv, Known, Bad
    <3> QED BY <1>1, <3>1, LenProperties DEF Typed
  <2>5. PICK c \in Calls : c = rows[s[i]].call
    <3>1. rows[s[i]] \in RowType
      BY <2>4, ElementOfSeq
    <3> QED BY <3>1 DEF RowType
  <2>6. Shows(history, rows, i, c) /\ Shows(history, rows, k, c)
    BY <2>1, <2>2, <2>3, <2>5 DEF Shows
  <2> QED BY <1>1, <2>1, <2>2, <2>3, <2>6 DEF HistoryInv, Distinct
<1> QED BY <1>1, Invariance, PTL

\* ToolHistory._compact_if_needed keeps the newest rows: only a torn line costs one.
THEOREM NewestKept == Spec => []KeepsNewest
<1>1. ASSUME Typed, HistoryInv PROVE KeepsNewest
  <2>1. SUFFICES ASSUME Keeping
                 PROVE  Cardinality({i \in 1..Len(rows) : Taken(i) <= MaxRecords /\ rows[i].whole /\ ~rows[i].split}
                                      \ {history.lines[k] : k \in Recent}) <= torn["history"]
    BY Zenon DEF KeepsNewest, Keeping
  <2>2. {i \in 1..Len(rows) : Taken(i) <= MaxRecords /\ rows[i].whole /\ ~rows[i].split} = FitIn(rows)
    BY Zenon DEF FitIn, TakenIn, Taken, SplitAt, WholeAt
  <2>3. FitIn(rows) \ {history.lines[k] : k \in Recent} = Missing(history, rows)
    <3>1. \A i \in FitIn(rows) : i # Bad
      BY DEF FitIn, Bad
    <3>2. \A i : i # Bad => (i \in {history.lines[k] : k \in Recent} <=> i \in Range(history.lines))
      BY DEF Recent, Range
    <3> QED BY <3>1, <3>2 DEF Missing
  <2>4. PICK a \in Nat, x \in {0, 1}, m \in Nat :
          a = Cardinality(Missing(history, rows)) /\ x = Bit(history) /\ m = torn["history"]
    <3>1. IsFiniteSet(Missing(history, rows))
      <4>1. PICK n \in Nat : n = Len(rows)
        BY <1>1, LenProperties DEF Typed
      <4>2. IsFiniteSet(1 .. n) /\ Missing(history, rows) \subseteq 1 .. n
        BY <4>1, FS_Interval DEF Missing, FitIn
      <4> QED BY <4>2, FS_Subset
    <3> QED BY <1>1, <3>1, FS_CardinalityType DEF Typed, Files, Bit
  <2>5. a + x <= m
    BY <1>1, <2>1, <2>4 DEF HistoryInv, Kept
  <2>6. a <= m
    BY <2>4, <2>5
  <2> QED BY <2>2, <2>3, <2>4, <2>6
<1> QED BY <1>1, Invariance, PTL
=============================================================================
