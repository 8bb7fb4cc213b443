------------------------- MODULE SearchSessionsProofs -------------------------
(***************************************************************************)
(* Theorems about SearchSessions, for any number of sessions and workers,  *)
(* any searches, page lengths and faults.                                  *)
(***************************************************************************)
EXTENDS SearchSessions, FiniteSetTheorems, TLAPS

(***************************************************************************)
(* The inductive invariant.  What was found, what was passed over and what *)
(* is left add up to what there is in the phases so far, and only a        *)
(* stopped session leaves a thread at work behind.                         *)
(***************************************************************************)
ByThread == {"names", "text", "office"}

\* A session nobody asked for yet is untouched.
Fresh(s) ==
  /\ thread[s] = "none" /\ results[s] = 0 /\ missed[s] = 0 /\ got[s] = 0
  /\ ~complete[s] /\ ~seen[s] /\ s \notin stopped

\* Where the thread of the session may be in each phase.
Threaded(s) ==
  /\ phase[s] \in ByThread => thread[s] # "none"
  /\ phase[s] = "ripgrep" => thread[s] = "none"
  /\ phase[s] = "done" => thread[s] # "queued"
  /\ phase[s] = "done" /\ thread[s] = "running" => error[s] = "cancelled"
  /\ thread[s] = "returned" => left[s] = 0 \/ Full(s)

\* Matches found, passed over and to come.
Counted(s) ==
  LET r == search[s] IN
  /\ phase[s] = "names" => r.type = "files" /\ results[s] + missed[s] + left[s] = r.names
  /\ phase[s] \in {"ripgrep", "text", "office"} => r.type = "content"
  /\ phase[s] \in {"ripgrep", "text"} => results[s] + missed[s] + left[s] = r.text
  /\ phase[s] = "office" => results[s] + missed[s] + left[s] = r.text + r.office
  /\ phase[s] = "done" /\ error[s] = None => results[s] + missed[s] = Matches(r) \/ Full(s)

\* What the fields tell a client.
Told(s) ==
  /\ cancelling[s] <=> s \in stopped
  /\ complete[s] => phase[s] = "done" \/ s \in stopped
  /\ error[s] = "cancelled" => s \in stopped
  /\ got[s] <= results[s]
  /\ seen[s] => complete[s]
  /\ seen[s] /\ s \notin stopped => got[s] = results[s]

Session(s) ==
  /\ search[s] = None <=> phase[s] = "none"
  /\ phase[s] = "none" => Fresh(s)
  /\ Threaded(s) /\ Counted(s) /\ Told(s)

IInv == TypeOK /\ IsFiniteSet(Working) /\ \A s \in Sessions : Session(s)

\* The type invariant in its parts.
Types ==
  /\ search \in [Sessions -> Requests \cup {None}]
  /\ phase \in [Sessions -> {"none", "names", "ripgrep", "text", "office", "done"}]
  /\ left \in [Sessions -> Nat] /\ results \in [Sessions -> Nat]
  /\ thread \in [Sessions -> {"none", "queued", "running", "returned", "raised"}]
  /\ cancelling \in [Sessions -> BOOLEAN] /\ complete \in [Sessions -> BOOLEAN]
  /\ error \in [Sessions -> {None, "cancelled", "exception"}]
  /\ missed \in [Sessions -> Nat] /\ stopped \subseteq Sessions
  /\ got \in [Sessions -> Nat] /\ seen \in [Sessions -> BOOLEAN]
Capped(s) == results[s] > 0 => results[s] <= search[s].max

(***************************************************************************)
(* Frames: what a step leaves alone.                                       *)
(***************************************************************************)
Steps(s) ==
  (\E r \in Requests : Start(s, r)) \/ (\E length \in Lengths : Read(s, length)) \/ Stop(s)
    \/ Loop(s) \/ Thread(s)

Same(s) ==
  /\ search'[s] = search[s] /\ phase'[s] = phase[s] /\ left'[s] = left[s]
  /\ thread'[s] = thread[s] /\ cancelling'[s] = cancelling[s] /\ missed'[s] = missed[s]
  /\ results'[s] = results[s] /\ complete'[s] = complete[s] /\ error'[s] = error[s]
  /\ s \in stopped' <=> s \in stopped
  /\ got'[s] = got[s] /\ seen'[s] = seen[s]

\* A session that no variable changes for stays as it should be.
LEMMA SameSession ==
  ASSUME NEW s, Session(s), Same(s)
  PROVE  Session(s)'
BY DEF Same, Session, Fresh, Threaded, Counted, Told, Full, ByThread, Matches

\* A step of one session leaves the others alone.
LEMMA OthersSame ==
  ASSUME Types, NEW s \in Sessions, NEW u \in Sessions, u # s, Steps(s)
  PROVE  Same(u)
<1>1. CASE \E r \in Requests : Start(s, r)
  BY <1>1 DEF Same, Types, Start, Awaits, fields, client
<1>2. CASE \E length \in Lengths : Read(s, length)
  BY <1>2 DEF Same, Types, Read, fields, work
<1>3. CASE Stop(s)
  BY <1>3 DEF Same, Types, Stop, work, client
<1>4. CASE Loop(s)
  BY <1>4 DEF Same, Types, Loop, RipgrepFinds, RipgrepPassesOver, Finds, PassesOver, RipgrepEnds,
              RipgrepBreaks, Resume, ResumeRaised, Cancelled, TextDone, Completes, Awaits,
              fields, client
<1>5. CASE Thread(s)
  BY <1>5 DEF Same, Types, Thread, Begin, ThreadFinds, ThreadPassesOver, Finds, PassesOver,
              ThreadReturns, ThreadRaises, SetThread, fields, client
<1> QED BY <1>1, <1>2, <1>3, <1>4, <1>5 DEF Steps

(***************************************************************************)
(* The types.                                                              *)
(***************************************************************************)
\* A session that was asked for has one of the requests, whose fields are what they are.
LEMMA SearchTyped ==
  ASSUME Types, NEW s \in Sessions, search[s] # None
  PROVE  /\ search[s] \in Requests /\ search[s].max \in Int /\ search[s].names \in Nat
         /\ search[s].text \in Nat /\ search[s].office \in Nat
         /\ search[s].type \in {"files", "content"}
<1>1. search[s] \in Requests
  BY DEF Types
<1> QED BY <1>1, RequestsAssumption DEF Request

\* A step keeps the types.
LEMMA StepTypes ==
  ASSUME Types, NEW s \in Sessions, Session(s), Steps(s)
  PROVE  Types'
<1>0. search[s] # None <=> phase[s] # "none"
  BY DEF Session
<1>1. ASSUME NEW r \in Requests, Start(s, r) PROVE Types'
  <2>1. r.names \in Nat /\ r.text \in Nat
    BY RequestsAssumption DEF Request
  <2> QED BY <1>1, <2>1 DEF Types, Start, Awaits, fields, client
<1>2. ASSUME NEW length \in Lengths, Read(s, length) PROVE Types'
  <2>1. length \in Nat
    BY WorkersAssumption
  <2>2. PICK n \in Int : n = IF results[s] - got[s] < length THEN results[s] - got[s] ELSE length
    BY <2>1 DEF Types
  <2>3. got[s] + n \in Nat
    BY <2>1, <2>2 DEF Types, Session, Told
  <2>4. got' = [got EXCEPT ![s] = got[s] + n]
        /\ seen' = [seen EXCEPT ![s] = complete[s] /\ got[s] + n = results[s]]
    BY <1>2, <2>2 DEF Read
  <2> QED BY <1>2, <2>3, <2>4 DEF Types, Read, work, fields
<1>3. CASE Stop(s)
  <2>1. complete' = [complete EXCEPT ![s] = TRUE] /\ UNCHANGED <<search, work, results, error, client>>
    BY <1>3 DEF Stop
  <2>2. cancelling' \in [Sessions -> BOOLEAN] /\ stopped' \subseteq Sessions
    <3>1. CASE phase[s] = "done"
      BY <1>3, <3>1 DEF Stop, Types
    <3>2. CASE phase[s] # "done"
      <4>1. cancelling' = [cancelling EXCEPT ![s] = TRUE] /\ stopped' = stopped \cup {s}
        BY <1>3, <3>2 DEF Stop
      <4>2. cancelling' \in [Sessions -> BOOLEAN]
        BY <4>1 DEF Types
      <4>3. stopped' \subseteq Sessions
        BY <4>1 DEF Types
      <4> QED BY <4>2, <4>3
    <3> QED BY <3>1, <3>2
  <2> QED BY <2>1, <2>2 DEF Types, work, client
<1>4. CASE Loop(s)
  <2>1. CASE RipgrepFinds(s) \/ RipgrepPassesOver(s)
    BY <2>1 DEF Types, RipgrepFinds, RipgrepPassesOver, RipgrepSearches, Finds, PassesOver,
                fields, client
  <2>2. CASE RipgrepEnds(s) \/ Resume(s)
    <3>1. search[s] # None
      BY <1>0, <2>2 DEF RipgrepEnds, Resume, Types
    <3>2. search[s].office \in Nat
      BY <3>1, SearchTyped
    <3>3. missed[s] + left[s] \in Nat
      BY DEF Types
    <3>4. /\ UNCHANGED <<search, cancelling, stopped, client>>
          /\ \/ Completes(s, None) /\ UNCHANGED <<left, thread, missed, results>>
             \/ /\ Awaits(s, "office", search[s].office)
                /\ missed' = [missed EXCEPT ![s] = missed[s] + left[s]] /\ UNCHANGED fields
      BY <2>2 DEF RipgrepEnds, Resume, TextDone
    <3>5. CASE Completes(s, None) /\ UNCHANGED <<left, thread, missed, results>>
      BY <3>4, <3>5 DEF Types, Completes, client
    <3>6. ASSUME Awaits(s, "office", search[s].office), UNCHANGED fields,
                 missed' = [missed EXCEPT ![s] = missed[s] + left[s]]
          PROVE  Types'
      <4>1. /\ left' \in [Sessions -> Nat] /\ missed' \in [Sessions -> Nat]
            /\ phase' \in [Sessions -> {"none", "names", "ripgrep", "text", "office", "done"}]
        BY <3>2, <3>3, <3>6 DEF Types, Awaits
      <4>2. thread' \in [Sessions -> {"none", "queued", "running", "returned", "raised"}]
        BY <3>6 DEF Types, Awaits
      <4> QED BY <3>4, <3>6, <4>1, <4>2 DEF Types, client, fields
    <3> QED BY <3>4, <3>5, <3>6
  <2>3. CASE RipgrepBreaks(s) \/ ResumeRaised(s) \/ Cancelled(s)
    BY <2>3 DEF Types, RipgrepBreaks, ResumeRaised, Cancelled, Completes, client
  <2> QED BY <1>4, <2>1, <2>2, <2>3 DEF Loop
<1>5. CASE Thread(s)
  BY <1>5 DEF Types, Thread, Begin, ThreadFinds, ThreadPassesOver, ThreadSearches, Finds, PassesOver,
              ThreadReturns, ThreadRaises, SetThread, fields, client
<1> QED BY <1>1, <1>2, <1>3, <1>4, <1>5 DEF Steps

(***************************************************************************)
(* The session that steps.                                                 *)
(***************************************************************************)
\* Asking for a search.
LEMMA StartSession ==
  ASSUME Types, NEW s \in Sessions, Session(s), Capped(s), NEW r \in Requests, Start(s, r)
  PROVE  Session(s)' /\ Capped(s)'
<1>1. r \in Request /\ r # None
  BY RequestsAssumption
<1>2. r.names \in Nat /\ r.text \in Nat /\ r.office \in Nat /\ r.type \in {"files", "content"}
  BY <1>1 DEF Request
<1>3. phase[s] = "none" /\ Fresh(s)
  BY DEF Session, Start
<1>4. /\ search'[s] = r /\ results'[s] = 0 /\ missed'[s] = 0 /\ got'[s] = 0 /\ complete'[s] = complete[s]
      /\ seen'[s] = seen[s] /\ error'[s] = error[s] /\ cancelling'[s] = cancelling[s]
      /\ stopped' = stopped
  BY <1>3 DEF Start, Types, fields, client, Fresh
<1>5. \/ r.type = "files" /\ phase'[s] = "names" /\ left'[s] = r.names /\ thread'[s] = "queued"
      \/ r.type # "files" /\ phase'[s] = "text" /\ left'[s] = r.text /\ thread'[s] = "queued"
      \/ r.type # "files" /\ phase'[s] = "ripgrep" /\ left'[s] = r.text /\ thread'[s] = "none"
  BY <1>3 DEF Start, Awaits, Types, Fresh
<1>6. s \notin stopped /\ cancelling[s] = FALSE /\ complete[s] = FALSE /\ seen[s] = FALSE
      /\ error[s] # "cancelled"
  BY <1>3 DEF Fresh, Session, Told, Types
<1>7. Fresh(s)' \/ phase'[s] # "none"
  BY <1>5
<1>8. Threaded(s)'
  BY <1>5 DEF Threaded, ByThread
<1>9. Counted(s)'
  BY <1>2, <1>4, <1>5 DEF Counted
<1>10. Told(s)'
  BY <1>4, <1>6 DEF Told
<1>11. Capped(s)'
  BY <1>4 DEF Capped
<1> QED BY <1>1, <1>4, <1>5, <1>7, <1>8, <1>9, <1>10, <1>11 DEF Session

\* Stopping a search.
LEMMA StopSession ==
  ASSUME Types, NEW s \in Sessions, Session(s), Capped(s), Stop(s)
  PROVE  Session(s)' /\ Capped(s)'
<1>1. /\ search'[s] = search[s] /\ phase'[s] = phase[s] /\ left'[s] = left[s]
      /\ thread'[s] = thread[s] /\ results'[s] = results[s] /\ error'[s] = error[s]
      /\ missed'[s] = missed[s]
      /\ got'[s] = got[s] /\ seen'[s] = seen[s] /\ complete'[s] = TRUE /\ search[s] # None
  BY DEF Stop, Types, work, client
<1>2. \/ phase[s] = "done" /\ stopped' = stopped /\ cancelling'[s] = cancelling[s]
      \/ phase[s] # "done" /\ stopped' = stopped \cup {s} /\ cancelling'[s] = TRUE
  BY DEF Stop, Types
<1>3. phase[s] # "none"
  BY <1>1 DEF Session
<1>4. Threaded(s)'
  BY <1>1, <1>2 DEF Session, Threaded, Full, ByThread
<1>5. Counted(s)'
  BY <1>1 DEF Session, Counted, Full, Matches
<1>6. Told(s)'
  BY <1>1, <1>2 DEF Session, Told
<1> QED BY <1>1, <1>3, <1>4, <1>5, <1>6 DEF Session, Capped

\* Reading a page.
LEMMA ReadSession ==
  ASSUME Types, NEW s \in Sessions, Session(s), Capped(s), NEW length \in Lengths, Read(s, length)
  PROVE  Session(s)' /\ Capped(s)'
<1>0. length \in Nat /\ results[s] \in Nat /\ got[s] \in Nat
  BY WorkersAssumption DEF Types
<1>1. PICK n \in Int : n = IF results[s] - got[s] < length THEN results[s] - got[s] ELSE length
  BY <1>0
<1>2. /\ search'[s] = search[s] /\ phase'[s] = phase[s] /\ left'[s] = left[s]
      /\ thread'[s] = thread[s] /\ results'[s] = results[s] /\ error'[s] = error[s]
      /\ cancelling'[s] = cancelling[s] /\ stopped' = stopped /\ complete'[s] = complete[s]
      /\ missed'[s] = missed[s] /\ search[s] # None
  BY DEF Read, Types, work, fields
<1>3. /\ got'[s] = got[s] + n
      /\ seen'[s] = (complete[s] /\ got[s] + n = results[s])
  BY <1>1 DEF Read, Types
<1>4. phase[s] # "none"
  BY <1>2 DEF Session
<1>5. Threaded(s)'
  BY <1>2 DEF Session, Threaded, Full, ByThread
<1>6. Counted(s)'
  BY <1>2 DEF Session, Counted, Full, Matches
<1>7. got'[s] <= results'[s]
  BY <1>0, <1>1, <1>2, <1>3
<1>8. Told(s)'
  BY <1>2, <1>3, <1>7 DEF Session, Told
<1> QED BY <1>2, <1>4, <1>5, <1>6, <1>8 DEF Session, Capped

\* A result more, or a match passed over: by ripgrep or by a thread.
LEMMA FindSession ==
  ASSUME Types, NEW s \in Sessions, Session(s), Capped(s),
         RipgrepFinds(s) \/ ThreadFinds(s) \/ RipgrepPassesOver(s) \/ ThreadPassesOver(s)
  PROVE  Session(s)' /\ Capped(s)'
<1>1. /\ search'[s] = search[s] /\ phase'[s] = phase[s] /\ left'[s] = left[s] - 1
      /\ thread'[s] = thread[s] /\ error'[s] = error[s]
      /\ cancelling'[s] = cancelling[s] /\ stopped' = stopped /\ complete'[s] = complete[s]
      /\ got'[s] = got[s] /\ seen'[s] = seen[s]
      /\ \/ results'[s] = results[s] + 1 /\ missed'[s] = missed[s]
         \/ results'[s] = results[s] /\ missed'[s] = missed[s] + 1
  BY DEF RipgrepFinds, ThreadFinds, RipgrepPassesOver, ThreadPassesOver, Finds, PassesOver,
         Types, fields, client
<1>2. /\ left[s] > 0 /\ ~Full(s) /\ left[s] \in Nat /\ results[s] \in Nat /\ missed[s] \in Nat
      /\ got[s] \in Nat
  BY DEF RipgrepFinds, ThreadFinds, RipgrepPassesOver, ThreadPassesOver, RipgrepSearches,
         ThreadSearches, Types
<1>3. \/ phase[s] = "ripgrep" /\ thread[s] = "none" /\ ~cancelling[s]
      \/ thread[s] = "running" /\ phase[s] \notin {"none", "ripgrep"}
  BY DEF RipgrepFinds, ThreadFinds, RipgrepPassesOver, ThreadPassesOver, RipgrepSearches,
         ThreadSearches, Session, Threaded, Fresh
<1>4. search[s] # None /\ search[s].max \in Int
  BY <1>3, SearchTyped DEF Session
<1>5. search[s].names \in Nat /\ search[s].text \in Nat /\ search[s].office \in Nat
  BY <1>4, SearchTyped
<1>6. phase[s] = "done" => s \in stopped /\ error[s] # None
  BY <1>3, NoneIsNoError DEF Session, Threaded, Told
<1>7. Threaded(s)'
  BY <1>1, <1>3 DEF Session, Threaded, ByThread
<1>8. Counted(s)'
  <2>1. results[s] + missed[s] + left[s] = results'[s] + missed'[s] + left'[s]
    BY <1>1, <1>2
  <2> QED BY <1>1, <1>6, <2>1 DEF Session, Counted
<1>9. Told(s)'
  <2>1. seen[s] => complete[s] /\ (phase[s] = "done" \/ s \in stopped)
    BY DEF Session, Told
  <2>2. got'[s] <= results'[s]
    BY <1>1, <1>2 DEF Session, Told
  <2>3. seen[s] => s \in stopped
    BY <1>3, <1>6, <2>1
  <2> QED BY <1>1, <2>2, <2>3 DEF Session, Told
<1>10. Capped(s)'
  BY <1>1, <1>2, <1>4 DEF Capped, Full
<1> QED BY <1>1, <1>3, <1>4, <1>7, <1>8, <1>9, <1>10 DEF Session

\* The task of the session ends for some other reason than that everything was found.
LEMMA BreakSession ==
  ASSUME Types, NEW s \in Sessions, Session(s), Capped(s),
         RipgrepBreaks(s) \/ ResumeRaised(s) \/ Cancelled(s)
  PROVE  Session(s)' /\ Capped(s)'
<1>1. /\ search'[s] = search[s] /\ phase'[s] = "done" /\ left'[s] = left[s]
      /\ results'[s] = results[s] /\ cancelling'[s] = cancelling[s] /\ stopped' = stopped
      /\ missed'[s] = missed[s] /\ complete'[s] = TRUE /\ got'[s] = got[s] /\ seen'[s] = seen[s]
  BY DEF RipgrepBreaks, ResumeRaised, Cancelled, Completes, Types, client
<1>2. \/ error'[s] = "exception" /\ thread'[s] = thread[s] /\ thread[s] \in {"none", "raised"}
      \/ /\ error'[s] = "cancelled" /\ cancelling[s]
         /\ thread'[s] = IF thread[s] = "queued" THEN "none" ELSE thread[s]
  BY DEF RipgrepBreaks, RipgrepSearches, ResumeRaised, Cancelled, Completes, Types, Session, Threaded
<1>3. phase[s] # "none"
  BY DEF RipgrepBreaks, RipgrepSearches, ResumeRaised, Cancelled, Session, Fresh, Told
<1>4. Threaded(s)'
  BY <1>1, <1>2 DEF Session, Threaded, Full, ByThread
<1>5. Counted(s)'
  BY <1>1, <1>2, NoneIsNoError DEF Counted
<1>6. Told(s)'
  BY <1>1, <1>2 DEF Session, Told
<1> QED BY <1>1, <1>3, <1>4, <1>5, <1>6 DEF Session, Capped

\* The part of the search that was under way is over: there is nothing more of it, there
\* is enough, or ripgrep has failed.
LEMMA EndSession ==
  ASSUME Types, NEW s \in Sessions, Session(s), Capped(s), RipgrepEnds(s) \/ Resume(s)
  PROVE  Session(s)' /\ Capped(s)'
<1>1. /\ search'[s] = search[s] /\ cancelling'[s] = cancelling[s] /\ stopped' = stopped
      /\ got'[s] = got[s] /\ seen'[s] = seen[s] /\ ~cancelling[s]
  BY DEF RipgrepEnds, Resume, client
<1>2. /\ phase[s] \in {"names", "ripgrep", "text", "office"}
      /\ phase[s] # "ripgrep" => left[s] = 0 \/ Full(s)
      /\ thread[s] \in {"none", "returned"} /\ (left[s] = 0 \/ Full(s) \/ thread[s] = "none")
  BY DEF RipgrepEnds, Resume, Session, Threaded
<1>3. search[s] # None /\ search[s].names \in Nat /\ search[s].text \in Nat /\ search[s].office \in Nat
      /\ search[s].type \in {"files", "content"}
  BY <1>2, SearchTyped DEF Session
<1>4. left[s] \in Nat /\ results[s] \in Nat /\ missed[s] \in Nat /\ error[s] # "cancelled" /\ s \notin stopped
  BY <1>1 DEF Types, Session, Told
<1>5. ASSUME Completes(s, None), UNCHANGED <<left, thread, missed, results>>,
             phase[s] \in {"names", "office"} \/ Full(s)
      PROVE  Session(s)' /\ Capped(s)'
  <2>1. /\ phase'[s] = "done" /\ complete'[s] = TRUE /\ error'[s] = None
        /\ left'[s] = left[s] /\ thread'[s] = thread[s] /\ results'[s] = results[s]
        /\ missed'[s] = missed[s]
    BY <1>5 DEF Completes, Types
  <2>2. Threaded(s)'
    BY <1>1, <1>2, <2>1 DEF Session, Threaded, Full, ByThread
  <2>3. results[s] + missed[s] = Matches(search[s]) \/ Full(s)
    BY <1>2, <1>3, <1>4, <1>5 DEF Session, Counted, Matches
  <2>4. Counted(s)'
    BY <1>1, <2>1, <2>3 DEF Counted, Full, Matches
  <2>5. Told(s)'
    BY <1>1, <2>1, NoneIsNoError DEF Session, Told
  <2> QED BY <1>1, <1>3, <2>1, <2>2, <2>4, <2>5 DEF Session, Capped
<1>6. ASSUME Awaits(s, "office", search[s].office), UNCHANGED fields,
             missed' = [missed EXCEPT ![s] = @ + left[s]],
             phase[s] \in {"ripgrep", "text"}, ~Full(s)
      PROVE  Session(s)' /\ Capped(s)'
  <2>1. /\ phase'[s] = "office" /\ complete'[s] = complete[s] /\ error'[s] = error[s]
        /\ left'[s] = search[s].office /\ thread'[s] = "queued" /\ results'[s] = results[s]
        /\ missed'[s] = missed[s] + left[s]
    BY <1>6 DEF Awaits, Types, fields
  <2>2. Threaded(s)'
    BY <2>1 DEF Threaded, ByThread
  <2>3. search[s].type = "content" /\ results'[s] + missed'[s] = search[s].text
    BY <1>4, <1>6, <2>1 DEF Session, Counted
  <2>4. Counted(s)'
    BY <1>1, <1>3, <2>1, <2>3 DEF Counted
  <2>5. Told(s)'
    BY <1>1, <1>4, <1>6, <2>1 DEF Session, Told
  <2> QED BY <1>1, <1>3, <2>1, <2>2, <2>4, <2>5 DEF Session, Capped
<1>7. CASE RipgrepEnds(s)
  <2>1. phase[s] = "ripgrep" /\ TextDone(s)
    BY <1>7 DEF RipgrepEnds
  <2> QED BY <1>5, <1>6, <2>1 DEF TextDone
<1>8. CASE Resume(s)
  BY <1>5, <1>6, <1>8 DEF Resume, TextDone
<1> QED BY <1>7, <1>8

\* A thread begins, returns or raises.
LEMMA ThreadSession ==
  ASSUME Types, NEW s \in Sessions, Session(s), Capped(s),
         Begin(s) \/ ThreadReturns(s) \/ ThreadRaises(s)
  PROVE  Session(s)' /\ Capped(s)'
<1>1. /\ search'[s] = search[s] /\ phase'[s] = phase[s] /\ left'[s] = left[s]
      /\ results'[s] = results[s] /\ missed'[s] = missed[s] /\ error'[s] = error[s]
      /\ cancelling'[s] = cancelling[s] /\ stopped' = stopped /\ complete'[s] = complete[s]
      /\ got'[s] = got[s] /\ seen'[s] = seen[s]
  BY DEF Begin, ThreadReturns, ThreadRaises, SetThread, fields, client
<1>2. \/ thread[s] = "queued" /\ thread'[s] = "running"
      \/ thread[s] = "running" /\ thread'[s] = "returned" /\ (left[s] = 0 \/ Full(s))
      \/ thread[s] = "running" /\ thread'[s] = "raised"
  BY DEF Begin, ThreadReturns, ThreadRaises, SetThread, Types
<1>3. phase[s] # "none"
  BY <1>2 DEF Session, Fresh
<1>4. Threaded(s)'
  BY <1>1, <1>2 DEF Session, Threaded, Full, ByThread
<1>5. Counted(s)'
  BY <1>1 DEF Session, Counted, Full, Matches
<1>6. Told(s)'
  BY <1>1 DEF Session, Told
<1> QED BY <1>1, <1>3, <1>4, <1>5, <1>6 DEF Session, Capped

\* Every step of a session keeps what is said of it.
LEMMA OwnSession ==
  ASSUME Types, NEW s \in Sessions, Session(s), Capped(s), Steps(s)
  PROVE  Session(s)' /\ Capped(s)'
BY StartSession, StopSession, ReadSession, FindSession, BreakSession, EndSession, ThreadSession
   DEF Steps, Loop, Thread

(***************************************************************************)
(* The pool of workers.                                                    *)
(***************************************************************************)
Pooled == IsFiniteSet(Working) /\ Cardinality(Working) <= Workers

\* No step puts more threads to work than there are workers.
LEMMA StepPooled ==
  ASSUME Types, NEW s \in Sessions, Session(s), Steps(s), Pooled
  PROVE  Pooled'
<1>1. Cardinality(Working) \in Nat /\ Workers \in Nat
  BY WorkersAssumption, FS_CardinalityType DEF Pooled
<1>2. CASE Begin(s)
  <2>1. Working' = Working \cup {s} /\ s \notin Working
    BY <1>2 DEF Begin, SetThread, Working, Types
  <2>2. IsFiniteSet(Working') /\ Cardinality(Working') = Cardinality(Working) + 1
    BY <2>1, FS_AddElement DEF Pooled
  <2>3. Cardinality(Working) < Workers
    BY <1>2 DEF Begin
  <2> QED BY <1>1, <2>2, <2>3 DEF Pooled
<1>3. CASE ~Begin(s)
  <2>1. \A u \in Sessions : thread'[u] = "running" => thread[u] = "running"
    <3>1. \A u \in Sessions : u # s => thread'[u] = thread[u]
      BY OthersSame DEF Same
    <3>2. thread'[s] = "running" => thread[s] = "running"
      BY <1>3 DEF Steps, Types, Start, Awaits, Read, Stop, work, Loop, RipgrepFinds,
                  RipgrepPassesOver, Finds, PassesOver, RipgrepEnds, RipgrepBreaks, Resume,
                  ResumeRaised, Cancelled, TextDone, Completes, Thread, ThreadFinds,
                  ThreadPassesOver, ThreadReturns, ThreadRaises, SetThread
    <3> QED BY <3>1, <3>2
  <2>2. Working' \subseteq Working
    BY <2>1 DEF Working
  <2>3. IsFiniteSet(Working') /\ Cardinality(Working') <= Cardinality(Working)
    BY <2>2, FS_Subset DEF Pooled
  <2>4. Cardinality(Working') \in Nat
    BY <2>3, FS_CardinalityType
  <2> QED BY <1>1, <2>3, <2>4 DEF Pooled
<1> QED BY <1>2, <1>3

(***************************************************************************)
(* The invariant.                                                          *)
(***************************************************************************)
\* The parts of the type invariant.
LEMMA TypeParts == TypeOK <=> Types /\ (\A s \in Sessions : Capped(s)) /\ Cardinality(Working) <= Workers
BY DEF TypeOK, Types, Capped

\* It holds before the first request.
LEMMA InitIInv == Init => IInv
<1> SUFFICES ASSUME Init PROVE IInv
  OBVIOUS
<1>1. Types
  BY DEF Init, Types, Each
<1>2. Working = {}
  BY DEF Init, Working, Each
<1>3. IsFiniteSet(Working) /\ Cardinality(Working) = 0
  BY <1>2, FS_EmptySet
<1>4. \A s \in Sessions : Capped(s) /\ Session(s)
  BY NoneIsNoError DEF Init, Each, Capped, Session, Fresh, Threaded, Counted, Told, ByThread
<1> QED BY <1>1, <1>3, <1>4, TypeParts, WorkersAssumption DEF IInv

\* Every step keeps it.
LEMMA StepIInv == IInv /\ [Next]_vars => IInv'
<1> SUFFICES ASSUME IInv, [Next]_vars PROVE IInv'
  OBVIOUS
<1>1. Types /\ Pooled /\ TypeOK /\ \A s \in Sessions : Capped(s) /\ Session(s)
  BY TypeParts DEF IInv, Pooled
<1>2. ASSUME NEW s \in Sessions, Steps(s) PROVE IInv'
  <2>1. Types' /\ Pooled' /\ Session(s)' /\ Capped(s)'
    BY <1>1, <1>2, StepTypes, StepPooled, OwnSession
  <2>2. ASSUME NEW u \in Sessions PROVE Session(u)' /\ Capped(u)'
    <3>1. CASE u = s
      BY <2>1, <3>1
    <3>2. CASE u # s
      <4>1. Same(u)
        BY <1>1, <1>2, <3>2, OthersSame
      <4> QED BY <1>1, <4>1, SameSession DEF Same, Capped
    <3> QED BY <3>1, <3>2
  <2>3. TypeOK'
    BY <2>1, <2>2, TypeParts DEF TypeOK, Types, Capped, Pooled
  <2> QED BY <2>1, <2>2, <2>3 DEF IInv, Pooled
<1>3. CASE UNCHANGED vars
  <2>1. \A s \in Sessions : Same(s) /\ Session(s)'
    BY <1>1, <1>3, SameSession DEF Same, vars, work, fields, client
  <2>2. Working' = Working
    BY <1>3 DEF Working, vars, work
  <2>3. TypeOK'
    BY <1>1, <1>3, <2>2 DEF TypeOK, vars, work, fields, client
  <2> QED BY <1>1, <2>1, <2>2, <2>3 DEF IInv, Pooled
<1> QED BY <1>2, <1>3 DEF Next, Steps

\* The invariant holds in every state of every service of searches.
THEOREM Invariance == Spec => []IInv
BY InitIInv, StepIInv, PTL DEF Spec

(***************************************************************************)
(* What follows from it.                                                   *)
(***************************************************************************)
\* No session ever has more results than it was to have, and no more threads work
\* than there are, however many searches are started, stopped and fail.
THEOREM TypeCorrect == Spec => []TypeOK
BY Invariance, PTL DEF IInv

\* A client that has paged to the end of a session without an error, which nobody
\* stopped, has everything the search did not pass over, or as much as it asked for.
THEOREM WholeResults == Spec => []WholeWhenDone
<1>1. ASSUME IInv PROVE WholeWhenDone
  <2> SUFFICES ASSUME NEW s \in Sessions, seen[s], s \notin stopped, error[s] = None
               PROVE  /\ got[s] = results[s]
                      /\ results[s] + missed[s] = Matches(search[s]) \/ results[s] >= search[s].max
    BY DEF WholeWhenDone
  <2>1. Session(s)
    BY <1>1 DEF IInv
  <2>2. got[s] = results[s] /\ complete[s] /\ phase[s] = "done"
    BY <2>1 DEF Session, Told
  <2>3. results[s] + missed[s] = Matches(search[s]) \/ Full(s)
    BY <2>1, <2>2 DEF Session, Counted
  <2> QED BY <2>2, <2>3 DEF Full
<1> QED BY <1>1, Invariance, PTL

\* Once a stop has taken effect nothing begins to work for the session.
THEOREM StopIsFinal == Spec => NothingBeginsAfterStop
<1> DEFINE Quiet(s) == phase[s] = "done" =>
             /\ phase'[s] = "done"
             /\ thread'[s] = "running" => thread[s] = "running"
             /\ results'[s] # results[s] => thread[s] = "running"
<1>1. ASSUME IInv, Next PROVE \A s \in stopped : Quiet(s)
  <2> SUFFICES ASSUME NEW s \in Sessions, s \in stopped, phase[s] = "done" PROVE Quiet(s)
    BY <1>1 DEF IInv, TypeOK
  <2>1. TypeOK /\ Types /\ Session(s) /\ thread[s] # "queued" /\ search[s] # None
    BY <1>1, TypeParts DEF IInv, Session, Threaded
  <2>2. PICK u \in Sessions : Steps(u)
    BY <1>1 DEF Next, Steps
  <2>3. CASE u # s
    BY <2>1, <2>2, <2>3, OthersSame DEF Same
  <2>4. CASE u = s
    BY <2>1, <2>2, <2>4
       DEF Steps, Types, Start, Awaits, Read, Stop, work, fields, Loop, RipgrepFinds,
           RipgrepPassesOver, RipgrepSearches, RipgrepEnds, RipgrepBreaks, Resume, ResumeRaised,
           Cancelled, Thread, Begin, ThreadFinds, ThreadPassesOver, ThreadSearches, Finds,
           PassesOver, ThreadReturns, ThreadRaises, SetThread
  <2> QED BY <2>3, <2>4
<1>2. IInv /\ [Next]_vars => [\A s \in stopped : Quiet(s)]_vars
  BY <1>1
<1> QED BY <1>2, Invariance, PTL DEF Spec, NothingBeginsAfterStop
=============================================================================
