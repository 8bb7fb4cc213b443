----------------------------- MODULE AtomicStore -----------------------------
(***************************************************************************)
(* What writers of whole files promise, whatever fails or crashes: a file  *)
(* changes only in the step in which an operation succeeds, and then to    *)
(* what was there with exactly that operation's update, or to its new      *)
(* content if it was not to keep the old one, or by being moved.  Only a   *)
(* move may remove the file in its way before it does its work.  Files     *)
(* that are exposed are not promised anything.                             *)
(***************************************************************************)
CONSTANTS Files, Ops, None
VARIABLES
  file,        \* file[f]: the updates in f, None when there is no f, or f is exposed
  keeps,       \* the operations that are to keep what was there
  answer,      \* answer[o]: the answer to operation o
  exposed      \* the files whose writers have not kept away from each other

vars == <<file, keeps, answer, exposed>>

Init == /\ file \in [Files -> {None, {}}]
        /\ answer = [o \in Ops |-> "open"]
        /\ keeps = {} /\ exposed = {}

Succeeds(o) == answer[o] \in {"open", "removed"} /\ answer'[o] = "ok"

Updated(o, f) ==
  /\ Succeeds(o)
  /\ file'[f] = {o} \cup (IF o \in keeps /\ file[f] # None THEN file[f] ELSE {})
Moved(o, f, g) ==
  /\ Succeeds(o)
  /\ f \in exposed \/ file'[f] = None
  /\ g \in exposed' \/ file'[g] = file[f]

FileStep(f) ==
  \/ f \in exposed' /\ file'[f] = None
  \/ file'[f] = file[f]
  \/ \E o \in Ops : Updated(o, f)
  \/ \E o \in Ops, g \in Files : Moved(o, f, g) \/ Moved(o, g, f)
  \/ \E o \in Ops : answer[o] = "open" /\ answer'[o] = "removed" /\ file'[f] = None

\* An operation that succeeds has had its effect.
AnswerStep(o) ==
  \/ answer'[o] = answer[o]
  \/ answer[o] = "open" /\ answer'[o] = "removed"
  \/ answer[o] \in {"open", "removed"} /\ answer'[o] \in {"error", "lost"}
  \/ \E f \in Files : (Succeeds(o) /\ f \in exposed') \/ Updated(o, f)
  \/ \E f, g \in Files : Moved(o, f, g)

\* What an operation is to keep is settled when it is asked for.
Next == /\ keeps \subseteq keeps' /\ keeps' \subseteq Ops
        /\ exposed \subseteq exposed' /\ exposed' \subseteq Files
        /\ \A f \in Files : FileStep(f)
        /\ \A o \in Ops : AnswerStep(o)

Spec == Init /\ [][Next]_vars
=============================================================================
