-------------------------- MODULE MC_JobProcesses --------------------------
(***************************************************************************)
(* Two jobs; the result of the second contains a line boundary.            *)
(***************************************************************************)
EXTENDS JobProcesses

CONSTANTS j1, j2

MCSplits == {Rec(j2, "succeeded"), Rec(j2, "failed")}
=============================================================================
