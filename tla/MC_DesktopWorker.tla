-------------------------- MODULE MC_DesktopWorker --------------------------
(***************************************************************************)
(* Calls of all kinds: desktop input on the loop, the windows of a desktop *)
(* graph (a list) and Office on threads.                                   *)
(***************************************************************************)
EXTENDS DesktopWorker

Kind(office, onLoop, dict) == [office |-> office, onLoop |-> onLoop, dict |-> dict]
MCRequests ==
  {Kind(FALSE, TRUE, TRUE), Kind(FALSE, FALSE, FALSE), Kind(TRUE, FALSE, TRUE)}

Set(enabled, useWorker, fallback) ==
  [enabled |-> enabled, useWorker |-> useWorker, fallback |-> fallback]
MCEdits ==
  {Set(TRUE, TRUE, FALSE), Set(TRUE, TRUE, TRUE), Set(TRUE, FALSE, FALSE), Set(FALSE, TRUE, TRUE)}
=============================================================================
