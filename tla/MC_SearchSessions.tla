-------------------------- MODULE MC_SearchSessions --------------------------
(***************************************************************************)
(* Searches for TLC: by name and by content, with ripgrep and without,     *)
(* with patterns only one of the engines knows, and with a maximum below,  *)
(* at and above the number of matches.                                     *)
(***************************************************************************)
EXTENDS SearchSessions

R(type, ripgrep, max) ==
  [type |-> type, ripgrep |-> ripgrep, pattern |-> {"rg", "re"}, max |-> max,
   names |-> 2, text |-> 1, office |-> 1]
MCRequests == {
  R("files", FALSE, 1), R("content", TRUE, 2), R("content", FALSE, 2),
  [R("content", FALSE, 0) EXCEPT !.text = 2],
  [R("content", TRUE, 1) EXCEPT !.text = 2],
  [R("content", TRUE, 3) EXCEPT !.pattern = {"re"}],
  [R("content", TRUE, 3) EXCEPT !.pattern = {"rg"}]}
=============================================================================
