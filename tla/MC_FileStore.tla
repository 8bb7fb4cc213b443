---------------------------- MODULE MC_FileStore ----------------------------
(***************************************************************************)
(* Three operations on two documents and the configuration for TLC.        *)
(***************************************************************************)
EXTENDS FileStore, TLC
CONSTANTS a, b

R(kind, file, other, flag) == [kind |-> kind, file |-> file, other |-> other, flag |-> flag]
MCRequests == {
  R("edit", a, None, FALSE), R("edit", b, None, TRUE), R("create", b, None, FALSE),
  R("merge", b, a, FALSE), R("write", a, None, FALSE), R("replace", a, None, FALSE),
  R("inplace", b, None, FALSE), R("append", b, None, FALSE), R("move", b, a, TRUE),
  R("move", a, b, FALSE), R("move", a, a, TRUE), R("settings", Config, None, FALSE)}
MCSymmetry == Permutations(Ops)
=============================================================================
