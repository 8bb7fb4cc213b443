SPECIFICATION FairSpec
CONSTANTS
  Sessions = {s1, s2}
  Requests <- MCRequests
  Workers = 1
  Lengths = {1, 2}
  Faults = {"walk", "line", "skip", "exit"}
  None = None
CHECK_DEADLOCK FALSE
INVARIANTS
  TypeOK
  WholeWhenDone
PROPERTIES
  NothingBeginsAfterStop
  EverySearchEnds
