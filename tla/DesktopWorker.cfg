SPECIFICATION FairSpec
CONSTANTS
  Calls = {c1, c2}
  Requests <- MCRequests
  Edits <- MCEdits
  Faults = {"worker", "node"}
  MaxEdits = 1
  None = None
CHECK_DEADLOCK FALSE
INVARIANTS
  OkMeansDoneOnce
  TwiceOnlyIfUnheard
PROPERTIES
  EveryCallReturns
