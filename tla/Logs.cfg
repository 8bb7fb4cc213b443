SPECIFICATION FairSpec
CONSTANTS
  Calls = {1, 2}
  MaxRecords = 2
  MaxSize = 3
  PageSize = 2
  MaxEvents = 3
  MaxFaults = 2
CHECK_DEADLOCK FALSE
INVARIANTS
  RanIsAudited
  NeverTwice
  KeepsNewest
  SeenInOrder
PROPERTIES
  CatchesUp
