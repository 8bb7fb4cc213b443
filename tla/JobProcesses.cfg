SPECIFICATION FairProcessSpec
CONSTANTS
  j1 = j1
  j2 = j2
  Jobs = {j1, j2}
  Faults = {"disk", "crash"}
  Splits <- MCSplits
  None = None
  Garbage = Garbage
CHECK_DEADLOCK FALSE
INVARIANTS
  NoZombie
  WorkIsShown
  RestartFindsJobs
  EndingsAreTrue
PROPERTIES
  LifeCycle
  EveryWorkEnds
