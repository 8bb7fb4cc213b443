SPECIFICATION ProcessSpec
CONSTANTS
  j1 = j1
  j2 = j2
  Jobs = {j1, j2}
  Faults = {}
  Splits <- MCSplits
  None = None
  Garbage = Garbage
CHECK_DEADLOCK FALSE
INVARIANTS
  CancelledHasNoProcess
