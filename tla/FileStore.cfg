SPECIFICATION Spec
CONSTANTS
  a = a
  b = b
  Documents = {a, b}
  Config = config
  Existing = {a}
  Ops = {o1, o2, o3}
  Requests <- MCRequests
  Faults = {"disk", "crash"}
  None = None
SYMMETRY MCSymmetry
CHECK_DEADLOCK FALSE
INVARIANTS
  WholeFiles
  ConfigIsRunning
PROPERTIES
  KeepsDocuments
