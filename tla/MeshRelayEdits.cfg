SPECIFICATION Spec
CONSTANTS
  Nodes <- MCNodes
  Names <- MCNames
  NodeId <- MCNodeId
  Peers <- MCUndeclaredPeers
  InitConf <- MCDistribute
  Edits <- MCEdits
  Tasks = {t1, t2}
  Requests <- MCFewRequests
  Faults = {"timeout"}
  None = None
CHECK_DEADLOCK FALSE
INVARIANTS
  NoNodeTwice
  BudgetFixedAtFirstHandOff
