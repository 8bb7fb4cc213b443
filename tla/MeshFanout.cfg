SPECIFICATION FairSpec
CONSTANTS
  Nodes <- MCNodes
  Names <- MCNames
  NodeId <- MCNodeId
  Peers <- MCPeers
  Batches = {b1}
  Requests <- MCRequests
  MaxHops <- MCMaxHops
  Faults = {"timeout", "break", "peer crash", "crash"}
  None = None
CHECK_DEADLOCK FALSE
INVARIANTS
  AggregateIsComplete
  OkIsBacked
  NoSubtaskUpstream
PROPERTIES
  EntriesAreFinal
  EveryBatchReturns
