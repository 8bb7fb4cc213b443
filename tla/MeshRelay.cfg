SPECIFICATION FairSpec
CONSTANTS
  Nodes <- MCNodes
  Names <- MCNames
  NodeId <- MCNodeId
  Peers <- MCPeers
  InitConf <- MCMixed
  Edits = {}
  Tasks = {t1, t2}
  Requests <- MCRequests
  Faults = {"timeout", "loss", "crash", "cancel"}
  None = None
CHECK_DEADLOCK FALSE
INVARIANTS
  RunsAtMostOnce
  NonForwardableStops
  NoWorkAfterResult
  LoadIsExact
  RelayNeverLoops
  RelayedNeverRefused
PROPERTIES
  KeepsPromise
  EveryCallAnswered
