-------------------------------- MODULE Mesh --------------------------------
(***************************************************************************)
(* What every mesh operation of AgentNode shares: the nodes, the peers     *)
(* they have configured, and the visited path that keeps a task from going *)
(* round in circles (MeshRouter._check_trace, _peer_node_id, _is_upstream).*)
(***************************************************************************)
EXTENDS Integers, Sequences, FiniteSets, Functions

CONSTANTS
  Nodes,       \* the AgentNode processes
  Names,       \* strings in use as node ids and as keys of mesh.peers
  NodeId,      \* NodeId[n]: mesh.node_id of n
  Peers,       \* Peers[n]: mesh.peers of n, name -> [node, id, token]
  None         \* Python's None

Peer == [node : Nodes, id : Names \cup {None}, token : {"good", "bad", "none"}]

ASSUME NoneIsNoName == None \notin Names
ASSUME NodeIdAssumption == NodeId \in [Nodes -> Names]
ASSUME PeersAssumption ==
  /\ DOMAIN Peers = Nodes
  /\ \A n \in Nodes : DOMAIN Peers[n] \subseteq Names /\ Peers[n] \in [DOMAIN Peers[n] -> Peer]

Default(value, config) == IF value = None THEN config ELSE value

\* The path a task has visited once it is at node n, and the check on arrival.
Visited(n, hops) == Append(hops, NodeId[n])
Loops(n, hops) == NodeId[n] \in Range(hops)
TooFar(n, hops, maxhops) == Len(Visited(n, hops)) > maxhops

PeerNodeId(n, name) ==
  IF name \in DOMAIN Peers[n] THEN Default(Peers[n][name].id, name) ELSE name

\* Variant: compares the local peer key only.
IsUpstreamByName(n, name, path) == name \in Range(path)
IsUpstream(n, name, path) == {name, PeerNodeId(n, name)} \cap Range(path) # {}

\* A call to a peer that is not configured, or without a token, raises before
\* anything is sent.
Reachable(n, name) == name \in DOMAIN Peers[n] /\ Peers[n][name].token # "none"

\* Every peer entry names the node it leads to.
WellDeclared ==
  \A n \in Nodes : \A p \in DOMAIN Peers[n] : PeerNodeId(n, p) = NodeId[Peers[n][p].node]
=============================================================================
