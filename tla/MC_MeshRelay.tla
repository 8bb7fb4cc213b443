---------------------------- MODULE MC_MeshRelay ----------------------------
(***************************************************************************)
(* Instances of MeshRelay for TLC: three nodes that know each other under  *)
(* local names, a few requests that between them use every field, and      *)
(* settings that make each policy matter.                                  *)
(***************************************************************************)
EXTENDS MeshRelay, TLC

MCNodes == {"n1", "n2", "n3"}
MCNames == {"a", "b", "c", "west", "ext"}
MCNodeId == [n \in MCNodes |-> CASE n = "n1" -> "a" [] n = "n2" -> "b" [] n = "n3" -> "c"]

P(node, id) == [node |-> node, id |-> id, token |-> "good"]
\* n3 is known to n1 as "west", with its id declared; n2 and n3 use node ids.
MCPeers == [n \in MCNodes |->
  CASE n = "n1" -> "b" :> P("n2", None) @@ "west" :> P("n3", "c")
    [] n = "n2" -> "a" :> P("n1", "a") @@ "c" :> P("n3", None)
    [] n = "n3" -> "a" :> P("n1", None) @@ "west" :> P("n2", "b")]
\* n3 does not say that its "west" is node "b".
MCUndeclaredPeers == [MCPeers EXCEPT !["n3"]["west"].id = None]

S(mode, after, maxf, maxhops) ==
  [key |-> "k", mode |-> mode, after |-> after, maxf |-> maxf, maxhops |-> maxhops]
MCDistribute == [n \in MCNodes |-> S("distribute", 3, 2, 4)]
\* n1 offloads from its second task on, n2 always hands on, n3 never does.
MCMixed == [n \in MCNodes |->
  CASE n = "n1" -> S("offload", 1, 3, 4) [] n = "n2" -> S("distribute", 3, 1, 4)
    [] n = "n3" -> S("off", 3, 3, 4)]
MCEdits == {S("distribute", 3, 3, 2), [S("off", 3, 0, 4) EXCEPT !.key = ""]}

R(node) ==
  [node |-> node, hops |-> <<>>, target |-> None, left |-> None, forwardable |-> TRUE,
   mode |-> None, after |-> None, maxf |-> None, key |-> "k", granted |-> TRUE,
   action |-> "agent", timed |-> TRUE]
\* An agent that may leave its prompt unread.
Plain == [R("n1") EXCEPT !.timed = FALSE]
Pinned == [R("n1") EXCEPT !.target = "west", !.forwardable = FALSE, !.mode = "distribute"]
Overriding == [R("n2") EXCEPT !.mode = "offload", !.after = 0, !.action = "shell"]
Traced == [R("n2") EXCEPT !.hops = <<"ext">>, !.mode = "distribute", !.maxf = 2]
Looping == [R("n1") EXCEPT !.hops = <<"a">>, !.maxf = 1]
Upstream == [R("n2") EXCEPT !.hops = <<"a">>, !.target = "a"]
Keyless == [R("n1") EXCEPT !.key = "wrong"]
Unknown == [R("n3") EXCEPT !.target = "ext"]
Limited == [R("n1") EXCEPT !.mode = "distribute", !.maxf = 1, !.action = "shell"]
Spent == [R("n1") EXCEPT !.target = "b", !.maxf = 0]

MCRequests == {Plain, Pinned, Overriding, Traced, Looping, Upstream, Keyless, Unknown, Spent}
MCFewRequests == {Plain, Pinned, Limited}
=============================================================================
