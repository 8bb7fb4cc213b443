---------------------------- MODULE MC_MeshFanout ----------------------------
(***************************************************************************)
(* Instances of MeshFanout for TLC: one coordinator with four usable peers *)
(* in its settings (one of them an alias of itself), one without a token,  *)
(* and requests for each kind of call.  Batches share no state, so one is  *)
(* enough.                                                                 *)
(***************************************************************************)
EXTENDS MeshFanout, TLC

MCNodes == {"n1", "n2", "n3", "n4"}
MCNames == {"a", "b", "c", "d", "self", "bare"}
MCNodeId == [n \in MCNodes |->
  CASE n = "n1" -> "a" [] n = "n2" -> "b" [] n = "n3" -> "c" [] n = "n4" -> "d"]

P(node, id, token) == [node |-> node, id |-> id, token |-> token]
MCPeers == [n \in MCNodes |->
  IF n = "n1" THEN "b" :> P("n2", None, "good") @@ "c" :> P("n3", "c", "good")
                @@ "d" :> P("n4", None, "bad") @@ "self" :> P("n1", "a", "good")
                @@ "bare" :> P("n4", "d", "none")
  ELSE "a" :> P("n1", None, "good")]
MCMaxHops == [n \in MCNodes |-> 3]

R(action, background) ==
  [kind |-> "coordinate", node |-> "n1", hops |-> <<>>, peers |-> None, parallel |-> TRUE,
   granted |-> TRUE, action |-> action, background |-> background]
To(p) == [R("shell", FALSE) EXCEPT !.kind = "delegate", !.peers = {p}]

MCRequests ==
  { R("shell", FALSE), R("agent", FALSE), R("agent", TRUE),
    [R("shell", TRUE) EXCEPT !.hops = <<"b">>, !.parallel = FALSE],
    [R("shell", FALSE) EXCEPT !.peers = {"c", "d", "a"}, !.hops = <<"d", "b">>],
    [R("shell", FALSE) EXCEPT !.peers = {}],
    [R("shell", FALSE) EXCEPT !.hops = <<"a">>],
    [R("shell", FALSE) EXCEPT !.hops = <<"b", "c", "d">>],
    [R("agent", TRUE) EXCEPT !.granted = FALSE],
    To("b"), To("a"), To("bare"), [To("self") EXCEPT !.background = TRUE] }
=============================================================================
