--------------------------- MODULE MCPropagation ---------------------------
(* Small meshes of propagation nodes.                                       *)
EXTENDS Propagation

Both(S) == S \cup {<<l[2], l[1]>> : l \in S}
MCPeers(S) == [n \in Nodes |-> {m \in Nodes : <<n, m>> \in S}]

MCItem(n, lb, i) == [origin |-> n, label |-> lb, item |-> i]

(* A ring of three, a pair, and a server with two neighbours.               *)
MCRing     == Both({<<"a", "b">>, <<"b", "c">>, <<"c", "a">>})
MCRingPeers == MCPeers(MCRing)
MCPair     == Both({<<"a", "b">>})
MCFan      == Both({<<"a", "b">>, <<"a", "c">>})
MCStrangers == MCPeers({})

(* A newcomer and the middle of a line greet each other.                    *)
MCMesh      == Both({<<"a", "b">>, <<"b", "c">>, <<"b", "d">>})
MCMeshPeers == MCPeers(Both({<<"a", "b">>, <<"b", "c">>}))
MCGreetings == Both({<<"b", "d">>})
MCAround    == {MCItem("a", "news", 1), MCItem("d", "news", 1)}

MCNone     == {}
MCOneWay   == {<<"a", "b">>}
MCFanOut   == {<<"a", "b">>, <<"a", "c">>}

MCLabels   == {MCItem("a", "news", 1), MCItem("a", "blog", 1)}
MCIssues   == {MCItem("a", "news", 1), MCItem("a", "news", 2)}
MCOne      == {MCItem("a", "news", 1)}
=============================================================================
