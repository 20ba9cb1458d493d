--------------------------- MODULE MCContentStore ---------------------------
(* Small instances of the Content Store: a collection with two members, one *)
(* of which expires; the other may be the collection's latest pointer.      *)
EXTENDS ContentStore

MCComponents == {"a", "x", "y"}
MCRoot  == <<"a">>
MCX     == <<"a", "x">>
MCY     == <<"a", "y">>
MCNames == {MCRoot, MCX, MCY}

MCEdition(s, p) == [seq |-> s, period |-> p, fresh |-> TRUE, ok |-> TRUE]
MCTwo      == {MCEdition(1, 1), MCEdition(2, 0)}
MCOne      == {MCEdition(1, 0)}
MCMixed    == MCTwo \cup {[MCEdition(2, 0) EXCEPT !.ok = FALSE], MCEdition(None, 0)}
MCTtl      == [n \in MCNames |-> IF n = MCX THEN 1 ELSE 0]
MCReserved == {MCY}
MCNothing  == {}
=============================================================================
