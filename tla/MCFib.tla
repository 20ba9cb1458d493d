-------------------------------- MODULE MCFib --------------------------------
(* Three nested prefixes, three faces, two costs: every tie and every order. *)
EXTENDS Fib, TLC

(* The calls treat all faces alike.                                          *)
MCSymmetry == Permutations(Faces)

MCComponents == {"a", "b", "c"}
MCPrefixes   == {<<"a">>, <<"a", "b">>, <<"a", "b", "c">>}
MCCosts      == {1, 2}
=============================================================================
