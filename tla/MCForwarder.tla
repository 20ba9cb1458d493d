---------------------------- MODULE MCForwarder ----------------------------
(* Small instances of the forwarding engine.                                *)
EXTENDS Forwarder, TLC

(* Calls of express differ only by the Interest they take.                  *)
MCSymmetry == Permutations(Tasks)

MCComponents == {"a", "x"}
MCRoot  == <<"a">>
MCLeaf  == <<"a", "x">>
MCNames == {MCRoot, MCLeaf}
MCSeqs  == {0, 1}

(* An Interest for a name with every option at its default.                 *)
MCPlain(n, k) ==
  [name |-> n, pin |-> None, prefix |-> FALSE, fresh |-> FALSE, child |-> "none",
   floor |-> None, nonce |-> k, inface |-> "app", hops |-> 1, life |-> 1]
MCLatest(k, f) ==
  [MCPlain(MCRoot, k) EXCEPT !.prefix = TRUE, !.child = "latest", !.floor = f]

MCContents == {[name |-> MCLeaf, seq |-> 0], [name |-> MCLeaf, seq |-> 1]}
MCNone     == {}
MCRoutes   == {[prefix |-> MCRoot, face |-> f, cost |-> 1] : f \in Faces}

(* Mixed consumers: an exact Interest, a pinned one, and one for the latest *)
(* edition from the second on.                                              *)
MCMixed == {MCPlain(MCLeaf, 1), [MCPlain(MCLeaf, 2) EXCEPT !.pin = 0], MCLatest(3, 1)}

(* What arrives unasked: an edition of the leaf, and unsequenced Data above. *)
MCStray == {[name |-> MCLeaf, seq |-> 1], [name |-> MCRoot, seq |-> None]}
MCAll   == MCContents \cup MCStray

(* One name asked for twice, once insisting on a fresh copy.                *)
MCSame == {MCPlain(MCLeaf, 1), [MCPlain(MCLeaf, 2) EXCEPT !.fresh = TRUE]}
MCOne  == {[name |-> MCLeaf, seq |-> 1]}

(* The same Interest from two consumers.                                    *)
MCTwice == {MCPlain(MCLeaf, 1), MCPlain(MCLeaf, 2)}

(* The latest edition, and the latest from the second on.                   *)
MCFloors == {MCLatest(1, None), MCLatest(2, 1)}

(* A collection and one of its members, asked for by prefix and exactly.    *)
MCKinds == {MCLatest(1, None), MCPlain(MCRoot, 2)}
=============================================================================
