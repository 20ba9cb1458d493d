--------------------------- MODULE MCPushDelivery ---------------------------
(* Small instances of push delivery.                                        *)
EXTENDS PushDelivery, TLC

MCComponents == {"a", "x"}
MCRoot  == <<"a">>
MCLeaf  == <<"a", "x">>
MCNames == {MCRoot, MCLeaf}

(* Who is at the end of each link.                                          *)
MCOwnerOne   == (1 :> "c1") @@ (2 :> "c1")
MCOwnerOnly  == MCOwnerOne @@ (3 :> "c1")
MCOwner      == MCOwnerOne @@ (3 :> "c2") @@ (4 :> "c2")

(* A client alone on its stream; two on one stream.                         *)
MCAlone  == "c1" :> {MCLeaf}
MCShared == ("c1" :> {MCLeaf}) @@ ("c2" :> {MCLeaf})

(* Two editions of one name.                                                *)
MCEditions == {[name |-> MCLeaf, seq |-> 1], [name |-> MCLeaf, seq |-> 2]}
MCPost   == {[name |-> MCLeaf, seq |-> 1]}
=============================================================================
