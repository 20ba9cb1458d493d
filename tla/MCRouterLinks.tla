--------------------------- MODULE MCRouterLinks ---------------------------
(* Small routers.  No peer differs from another, and no slot.               *)
EXTENDS RouterLinks, TLC

MCSymmetry == Permutations(Peers) \cup Permutations(Slots)
=============================================================================
