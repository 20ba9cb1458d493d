--------------------------------- MODULE Fib ---------------------------------
(***************************************************************************)
(* The Forwarding Information Base as a component: the table of fib.py and  *)
(* the calls the forwarder and the routers make on it, in any order.        *)
(***************************************************************************)
EXTENDS FibOps

CONSTANTS
  Components, \* name components
  Names,      \* the names routes are installed for
  Faces,      \* face identifiers
  Costs       \* route costs

ASSUME FibAssumption ==
  /\ Names \subseteq Seq(Components)
  /\ Costs \subseteq Nat

VARIABLE fib  \* Names -> list of [face, cost]

Hop == [face : Faces, cost : Costs]

FibInit == fib = [p \in Names |-> <<>>]

Insert(p, f, c)      == fib' = FibInsert(fib, p, f, c)
RemoveFace(p, f)     == fib' = FibRemoveFace(fib, p, f)
RemovePrefix(p)      == fib' = FibRemovePrefix(fib, p)
RemoveAllForFace(f)  == fib' = FibRemoveAllForFace(fib, f)

FibNext ==
  \/ \E p \in Names, f \in Faces, c \in Costs : Insert(p, f, c)
  \/ \E p \in Names, f \in Faces : RemoveFace(p, f)
  \/ \E p \in Names : RemovePrefix(p)
  \/ \E f \in Faces : RemoveAllForFace(f)

FibSpec == FibInit /\ [][FibNext]_fib

-----------------------------------------------------------------------------
(* Every prefix has a list of hops (Fib._entries).                          *)
FibTypeOK == fib \in [Names -> Seq(Hop)]

Sorted(hops) ==
  \A i, j \in DOMAIN hops : i < j => hops[i].cost <= hops[j].cost

Distinct(hops) ==
  \A i, j \in DOMAIN hops : hops[i].face = hops[j].face => i = j

(* Every entry lists each of its faces once, cheapest first (the in-place   *)
(* update and the sort that ends Fib.insert): a re-priced face moves to its *)
(* place, a withdrawn one leaves the others in order, a failover never      *)
(* retries a face.  _first_usable_face relies on it.                        *)
CheapestFirst == \A p \in Names : Sorted(fib[p]) /\ Distinct(fib[p])

(* A withdrawal (Fib.remove_all_for_face) leaves no route through the face  *)
(* and keeps every other hop with its cost.                                 *)
WithdrawalIsExact ==
  [][\A f \in Faces : RemoveAllForFace(f) =>
       \A p \in Names :
         {fib'[p][i] : i \in DOMAIN fib'[p]}
           = {h \in {fib[p][i] : i \in DOMAIN fib[p]} : h.face # f}]_fib

(* After a link teardown, Interests for the names of its prefixes "either   *)
(* fall through to a backup face (multi-path) or cleanly hit NO_ROUTE"      *)
(* (withdraw_face): lookup answers a name with the remaining hops, cheapest *)
(* first, of the longest prefix that had a hop through another face, and    *)
(* with none only when no prefix had one.  No prefix that the withdrawal    *)
(* left without hops stands in front of a shorter one.                      *)
WithdrawalFallsThrough ==
  [][\A f \in Faces, n \in Names : RemoveAllForFace(f) =>
       LET backed == {p \in Names : /\ StartsWith(n, p)
                                    /\ \E i \in DOMAIN fib[p] : fib[p][i].face # f}
           found  == FibLookup(fib', n)
       IN /\ backed = {} => found = <<>>
          /\ Sorted(found)
          /\ \A p \in Longest(backed) :
               {found[i] : i \in DOMAIN found}
                 = {h \in {fib[p][i] : i \in DOMAIN fib[p]} : h.face # f}]_fib
=============================================================================
