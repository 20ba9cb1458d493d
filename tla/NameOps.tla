------------------------------- MODULE NameOps -------------------------------
(***************************************************************************)
(* Hierarchical names of rns_icn (rns_icn/name.py).  A name is a non-empty  *)
(* sequence of components whose first component is the RNS address.  The    *)
(* content-hash pin of a name is not part of the sequence: every table that *)
(* is keyed by a name strips it first, so the pin travels in the request.   *)
(***************************************************************************)
EXTENDS Naturals, Sequences

(* Name.starts_with: component-wise comparison up to the prefix's length.   *)
StartsWith(name, prefix) ==
  /\ Len(prefix) <= Len(name)
  /\ \A i \in 1..Len(prefix) : name[i] = prefix[i]

(* The longest members of a set of names.  Two prefixes of one name that    *)
(* have the same length are equal, so among prefixes of one name there is   *)
(* at most one.                                                             *)
Longest(S) == {p \in S : \A q \in S : Len(q) <= Len(p)}

(* The name itself and its proper prefixes that are in a given set.         *)
PrefixesIn(S, name) == {p \in S : StartsWith(name, p)}
=============================================================================
