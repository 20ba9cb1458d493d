--------------------------- MODULE CacheContract ---------------------------
(***************************************************************************)
(* What a Content Store promises to its readers: a name is answered with    *)
(* the edition stored last under it or not at all, and an edition that has  *)
(* gone stale or missing stays so until it is stored again.  The cache may  *)
(* lose anything at any time (expiry, eviction, invalidation, a crash).     *)
(***************************************************************************)
CONSTANTS Names, Editions, None,
          Fresh(_)   \* the edition was declared fresh by its sender

VARIABLE slot        \* Names -> [ed, fresh] or None

Slot == [ed : Editions, fresh : BOOLEAN]

(* What may become of a slot while nothing is stored in it.                 *)
Decays(s) == {s, None} \cup (IF s = None THEN {} ELSE {[ed |-> s.ed, fresh |-> FALSE]})

Init == slot = [n \in Names |-> None]

Decay == slot' \in [Names -> Slot \cup {None}] /\ \A n \in Names : slot'[n] \in Decays(slot[n])

Store(n, e) ==
  /\ slot' \in [Names -> Slot \cup {None}]
  /\ slot'[n] \in {None, [ed |-> e, fresh |-> Fresh(e)]}
  /\ \A m \in Names \ {n} : slot'[m] \in Decays(slot[m])

Next == Decay \/ \E n \in Names, e \in Editions : Store(n, e)

Spec == Init /\ [][Next]_slot
=============================================================================
