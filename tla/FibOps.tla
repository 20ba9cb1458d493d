------------------------------- MODULE FibOps -------------------------------
(***************************************************************************)
(* The operations of the Forwarding Information Base (rns_icn/fib.py) as    *)
(* functions of the table.  The table maps every prefix to its list of      *)
(* hops; a prefix whose list is empty has no FibEntry, because the code     *)
(* drops an entry when its last face is withdrawn.                          *)
(***************************************************************************)
EXTENDS NameOps

(* Position of a face in a hop list, or one past the end when absent.       *)
Position(hops, face) ==
  IF \E i \in DOMAIN hops : hops[i].face = face
    THEN CHOOSE i \in DOMAIN hops : hops[i].face = face
    ELSE Len(hops) + 1

(* The hop list without one face; a face occurs at most once in a list.     *)
Without(hops, face) ==
  LET at == Position(hops, face)
  IN IF at > Len(hops)
       THEN hops
       ELSE [i \in 1..(Len(hops) - 1) |-> IF i < at THEN hops[i] ELSE hops[i + 1]]

(* The place of a hop of the given cost in a list sorted by cost, when the  *)
(* hop stood at position "at" before Python's stable sort: the first place  *)
(* that holds a dearer hop, or an equally dear one that used to follow it.  *)
Follows(hops, i, at, cost) ==
  \/ hops[i].cost > cost
  \/ hops[i].cost = cost /\ i >= at

Slot(hops, at, cost) ==
  CHOOSE k \in 1..(Len(hops) + 1) :
    /\ \A i \in 1..(k - 1) : ~Follows(hops, i, at, cost)
    /\ k <= Len(hops) => Follows(hops, k, at, cost)

(* A faulty update: without the closing sort.                               *)
UpsertUnsorted(hops, face, cost) ==
  IF Position(hops, face) > Len(hops)
    THEN Append(hops, [face |-> face, cost |-> cost])
    ELSE [hops EXCEPT ![Position(hops, face)].cost = cost]

(* The list with the face's hop added, or its cost replaced, and re-sorted. *)
Upsert(hops, face, cost) ==
  LET rest == Without(hops, face)
      k    == Slot(rest, Position(hops, face), cost)
  IN [i \in 1..(Len(rest) + 1) |->
        IF i < k THEN rest[i]
        ELSE IF i = k THEN [face |-> face, cost |-> cost]
        ELSE rest[i - 1]]

FibInsert(fib, prefix, face, cost) ==
  [fib EXCEPT ![prefix] = Upsert(@, face, cost)]

FibRemoveFace(fib, prefix, face) ==
  [p \in DOMAIN fib |->
     IF StartsWith(p, prefix) \/ StartsWith(prefix, p)
       THEN Without(fib[p], face) ELSE fib[p]]

FibRemovePrefix(fib, prefix) ==
  [p \in DOMAIN fib |-> IF StartsWith(p, prefix) THEN <<>> ELSE fib[p]]

(* Faulty: only the prefixes whose best face it is are looked at.           *)
FibRemovePrimary(fib, face) ==
  [p \in DOMAIN fib |-> IF Position(fib[p], face) = 1 THEN Without(fib[p], face) ELSE fib[p]]

FibRemoveAllForFace(fib, face) == [p \in DOMAIN fib |-> Without(fib[p], face)]

(* Faulty: prefixes that lost their last hop still match.                   *)
MatchingEmptied(fib, name) == PrefixesIn(DOMAIN fib, name)

(* The prefixes that have an entry and match a name.                        *)
Matching(fib, name) == {p \in PrefixesIn(DOMAIN fib, name) : fib[p] # <<>>}

(* Longest-prefix match: the hops of the longest matching prefix.           *)
FibLookup(fib, name) ==
  LET best == Longest(Matching(fib, name))
  IN IF best = {} THEN <<>> ELSE fib[CHOOSE p \in best : TRUE]
=============================================================================
