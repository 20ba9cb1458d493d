--------------------------- MODULE ForwarderProofs ---------------------------
(***************************************************************************)
(* Safety of the FIB and of the forwarding engine for every set of names,   *)
(* faces, tasks, Interests and bounds.                                      *)
(*                                                                          *)
(* Each operation of the FIB either shortens a list by one face (Without)   *)
(* or upserts one (Upsert); both keep a sorted list of distinct faces       *)
(* sorted and distinct.  The inductive invariant of the engine joins the    *)
(* types with the shape of a thread's local state, the registration of      *)
(* waiters, the ownership of PIT entries and the names of answers.          *)
(***************************************************************************)
EXTENDS Forwarder, TLAPS, FiniteSetTheorems, WellFoundedInduction

-----------------------------------------------------------------------------
(* What the operations make of any list of hops.                            *)

(* A non-empty set of naturals has a least member: what makes "the first    *)
(* place that ..." of the FIB operations well defined.                      *)
LEMMA LeastNatural ==
  ASSUME NEW T \in SUBSET Nat, T # {}
  PROVE  \E x \in T : \A y \in T : x <= y
<1>1. PICK x \in T : \A y \in T : ~(<<y, x>> \in OpToRel(<, Nat))
  BY NatLessThanWellFounded, WFMin
<1>2. ASSUME NEW y \in T PROVE x <= y
  <2>1. x \in Nat /\ y \in Nat
    OBVIOUS
  <2>2. ~(y < x)
    BY <1>1, <2>1 DEF OpToRel
  <2> QED BY <2>1, <2>2
<1> QED BY <1>2

(* Position is a place of the list that holds the face, or the place after  *)
(* the last one when no place does.                                         *)
LEMMA PositionType ==
  ASSUME NEW H, NEW hops \in Seq(H), NEW face
  PROVE  /\ Position(hops, face) \in 1..(Len(hops) + 1)
         /\ Position(hops, face) <= Len(hops) => hops[Position(hops, face)].face = face
         /\ Position(hops, face) > Len(hops) => \A i \in 1..Len(hops) : hops[i].face # face
<1>1. Len(hops) \in Nat /\ DOMAIN hops = 1..Len(hops)
  OBVIOUS
<1>2. CASE \E i \in DOMAIN hops : hops[i].face = face
  <2>1. Position(hops, face) \in DOMAIN hops /\ hops[Position(hops, face)].face = face
    BY <1>2 DEF Position
  <2> QED BY <1>1, <2>1
<1>3. CASE ~ \E i \in DOMAIN hops : hops[i].face = face
  BY <1>1, <1>3 DEF Position
<1> QED BY <1>2, <1>3

(* Without returns a list of the same kind of hops ...                      *)
LEMMA WithoutType ==
  ASSUME NEW H, NEW hops \in Seq(H), NEW face
  PROVE  Without(hops, face) \in Seq(H)
<1> DEFINE at == Position(hops, face)
<1>1. at \in 1..(Len(hops) + 1)
  BY PositionType
<1>2. CASE at > Len(hops)
  BY <1>2 DEF Without
<1>3. CASE at <= Len(hops)
  <2> DEFINE s == [i \in 1..(Len(hops) - 1) |-> IF i < at THEN hops[i] ELSE hops[i + 1]]
  <2>1. Len(hops) - 1 \in Nat
    BY <1>1, <1>3
  <2>2. \A i \in 1..(Len(hops) - 1) : s[i] \in H
    BY <1>1
  <2>3. s \in Seq(H)
    BY <2>1, <2>2
  <2> QED BY <1>1, <1>3, <2>3 DEF Without
<1> QED BY <1>1, <1>2, <1>3

(* ... and the insertion point that a sort would find exists.               *)
LEMMA SlotExists ==
  ASSUME NEW H, NEW hops \in Seq(H), NEW at, NEW cost
  PROVE  LET k == Slot(hops, at, cost)
         IN /\ k \in 1..(Len(hops) + 1)
            /\ \A i \in 1..(k - 1) : ~Follows(hops, i, at, cost)
            /\ k <= Len(hops) => Follows(hops, k, at, cost)
<1> DEFINE T == {k \in 1..(Len(hops) + 1) : k <= Len(hops) => Follows(hops, k, at, cost)}
<1>1. Len(hops) \in Nat
  OBVIOUS
<1>2. Len(hops) + 1 \in T
  BY <1>1
<1>3. T \in SUBSET Nat /\ T # {}
  BY <1>1, <1>2
<1> HIDE DEF T
<1>4. PICK k \in T : \A y \in T : k <= y
  BY <1>3, LeastNatural
<1> USE DEF T
<1>5. \A i \in 1..(k - 1) : ~Follows(hops, i, at, cost)
  <2> SUFFICES ASSUME NEW i \in 1..(k - 1), Follows(hops, i, at, cost) PROVE FALSE
    OBVIOUS
  <2>1. i \in T
    BY <1>1, <1>4
  <2> QED BY <1>1, <1>4, <2>1
<1>6. \E x \in 1..(Len(hops) + 1) :
        /\ \A i \in 1..(x - 1) : ~Follows(hops, i, at, cost)
        /\ x <= Len(hops) => Follows(hops, x, at, cost)
  BY <1>4, <1>5
<1> HIDE DEF T
<1> QED BY <1>6 DEF Slot

(* Upsert returns a list of hops.                                           *)
LEMMA UpsertType ==
  ASSUME NEW F, NEW C, NEW hops \in Seq([face : F, cost : C]), NEW face \in F, NEW cost \in C
  PROVE  Upsert(hops, face, cost) \in Seq([face : F, cost : C])
<1> DEFINE H    == [face : F, cost : C]
           rest == Without(hops, face)
           k    == Slot(rest, Position(hops, face), cost)
           s    == [i \in 1..(Len(rest) + 1) |->
                      IF i < k THEN rest[i]
                      ELSE IF i = k THEN [face |-> face, cost |-> cost]
                      ELSE rest[i - 1]]
<1>1. rest \in Seq(H)
  BY WithoutType
<1>2. k \in 1..(Len(rest) + 1)
  BY <1>1, SlotExists
<1>3. [face |-> face, cost |-> cost] \in H
  OBVIOUS
<1> HIDE DEF rest, k, H
<1>4. Len(rest) \in Nat /\ \A i \in 1..Len(rest) : rest[i] \in H
  BY <1>1
<1>5. ASSUME NEW i \in 1..(Len(rest) + 1) PROVE s[i] \in H
  <2>1. CASE i < k
    <3>1. i \in 1..Len(rest)
      BY <1>2, <1>4, <2>1
    <3> QED BY <1>4, <2>1, <3>1
  <2>2. CASE i = k
    BY <1>3, <2>2
  <2>3. CASE i > k
    <3>1. i - 1 \in 1..Len(rest)
      BY <1>2, <1>4, <2>3
    <3> QED BY <1>2, <1>4, <2>3, <3>1
  <2> QED BY <1>2, <1>4, <2>1, <2>2, <2>3
<1>6. s \in Seq(H)
  BY <1>4, <1>5
<1> QED BY <1>6 DEF Upsert, rest, k, H

-----------------------------------------------------------------------------

(* A table whose lists are all sorted and free of duplicates.               *)
FibInv == FibTypeOK /\ CheapestFirst

(* Removing a face keeps order and distinctness, and the face is gone.      *)
LEMMA WithoutKeeps ==
  ASSUME NEW hops \in Seq(Hop), Sorted(hops), Distinct(hops), NEW face
  PROVE  /\ Sorted(Without(hops, face))
         /\ Distinct(Without(hops, face))
         /\ \A i \in DOMAIN Without(hops, face) : Without(hops, face)[i].face # face
<1> DEFINE at == Position(hops, face)
<1>1. /\ at \in 1..(Len(hops) + 1)
      /\ at <= Len(hops) => hops[at].face = face
      /\ at > Len(hops) => \A i \in 1..Len(hops) : hops[i].face # face
  BY PositionType
<1>2. Len(hops) \in Nat /\ DOMAIN hops = 1..Len(hops)
  OBVIOUS
<1> HIDE DEF at
<1>3. CASE at > Len(hops)
  <2>1. Without(hops, face) = hops
    BY <1>3 DEF Without, at
  <2> QED BY <1>1, <1>2, <1>3, <2>1
<1>4. CASE at <= Len(hops)
  <2> DEFINE s == [i \in 1..(Len(hops) - 1) |-> IF i < at THEN hops[i] ELSE hops[i + 1]]
             Old(i) == IF i < at THEN i ELSE i + 1
  <2>1. Without(hops, face) = s
    BY <1>1, <1>2, <1>4 DEF Without, at
  <2>2. \A i \in DOMAIN s : Old(i) \in DOMAIN hops /\ s[i] = hops[Old(i)] /\ Old(i) # at
    BY <1>1, <1>2, <1>4
  <2>3. \A i, j \in DOMAIN s : (i < j => Old(i) < Old(j)) /\ (Old(i) = Old(j) => i = j)
    BY <1>1, <1>2, <1>4
  <2>4. at \in DOMAIN hops
    BY <1>1, <1>2, <1>4
  <2> HIDE DEF s, Old
  <2>5. Sorted(s)
    BY <2>2, <2>3 DEF Sorted
  <2>6. Distinct(s)
    BY <2>2, <2>3 DEF Distinct
  <2>7. \A i \in DOMAIN s : s[i].face # face
    BY <1>1, <1>4, <2>2, <2>4 DEF Distinct
  <2> QED BY <2>1, <2>5, <2>6, <2>7
<1> QED BY <1>1, <1>2, <1>3, <1>4

(* A hop put at its slot of a sorted list leaves the list sorted.           *)
LEMMA UpsertKeeps ==
  ASSUME Costs \subseteq Nat,
         NEW hops \in Seq(Hop), Sorted(hops), Distinct(hops),
         NEW face \in Faces, NEW cost \in Costs
  PROVE  Sorted(Upsert(hops, face, cost)) /\ Distinct(Upsert(hops, face, cost))
<1> DEFINE rest == Without(hops, face)
           at   == Position(hops, face)
           k    == Slot(rest, at, cost)
           new  == [face |-> face, cost |-> cost]
           s    == [i \in 1..(Len(rest) + 1) |->
                      IF i < k THEN rest[i] ELSE IF i = k THEN new ELSE rest[i - 1]]
<1>1. rest \in Seq(Hop)
  BY WithoutType
<1>2. Sorted(rest) /\ Distinct(rest) /\ \A i \in DOMAIN rest : rest[i].face # face
  BY WithoutKeeps
<1>3. /\ k \in 1..(Len(rest) + 1)
      /\ \A i \in 1..(k - 1) : ~Follows(rest, i, at, cost)
      /\ k <= Len(rest) => Follows(rest, k, at, cost)
  BY <1>1, SlotExists
<1>4. Upsert(hops, face, cost) = s
  BY DEF Upsert
<1> HIDE DEF rest, at, k
<1>5. Len(rest) \in Nat /\ DOMAIN rest = 1..Len(rest)
  BY <1>1
<1>6. \A i \in DOMAIN rest : rest[i] \in Hop
  BY <1>1, <1>5
<1>7. \A i \in DOMAIN rest : rest[i].cost \in Nat
  BY <1>6 DEF Hop
<1>8. cost \in Nat
  OBVIOUS
<1>9. \A i \in DOMAIN rest : i < k => rest[i].cost <= cost
  BY <1>3, <1>5, <1>7, <1>8 DEF Follows
<1>10. \A i \in DOMAIN rest : i >= k => cost <= rest[i].cost
  <2> SUFFICES ASSUME NEW i \in DOMAIN rest, i >= k PROVE cost <= rest[i].cost
    OBVIOUS
  <2>1. k \in DOMAIN rest /\ cost <= rest[k].cost
    BY <1>3, <1>5, <1>7, <1>8 DEF Follows
  <2>2. rest[k].cost <= rest[i].cost
    BY <1>2, <1>3, <1>5, <1>7, <2>1 DEF Sorted
  <2> QED BY <1>7, <1>8, <2>1, <2>2
<1>11. \A i \in DOMAIN s : /\ i < k => i \in DOMAIN rest /\ s[i] = rest[i]
                           /\ i = k => s[i] = new
                           /\ i > k => i - 1 \in DOMAIN rest /\ i - 1 >= k /\ s[i] = rest[i - 1]
  BY <1>3, <1>5
<1>12. DOMAIN s = 1..(Len(rest) + 1)
  OBVIOUS
<1>13. new.cost = cost /\ new.face = face
  OBVIOUS
<1> HIDE DEF s, new
<1>14. Sorted(s)
  <2> SUFFICES ASSUME NEW i \in DOMAIN s, NEW j \in DOMAIN s, i < j
               PROVE  s[i].cost <= s[j].cost
    BY DEF Sorted
  <2>1. i \in Nat /\ j \in Nat /\ k \in Nat
    BY <1>3, <1>5, <1>12
  <2>2. CASE j < k
    BY <1>2, <1>11, <2>1, <2>2 DEF Sorted
  <2>3. CASE j = k
    BY <1>9, <1>11, <1>13, <2>1, <2>3
  <2>4. CASE i < k /\ k < j
    <3>1. s[i].cost <= cost /\ cost <= s[j].cost
      BY <1>9, <1>10, <1>11, <2>1, <2>4
    <3>2. s[i].cost \in Nat /\ s[j].cost \in Nat
      BY <1>7, <1>11, <2>1, <2>4
    <3> QED BY <1>8, <3>1, <3>2
  <2>5. CASE i = k /\ k < j
    BY <1>10, <1>11, <1>13, <2>1, <2>5
  <2>6. CASE k < i
    BY <1>2, <1>11, <2>1, <2>6 DEF Sorted
  <2> QED BY <2>1, <2>2, <2>3, <2>4, <2>5, <2>6
<1>15. Distinct(s)
  <2> SUFFICES ASSUME NEW i \in DOMAIN s, NEW j \in DOMAIN s, i < j, s[i].face = s[j].face
               PROVE  FALSE
    BY <1>5, <1>12 DEF Distinct
  <2>1. i \in Nat /\ j \in Nat /\ k \in Nat
    BY <1>3, <1>5, <1>12
  <2>2. CASE i = k \/ j = k
    BY <1>2, <1>11, <1>13, <2>1, <2>2
  <2>3. CASE j < k
    BY <1>2, <1>11, <2>1, <2>3 DEF Distinct
  <2>4. CASE i < k /\ k < j
    <3>1. i # j - 1
      BY <2>1, <2>4, <1>11
    <3> QED BY <1>2, <1>11, <2>1, <2>4, <3>1 DEF Distinct
  <2>5. CASE k < i
    BY <1>2, <1>11, <2>1, <2>5 DEF Distinct
  <2> QED BY <2>1, <2>2, <2>3, <2>4, <2>5
<1> QED BY <1>4, <1>14, <1>15

(* Every operation of the FIB keeps the table well formed: cheapest first,  *)
(* one hop per face, whatever sequence of inserts and removals is made.     *)
THEOREM FibWellFormed == FibSpec => [](FibTypeOK /\ CheapestFirst)
<1>1. FibInit => FibInv
  BY DEF FibInit, FibInv, FibTypeOK, CheapestFirst, Sorted, Distinct
<1>2. FibInv /\ [FibNext]_fib => FibInv'
  <2> SUFFICES ASSUME FibInv, [FibNext]_fib PROVE FibInv'
    OBVIOUS
  <2>1. \A p \in Names : fib[p] \in Seq(Hop) /\ Sorted(fib[p]) /\ Distinct(fib[p])
    BY DEF FibInv, FibTypeOK, CheapestFirst
  <2>2. fib = [p \in Names |-> fib[p]] /\ DOMAIN fib = Names
    BY DEF FibInv, FibTypeOK
  <2> DEFINE Kept == /\ fib' = [p \in Names |-> fib'[p]]
                     /\ \A p \in Names : fib'[p] \in Seq(Hop) /\ Sorted(fib'[p]) /\ Distinct(fib'[p])
  <2>3. SUFFICES Kept
    BY DEF FibInv, FibTypeOK, CheapestFirst
  <2>4. ASSUME NEW p \in Names, NEW f \in Faces
        PROVE  LET w == Without(fib[p], f) IN w \in Seq(Hop) /\ Sorted(w) /\ Distinct(w)
    BY <2>1, WithoutType, WithoutKeeps
  <2>5. <<>> \in Seq(Hop) /\ Sorted(<<>>) /\ Distinct(<<>>)
    BY DEF Sorted, Distinct
  <2>6. CASE UNCHANGED fib
    BY <2>1, <2>2, <2>6
  <2>7. ASSUME NEW p \in Names, NEW f \in Faces, NEW c \in Costs, Insert(p, f, c)
        PROVE  Kept
    <3> DEFINE u == Upsert(fib[p], f, c)
    <3>1. u \in Seq(Hop)
      BY <2>1, UpsertType DEF Hop
    <3>2. Sorted(u) /\ Distinct(u)
      BY <2>1, UpsertKeeps, FibAssumption
    <3>3. fib' = [fib EXCEPT ![p] = u]
      BY <2>7 DEF Insert, FibInsert
    <3> HIDE DEF u
    <3> QED BY <2>1, <2>2, <3>1, <3>2, <3>3
  <2>8. ASSUME NEW p \in Names, NEW f \in Faces, RemoveFace(p, f)
        PROVE  Kept
    BY <2>1, <2>2, <2>4, <2>8 DEF RemoveFace, FibRemoveFace
  <2>9. ASSUME NEW p \in Names, RemovePrefix(p)
        PROVE  Kept
    BY <2>1, <2>2, <2>5, <2>9 DEF RemovePrefix, FibRemovePrefix
  <2>10. ASSUME NEW f \in Faces, RemoveAllForFace(f)
         PROVE  Kept
    BY <2>1, <2>2, <2>4, <2>10 DEF RemoveAllForFace, FibRemoveAllForFace
  <2> QED BY <2>6, <2>7, <2>8, <2>9, <2>10 DEF FibNext
<1>3. FibInv => FibTypeOK /\ CheapestFirst
  BY DEF FibInv
<1> QED BY <1>1, <1>2, <1>3, PTL DEF FibSpec

(* Withdrawing a face takes its hop out of a list and nothing else.         *)
LEMMA WithoutExact ==
  ASSUME NEW hops \in Seq(Hop), Sorted(hops), Distinct(hops), NEW face
  PROVE  LET w == Without(hops, face)
         IN {w[i] : i \in DOMAIN w} = {h \in {hops[i] : i \in DOMAIN hops} : h.face # face}
<1> DEFINE at == Position(hops, face)
           w  == Without(hops, face)
<1>1. /\ at \in 1..(Len(hops) + 1)
      /\ at <= Len(hops) => hops[at].face = face
      /\ at > Len(hops) => \A i \in 1..Len(hops) : hops[i].face # face
  BY PositionType
<1>2. Len(hops) \in Nat /\ DOMAIN hops = 1..Len(hops)
  OBVIOUS
<1>3. w = IF at > Len(hops) THEN hops
          ELSE [i \in 1..(Len(hops) - 1) |-> IF i < at THEN hops[i] ELSE hops[i + 1]]
  BY DEF Without
<1>4. \A i \in DOMAIN w : w[i].face # face
  BY WithoutKeeps
<1> HIDE DEF at, w
<1>5. \A i \in DOMAIN w : \E j \in DOMAIN hops : w[i] = hops[j]
  BY <1>1, <1>2, <1>3
<1>6. ASSUME NEW j \in DOMAIN hops, hops[j].face # face
      PROVE  \E i \in DOMAIN w : w[i] = hops[j]
  <2>1. CASE at > Len(hops)
    BY <1>3, <2>1
  <2>2. CASE at <= Len(hops) /\ j < at
    BY <1>1, <1>2, <1>3, <2>2
  <2>3. CASE at <= Len(hops) /\ at < j
    <3>1. j - 1 \in 1..(Len(hops) - 1) /\ ~(j - 1 < at) /\ (j - 1) + 1 = j
      BY <1>1, <1>2, <2>3
    <3>2. j - 1 \in DOMAIN w /\ w[j - 1] = hops[j]
      BY <1>1, <1>2, <1>3, <2>3, <3>1
    <3> QED BY <3>2
  <2>4. ~(at <= Len(hops) /\ j = at)
    BY <1>1, <1>6
  <2> QED BY <1>1, <1>2, <2>1, <2>2, <2>3, <2>4
<1> QED BY <1>4, <1>5, <1>6 DEF w

(* A withdrawal leaves no route through the face and every other hop with   *)
(* its cost (Fib.remove_all_for_face).                                      *)
THEOREM WithdrawalExact == FibSpec => WithdrawalIsExact
<1> DEFINE Step ==
      \A f \in Faces : RemoveAllForFace(f) =>
        \A p \in Names :
          {fib'[p][i] : i \in DOMAIN fib'[p]}
            = {h \in {fib[p][i] : i \in DOMAIN fib[p]} : h.face # f}
<1>1. FibTypeOK /\ CheapestFirst => Step
  <2> SUFFICES ASSUME FibTypeOK, CheapestFirst,
                      NEW f \in Faces, RemoveAllForFace(f), NEW p \in Names
               PROVE  {fib'[p][i] : i \in DOMAIN fib'[p]}
                        = {h \in {fib[p][i] : i \in DOMAIN fib[p]} : h.face # f}
    OBVIOUS
  <2>1. fib'[p] = Without(fib[p], f)
    BY DEF RemoveAllForFace, FibRemoveAllForFace, FibTypeOK
  <2>2. fib[p] \in Seq(Hop) /\ Sorted(fib[p]) /\ Distinct(fib[p])
    BY DEF FibTypeOK, CheapestFirst
  <2> QED BY <2>1, <2>2, WithoutExact
<1>2. FibTypeOK /\ CheapestFirst /\ [FibNext]_fib => [Step]_fib
  BY <1>1
<1> HIDE DEF Step
<1>3. FibSpec => [][Step]_fib
  BY <1>2, FibWellFormed, PTL DEF FibSpec
<1> QED BY <1>3, PTL DEF Step, WithdrawalIsExact

(* Prefixes of one name have a longest member: their lengths are bounded by *)
(* the name's.                                                              *)
LEMMA LongestExists ==
  ASSUME Names \subseteq Seq(Components), NEW n \in Names,
         NEW M \in SUBSET Names, M # {}, \A p \in M : StartsWith(n, p)
  PROVE  Longest(M) # {}
<1> DEFINE T == {Len(n) - Len(p) : p \in M}
<1>1. \A p \in M : Len(p) \in Nat /\ Len(p) <= Len(n)
  BY DEF StartsWith
<1>2. Len(n) \in Nat
  OBVIOUS
<1>3. T \in SUBSET Nat /\ T # {}
  BY <1>1, <1>2
<1> HIDE DEF T
<1>4. PICK x \in T : \A y \in T : x <= y
  BY <1>3, LeastNatural
<1>5. PICK p \in M : x = Len(n) - Len(p)
  BY DEF T
<1>6. ASSUME NEW q \in M PROVE Len(q) <= Len(p)
  <2>1. Len(n) - Len(q) \in T
    BY DEF T
  <2> QED BY <1>1, <1>2, <1>4, <1>5, <2>1
<1> QED BY <1>6 DEF Longest

(* ... and only one: prefixes of one name and length are equal.             *)
LEMMA LongestUnique ==
  ASSUME Names \subseteq Seq(Components), NEW n \in Names,
         NEW M \in SUBSET Names, \A p \in M : StartsWith(n, p),
         NEW p \in Longest(M), NEW q \in Longest(M)
  PROVE  p = q
<1>1. p \in Seq(Components) /\ q \in Seq(Components) /\ Len(p) = Len(q)
  <2>1. p \in M /\ q \in M /\ Len(p) <= Len(q) /\ Len(q) <= Len(p)
    BY DEF Longest
  <2>2. p \in Seq(Components) /\ q \in Seq(Components)
    BY <2>1
  <2> QED BY <2>1, <2>2
<1>2. \A i \in 1..Len(p) : p[i] = q[i]
  BY <1>1 DEF Longest, StartsWith
<1> QED BY <1>1, <1>2

LEMMA EmptyDomain ==
  ASSUME NEW S, NEW s \in Seq(S)
  PROVE  s = <<>> <=> DOMAIN s = {}
<1>1. Len(s) \in Nat /\ DOMAIN s = 1..Len(s)
  OBVIOUS
<1>2. DOMAIN s = {} => Len(s) = 0
  BY <1>1
<1>3. Len(s) = 0 => s = <<>>
  OBVIOUS
<1> QED BY <1>2, <1>3

(* After a withdrawal lookup falls through to what is left of the longest   *)
(* prefix that another face backs (withdraw_face).                          *)
THEOREM WithdrawalFalls == FibSpec => WithdrawalFallsThrough
<1> DEFINE Backed(f, n) == {p \in Names : /\ StartsWith(n, p)
                                          /\ \E i \in DOMAIN fib[p] : fib[p][i].face # f}
           Found(n) == FibLookup(fib', n)
           Falls(f, n) ==
             /\ Backed(f, n) = {} => Found(n) = <<>>
             /\ Sorted(Found(n))
             /\ \A p \in Longest(Backed(f, n)) :
                  {Found(n)[i] : i \in DOMAIN Found(n)}
                    = {h \in {fib[p][i] : i \in DOMAIN fib[p]} : h.face # f}
           Step == \A f \in Faces, n \in Names : RemoveAllForFace(f) => Falls(f, n)
<1>1. FibTypeOK /\ CheapestFirst => Step
  <2> SUFFICES ASSUME FibTypeOK, CheapestFirst,
                      NEW f \in Faces, NEW n \in Names, RemoveAllForFace(f)
               PROVE  Falls(f, n)
    OBVIOUS
  <2> DEFINE Left(p) == Without(fib[p], f)
             M == Backed(f, n)
  <2>1. fib' = [p \in Names |-> Left(p)]
    BY DEF RemoveAllForFace, FibRemoveAllForFace, FibTypeOK
  <2>2. ASSUME NEW p \in Names
        PROVE  /\ Left(p) \in Seq(Hop) /\ Sorted(Left(p))
               /\ {Left(p)[i] : i \in DOMAIN Left(p)}
                    = {h \in {fib[p][i] : i \in DOMAIN fib[p]} : h.face # f}
    <3>1. fib[p] \in Seq(Hop) /\ Sorted(fib[p]) /\ Distinct(fib[p])
      BY DEF FibTypeOK, CheapestFirst
    <3> QED BY <3>1, WithoutType, WithoutKeeps, WithoutExact
  <2> HIDE DEF Left
  <2>3. ASSUME NEW p \in Names
        PROVE  Left(p) # <<>> <=> \E i \in DOMAIN fib[p] : fib[p][i].face # f
    <3>1. Left(p) # <<>> <=> {Left(p)[i] : i \in DOMAIN Left(p)} # {}
      <4>1. Left(p) # <<>> <=> DOMAIN Left(p) # {}
        BY <2>2, EmptyDomain
      <4> QED BY <4>1, Zenon
    <3>2. (\E i \in DOMAIN fib[p] : fib[p][i].face # f)
            <=> {h \in {fib[p][i] : i \in DOMAIN fib[p]} : h.face # f} # {}
      BY Zenon
    <3> QED BY <2>2, <3>1, <3>2
  <2>4. Matching(fib', n) = M
    BY <2>1, <2>3 DEF Matching, PrefixesIn
  <2>5. M \in SUBSET Names /\ \A p \in M : StartsWith(n, p)
    OBVIOUS
  <2> HIDE DEF M
  <2>6. Found(n) = IF Longest(M) = {} THEN <<>>
                   ELSE Left(CHOOSE p \in Longest(M) : TRUE)
    <3> DEFINE best == CHOOSE p \in Longest(M) : TRUE
    <3>1. Longest(M) # {} => best \in Names
      BY <2>5 DEF Longest
    <3>2. Found(n) = IF Longest(M) = {} THEN <<>> ELSE fib'[best]
      <4>1. ASSUME NEW m, m = Matching(fib', n)
            PROVE  Found(n) = IF Longest(m) = {} THEN <<>>
                              ELSE fib'[CHOOSE p \in Longest(m) : TRUE]
        BY <4>1 DEF FibLookup
      <4> QED BY <2>4, <4>1, Zenon
    <3> HIDE DEF best
    <3>3. Longest(M) # {} => fib'[best] = Left(best)
      BY <2>1, <3>1
    <3> USE DEF best
    <3> QED BY <3>2, <3>3, Zenon
  <2> DEFINE Hs(p) == {h \in {fib[p][i] : i \in DOMAIN fib[p]} : h.face # f}
             Fs == {Found(n)[i] : i \in DOMAIN Found(n)}
  <2> HIDE DEF Found
  <2>0. SUFFICES /\ M = {} => Found(n) = <<>>
                 /\ Sorted(Found(n))
                 /\ \A p \in Longest(M) : Fs = Hs(p)
    BY Zenon DEF M
  <2>7. CASE M = {}
    <3>1. Longest(M) = {}
      BY <2>7 DEF Longest
    <3>2. Sorted(<<>>)
      BY DEF Sorted
    <3> QED BY <2>6, <2>7, <3>1, <3>2
  <2>8. CASE M # {}
    <3>1. Longest(M) # {}
      BY <2>5, <2>8, LongestExists, FibAssumption
    <3>2. PICK p \in Longest(M) : Found(n) = Left(p)
      BY <2>6, <3>1
    <3>3. p \in Names
      BY <2>5 DEF Longest
    <3>4. \A q \in Longest(M) : q = p
      BY <2>5, LongestUnique, FibAssumption
    <3>5. Sorted(Found(n)) /\ Fs = Hs(p)
      BY <2>2, <3>2, <3>3, Zenon
    <3> QED BY <2>8, <3>4, <3>5
  <2> QED BY <2>7, <2>8
<1>2. FibTypeOK /\ CheapestFirst /\ [FibNext]_fib => [Step]_fib
  BY <1>1
<1> HIDE DEF Step
<1>3. FibSpec => [][Step]_fib
  BY <1>2, FibWellFormed, PTL DEF FibSpec
<1> QED BY <1>3, PTL DEF Step, Falls, Found, Backed, WithdrawalFallsThrough

-----------------------------------------------------------------------------
(* The engine's own use of the FIB.                                         *)

Hops == Seq([face : Faces, cost : Nat])

LEMMA HopsType ==
  ASSUME NEW hops \in Hops
  PROVE  /\ \A face : Position(hops, face) \in Nat /\ Without(hops, face) \in Hops
         /\ \A face \in Faces, cost \in Nat : Upsert(hops, face, cost) \in Hops
<1>1. Len(hops) \in Nat
  BY DEF Hops
<1>2. ASSUME NEW face PROVE Position(hops, face) \in Nat /\ Without(hops, face) \in Hops
  BY <1>1, PositionType, WithoutType DEF Hops
<1>3. ASSUME NEW face \in Faces, NEW cost \in Nat PROVE Upsert(hops, face, cost) \in Hops
  BY UpsertType DEF Hops
<1> QED BY <1>2, <1>3

(* What a thread's local variables hold in each of its control states.      *)
Shape ==
  \A t \in Threads :
    /\ pc[t] \in {"scheduled", "waiting", "forwarding"} => req[t] \in Interest
    /\ pc[t] = "forwarding" => out[t] \in Faces
    /\ got[t] # None => /\ req[t] \in Interest
                        /\ pc[t] = "done" \/ (Parked(t) /\ fut[t] = "data")
    /\ Parked(t) /\ fut[t] = "data" => got[t] \in Packet

(* Types and shape.                                                         *)
TypeInv == TypeOK /\ Shape

(* Without cancellation every PIT entry has its forward.                    *)
Owned == Cancellable = {} => EntryHasOwner

(* A bounded table, and a PIT: bounded, with one entry per name.            *)
Capped(S, max) == IsFiniteSet(S) /\ Cardinality(S) <= max
PitOk(p) == Capped(p, PitMax) /\ \A e, x \in p : e.name = x.name => e = x

ThreadInv == ThreadsTyped /\ Shape /\ WaitersRegistered /\ Owned /\ AnswersUnderName
TableInv  == TablesTyped /\ PitOk(pit) /\ Capped(nonces, NonceMax)

(* The inductive invariant.                                                 *)
IInv == ThreadInv /\ TableInv

-----------------------------------------------------------------------------
(* The tables a bounded insertion may return hold nothing but the old       *)
(* members and the new one.                                                 *)
LEMMA AdmitSubset ==
  ASSUME NEW S, NEW x, NEW max, NEW q \in Admit(S, x, max)
  PROVE  q \subseteq S \cup {x} /\ x \in q
BY DEF Admit

LEMMA InsertSubset ==
  ASSUME NEW p, NEW e, NEW max, NEW q \in InsertOrAggregate(p, e, max)
  PROVE  q \subseteq p \cup {e}
BY AdmitSubset DEF InsertOrAggregate

(* A bounded insertion never outgrows its bound: at the bound a member that *)
(* expires soonest makes room (Pit._evict_nearest_expiry, record_nonce).    *)
LEMMA AdmitCapped ==
  ASSUME NEW S, NEW x, NEW max \in Nat \ {0}, Capped(S, max), NEW q \in Admit(S, x, max)
  PROVE  Capped(q, max)
<1>1. IsFiniteSet(S) /\ Cardinality(S) \in Nat /\ Cardinality(S) <= max
  BY FS_CardinalityType DEF Capped
<1>2. CASE Cardinality(S) >= max
  <2>1. PICK v \in NearestExpiry(S) : q = (S \ {v}) \cup {x}
    BY <1>2 DEF Admit
  <2>2. v \in S
    BY <2>1 DEF NearestExpiry
  <2>3. IsFiniteSet(S \ {v}) /\ Cardinality(S \ {v}) = Cardinality(S) - 1
    BY <1>1, <2>2, FS_RemoveElement
  <2> DEFINE rest == S \ {v}
  <2>4. Cardinality(rest) \in Nat
    BY <2>3, FS_CardinalityType
  <2> HIDE DEF rest
  <2>5. IsFiniteSet(rest \cup {x}) /\ Cardinality(rest \cup {x}) <= Cardinality(rest) + 1
    BY <2>3, <2>4, FS_AddElement DEF rest
  <2>6. Cardinality(rest \cup {x}) \in Nat
    BY <2>5, FS_CardinalityType
  <2>7. q = rest \cup {x} /\ Cardinality(rest) = Cardinality(S) - 1
    BY <2>1, <2>3 DEF rest
  <2> QED BY <1>1, <2>4, <2>5, <2>6, <2>7 DEF Capped
<1>3. CASE ~(Cardinality(S) >= max)
  <2>1. q = S \cup {x}
    BY <1>3 DEF Admit
  <2>2. IsFiniteSet(q) /\ Cardinality(q) <= Cardinality(S) + 1
    BY <1>1, <2>1, FS_AddElement
  <2>3. Cardinality(q) \in Nat
    BY <2>2, FS_CardinalityType
  <2> QED BY <1>1, <1>3, <2>2, <2>3 DEF Capped
<1> QED BY <1>2, <1>3

LEMMA InsertOk ==
  ASSUME NEW p, NEW e, PitOk(p), NEW q \in InsertOrAggregate(p, e, PitMax)
  PROVE  PitOk(q)
<1>1. PitMax \in Nat \ {0}
  BY ForwarderAssumption
<1>2. CASE Pending(p, e.name)
  BY <1>2 DEF InsertOrAggregate
<1>3. CASE ~Pending(p, e.name)
  <2>1. q \in Admit(p, e, PitMax)
    BY <1>3 DEF InsertOrAggregate
  <2>2. Capped(q, PitMax)
    BY <1>1, <2>1, AdmitCapped DEF PitOk
  <2>3. q \subseteq p \cup {e}
    BY <2>1, AdmitSubset
  <2> QED BY <1>3, <2>2, <2>3 DEF PitOk, Pending
<1> QED BY <1>2, <1>3

(* Any part of a PIT is a PIT.                                              *)
LEMMA SubsetOk ==
  ASSUME NEW p, PitOk(p), NEW q \in SUBSET p
  PROVE  PitOk(q)
<1>1. IsFiniteSet(q) /\ Cardinality(q) <= Cardinality(p)
  BY FS_Subset DEF PitOk, Capped
<1>2. Cardinality(q) \in Nat /\ Cardinality(p) \in Nat /\ PitMax \in Nat
  BY <1>1, FS_CardinalityType, ForwarderAssumption DEF PitOk, Capped
<1> QED BY <1>1, <1>2 DEF PitOk, Capped

(* The cost order of a hop list picks a member of any non-empty set.        *)
LEMMA FirstOfType ==
  ASSUME NEW hops \in Hops, NEW S, S # {}
  PROVE  FirstOf(hops, S) \in S
<1> DEFINE T == {Position(hops, f) : f \in S}
<1>1. \A f \in S : Position(hops, f) \in Nat
  BY HopsType
<1>2. T \in SUBSET Nat /\ T # {}
  BY <1>1
<1> HIDE DEF T
<1>3. PICK x \in T : \A y \in T : x <= y
  BY <1>2, LeastNatural
<1> USE DEF T
<1>4. \E f \in S : \A g \in S : Position(hops, f) <= Position(hops, g)
  BY <1>3
<1> QED BY <1>4 DEF FirstOf

(* Fib.lookup returns a hop list.                                           *)
LEMMA LookupType ==
  ASSUME fib \in [Names -> Hops], NEW n
  PROVE  FibLookup(fib, n) \in Hops
<1>1. CASE Longest(Matching(fib, n)) = {}
  BY <1>1 DEF FibLookup, Hops
<1>2. CASE Longest(Matching(fib, n)) # {}
  <2>1. (CHOOSE p \in Longest(Matching(fib, n)) : TRUE) \in Names
    BY <1>2 DEF Longest, Matching, PrefixesIn
  <2> QED BY <1>2, <2>1 DEF FibLookup
<1> QED BY <1>1, <1>2

(* The faces of a hop list are faces.                                       *)
LEMMA HopFacesType ==
  ASSUME NEW hops \in Hops
  PROVE  HopFaces(hops) \subseteq Faces
<1> DEFINE H == [face : Faces, cost : Nat]
<1>1. \A i \in DOMAIN hops : hops[i] \in H
  <2>1. hops \in Seq(H)
    BY DEF Hops
  <2> HIDE DEF H
  <2> QED BY <2>1
<1>2. \A i \in DOMAIN hops : hops[i].face \in Faces
  BY <1>1
<1> QED BY <1>2 DEF HopFaces

-----------------------------------------------------------------------------
(* A thread that ends is well formed again.                                 *)
LEMMA EndsKeeps ==
  ASSUME TypeInv, NEW t \in Threads, NEW r \in Interest, NEW a \in Packet \cup {None},
         Ends(t, r, a)
  PROVE  ThreadsTyped' /\ Shape'
<1>1. ThreadsTyped'
  <2>1. <<>> \in Hops
    BY DEF Hops
  <2>2. plan' \in [Threads -> Hops]
    BY <2>1 DEF TypeInv, TypeOK, ThreadsTyped, Ends, Hops
  <2>3. /\ pc' \in [Threads -> {"idle", "scheduled", "waiting", "forwarding", "done"}]
        /\ req' \in [Threads -> Interest \cup {None}]
        /\ got' \in [Threads -> Packet \cup {None}]
    BY DEF TypeInv, TypeOK, ThreadsTyped, Ends
  <2>4. /\ left' \in [Threads -> SUBSET Faces]
        /\ out' \in [Threads -> Faces \cup {None}]
        /\ dl' \in [Threads -> Nat]
        /\ fut' \in [Threads -> {"pending", "data", "nack"}]
    BY DEF TypeInv, TypeOK, ThreadsTyped, Ends
  <2> QED BY <2>2, <2>3, <2>4 DEF ThreadsTyped, Hops
<1>2. Shape'
  BY DEF TypeInv, TypeOK, ThreadsTyped, Shape, Ends, Parked
<1> QED BY <1>1, <1>2

(* A thread that parks is well formed.                                      *)
LEMMA ParksKeeps ==
  ASSUME TypeInv, NEW t \in Threads, NEW r \in Interest,
         NEW state \in {"waiting", "forwarding"}, NEW hops \in Hops,
         NEW rest \in SUBSET Faces, NEW face \in Faces \cup {None},
         state = "forwarding" => face \in Faces,
         Parks(t, r, state, hops, rest, face)
  PROVE  ThreadsTyped' /\ Shape'
<1>1. now + r.life \in Nat
  BY DEF TypeInv, TypeOK, TablesTyped, Interest
<1>2. ThreadsTyped'
  BY <1>1 DEF TypeInv, TypeOK, ThreadsTyped, Parks, Hops
<1>3. Shape'
  BY DEF TypeInv, TypeOK, ThreadsTyped, Shape, Parks, Parked
<1> QED BY <1>2, <1>3

(* The entry a forward makes is a PIT entry.                                *)
LEMMA PitEntryType ==
  ASSUME TypeInv, NEW t \in Threads, NEW r \in Interest
  PROVE  PitEntry(t, r) \in Entry
BY DEF TypeInv, TypeOK, TablesTyped, PitEntry, Entry, Interest

(* A thread that ends, leaving no future registered and no PIT entry of its *)
(* own, with an answer that fits its name if it has one.                    *)
LEMMA EndsInv ==
  ASSUME IInv, NEW t \in Threads, NEW r \in Interest, NEW a \in Packet \cup {None},
         Ends(t, r, a),
         a # None => StartsWith(a.name, r.name),
         \A n \in Names : notif'[n] = notif[n] \ {t},
         pit' \subseteq pit,
         Cancellable = {} => \A e \in pit' : e.owner # t
  PROVE  ThreadInv'
<1>1. ThreadsTyped' /\ Shape'
  BY EndsKeeps DEF IInv, ThreadInv, TableInv, TypeInv, TypeOK
<1>2. WaitersRegistered'
  BY DEF IInv, ThreadInv, ThreadsTyped, WaitersRegistered, Awaits, Ends, Parked
<1>3. Owned'
  BY DEF IInv, ThreadInv, TableInv, ThreadsTyped, TablesTyped, Owned, EntryHasOwner, Ends, Entry
<1>4. AnswersUnderName'
  BY DEF IInv, ThreadInv, ThreadsTyped, AnswersUnderName, Ends
<1> QED BY <1>1, <1>2, <1>3, <1>4 DEF ThreadInv

(* A thread that parks, its new future registered under its name.           *)
LEMMA ParksInv ==
  ASSUME IInv, NEW t \in Threads, NEW r \in Interest,
         NEW state \in {"waiting", "forwarding"}, NEW hops \in Hops,
         NEW rest \in SUBSET Faces, NEW face \in Faces \cup {None},
         state = "forwarding" => face \in Faces,
         Parks(t, r, state, hops, rest, face),
         \A n \in Names : notif'[n] = (notif[n] \ {t}) \cup (IF n = r.name THEN {t} ELSE {}),
         pit' \subseteq pit \cup {PitEntry(t, r)},
         Cancellable = {} =>
           \A e \in pit' : e.owner = t => state = "forwarding" /\ e.name = r.name
  PROVE  ThreadInv'
<1>1. ThreadsTyped' /\ Shape'
  BY ParksKeeps DEF IInv, ThreadInv, TableInv, TypeInv, TypeOK
<1>2. WaitersRegistered'
  BY DEF IInv, ThreadInv, ThreadsTyped, WaitersRegistered, Awaits, Parks, Parked
<1>3. Owned'
  <2> SUFFICES ASSUME Cancellable = {}, NEW e \in pit'
               PROVE  pc'[e.owner] = "forwarding" /\ req'[e.owner].name = e.name
    BY DEF Owned, EntryHasOwner
  <2>1. CASE e.owner = t
    BY <2>1 DEF IInv, ThreadInv, ThreadsTyped, Parks
  <2>2. CASE e.owner # t
    <3>1. e \in pit
      BY <2>2 DEF PitEntry
    <3>2. pc[e.owner] = "forwarding" /\ req[e.owner].name = e.name
      BY <3>1 DEF IInv, ThreadInv, Owned, EntryHasOwner
    <3> QED BY <2>2, <3>1, <3>2 DEF IInv, ThreadInv, TableInv, ThreadsTyped, TablesTyped, Entry, Parks
  <2> QED BY <2>1, <2>2
<1>4. AnswersUnderName'
  BY DEF IInv, ThreadInv, ThreadsTyped, AnswersUnderName, Parks
<1> QED BY <1>1, <1>2, <1>3, <1>4 DEF ThreadInv

(* _forward's loop, entered with the PIT p and the notifiers w that the     *)
(* thread has left: it ends or parks, and the invariants hold again.        *)
LEMMA TryFacesInv ==
  ASSUME IInv, NEW t \in Threads, NEW r \in Interest, NEW hops \in Hops,
         NEW S \in SUBSET Faces, NEW p \in SUBSET pit,
         NEW w \in [Names -> SUBSET Threads],
         \A n \in Names : w[n] = notif[n] \ {t},
         Cancellable = {} => \A e \in p : e.owner # t,
         TryFaces(t, r, hops, S, p, w)
  PROVE  /\ ThreadInv'
         /\ pit' \subseteq Entry /\ PitOk(pit')
         /\ notif' \in [Names -> SUBSET Threads]
         /\ net' \subseteq [face : Faces, name : Names, prefix : BOOLEAN]
<1> DEFINE up    == {f \in S : link[f] = "up"}
           first == FirstOf(hops, up)
           gone  == {f \in S \ up : up = {} \/ FirstOf(hops, {f, first}) = f}
           after == IF gone = {}
                      THEN {p}
                      ELSE {PitRemove(q, r.name) : q \in InsertOrAggregate(p, PitEntry(t, r), PitMax)}
           rest  == {f \in S : f # first /\ f \notin gone}
<1>0. PitOk(p) /\ PitEntry(t, r) \in Entry /\ pit \subseteq Entry
  BY SubsetOk, PitEntryType DEF IInv, ThreadInv, TableInv, TypeInv, TypeOK, TablesTyped
<1>1. \A q \in after : q \subseteq p
  <2> SUFFICES ASSUME NEW q \in after PROVE q \subseteq p
    OBVIOUS
  <2>1. CASE gone = {}
    BY <2>1
  <2>2. CASE gone # {}
    <3>1. PICK x \in InsertOrAggregate(p, PitEntry(t, r), PitMax) : q = PitRemove(x, r.name)
      BY <2>2
    <3>2. x \subseteq p \cup {PitEntry(t, r)}
      BY <3>1, InsertSubset
    <3> QED BY <3>1, <3>2 DEF PitRemove, PitEntry
  <2> QED BY <2>1, <2>2
<1>2. r.name \in Names /\ r.prefix \in BOOLEAN
  BY DEF Interest
<1>3. net \subseteq [face : Faces, name : Names, prefix : BOOLEAN]
  BY DEF IInv, TableInv, TablesTyped
<1>4. CASE /\ up = {} /\ pit' \in after /\ notif' = w /\ Ends(t, r, None) /\ UNCHANGED net
  <2>1. pit' \subseteq p
    BY <1>1, <1>4
  <2>2. PitOk(pit')
    BY <1>0, <2>1, SubsetOk
  <2> HIDE DEF up, after
  <2>3. ThreadInv'
    BY <1>4, <2>1, EndsInv
  <2> QED BY <1>0, <1>3, <1>4, <2>1, <2>2, <2>3
<1>5. CASE /\ up # {}
           /\ \E q \in after : pit' \in InsertOrAggregate(q, PitEntry(t, r), PitMax)
           /\ notif' = [w EXCEPT ![r.name] = @ \cup {t}]
           /\ net' = net \cup {[face |-> first, name |-> r.name, prefix |-> r.prefix]}
           /\ Parks(t, r, "forwarding", hops, rest, first)
  <2>1. first \in Faces
    BY <1>5, FirstOfType
  <2> HIDE DEF up, first, gone, after
  <2>2. rest \in SUBSET Faces
    OBVIOUS
  <2> HIDE DEF rest
  <2>3. PICK q \in after : pit' \in InsertOrAggregate(q, PitEntry(t, r), PitMax)
    BY <1>5
  <2>4. q \subseteq p /\ PitOk(q)
    BY <1>0, <1>1, <2>3, SubsetOk
  <2>5. PitOk(pit') /\ pit' \subseteq p \cup {PitEntry(t, r)}
    BY <2>3, <2>4, InsertOk, InsertSubset
  <2>6. \A n \in Names : notif'[n] = (notif[n] \ {t}) \cup (IF n = r.name THEN {t} ELSE {})
    BY <1>2, <1>5
  <2>7. Cancellable = {} => \A e \in pit' : e.owner = t => e.name = r.name
    BY <2>5 DEF PitEntry
  <2>8. ThreadInv'
    BY <1>5, <2>1, <2>2, <2>5, <2>6, <2>7, ParksInv
  <2>9. net' \subseteq [face : Faces, name : Names, prefix : BOOLEAN]
    BY <1>2, <1>3, <1>5, <2>1
  <2>10. notif' \in [Names -> SUBSET Threads]
    BY <1>2, <1>5
  <2> QED BY <1>0, <2>5, <2>8, <2>9, <2>10
<1> QED BY <1>4, <1>5 DEF TryFaces, UpFaces

-----------------------------------------------------------------------------
(* A thread that is not parked has nothing registered and owns no entry.    *)
LEMMA NotParked ==
  ASSUME IInv, NEW t \in Threads, ~Parked(t)
  PROVE  /\ \A n \in Names : notif[n] = notif[n] \ {t}
         /\ Cancellable = {} => \A e \in pit : e.owner # t
<1>1. \A n \in Names : t \notin notif[n]
  BY DEF IInv, ThreadInv, WaitersRegistered, Awaits
<1>2. Cancellable = {} => \A e \in pit : e.owner # t
  BY DEF IInv, ThreadInv, Owned, EntryHasOwner, Parked
<1> QED BY <1>1, <1>2

(* Dropping a thread's future drops its only registration.                  *)
LEMMA ForgetType ==
  ASSUME IInv, NEW t \in Threads, Parked(t)
  PROVE  /\ Forget(t) \in [Names -> SUBSET Threads]
         /\ \A n \in Names : Forget(t)[n] = notif[n] \ {t}
<1>1. req[t] \in Interest /\ notif \in [Names -> SUBSET Threads]
  BY DEF IInv, ThreadInv, TableInv, TablesTyped, Shape, Parked
<1>2. req[t].name \in Names
  BY <1>1 DEF Interest
<1>3. \A n \in Names : t \in notif[n] => n = req[t].name
  BY DEF IInv, ThreadInv, WaitersRegistered, Awaits
<1> QED BY <1>1, <1>2, <1>3 DEF Forget

(* What the store returns is named at or under the Interest's name.         *)
LEMMA HitsType ==
  ASSUME IInv, NEW r \in Interest, NEW n \in CsHits(r)
  PROVE  CachedPacket(n) \in Packet /\ StartsWith(n, r.name)
<1>0. r.name \in Names /\ r.child \in Selector
  BY DEF Interest
<1>1. n \in Names /\ (n = r.name \/ StartsWith(n, r.name))
  <2>1. CASE n \in GetExact(r)
    BY <2>1 DEF GetExact, Stored
  <2>2. CASE n \in GetPrefix(r)
    BY <1>0, <2>2 DEF GetPrefix, Stored, Selector
  <2> QED BY <2>1, <2>2 DEF CsHits
<1>2. CachedPacket(n) \in Packet
  BY <1>1 DEF IInv, TableInv, TablesTyped, CachedPacket, Packet
<1>3. StartsWith(n, n)
  BY <1>1, ForwarderAssumption DEF StartsWith
<1> QED BY <1>1, <1>2, <1>3

(* Accepting an Interest records its nonce within the bound.                *)
LEMMA ArrivesNonces ==
  ASSUME IInv, NEW t, NEW r \in Interest, Arrives(t, r)
  PROVE  /\ nonces' \subseteq [face : InFaces, nonce : Nonces, expires : Nat]
         /\ Capped(nonces', NonceMax)
         /\ UNCHANGED <<now, link, fib, cs, fails>>
<1> DEFINE x == [face |-> r.inface, nonce |-> r.nonce, expires |-> now + NonceTtl]
<1>1. x \in [face : InFaces, nonce : Nonces, expires : Nat]
  BY ForwarderAssumption DEF Interest, IInv, TableInv, TablesTyped
<1>2. nonces' \in Admit(nonces, x, NonceMax) /\ UNCHANGED <<now, link, fib, cs, fails>>
  BY DEF Arrives, RecordNonce
<1> HIDE DEF x
<1>3. nonces' \subseteq nonces \cup {x}
  BY <1>2, AdmitSubset
<1>4. Capped(nonces', NonceMax)
  BY <1>2, AdmitCapped, ForwarderAssumption DEF IInv, TableInv
<1> QED BY <1>1, <1>2, <1>3, <1>4 DEF IInv, TableInv, TablesTyped

(* The candidates of a hop list are faces.                                  *)
LEMMA UsableType ==
  ASSUME IInv, NEW n
  PROVE  FibLookup(fib, n) \in Hops /\ UsableFaces(FibLookup(fib, n)) \in SUBSET Faces
<1>1. FibLookup(fib, n) \in Hops
  BY LookupType DEF IInv, TableInv, TablesTyped, Hops
<1>2. HopFaces(FibLookup(fib, n)) \subseteq Faces
  BY <1>1, HopFacesType
<1> QED BY <1>1, <1>2 DEF UsableFaces

(* Serving a stale copy touches two threads: the caller ends with the copy, *)
(* and the idle refresher of the name, if any, is scheduled.                *)
LEMMA StaleInv ==
  ASSUME IInv, NEW t \in Tasks, NEW r \in Interest, r \in Requests,
         ServeStaleRevalidate(t, r)
  PROVE  IInv'
<1> DEFINE hops  == FibLookup(fib, r.name)
           face  == FirstOf(hops, UsableFaces(hops))
           b     == <<r.name, r.pin>>
           again == pc[b] = "idle"
           q     == [r EXCEPT !.fresh = TRUE]
<1>1. PICK n \in CsHits(r) :
        /\ Revalidates(r, n)
        /\ pc' = [pc EXCEPT ![t] = "done", ![b] = IF again THEN "scheduled" ELSE @]
        /\ req' = [req EXCEPT ![t] = r, ![b] = IF again THEN q ELSE @]
        /\ plan' = [plan EXCEPT ![b] = IF again THEN hops ELSE @]
        /\ left' = [left EXCEPT ![b] = IF again THEN {face} ELSE @]
        /\ got' = [got EXCEPT ![t] = CachedPacket(n)]
  BY DEF ServeStaleRevalidate
<1>2. Arrives(t, r) /\ UNCHANGED <<pit, notif, net, out, dl, fut>> /\ pc[t] = "idle"
  BY DEF ServeStaleRevalidate, Arrives
<1>3. b \in Threads /\ t \in Threads /\ b # t
  BY <1>1, ForwarderAssumption DEF Revalidates, Refreshers, Threads
<1>4. hops \in Hops /\ face \in Faces
  <2>1. hops \in Hops /\ UsableFaces(hops) \in SUBSET Faces
    BY UsableType
  <2>2. UsableFaces(hops) # {}
    BY <1>1 DEF Revalidates
  <2> QED BY <2>1, <2>2, FirstOfType
<1>5. q \in Interest
  BY DEF Interest
<1>6. CachedPacket(n) \in Packet /\ StartsWith(n, r.name) /\ CachedPacket(n).name = n
  BY <1>1, HitsType DEF CachedPacket
<1> HIDE DEF hops, face, b, q
<1>7. ThreadsTyped /\ Shape /\ WaitersRegistered /\ Owned /\ AnswersUnderName
  BY DEF IInv, ThreadInv
<1>8. got[b] # None => pc[b] # "idle"
  BY <1>3, <1>7 DEF Shape, Parked
<1>9. \A u \in Threads : u # t /\ u # b =>
        pc'[u] = pc[u] /\ req'[u] = req[u] /\ got'[u] = got[u]
  BY <1>1, <1>3, <1>7 DEF ThreadsTyped
<1>10. /\ pc'[t] = "done" /\ req'[t] = r /\ got'[t] = CachedPacket(n)
       /\ pc'[b] = IF again THEN "scheduled" ELSE pc[b]
       /\ req'[b] = IF again THEN q ELSE req[b]
       /\ got'[b] = got[b]
  BY <1>1, <1>3, <1>7 DEF ThreadsTyped
<1>11. ThreadsTyped'
  <2>1. /\ pc' \in [Threads -> {"idle", "scheduled", "waiting", "forwarding", "done"}]
        /\ req' \in [Threads -> Interest \cup {None}]
        /\ got' \in [Threads -> Packet \cup {None}]
    BY <1>1, <1>3, <1>5, <1>6, <1>7 DEF ThreadsTyped
  <2>2. plan' \in [Threads -> Hops]
    BY <1>1, <1>3, <1>4, <1>7 DEF ThreadsTyped, Hops
  <2>3. left' \in [Threads -> SUBSET Faces]
    BY <1>1, <1>3, <1>4, <1>7 DEF ThreadsTyped
  <2> QED BY <1>2, <1>7, <2>1, <2>2, <2>3 DEF ThreadsTyped, Hops
<1>12. Shape'
  BY <1>2, <1>3, <1>5, <1>7, <1>8, <1>9, <1>10 DEF Shape, Parked
<1>13. WaitersRegistered'
  BY <1>2, <1>3, <1>7, <1>9, <1>10 DEF WaitersRegistered, Awaits, Parked
<1>14. Owned'
  <2> SUFFICES ASSUME Cancellable = {}, NEW e \in pit
               PROVE  pc'[e.owner] = "forwarding" /\ req'[e.owner].name = e.name
    BY <1>2 DEF Owned, EntryHasOwner
  <2>1. e.owner \in Threads /\ pc[e.owner] = "forwarding" /\ req[e.owner].name = e.name
    BY <1>7 DEF Owned, EntryHasOwner, IInv, TableInv, TablesTyped, Entry
  <2> QED BY <1>2, <1>9, <1>10, <2>1
<1>15. AnswersUnderName'
  BY <1>3, <1>6, <1>7, <1>8, <1>9, <1>10 DEF AnswersUnderName
<1>16. TableInv'
  BY <1>2, ArrivesNonces DEF IInv, TableInv, TablesTyped
<1> QED BY <1>11, <1>12, <1>13, <1>14, <1>15, <1>16 DEF IInv, ThreadInv

-----------------------------------------------------------------------------
(* Forwarder.express keeps the invariant, one step per outcome.             *)
LEMMA ExpressInv ==
  ASSUME IInv, NEW t \in Tasks, NEW r \in Requests, Express(t, r)
  PROVE  IInv'
<1>1. t \in Threads /\ r \in Interest /\ r.name \in Names
  BY ForwarderAssumption DEF Threads, Interest
<1>2. pc[t] = "idle" /\ ~Parked(t)
  BY DEF Express, DropLoop, ServeFromCache, ServeStaleRevalidate, SuppressAggregate,
         ForwardTo, NoRoute, Arrives, Parked
<1>3. /\ \A n \in Names : notif[n] = notif[n] \ {t}
      /\ Cancellable = {} => \A e \in pit : e.owner # t
  BY <1>1, <1>2, NotParked
<1>4. TablesTyped /\ ThreadInv /\ PitOk(pit)
  BY DEF IInv, TableInv
<1>5. CASE DropLoop(t, r)
  <2>1. Ends(t, r, None) /\ UNCHANGED <<now, fib, link, nonces, cs, fails, pit, notif, net>>
    BY <1>5 DEF DropLoop, tables
  <2>2. ThreadInv'
    BY <1>1, <1>3, <2>1, EndsInv
  <2> QED BY <2>1, <2>2 DEF IInv, TableInv, TablesTyped
<1>6. CASE ServeFromCache(t, r)
  <2>1. PICK n \in CsHits(r) : Ends(t, r, CachedPacket(n))
    BY <1>6 DEF ServeFromCache
  <2>2. Arrives(t, r) /\ UNCHANGED <<pit, notif, net>>
    BY <1>6 DEF ServeFromCache
  <2>3. CachedPacket(n) \in Packet /\ StartsWith(n, r.name) /\ CachedPacket(n).name = n
    BY <1>1, <2>1, HitsType DEF CachedPacket
  <2>4. ThreadInv'
    BY <1>1, <1>3, <2>1, <2>2, <2>3, EndsInv
  <2>5. TableInv'
    BY <1>1, <2>2, ArrivesNonces DEF IInv, TableInv, TablesTyped
  <2> QED BY <2>4, <2>5 DEF IInv
<1>7. CASE ServeStaleRevalidate(t, r)
  BY <1>1, <1>7, StaleInv
<1>8. CASE SuppressAggregate(t, r)
  <2>1. /\ Arrives(t, r) /\ Parks(t, r, "waiting", <<>>, {}, None)
        /\ notif' = [notif EXCEPT ![r.name] = @ \cup {t}]
        /\ UNCHANGED <<pit, net>>
    BY <1>8 DEF SuppressAggregate
  <2>2. <<>> \in Hops
    BY DEF Hops
  <2>3. \A n \in Names : notif'[n] = (notif[n] \ {t}) \cup (IF n = r.name THEN {t} ELSE {})
    BY <1>1, <1>3, <1>4, <2>1 DEF TablesTyped
  <2>4. ThreadInv'
    BY <1>1, <1>3, <2>1, <2>2, <2>3, ParksInv
  <2>5. notif' \in [Names -> SUBSET Threads]
    BY <1>1, <1>4, <2>1 DEF TablesTyped
  <2>6. TableInv'
    BY <1>1, <2>1, <2>5, ArrivesNonces DEF IInv, TableInv, TablesTyped
  <2> QED BY <2>4, <2>6 DEF IInv
<1>9. CASE ForwardTo(t, r)
  <2> DEFINE hops == FibLookup(fib, r.name)
             S    == UsableFaces(hops)
  <2>1. Arrives(t, r) /\ TryFaces(t, r, hops, S, pit, notif)
    BY <1>9 DEF ForwardTo
  <2>2. hops \in Hops /\ S \in SUBSET Faces
    BY UsableType
  <2>3. notif \in [Names -> SUBSET Threads]
    BY <1>4 DEF TablesTyped
  <2> HIDE DEF hops, S
  <2>4. /\ ThreadInv'
        /\ pit' \subseteq Entry /\ PitOk(pit')
        /\ notif' \in [Names -> SUBSET Threads]
        /\ net' \subseteq [face : Faces, name : Names, prefix : BOOLEAN]
    BY <1>1, <1>3, <2>1, <2>2, <2>3, TryFacesInv
  <2>5. TableInv'
    BY <1>1, <2>1, <2>4, ArrivesNonces DEF IInv, TableInv, TablesTyped
  <2> QED BY <2>4, <2>5 DEF IInv
<1>10. CASE NoRoute(t, r)
  <2>1. Arrives(t, r) /\ Ends(t, r, None) /\ UNCHANGED <<pit, notif, net>>
    BY <1>10 DEF NoRoute
  <2>2. ThreadInv'
    BY <1>1, <1>3, <2>1, EndsInv
  <2>3. TableInv'
    BY <1>1, <2>1, ArrivesNonces DEF IInv, TableInv, TablesTyped
  <2> QED BY <2>2, <2>3 DEF IInv
<1> QED BY <1>5, <1>6, <1>7, <1>8, <1>9, <1>10 DEF Express

(* The scheduled refresh starts.                                            *)
LEMMA RefreshInv ==
  ASSUME IInv, NEW b \in Refreshers, StartRefresh(b)
  PROVE  IInv'
<1>1. b \in Threads /\ pc[b] = "scheduled" /\ ~Parked(b)
  BY DEF Threads, StartRefresh, Parked
<1>2. req[b] \in Interest /\ plan[b] \in Hops /\ left[b] \in SUBSET Faces
  BY <1>1 DEF IInv, ThreadInv, ThreadsTyped, Shape, Hops
<1>3. /\ \A n \in Names : notif[n] = notif[n] \ {b}
      /\ Cancellable = {} => \A e \in pit : e.owner # b
  BY <1>1, NotParked
<1>4. UNCHANGED <<now, fib, link, nonces, cs, fails>>
  BY DEF StartRefresh, tables
<1>5. CASE req[b].hops = 0
  <2>1. Ends(b, req[b], None) /\ UNCHANGED <<pit, notif, net>>
    BY <1>5 DEF StartRefresh
  <2>2. ThreadInv'
    BY <1>1, <1>2, <1>3, <2>1, EndsInv
  <2> QED BY <1>4, <2>1, <2>2 DEF IInv, TableInv, TablesTyped
<1>6. CASE req[b].hops # 0
  <2>1. TryFaces(b, req[b], plan[b], left[b], pit, notif)
    BY <1>6 DEF StartRefresh
  <2>2. notif \in [Names -> SUBSET Threads]
    BY DEF IInv, TableInv, TablesTyped
  <2>3. /\ ThreadInv'
        /\ pit' \subseteq Entry /\ PitOk(pit')
        /\ notif' \in [Names -> SUBSET Threads]
        /\ net' \subseteq [face : Faces, name : Names, prefix : BOOLEAN]
    BY <1>1, <1>2, <1>3, <2>1, <2>2, TryFacesInv
  <2> QED BY <1>4, <2>3 DEF IInv, TableInv, TablesTyped
<1> QED BY <1>5, <1>6

(* A parked forward owns only entries of its own name; a waiter owns none.  *)
LEMMA OwnEntries ==
  ASSUME IInv, NEW t \in Threads, Cancellable = {}
  PROVE  /\ \A e \in PitRemove(pit, req[t].name) : e.owner # t
         /\ pc[t] # "forwarding" => \A e \in pit : e.owner # t
BY DEF IInv, ThreadInv, Owned, EntryHasOwner, PitRemove

(* The next candidate is tried after a face was given up.                   *)
LEMMA GivesUpInv ==
  ASSUME IInv, NEW t \in Threads, pc[t] = "forwarding", GivesUp(t)
  PROVE  IInv'
<1>1. /\ req[t] \in Interest /\ plan[t] \in Hops /\ left[t] \in SUBSET Faces
      /\ out[t] \in Faces /\ Parked(t)
  BY DEF IInv, ThreadInv, ThreadsTyped, Shape, Hops, Parked
<1> DEFINE p == PitRemove(pit, req[t].name)
           w == Forget(t)
<1>2. /\ w \in [Names -> SUBSET Threads]
      /\ \A n \in Names : w[n] = notif[n] \ {t}
  BY <1>1, ForgetType
<1>3. p \in SUBSET pit /\ (Cancellable = {} => \A e \in p : e.owner # t)
  BY OwnEntries DEF PitRemove
<1>4. /\ TryFaces(t, req[t], plan[t], left[t], p, w)
      /\ UNCHANGED <<now, fib, link, nonces, cs>>
      /\ fails' = [fails EXCEPT ![out[t]] = [count |-> Least(@.count + 1, 6), at |-> now]]
  BY DEF GivesUp, RecordFailure
<1> HIDE DEF p, w
<1>5. /\ ThreadInv'
      /\ pit' \subseteq Entry /\ PitOk(pit')
      /\ notif' \in [Names -> SUBSET Threads]
      /\ net' \subseteq [face : Faces, name : Names, prefix : BOOLEAN]
  BY <1>1, <1>2, <1>3, <1>4, TryFacesInv
<1>6. fails' \in [Faces -> [count : Nat, at : Nat]]
  <2>1. fails \in [Faces -> [count : Nat, at : Nat]] /\ now \in Nat
    BY DEF IInv, TableInv, TablesTyped
  <2>2. fails[out[t]].count \in Nat
    BY <1>1, <2>1
  <2>3. Least(fails[out[t]].count + 1, 6) \in Nat
    BY <2>2 DEF Least
  <2> QED BY <1>1, <1>4, <2>1, <2>3
<1> QED BY <1>4, <1>5, <1>6 DEF IInv, TableInv, TablesTyped

(* A parked thread resumes, with Data, a NACK or a timeout, or is cancelled.*)
LEMMA ResumeInv ==
  ASSUME IInv, NEW t \in Threads, Resume(t) \/ Cancel(t)
  PROVE  IInv'
<1>1. Parked(t)
  BY DEF Resume, ResumeData, ResumeNack, Timeout, Cancel, Parked
<1>2. req[t] \in Interest
  BY <1>1 DEF IInv, ThreadInv, Shape, Parked
<1>3. /\ Forget(t) \in [Names -> SUBSET Threads]
      /\ \A n \in Names : Forget(t)[n] = notif[n] \ {t}
  BY <1>1, ForgetType
<1>4. fut[t] # "pending" => \A n \in Names : notif[n] = notif[n] \ {t}
  <2>1. fut[t] # "pending" => \A n \in Names : t \notin notif[n]
    BY DEF IInv, ThreadInv, WaitersRegistered, Awaits
  <2> QED BY <2>1
<1>5. CASE ResumeData(t)
  <2>1. /\ fut[t] = "data" /\ Ends(t, req[t], got[t])
        /\ UNCHANGED <<now, fib, link, nonces, cs, notif, net>>
    BY <1>5 DEF ResumeData
  <2>2. got[t] \in Packet /\ StartsWith(got[t].name, req[t].name)
    BY <1>1, <2>1, ForwarderAssumption DEF IInv, ThreadInv, Shape, AnswersUnderName
  <2>3. /\ pit' \subseteq pit /\ (Cancellable = {} => \A e \in pit' : e.owner # t)
        /\ fails' \in [Faces -> [count : Nat, at : Nat]]
    <3>0. fails \in [Faces -> [count : Nat, at : Nat]]
      BY DEF IInv, TableInv, TablesTyped
    <3>1. CASE pc[t] = "forwarding"
      <4>1. pit' = PitRemove(pit, req[t].name)
        BY <1>5, <3>1 DEF ResumeData
      <4>2. fails' = [fails EXCEPT ![out[t]] = [count |-> 0, at |-> 0]]
        BY <1>5, <3>1 DEF ResumeData, RecordSuccess
      <4> QED BY <3>0, <4>1, <4>2, OwnEntries DEF PitRemove
    <3>2. CASE pc[t] # "forwarding"
      BY <1>5, <3>0, <3>2, OwnEntries DEF ResumeData
    <3> QED BY <3>1, <3>2
  <2>4. ThreadInv'
    BY <1>2, <1>4, <2>1, <2>2, <2>3, EndsInv
  <2>5. PitOk(pit')
    BY <2>3, SubsetOk DEF IInv, TableInv
  <2> QED BY <2>1, <2>3, <2>4, <2>5 DEF IInv, TableInv, TablesTyped
<1>6. CASE pc[t] = "forwarding" /\ GivesUp(t)
  BY <1>6, GivesUpInv
<1>7. CASE /\ pc[t] = "waiting" /\ fut[t] # "pending" /\ Ends(t, req[t], None)
           /\ UNCHANGED <<now, tables, pit, notif, net>>
  <2>1. ThreadInv'
    BY <1>2, <1>4, <1>7, OwnEntries, EndsInv
  <2> QED BY <1>7, <2>1 DEF IInv, TableInv, TablesTyped, tables
<1>8. CASE /\ pc[t] = "waiting" \/ t \in Cancellable
           /\ Ends(t, req[t], None)
           /\ notif' = Forget(t)
           /\ UNCHANGED <<now, tables, pit, net>>
  <2>1. ThreadInv'
    BY <1>2, <1>3, <1>8, OwnEntries, EndsInv
  <2> QED BY <1>3, <1>8, <2>1 DEF IInv, TableInv, TablesTyped, tables
<1> QED BY <1>5, <1>6, <1>7, <1>8 DEF Resume, ResumeNack, Timeout, Cancel

-----------------------------------------------------------------------------
(* A Data packet satisfies names it is at or under.                         *)
LEMMA SatisfiedType ==
  ASSUME IInv, NEW d \in Contents, NEW n \in Satisfied(d)
  PROVE  n \in Names /\ StartsWith(d.name, n)
<1>1. d.name \in Names
  BY ForwarderAssumption
<1>2. StartsWith(d.name, d.name)
  BY <1>1, ForwarderAssumption DEF StartsWith
<1>3. \A e \in pit : e.name \in Names
  BY DEF IInv, TableInv, TablesTyped, Entry
<1>4. n = d.name \/ \E e \in pit : n = e.name /\ StartsWith(d.name, e.name)
  BY DEF Satisfied, Longest
<1> QED BY <1>1, <1>2, <1>3, <1>4

(* Forwarder.receive_data: the released threads were parked, unresolved,    *)
(* and asked for a name the Data is at or under.                            *)
LEMMA ReceiveDataInv ==
  ASSUME IInv, NEW d \in Contents, NEW fresh \in BOOLEAN, NEW trusted \in BOOLEAN,
         ReceiveData(d, fresh, trusted),
         net' \subseteq [face : Faces, name : Names, prefix : BOOLEAN]
  PROVE  IInv'
<1> DEFINE p    == [name |-> d.name, seq |-> d.seq, fresh |-> fresh]
           hit  == Satisfied(d)
           wake == UNION {notif[n] : n \in hit}
<1>1. /\ fut' = [t \in Threads |-> IF t \in wake THEN "data" ELSE fut[t]]
      /\ got' = [t \in Threads |-> IF t \in wake THEN p ELSE got[t]]
      /\ notif' = [n \in Names |-> IF n \in hit THEN {} ELSE notif[n]]
      /\ pit' = {e \in pit : e.name \notin hit}
      /\ UNCHANGED <<now, fib, link, nonces, fails, pc, req, plan, left, out, dl>>
  BY DEF ReceiveData
<1>2. cs' = cs \/ cs' = [cs EXCEPT ![d.name] =
                         [seq |-> d.seq, age |-> IF fresh THEN "fresh" ELSE "stale"]]
  BY DEF ReceiveData
<1>3. d.name \in Names /\ d.seq \in Seqs \cup {None}
  BY ForwarderAssumption
<1>4. p \in Packet /\ p # None /\ p.name = d.name
  BY <1>3, ForwarderAssumption DEF Packet
<1>5. \A n \in hit : n \in Names /\ StartsWith(d.name, n)
  BY SatisfiedType
<1>6. ThreadsTyped /\ Shape /\ WaitersRegistered /\ Owned /\ AnswersUnderName /\ TablesTyped
  BY DEF IInv, ThreadInv, TableInv
<1> HIDE DEF p, hit
<1>7. \A t \in wake : /\ t \in Threads /\ Parked(t) /\ fut[t] = "pending"
                      /\ req[t] \in Interest /\ req[t].name \in hit
  BY <1>5, <1>6 DEF TablesTyped, WaitersRegistered, Awaits, Shape, Parked
<1>8. \A t \in Threads, n \in hit : t \in notif[n] => t \in wake
  OBVIOUS
<1> HIDE DEF wake
<1>9. ThreadsTyped'
  BY <1>1, <1>4, <1>6 DEF ThreadsTyped
<1>10. Shape'
  BY <1>1, <1>4, <1>6, <1>7 DEF Shape, Parked
<1>11. WaitersRegistered'
  BY <1>1, <1>6, <1>7, <1>8 DEF WaitersRegistered, Awaits, Parked
<1>12. Owned'
  BY <1>1, <1>6 DEF Owned, EntryHasOwner
<1>13. AnswersUnderName'
  BY <1>1, <1>4, <1>5, <1>6, <1>7 DEF AnswersUnderName
<1>14. PitOk(pit')
  BY <1>1, SubsetOk DEF IInv, TableInv
<1>15. cs' \in [Names -> [seq : Seqs \cup {None}, age : {"none", "fresh", "stale", "old"}]]
  <2> DEFINE slot == [seq |-> d.seq, age |-> IF fresh THEN "fresh" ELSE "stale"]
             Slots == [seq : Seqs \cup {None}, age : {"none", "fresh", "stale", "old"}]
  <2>1. slot \in Slots
    BY <1>3
  <2>2. cs' = cs \/ cs' = [cs EXCEPT ![d.name] = slot]
    BY <1>2
  <2>3. cs \in [Names -> Slots]
    BY <1>6 DEF TablesTyped
  <2> HIDE DEF slot, Slots
  <2>4. cs' \in [Names -> Slots]
    BY <1>3, <2>1, <2>2, <2>3
  <2> QED BY <2>4 DEF Slots
<1>16. notif' \in [Names -> SUBSET Threads] /\ pit' \subseteq Entry
  BY <1>1, <1>6 DEF TablesTyped
<1>17. TableInv'
  BY <1>1, <1>14, <1>15, <1>16 DEF IInv, TableInv, TablesTyped
<1> QED BY <1>9, <1>10, <1>11, <1>12, <1>13, <1>17 DEF IInv, ThreadInv

(* Forwarder.receive_nack.                                                  *)
LEMMA NackInv ==
  ASSUME IInv, NEW i \in net, AnswerNack(i)
  PROVE  IInv'
<1>1. ThreadsTyped /\ Shape /\ WaitersRegistered /\ Owned /\ AnswersUnderName /\ TablesTyped
  BY DEF IInv, ThreadInv, TableInv
<1>2. i.name \in Names /\ notif[i.name] \subseteq Threads
  BY <1>1 DEF TablesTyped
<1>3. /\ net' = net \ {i}
      /\ fut' = [t \in Threads |-> IF t \in notif[i.name] THEN "nack" ELSE fut[t]]
      /\ notif' = [notif EXCEPT ![i.name] = {}]
      /\ UNCHANGED <<now, fib, link, nonces, cs, fails, pit, pc, req, plan, left, out, dl, got>>
  BY DEF AnswerNack, tables
<1>4. \A t \in notif[i.name] : Parked(t) /\ fut[t] = "pending" /\ req[t].name = i.name
  BY <1>1, <1>2 DEF WaitersRegistered, Awaits
<1>5. ThreadsTyped' /\ AnswersUnderName' /\ Owned'
  BY <1>1, <1>3 DEF ThreadsTyped, AnswersUnderName, Owned, EntryHasOwner
<1>6. Shape'
  BY <1>1, <1>3, <1>4 DEF Shape, Parked
<1>7. WaitersRegistered'
  BY <1>1, <1>2, <1>3, <1>4 DEF WaitersRegistered, Awaits, Parked, TablesTyped
<1>8. TableInv'
  BY <1>1, <1>2, <1>3 DEF IInv, TableInv, TablesTyped
<1> QED BY <1>5, <1>6, <1>7, <1>8 DEF IInv, ThreadInv

(* What leaves the threads alone keeps their invariants, as long as the PIT *)
(* gains no entry and the notifiers stay.                                   *)
LEMMA TablesOnly ==
  ASSUME IInv, UNCHANGED <<notif, threads>>, pit' \subseteq pit
  PROVE  ThreadInv' /\ PitOk(pit') /\ pit' \subseteq Entry
<1>1. UNCHANGED <<pc, req, plan, left, out, dl, fut, got, notif>>
  BY DEF threads
<1>2. ThreadsTyped' /\ Shape' /\ WaitersRegistered' /\ AnswersUnderName'
  BY <1>1 DEF IInv, ThreadInv, ThreadsTyped, Shape, WaitersRegistered, Awaits, AnswersUnderName, Parked
<1>3. Owned'
  BY <1>1 DEF IInv, ThreadInv, Owned, EntryHasOwner
<1>4. PitOk(pit') /\ pit' \subseteq Entry
  BY SubsetOk DEF IInv, TableInv, TablesTyped
<1> QED BY <1>2, <1>3, <1>4 DEF ThreadInv

(* Faces, routes, sweeps, ageing and time.                                  *)
LEMMA HousekeepingInv ==
  ASSUME IInv,
         \/ \E f \in Faces : RegisterFace(f) \/ WithdrawFace(f)
         \/ \E x \in Routes : AddRoute(x)
         \/ SweepPit
         \/ \E n \in Names : CsAge(n) \/ CsForget(n)
         \/ Tick
  PROVE  IInv'
<1>0. TablesTyped /\ PitOk(pit) /\ Capped(nonces, NonceMax)
  BY DEF IInv, TableInv
<1>1. UNCHANGED <<notif, threads>> /\ pit' \subseteq pit
  BY DEF RegisterFace, WithdrawFace, AddRoute, SweepPit, CsAge, CsForget, Tick, PurgeExpired
<1>2. ThreadInv' /\ PitOk(pit') /\ pit' \subseteq Entry /\ notif' = notif
  BY <1>1, TablesOnly
<1>3. ASSUME NEW f \in Faces, RegisterFace(f) PROVE TableInv'
  BY <1>0, <1>2, <1>3 DEF RegisterFace, TableInv, TablesTyped
<1>4. ASSUME NEW f \in Faces, WithdrawFace(f) PROVE TableInv'
  <2>1. fib' \in [Names -> Hops]
    <3>1. fib' = [n \in Names |-> Without(fib[n], f)]
      BY <1>0, <1>4 DEF WithdrawFace, FibRemoveAllForFace, TablesTyped
    <3>2. \A n \in Names : Without(fib[n], f) \in Hops
      BY <1>0, HopsType DEF TablesTyped, Hops
    <3> QED BY <3>1, <3>2
  <2>2. /\ link' = [link EXCEPT ![f] = "down"]
        /\ net' \subseteq net
        /\ UNCHANGED <<now, nonces, cs, fails>>
    BY <1>4 DEF WithdrawFace
  <2> QED BY <1>0, <1>2, <2>1, <2>2 DEF TableInv, TablesTyped, Hops
<1>5. ASSUME NEW x \in Routes, AddRoute(x) PROVE TableInv'
  <2>1. x.prefix \in Names /\ x.face \in Faces /\ x.cost \in Nat
    BY ForwarderAssumption, FibAssumption
  <2>2. /\ fib' = [fib EXCEPT ![x.prefix] = Upsert(@, x.face, x.cost)]
        /\ UNCHANGED <<now, link, nonces, cs, fails, net>>
    BY <1>5 DEF AddRoute, FibInsert
  <2>3. Upsert(fib[x.prefix], x.face, x.cost) \in Hops
    BY <1>0, <2>1, HopsType DEF TablesTyped, Hops
  <2>4. fib' \in [Names -> Hops]
    BY <1>0, <2>1, <2>2, <2>3 DEF TablesTyped, Hops
  <2> QED BY <1>0, <1>2, <2>2, <2>4 DEF TableInv, TablesTyped, Hops
<1>6. ASSUME SweepPit PROVE TableInv'
  <2>1. nonces' \subseteq nonces /\ UNCHANGED <<now, fib, link, cs, fails, net>>
    BY <1>6 DEF SweepPit, PurgeExpired
  <2>2. Capped(nonces', NonceMax)
    <3>1. IsFiniteSet(nonces') /\ Cardinality(nonces') <= Cardinality(nonces)
      BY <1>0, <2>1, FS_Subset DEF Capped
    <3>2. Cardinality(nonces') \in Nat /\ Cardinality(nonces) \in Nat /\ NonceMax \in Nat
      BY <1>0, <3>1, FS_CardinalityType, ForwarderAssumption DEF Capped
    <3> QED BY <1>0, <3>1, <3>2 DEF Capped
  <2>3. nonces' \subseteq [face : InFaces, nonce : Nonces, expires : Nat]
    BY <1>0, <2>1 DEF TablesTyped
  <2> QED BY <1>0, <1>2, <2>1, <2>2, <2>3 DEF TableInv, TablesTyped
<1>7. ASSUME NEW n \in Names, CsAge(n) \/ CsForget(n) PROVE TableInv'
  <2>1. UNCHANGED <<now, fib, link, nonces, fails, net>>
    BY <1>7 DEF CsAge, CsForget
  <2>2. cs' \in [Names -> [seq : Seqs \cup {None}, age : {"none", "fresh", "stale", "old"}]]
    <3> DEFINE Slots == [seq : Seqs \cup {None}, age : {"none", "fresh", "stale", "old"}]
    <3>1. cs \in [Names -> Slots]
      BY <1>0 DEF TablesTyped
    <3>2. \E slot \in Slots : cs' = [cs EXCEPT ![n] = slot]
      <4>1. CASE CsForget(n)
        <5>1. [seq |-> None, age |-> "none"] \in Slots
          OBVIOUS
        <5> QED BY <4>1, <5>1 DEF CsForget
      <4>2. CASE CsAge(n)
        <5> DEFINE slot == [cs[n] EXCEPT !.age = IF @ = "fresh" THEN "stale" ELSE "old"]
        <5>1. slot \in Slots
          BY <3>1
        <5>2. cs' = [cs EXCEPT ![n] = slot]
          BY <4>2 DEF CsAge
        <5> QED BY <5>1, <5>2
      <4> QED BY <1>7, <4>1, <4>2
    <3> HIDE DEF Slots
    <3>3. cs' \in [Names -> Slots]
      BY <3>1, <3>2
    <3> QED BY <3>3 DEF Slots
  <2> QED BY <1>0, <1>2, <2>1, <2>2 DEF TableInv, TablesTyped
<1>8. ASSUME Tick PROVE TableInv'
  <2>1. now' \in Nat /\ UNCHANGED <<fib, link, nonces, cs, fails, net>>
    BY <1>0, <1>8 DEF Tick, tables, TablesTyped
  <2> QED BY <1>0, <1>2, <2>1 DEF TableInv, TablesTyped
<1>9. TableInv'
  BY <1>3, <1>4, <1>5, <1>6, <1>7, <1>8
<1> QED BY <1>2, <1>9 DEF IInv

-----------------------------------------------------------------------------
(* The empty engine satisfies the invariant.                                *)
LEMMA InitInv == Init => IInv
<1> SUFFICES ASSUME Init PROVE IInv
  OBVIOUS
<1>1. <<>> \in Hops
  BY DEF Hops
<1>2. plan \in [Threads -> Hops] /\ fib \in [Names -> Hops]
  BY <1>1 DEF Init
<1>3. ThreadsTyped
  BY <1>2 DEF Init, ThreadsTyped, Hops
<1>4. Shape /\ WaitersRegistered /\ Owned /\ AnswersUnderName
  BY DEF Init, Shape, WaitersRegistered, Awaits, Owned, EntryHasOwner, AnswersUnderName, Parked
<1>5. TablesTyped
  BY <1>2 DEF Init, TablesTyped, Hops
<1>6. PitOk(pit) /\ Capped(nonces, NonceMax)
  BY FS_EmptySet, ForwarderAssumption DEF Init, PitOk, Capped
<1> QED BY <1>3, <1>4, <1>5, <1>6 DEF IInv, ThreadInv, TableInv

(* Every step of the engine keeps the invariant.                            *)
LEMMA NextInv == IInv /\ [Next]_vars => IInv'
<1> SUFFICES ASSUME IInv, [Next]_vars PROVE IInv'
  OBVIOUS
<1>1. ASSUME NEW t \in Tasks, NEW r \in Requests, Express(t, r) PROVE IInv'
  BY <1>1, ExpressInv
<1>2. ASSUME NEW b \in Refreshers, StartRefresh(b) PROVE IInv'
  BY <1>2, RefreshInv
<1>3. ASSUME NEW t \in Threads, Resume(t) \/ Cancel(t) PROVE IInv'
  BY <1>3, ResumeInv
<1>4. ASSUME NEW i \in net, NEW d \in Contents, NEW fresh \in BOOLEAN, AnswerData(i, d, fresh)
      PROVE  IInv'
  <2>1. net' \subseteq [face : Faces, name : Names, prefix : BOOLEAN]
    BY <1>4 DEF AnswerData, IInv, TableInv, TablesTyped
  <2>2. ReceiveData(d, fresh, FALSE)
    BY <1>4 DEF AnswerData
  <2> QED BY <2>1, <2>2, ReceiveDataInv
<1>5. ASSUME NEW i \in net, AnswerNack(i) PROVE IInv'
  BY <1>5, NackInv
<1>6. ASSUME NEW d \in Contents, NEW trusted \in BOOLEAN, ArriveUnsolicited(d, trusted)
      PROVE  IInv'
  <2>1. net' \subseteq [face : Faces, name : Names, prefix : BOOLEAN]
    BY <1>6 DEF ArriveUnsolicited, IInv, TableInv, TablesTyped
  <2>2. ReceiveData(d, TRUE, trusted)
    BY <1>6 DEF ArriveUnsolicited
  <2> QED BY <2>1, <2>2, ReceiveDataInv
<1>7. ASSUME \/ \E f \in Faces : RegisterFace(f) \/ WithdrawFace(f)
             \/ \E x \in Routes : AddRoute(x)
             \/ SweepPit
             \/ \E n \in Names : CsAge(n) \/ CsForget(n)
             \/ Tick
      PROVE  IInv'
  BY <1>7, HousekeepingInv
<1>8. CASE UNCHANGED vars
  <2>1. UNCHANGED <<now, fib, link, nonces, cs, fails, pit, notif, net, threads>>
    BY <1>8 DEF vars, tables
  <2>2. ThreadInv' /\ PitOk(pit') /\ pit' \subseteq Entry
    BY <2>1, TablesOnly
  <2>3. TableInv'
    BY <2>1, <2>2 DEF IInv, TableInv, TablesTyped
  <2> QED BY <2>2, <2>3 DEF IInv
<1> QED BY <1>1, <1>2, <1>3, <1>4, <1>5, <1>6, <1>7, <1>8 DEF Next

(* The invariant holds in every reachable state.                            *)
THEOREM EngineInvariant == Spec => []IInv
BY InitInv, NextInv, PTL DEF Spec

(* The tables and the threads' locals keep their types.                     *)
THEOREM TypeCorrect == Spec => []TypeOK
<1>1. IInv => TypeOK
  BY DEF IInv, ThreadInv, TableInv, TypeOK
<1> QED BY <1>1, EngineInvariant, PTL

(* A thread parked on an unresolved future is always registered under its   *)
(* own name and only there: no NACK for the name can miss it, and no Data   *)
(* while the name is pending.                                               *)
THEOREM NoLostWaiter == Spec => []WaitersRegistered
<1>1. IInv => WaitersRegistered
  BY DEF IInv, ThreadInv
<1> QED BY <1>1, EngineInvariant, PTL

(* On a node whose callers never cancel express, every PIT entry belongs to *)
(* a forward under way for its name, through retries, refreshes, shared     *)
(* entries, evictions and sweeps.                                           *)
THEOREM NoPitLeak ==
  ASSUME Cancellable = {}
  PROVE  Spec => []EntryHasOwner
<1>1. IInv => EntryHasOwner
  BY DEF IInv, ThreadInv, Owned
<1> QED BY <1>1, EngineInvariant, PTL

(* Every Data handed to a consumer is at or under the name it asked for.    *)
THEOREM AnswersFitNames == Spec => []AnswersUnderName
<1>1. IInv => AnswersUnderName
  BY DEF IInv, ThreadInv
<1> QED BY <1>1, EngineInvariant, PTL

(* The PIT and the nonce list never outgrow their configured capacity.      *)
THEOREM TablesStayBounded == Spec => []TablesBounded
<1>1. IInv => TablesBounded
  BY DEF IInv, TableInv, PitOk, Capped, TablesBounded
<1> QED BY <1>1, EngineInvariant, PTL

(* The PIT is a dictionary by name: sharing, eviction and re-insertion      *)
(* never leave two entries for one name.                                    *)
THEOREM PitIsKeyed == Spec => []OneEntryPerName
<1>1. IInv => OneEntryPerName
  BY DEF IInv, TableInv, PitOk, OneEntryPerName
<1> QED BY <1>1, EngineInvariant, PTL

-----------------------------------------------------------------------------
(* Who takes the entry of a pending name from its waiters.                  *)

(* A bounded insertion into a part of the PIT that makes the name of        *)
(* another entry vanish has evicted it from the full table.                 *)
LEMMA InsertRobs ==
  ASSUME IInv, NEW p \in SUBSET pit, NEW e, NEW q \in InsertOrAggregate(p, e, PitMax),
         NEW n, Pending(p, n), ~Pending(q, n)
  PROVE  Cardinality(pit) >= PitMax /\ \E x \in NearestExpiry(pit) : x.name = n
<1>1. /\ IsFiniteSet(pit) /\ Cardinality(pit) \in Nat /\ Cardinality(pit) <= PitMax
      /\ PitMax \in Nat
  BY FS_CardinalityType, ForwarderAssumption DEF IInv, TableInv, PitOk, Capped
<1>2. /\ IsFiniteSet(p) /\ Cardinality(p) \in Nat /\ Cardinality(p) <= Cardinality(pit)
      /\ Cardinality(p) = Cardinality(pit) => p = pit
  BY <1>1, FS_Subset, FS_CardinalityType
<1>3. q \in Admit(p, e, PitMax)
  BY DEF InsertOrAggregate
<1>4. Cardinality(p) >= PitMax
  BY <1>3 DEF Admit, Pending
<1>5. PICK v \in NearestExpiry(p) : q = (p \ {v}) \cup {e}
  BY <1>3, <1>4 DEF Admit
<1>6. v.name = n
  BY <1>5 DEF Pending
<1>7. p = pit
  BY <1>1, <1>2, <1>4
<1> QED BY <1>4, <1>5, <1>6, <1>7

(* Trying faces for one name takes no other's entry in any other way.       *)
LEMMA TryFacesRobs ==
  ASSUME IInv, NEW t, NEW r, NEW hops, NEW S, NEW p \in SUBSET pit, NEW w,
         TryFaces(t, r, hops, S, p, w),
         NEW n, n # r.name, Pending(p, n), ~Pending(pit', n)
  PROVE  Cardinality(pit) >= PitMax /\ \E x \in NearestExpiry(pit) : x.name = n
<1> DEFINE e == PitEntry(t, r)
           inserted == InsertOrAggregate(p, e, PitMax)
           tried == {PitRemove(x, r.name) : x \in inserted}
<1>1. \/ pit' = p \/ pit' \in tried
      \/ pit' \in InsertOrAggregate(p, e, PitMax)
      \/ \E q \in tried : pit' \in InsertOrAggregate(q, e, PitMax)
  BY DEF TryFaces
<1>2. e.name = r.name
  BY DEF PitEntry
<1> HIDE DEF e
<1>3. ASSUME NEW q \in tried, ~Pending(q, n)
      PROVE  Cardinality(pit) >= PitMax /\ \E x \in NearestExpiry(pit) : x.name = n
  <2>1. PICK x \in inserted : q = PitRemove(x, r.name)
    OBVIOUS
  <2>2. ~Pending(x, n)
    BY <1>3, <2>1 DEF Pending, PitRemove
  <2> QED BY <2>2, InsertRobs
<1>4. ASSUME NEW q \in tried PROVE q \in SUBSET pit
  <2>1. PICK x \in inserted : q = PitRemove(x, r.name)
    OBVIOUS
  <2>2. x \subseteq p \cup {e}
    BY InsertSubset
  <2> QED BY <1>2, <2>1, <2>2 DEF PitRemove
<1>5. ASSUME NEW q \in tried, pit' \in InsertOrAggregate(q, e, PitMax)
      PROVE  Cardinality(pit) >= PitMax /\ \E x \in NearestExpiry(pit) : x.name = n
  <2>1. CASE Pending(q, n)
    BY <1>4, <1>5, <2>1, InsertRobs
  <2>2. CASE ~Pending(q, n)
    BY <1>3, <2>2
  <2> QED BY <2>1, <2>2
<1>6. CASE pit' = p
  BY <1>6
<1>7. CASE pit' \in tried
  BY <1>3, <1>7
<1>8. CASE pit' \in InsertOrAggregate(p, e, PitMax)
  BY <1>8, InsertRobs
<1> QED BY <1>1, <1>5, <1>6, <1>7, <1>8

(* A name that somebody goes on waiting for loses its PIT entry only by     *)
(* eviction from a full table, by the sweep, and by the pit.remove of a     *)
(* forward of the name: whatever Data, NACKs, cancelled callers and closing *)
(* links do.                                                                *)
THEOREM WaitersFound == Spec => WaitersStayFindable
<1> DEFINE Robbed(n) == /\ Pending(pit, n) /\ ~Pending(pit', n)
                        /\ \E t \in Threads : Awaits(t, n) /\ Awaits(t, n)'
           Step == \A n \in Names : Robbed(n) => Evicted(n) \/ Swept(n) \/ RemovedByName(n)
<1>1. IInv /\ [Next]_vars => [Step]_vars
  <2> SUFFICES ASSUME IInv, [Next]_vars, NEW n \in Names, Robbed(n)
               PROVE  Evicted(n) \/ Swept(n) \/ RemovedByName(n)
    OBVIOUS
  <2>1. Pending(pit, n) /\ ~Pending(pit', n) /\ ~UNCHANGED pit
    OBVIOUS
  <2>2. PICK t \in Threads : Awaits(t, n) /\ Awaits(t, n)'
    OBVIOUS
  <2> HIDE DEF Robbed
  <2>3. ASSUME NEW u \in Threads, NEW r \in Interest, NEW hops, NEW S, NEW p \in SUBSET pit,
               NEW w, TryFaces(u, r, hops, S, p, w),
               r.name # n, Pending(p, n), ForwardStep(Names \ {n})
        PROVE  Evicted(n)
    BY <2>1, <2>3, TryFacesRobs DEF Evicted
  <2>4. ASSUME NEW u \in Tasks, NEW r \in Requests, Express(u, r)
        PROVE  Evicted(n) \/ RemovedByName(n)
    <3>1. u \in Threads /\ r \in Interest /\ r.name \in Names
      BY ForwarderAssumption DEF Threads, Interest
    <3>2. ForwardTo(u, r)
      BY <2>1, <2>4 DEF Express, DropLoop, ServeFromCache, ServeStaleRevalidate,
                        SuppressAggregate, NoRoute
    <3>3. CASE r.name = n
      BY <3>2, <3>3 DEF RemovedByName, ForwardStep
    <3>4. CASE r.name # n
      <4>1. ForwardStep(Names \ {n})
        BY <3>1, <3>2, <3>4 DEF ForwardStep
      <4>2. PICK hops, S : TryFaces(u, r, hops, S, pit, notif)
        BY <3>2 DEF ForwardTo
      <4> QED BY <2>1, <2>3, <3>1, <3>4, <4>1, <4>2
    <3> QED BY <3>3, <3>4
  <2>5. ASSUME NEW b \in Refreshers, StartRefresh(b)
        PROVE  Evicted(n) \/ RemovedByName(n)
    <3>1. b \in Threads /\ req[b] \in Interest /\ req[b] # None /\ req[b].name \in Names
      <4>1. b \in Threads /\ pc[b] = "scheduled"
        BY <2>5 DEF StartRefresh, Threads
      <4>2. req[b] \in Interest
        BY <4>1 DEF IInv, ThreadInv, Shape
      <4> QED BY <4>1, <4>2, ForwarderAssumption DEF Interest
    <3>2. TryFaces(b, req[b], plan[b], left[b], pit, notif)
      BY <2>1, <2>5 DEF StartRefresh
    <3>3. CASE req[b].name = n
      BY <2>5, <3>1, <3>3 DEF RemovedByName, ForwardStep
    <3>4. CASE req[b].name # n
      <4>1. ForwardStep(Names \ {n})
        BY <2>5, <3>1, <3>4 DEF ForwardStep
      <4> QED BY <2>1, <2>3, <3>1, <3>2, <3>4, <4>1
    <3> QED BY <3>3, <3>4
  <2>6. ASSUME NEW u \in Threads, Resume(u) \/ Cancel(u)
        PROVE  Evicted(n) \/ RemovedByName(n)
    <3>1. pc[u] = "forwarding" /\ Resume(u) /\ (ResumeData(u) \/ GivesUp(u))
      BY <2>1, <2>6 DEF Resume, ResumeData, ResumeNack, Timeout, Cancel
    <3>2. req[u] \in Interest /\ req[u].name \in Names
      <4>1. req[u] \in Interest
        BY <3>1 DEF IInv, ThreadInv, Shape
      <4> QED BY <4>1 DEF Interest
    <3>3. CASE req[u].name = n
      BY <3>1, <3>3 DEF RemovedByName, ForwardStep
    <3>4. CASE req[u].name # n
      <4> DEFINE p == PitRemove(pit, req[u].name)
      <4>1. ForwardStep(Names \ {n})
        BY <3>1, <3>2, <3>4 DEF ForwardStep
      <4>2. p \in SUBSET pit /\ Pending(p, n)
        BY <2>1, <3>4 DEF PitRemove, Pending
      <4>3. GivesUp(u)
        BY <2>1, <3>1, <4>2 DEF ResumeData
      <4>4. TryFaces(u, req[u], plan[u], left[u], p, Forget(u))
        BY <4>3 DEF GivesUp
      <4> HIDE DEF p
      <4> QED BY <2>3, <3>2, <3>4, <4>1, <4>2, <4>4
    <3> QED BY <3>3, <3>4
  <2>7. ASSUME NEW d \in Contents, NEW fresh, NEW trusted, ReceiveData(d, fresh, trusted)
        PROVE  FALSE
    <3>1. n \in Satisfied(d)
      BY <2>1, <2>7 DEF ReceiveData, Pending
    <3>2. t \in notif[n]
      BY <2>2 DEF IInv, ThreadInv, WaitersRegistered
    <3>3. t \in UNION {notif[m] : m \in Satisfied(d)}
      BY <3>1, <3>2
    <3>4. fut'[t] = "data"
      BY <2>7, <3>3 DEF ReceiveData
    <3> QED BY <2>2, <3>4 DEF Awaits
  <2>8. ASSUME NEW i \in net, NEW d \in Contents, NEW fresh \in BOOLEAN, AnswerData(i, d, fresh)
        PROVE  FALSE
    BY <2>7, <2>8 DEF AnswerData
  <2>9. ASSUME NEW d \in Contents, NEW trusted \in BOOLEAN, ArriveUnsolicited(d, trusted)
        PROVE  FALSE
    BY <2>7, <2>9 DEF ArriveUnsolicited
  <2>10. CASE SweepPit
    BY <2>1, <2>10 DEF Swept, SweepPit, PurgeExpired, Pending, IInv, TableInv, TablesTyped, Entry
  <2>11. ASSUME \/ \E i \in net : AnswerNack(i)
                \/ \E f \in Faces : RegisterFace(f) \/ WithdrawFace(f)
                \/ \E x \in Routes : AddRoute(x)
                \/ \E m \in Names : CsAge(m) \/ CsForget(m)
                \/ Tick \/ UNCHANGED vars
         PROVE  FALSE
    BY <2>1, <2>11 DEF AnswerNack, RegisterFace, WithdrawFace, AddRoute, CsAge, CsForget, Tick, vars
  <2> QED BY <2>4, <2>5, <2>6, <2>8, <2>9, <2>10, <2>11 DEF Next
<1> HIDE DEF Step
<1>2. Spec => [][Step]_vars
  BY <1>1, EngineInvariant, PTL DEF Spec
<1> QED BY <1>2, PTL DEF Step, Robbed, WaitersStayFindable

-----------------------------------------------------------------------------
(* What enters the Content Store.                                           *)

(* Data is stored anew by an arrival alone, under its own name, and only    *)
(* when a pending Interest asked for it or its flow is trusted.             *)
LEMMA ArrivalStores ==
  ASSUME IInv, NEW d \in Contents, NEW fresh, NEW trusted,
         ReceiveData(d, fresh, trusted), NEW n \in Names, StoredAnew(n)
  PROVE  n = d.name /\ (trusted = TRUE \/ Satisfied(d) # {})
<1>1. cs \in [Names -> [seq : Seqs \cup {None}, age : {"none", "fresh", "stale", "old"}]]
  BY DEF IInv, TableInv, TablesTyped
<1>2. cs' # cs /\ cs'[n] # cs[n]
  BY <1>1 DEF StoredAnew
<1>3. Satisfied(d) # {} \/ trusted
  BY <1>2 DEF ReceiveData, Caches
<1>4. n = d.name
  BY <1>1, <1>2 DEF ReceiveData
<1> QED BY <1>3, <1>4

(* No other step stores anything anew: slots age, expire or stay.           *)
LEMMA OthersStoreNothing ==
  ASSUME IInv, NEW n \in Names, StoredAnew(n), [Next]_vars
  PROVE  \/ \E i \in net, d \in Contents, fresh \in BOOLEAN : AnswerData(i, d, fresh)
         \/ \E d \in Contents, trusted \in BOOLEAN : ArriveUnsolicited(d, trusted)
<1>1. cs \in [Names -> [seq : Seqs \cup {None}, age : {"none", "fresh", "stale", "old"}]]
  BY DEF IInv, TableInv, TablesTyped
<1>2. ~UNCHANGED cs
  BY <1>1 DEF StoredAnew
<1>3. ASSUME NEW m \in Names, CsAge(m) \/ CsForget(m) PROVE FALSE
  <2>1. CASE m # n
    BY <1>1, <1>3, <2>1 DEF CsAge, CsForget, StoredAnew
  <2>2. CASE CsAge(n)
    <3>1. cs'[n].seq = cs[n].seq /\ cs'[n].age \in {"stale", "old"} /\ cs[n].age \in {"fresh", "stale"}
      BY <1>1, <2>2 DEF CsAge
    <3> QED BY <3>1 DEF StoredAnew
  <2>3. CASE CsForget(n)
    BY <1>1, <2>3 DEF CsForget, StoredAnew
  <2> QED BY <1>3, <2>1, <2>2, <2>3
<1>4. ASSUME NEW t \in Tasks, NEW r \in Requests, Express(t, r) PROVE UNCHANGED cs
  BY <1>4 DEF Express, DropLoop, ServeFromCache, ServeStaleRevalidate, SuppressAggregate,
              ForwardTo, NoRoute, Arrives, tables
<1>5. ASSUME NEW t, GivesUp(t) PROVE UNCHANGED cs
  BY <1>5 DEF GivesUp
<1>6. ASSUME NEW t, Resume(t) \/ Cancel(t) PROVE UNCHANGED cs
  BY <1>5, <1>6 DEF Resume, ResumeData, ResumeNack, Timeout, Cancel, tables
<1>7. ASSUME NEW b, StartRefresh(b) PROVE UNCHANGED cs
  BY <1>7 DEF StartRefresh, tables
<1>8. ASSUME NEW i \in net, AnswerNack(i) PROVE UNCHANGED cs
  BY <1>8 DEF AnswerNack, tables
<1>9. ASSUME \/ \E f \in Faces : RegisterFace(f) \/ WithdrawFace(f)
             \/ \E x \in Routes : AddRoute(x)
             \/ SweepPit \/ Tick \/ UNCHANGED vars
      PROVE  UNCHANGED cs
  BY <1>9 DEF RegisterFace, WithdrawFace, AddRoute, SweepPit, Tick, vars, tables
<1> QED BY <1>2, <1>3, <1>4, <1>6, <1>7, <1>8, <1>9 DEF Next

(* Unless a caller cancels, what enters the Content Store is under the name *)
(* of a forward in flight, or came on a trusted push flow (receive_data's   *)
(* was_pending or trusted).                                                 *)
THEOREM CachedWasSolicited ==
  ASSUME Cancellable = {}
  PROVE  Spec => OnlySolicitedCached
<1> DEFINE Step ==
      \A n \in Names : StoredAnew(n) =>
        \/ \E c \in Pushed : c.name = n
        \/ \E t \in Threads : pc[t] = "forwarding" /\ StartsWith(n, req[t].name)
<1>1. IInv /\ [Next]_vars => [Step]_vars
  <2> SUFFICES ASSUME IInv, [Next]_vars, NEW n \in Names, StoredAnew(n)
               PROVE  \/ \E c \in Pushed : c.name = n
                      \/ \E t \in Threads : pc[t] = "forwarding" /\ StartsWith(n, req[t].name)
    OBVIOUS
  <2>1. ASSUME NEW d \in Contents, n = d.name, Satisfied(d) # {}
        PROVE  \E t \in Threads : pc[t] = "forwarding" /\ StartsWith(n, req[t].name)
    <3>1. PICK m \in Satisfied(d) : StartsWith(d.name, m)
      BY <2>1, SatisfiedType
    <3>2. \E e \in pit : e.name = m
      BY DEF Satisfied, Longest
    <3>3. PICK e \in pit : e.name = m
      BY <3>2
    <3>4. EntryHasOwner /\ e.owner \in Threads
      BY DEF IInv, ThreadInv, Owned, TableInv, TablesTyped, Entry
    <3> QED BY <2>1, <3>1, <3>3, <3>4 DEF EntryHasOwner
  <2>2. ASSUME NEW i \in net, NEW d \in Contents, NEW fresh \in BOOLEAN, AnswerData(i, d, fresh)
        PROVE  \E t \in Threads : pc[t] = "forwarding" /\ StartsWith(n, req[t].name)
    <3>1. ReceiveData(d, fresh, FALSE)
      BY <2>2 DEF AnswerData
    <3> QED BY <2>1, <3>1, ArrivalStores
  <2>3. ASSUME NEW d \in Contents, NEW trusted \in BOOLEAN, ArriveUnsolicited(d, trusted)
        PROVE  \/ d \in Pushed /\ d.name = n
               \/ \E t \in Threads : pc[t] = "forwarding" /\ StartsWith(n, req[t].name)
    <3>1. ReceiveData(d, TRUE, trusted) /\ (trusted => d \in Pushed)
      BY <2>3 DEF ArriveUnsolicited
    <3> QED BY <2>1, <3>1, ArrivalStores
  <2> QED BY <2>2, <2>3, OthersStoreNothing
<1> HIDE DEF Step
<1>2. Spec => [][Step]_vars
  BY <1>1, EngineInvariant, PTL DEF Spec
<1> QED BY <1>2, PTL DEF Step, OnlySolicitedCached

-----------------------------------------------------------------------------
(* What is answered at once.                                                *)

(* Trying faces leaves the thread without an answer and the others as they  *)
(* were.                                                                    *)
LEMMA TryFacesGot ==
  ASSUME NEW t, NEW r, NEW hops, NEW S, NEW p, NEW w, TryFaces(t, r, hops, S, p, w)
  PROVE  got' = [got EXCEPT ![t] = None]
BY DEF TryFaces, Ends, Parks

(* An idle task has an answer after a step only if the step served it from  *)
(* the cache.                                                               *)
LEMMA AnswersAtOnce ==
  ASSUME IInv, [Next]_vars, NEW t \in Tasks, pc[t] = "idle", got'[t] # None
  PROVE  \E r \in Requests : ServeFromCache(t, r) \/ ServeStaleRevalidate(t, r)
<1>1. got \in [Threads -> Packet \cup {None}] /\ t \in Threads /\ t \notin Refreshers
  BY ForwarderAssumption DEF IInv, ThreadInv, ThreadsTyped, Threads
<1>2. ~Parked(t) /\ got[t] = None
  BY <1>1 DEF IInv, ThreadInv, Shape, Parked
<1>3. ~UNCHANGED got
  BY <1>2
<1>4. ASSUME NEW u \in Threads, NEW r, NEW a, Ends(u, r, a), u # t \/ a = None PROVE FALSE
  BY <1>1, <1>2, <1>4 DEF Ends
<1>5. ASSUME NEW u \in Threads, got' = [got EXCEPT ![u] = None] PROVE FALSE
  BY <1>1, <1>2, <1>5
<1>6. ASSUME NEW u, NEW r, NEW hops, NEW S, NEW p, NEW w, u \in Threads,
             TryFaces(u, r, hops, S, p, w)
      PROVE  FALSE
  BY <1>5, <1>6, TryFacesGot
<1>7. ASSUME NEW u \in Tasks, NEW r \in Requests, Express(u, r), u # t PROVE FALSE
  <2>1. u \in Threads
    BY DEF Threads
  <2>2. CASE DropLoop(u, r) \/ ServeFromCache(u, r) \/ NoRoute(u, r)
    BY <1>4, <1>7, <2>1, <2>2 DEF DropLoop, ServeFromCache, NoRoute
  <2>3. CASE ServeStaleRevalidate(u, r)
    BY <1>1, <1>2, <1>7, <2>1, <2>3 DEF ServeStaleRevalidate
  <2>4. CASE SuppressAggregate(u, r)
    BY <1>5, <2>1, <2>4 DEF SuppressAggregate, Parks
  <2>5. CASE ForwardTo(u, r)
    BY <1>6, <2>1, <2>5 DEF ForwardTo
  <2> QED BY <1>7, <2>2, <2>3, <2>4, <2>5 DEF Express
<1>8. ASSUME NEW r \in Requests, Express(t, r)
      PROVE  ServeFromCache(t, r) \/ ServeStaleRevalidate(t, r)
  <2>1. CASE DropLoop(t, r) \/ NoRoute(t, r)
    BY <1>1, <1>4, <2>1 DEF DropLoop, NoRoute
  <2>2. CASE SuppressAggregate(t, r)
    BY <1>1, <1>5, <2>2 DEF SuppressAggregate, Parks
  <2>3. CASE ForwardTo(t, r)
    BY <1>1, <1>6, <2>3 DEF ForwardTo
  <2> QED BY <1>8, <2>1, <2>2, <2>3 DEF Express
<1>9. ASSUME NEW b \in Refreshers, StartRefresh(b) PROVE FALSE
  <2>1. b \in Threads
    BY DEF Threads
  <2> QED BY <1>4, <1>6, <1>9, <2>1 DEF StartRefresh
<1>10. ASSUME NEW u \in Threads, Resume(u) \/ Cancel(u) PROVE FALSE
  <2>1. u # t
    BY <1>2, <1>10 DEF Resume, ResumeData, ResumeNack, Timeout, Cancel, Parked
  <2>2. ~GivesUp(u)
    BY <1>6 DEF GivesUp
  <2> QED BY <1>4, <1>10, <2>1, <2>2 DEF Resume, ResumeData, ResumeNack, Timeout, Cancel
<1>11. ASSUME NEW d \in Contents, NEW fresh, NEW trusted, ReceiveData(d, fresh, trusted)
       PROVE  FALSE
  <2>1. \A n \in Names : t \notin notif[n]
    BY <1>1, <1>2 DEF IInv, ThreadInv, WaitersRegistered, Awaits
  <2>2. Satisfied(d) \subseteq Names
    BY SatisfiedType
  <2>3. t \notin UNION {notif[n] : n \in Satisfied(d)}
    BY <2>1, <2>2
  <2>4. got'[t] = got[t]
    BY <1>1, <1>11, <2>3 DEF ReceiveData
  <2> QED BY <1>2, <2>4
<1>12. ASSUME NEW i \in net, NEW d \in Contents, NEW fresh \in BOOLEAN, AnswerData(i, d, fresh)
       PROVE  FALSE
  BY <1>11, <1>12 DEF AnswerData
<1>13. ASSUME NEW d \in Contents, NEW trusted \in BOOLEAN, ArriveUnsolicited(d, trusted)
       PROVE  FALSE
  BY <1>11, <1>13 DEF ArriveUnsolicited
<1>14. ASSUME NEW i \in net, AnswerNack(i) PROVE FALSE
  BY <1>3, <1>14 DEF AnswerNack
<1>15. ASSUME \/ \E f \in Faces : RegisterFace(f) \/ WithdrawFace(f)
              \/ \E x \in Routes : AddRoute(x)
              \/ SweepPit
              \/ \E n \in Names : CsAge(n) \/ CsForget(n)
              \/ Tick \/ UNCHANGED vars
       PROVE  FALSE
  BY <1>3, <1>15 DEF RegisterFace, WithdrawFace, AddRoute, SweepPit, CsAge, CsForget, Tick,
                     vars, threads
<1> QED BY <1>7, <1>8, <1>9, <1>10, <1>12, <1>13, <1>14, <1>15 DEF Next

(* A cached packet that passes the selector fits the whole Interest.        *)
LEMMA HitFits ==
  ASSUME IInv, NEW r \in Interest, NEW n \in CsHits(r), SelectorSatisfied(r, CachedPacket(n))
  PROVE  LET p == CachedPacket(n)
         IN /\ r.fresh => p.fresh
            /\ r.floor # None => p.seq # None /\ p.seq >= r.floor
            /\ r.pin # None => p.seq = r.pin
            /\ ~r.prefix => p.name = r.name
<1>1. n \in Names
  BY HitsType DEF CsHits, GetExact, GetPrefix, Stored, Interest, Selector
<1>2. r.child \in Selector
  BY DEF Interest
<1>3. CachedPacket(n).name = n /\ CachedPacket(n).seq = cs[n].seq
  BY DEF CachedPacket
<1>4. r.floor # None => cs[n].seq # None /\ cs[n].seq >= r.floor
  BY <1>3 DEF SelectorSatisfied, SequenceSatisfied
<1>5. r.prefix => r.pin = None
  BY <1>2 DEF CsHits, GetPrefix, Selector
<1>6. ~r.prefix => n = r.name /\ (r.pin = None \/ r.pin = cs[n].seq)
  BY DEF CsHits, GetExact
<1> QED BY <1>3, <1>4, <1>5, <1>6 DEF SelectorSatisfied

(* An Interest answered in the step that received it is answered from the   *)
(* cache with a packet that fits it: fresh if it must be, at or above its   *)
(* floor, the pinned edition if it is pinned (the cache branch of express). *)
THEOREM CacheFitsInterest == Spec => CacheHonoursInterest
<1> DEFINE Step ==
      \A t \in Tasks : pc[t] = "idle" /\ got'[t] # None =>
        LET r == req'[t] p == got'[t]
        IN /\ r.fresh => p.fresh
           /\ r.floor # None => p.seq # None /\ p.seq >= r.floor
           /\ r.pin # None => p.seq = r.pin
           /\ ~r.prefix => p.name = r.name
<1>1. IInv /\ [Next]_vars => [Step]_vars
  <2> SUFFICES ASSUME IInv, [Next]_vars, NEW t \in Tasks, pc[t] = "idle", got'[t] # None
               PROVE  LET r == req'[t] p == got'[t]
                      IN /\ r.fresh => p.fresh
                         /\ r.floor # None => p.seq # None /\ p.seq >= r.floor
                         /\ r.pin # None => p.seq = r.pin
                         /\ ~r.prefix => p.name = r.name
    OBVIOUS
  <2>1. PICK r \in Requests : ServeFromCache(t, r) \/ ServeStaleRevalidate(t, r)
    BY AnswersAtOnce
  <2>2. r \in Interest
    BY ForwarderAssumption
  <2>3. /\ t \in Threads /\ t \notin Refreshers
        /\ req \in [Threads -> Interest \cup {None}] /\ got \in [Threads -> Packet \cup {None}]
    BY ForwarderAssumption DEF IInv, ThreadInv, ThreadsTyped, Threads
  <2>4. PICK n \in CsHits(r) : /\ SelectorSatisfied(r, CachedPacket(n))
                               /\ req'[t] = r /\ got'[t] = CachedPacket(n)
    <3>1. CASE ServeFromCache(t, r)
      BY <2>3, <3>1 DEF ServeFromCache, Ends
    <3>2. CASE ServeStaleRevalidate(t, r)
      <4> DEFINE b == <<r.name, r.pin>>
      <4>1. PICK n \in CsHits(r) :
              /\ SelectorSatisfied(r, CachedPacket(n)) /\ Revalidates(r, n)
              /\ got' = [got EXCEPT ![t] = CachedPacket(n)]
              /\ \E x : req' = [req EXCEPT ![t] = r, ![b] = x]
        BY <3>2 DEF ServeStaleRevalidate
      <4>2. b # t
        BY <2>3, <4>1 DEF Revalidates, Refreshers
      <4>3. PICK x : req' = [req EXCEPT ![t] = r, ![b] = x]
        BY <4>1
      <4> HIDE DEF b
      <4>4. req'[t] = r
        BY <2>3, <4>2, <4>3
      <4> QED BY <2>3, <4>1, <4>4
    <3> QED BY <2>1, <3>1, <3>2
  <2> QED BY <2>2, <2>4, HitFits
<1> HIDE DEF Step
<1>2. Spec => [][Step]_vars
  BY <1>1, EngineInvariant, PTL DEF Spec
<1> QED BY <1>2, PTL DEF Step, CacheHonoursInterest

-----------------------------------------------------------------------------
(* The engine leaves its FIB alone but for the calls AddRoute and           *)
(* WithdrawFace make (Fib.insert, Fib.remove_all_for_face): what holds of   *)
(* the FIB on its own holds of the engine's.                                *)
THEOREM EngineCallsFib == Spec => FibSpec
<1>1. Init => FibInit
  BY DEF Init, FibInit
<1>2. [Next]_vars => [FibNext]_fib
  <2> SUFFICES ASSUME [Next]_vars PROVE [FibNext]_fib
    OBVIOUS
  <2>1. CASE UNCHANGED vars
    BY <2>1, Zenon DEF vars, tables
  <2>2. ASSUME NEW t \in Tasks, NEW r \in Requests, Express(t, r) PROVE fib' = fib
    BY <2>2, Zenon DEF Express, DropLoop, ServeFromCache, ServeStaleRevalidate,
       SuppressAggregate, ForwardTo, NoRoute, Arrives, tables
  <2>3. ASSUME NEW b \in Refreshers, StartRefresh(b) PROVE fib' = fib
    BY <2>3, Zenon DEF StartRefresh, tables
  <2>4. ASSUME NEW t \in Threads, Resume(t) \/ Cancel(t) PROVE fib' = fib
    BY <2>4, Zenon DEF Resume, ResumeData, ResumeNack, Timeout, GivesUp, Cancel, tables
  <2>5. ASSUME NEW d, NEW fresh, NEW trusted, ReceiveData(d, fresh, trusted) PROVE fib' = fib
    BY <2>5, Zenon DEF ReceiveData
  <2>6. ASSUME NEW i \in net, AnswerNack(i) PROVE fib' = fib
    BY <2>6, Zenon DEF AnswerNack, tables
  <2>7. ASSUME NEW f \in Faces, RegisterFace(f) PROVE fib' = fib
    BY <2>7, Zenon DEF RegisterFace
  <2>8. ASSUME NEW f \in Faces, WithdrawFace(f) PROVE FibNext
    BY <2>8, Zenon DEF WithdrawFace, FibNext, RemoveAllForFace
  <2>9. ASSUME NEW x \in Routes, AddRoute(x) PROVE FibNext
    <3>1. x.prefix \in Names /\ x.face \in Faces /\ x.cost \in Costs
      BY ForwarderAssumption
    <3>2. Insert(x.prefix, x.face, x.cost)
      BY <2>9, Zenon DEF AddRoute, Insert
    <3> QED BY <3>1, <3>2, Zenon DEF FibNext
  <2>10. ASSUME SweepPit \/ Tick \/ \E n \in Names : CsAge(n) \/ CsForget(n) PROVE fib' = fib
    BY <2>10, Zenon DEF SweepPit, Tick, CsAge, CsForget, tables
  <2>11. ASSUME NEW d, NEW fresh, NEW trusted,
                ArriveUnsolicited(d, trusted) \/ \E i \in net : AnswerData(i, d, fresh)
         PROVE  fib' = fib
    BY <2>5, <2>11, Zenon DEF ArriveUnsolicited, AnswerData
  <2> QED BY <2>1, <2>2, <2>3, <2>4, <2>6, <2>7, <2>8, <2>9, <2>10, <2>11, Zenon DEF Next
<1> QED BY <1>1, <1>2, PTL DEF Spec, FibSpec
=============================================================================
