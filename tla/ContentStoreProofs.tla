------------------------- MODULE ContentStoreProofs -------------------------
(***************************************************************************)
(* The Content Store's tables stay consistent, for every set of names,      *)
(* editions, time-to-live configuration and capacity.  The inductive        *)
(* invariant holds of the open connection and of the committed file alike:  *)
(* the two differ by a purge that was not committed, or by a salvage.       *)
(***************************************************************************)
EXTENDS ContentStore, TLAPS, WellFoundedInduction, FiniteSetTheorems

(* A non-empty set of naturals has a least member.                          *)
LEMMA LeastNatural ==
  ASSUME NEW T \in SUBSET Nat, T # {}
  PROVE  \E x \in T : \A y \in T : x <= y
<1>1. PICK x \in T : \A y \in T : ~(<<y, x>> \in OpToRel(<, Nat))
  BY NatLessThanWellFounded, WFMin
<1>2. ASSUME NEW y \in T PROVE x <= y
  <2>1. x \in Nat /\ y \in Nat
    OBVIOUS
  <2>2. ~(y < x)
    BY <1>1, <2>1 DEF OpToRel
  <2> QED BY <2>1, <2>2
<1> QED BY <1>2

(* PRIMARY KEY (name_hash).                                                 *)
Keyed(d) == \A r, s \in d.content : r.name = s.name => r = s

(* There is a largest rowid.                                                *)
RowidsBounded(d) == \E k \in Nat : \A r \in d.content : r.rid <= k

Capped(d, max) == IsFiniteSet(d.content) /\ Cardinality(d.content) <= max

(* No salvage has dropped the index.                                        *)
Indexable(d) == "rows" \notin Damages => ExactIndex(d)

Sound(d) == d \in Database /\ Keyed(d) /\ RowidsBounded(d) /\ Indexable(d)

GoneFrom(d) == "rows" \notin Damages => gone \cap NamesOf(d.content) = {}

(* The inductive invariant.                                                 *)
IInv ==
  /\ TypeOK
  /\ damage # "none" => damage \in Damages
  /\ Sound(db) /\ Capped(db, MaxEntries) /\ GoneFrom(db)
  /\ Sound(disk) /\ Capped(disk, MaxEntries) /\ GoneFrom(disk)

-----------------------------------------------------------------------------
(* The prefixes of a name are names.                                        *)
LEMMA PrefixesType ==
  ASSUME NEW n \in Names
  PROVE  Prefixes(n) \subseteq Seq(Components)
<1>1. n \in Seq(Components)
  BY StoreAssumption
<1>2. \A k \in 1..Len(n) : SubSeq(n, 1, k) \in Seq(Components)
  BY <1>1
<1> QED BY <1>2 DEF Prefixes

(* A name that starts with another is indexed under it.                     *)
LEMMA PrefixIndexed ==
  ASSUME NEW n \in Names, NEW p \in Names, StartsWith(n, p)
  PROVE  p \in Prefixes(n)
<1>1. n \in Seq(Components) /\ p \in Seq(Components) /\ p # <<>>
  BY StoreAssumption
<1>2. Len(p) \in 1..Len(n)
  BY <1>1 DEF StartsWith
<1>3. SubSeq(n, 1, Len(p)) = p
  <2>1. Len(p) \in Nat /\ Len(n) \in Nat
    BY <1>1
  <2>2. SubSeq(n, 1, Len(p)) = [i \in 1..Len(p) |-> n[i]]
    BY <1>1, <1>2, <2>1
  <2>3. p = [i \in 1..Len(p) |-> p[i]]
    BY <1>1
  <2>4. [i \in 1..Len(p) |-> n[i]] = [i \in 1..Len(p) |-> p[i]]
    BY DEF StartsWith
  <2> QED BY <2>2, <2>3, <2>4
<1> QED BY <1>2, <1>3 DEF Prefixes

(* Deleting rows and their index entries together.                          *)
LEMMA DeleteFields ==
  ASSUME NEW d \in Database, NEW S
  PROVE  /\ Delete(d, S).content = {r \in d.content : r.name \notin S}
         /\ Delete(d, S).index = {x \in d.index : x[2] \notin S}
         /\ Delete(d, S).old = d.old
         /\ Delete(d, S) \in Database
<1>1. /\ Delete(d, S).content = {r \in d.content : r.name \notin S}
      /\ Delete(d, S).index = {x \in d.index : x[2] \notin S}
      /\ Delete(d, S).old = d.old
  BY DEF Delete, Database
<1>2. Delete(d, S) \in Database
  BY DEF Delete, Database
<1> QED BY <1>1, <1>2

LEMMA DeleteSound ==
  ASSUME NEW d, Sound(d), NEW S
  PROVE  Sound(Delete(d, S)) /\ Delete(d, S).content \subseteq d.content
<1> DEFINE c == Delete(d, S)
<1>1. d \in Database
  BY DEF Sound
<1>2. /\ c.content = {r \in d.content : r.name \notin S}
      /\ c.index = {x \in d.index : x[2] \notin S}
      /\ c \in Database
  BY <1>1, DeleteFields
<1> HIDE DEF c
<1>3. Keyed(c)
  BY <1>2 DEF Sound, Keyed
<1>4. RowidsBounded(c)
  BY <1>2 DEF Sound, RowidsBounded
<1>5. Indexable(c)
  <2> SUFFICES ASSUME "rows" \notin Damages PROVE ExactIndex(c)
    BY DEF Indexable
  <2>1. d.index = UNION {Prefixes(n) \X {n} : n \in NamesOf(d.content)}
    BY DEF Sound, Indexable, ExactIndex
  <2>2. NamesOf(c.content) = NamesOf(d.content) \ S
    BY <1>2 DEF NamesOf
  <2> HIDE DEF Sound
  <2>3. c.index = UNION {Prefixes(n) \X {n} : n \in NamesOf(d.content) \ S}
    BY <1>2, <2>1
  <2> QED BY <2>2, <2>3 DEF ExactIndex
<1> QED BY <1>2, <1>3, <1>4, <1>5 DEF Sound, c

(* A part of the rows is within the capacity too.                           *)
LEMMA SubsetCapped ==
  ASSUME NEW c, NEW d, NEW max \in Nat, Capped(d, max), c.content \subseteq d.content
  PROVE  Capped(c, max)
<1>1. IsFiniteSet(c.content) /\ Cardinality(c.content) <= Cardinality(d.content)
  BY FS_Subset DEF Capped
<1>2. Cardinality(c.content) \in Nat /\ Cardinality(d.content) \in Nat
  BY <1>1, FS_CardinalityType DEF Capped
<1> QED BY <1>1, <1>2 DEF Capped

-----------------------------------------------------------------------------
(* The rowid of an upsert is a number: there is a largest one to follow,    *)
(* and a new row's follows all of them.                                     *)
LEMMA RowidType ==
  ASSUME NEW d, Sound(d), NEW n \in Names
  PROVE  /\ Rowid(d.content, n) \in Nat
         /\ n \notin NamesOf(d.content) => \A r \in d.content : r.rid < Rowid(d.content, n)
<1>1. \A r \in d.content : r.rid \in Nat
  BY DEF Sound, Database, Rows
<1>2. CASE n \in NamesOf(d.content)
  <2>1. (CHOOSE r \in d.content : r.name = n) \in d.content
    BY <1>2 DEF NamesOf
  <2> QED BY <1>1, <1>2, <2>1 DEF Rowid
<1>3. CASE n \notin NamesOf(d.content)
  <2> DEFINE R == {0} \cup {r.rid : r \in d.content}
             U == {k \in Nat : \A x \in R : x <= k}
  <2>1. U \in SUBSET Nat /\ U # {}
    <3>1. PICK k \in Nat : \A r \in d.content : r.rid <= k
      BY DEF Sound, RowidsBounded
    <3>2. k \in U
      BY <3>1
    <3> QED BY <3>2
  <2>2. \A x \in R : x \in Nat
    BY <1>1
  <2> HIDE DEF R
  <2>3. PICK k \in U : \A j \in U : k <= j
    <3> HIDE DEF U
    <3> QED BY <2>1, LeastNatural
  <2>4. k \in R
    <3> SUFFICES ASSUME k \notin R PROVE FALSE
      OBVIOUS
    <3>1. 0 \in R
      BY DEF R
    <3>2. k # 0 /\ k - 1 \in Nat
      BY <2>3, <3>1
    <3>3. \A x \in R : x <= k - 1
      BY <2>2, <2>3, <3>2
    <3>4. k - 1 \in U
      BY <3>2, <3>3
    <3> QED BY <2>3, <3>2, <3>4
  <2>5. Max(R) \in R /\ \A x \in R : x <= Max(R)
    BY <2>2, <2>3, <2>4 DEF Max
  <2>6. Rowid(d.content, n) = 1 + Max(R)
    BY <1>3 DEF Rowid, R
  <2>7. \A r \in d.content : r.rid \in R
    BY DEF R
  <2> QED BY <2>2, <2>5, <2>6, <2>7
<1> QED BY <1>2, <1>3

(* The upsert leaves sound tables with at most one row more.                *)
LEMMA StoredSound ==
  ASSUME IInv, NEW n \in Names, NEW e \in Editions
  PROVE  LET d == Stored(db, n, e)
         IN /\ Sound(d) /\ Capped(d, MaxEntries + 1)
            /\ NamesOf(d.content) \subseteq NamesOf(db.content) \cup {n}
<1> DEFINE k     == Rowid(db.content, n)
           row   == [name |-> n, ed |-> e, at |-> now, expires |-> ExpiresAt(n), rid |-> k]
           clean == Delete(db, {n})
           d     == Stored(db, n, e)
<1>1. Sound(db) /\ Capped(db, MaxEntries) /\ now \in Nat /\ MaxEntries \in Nat
  BY StoreAssumption DEF IInv, TypeOK
<1>2. k \in Nat
  BY <1>1, RowidType
<1>3. row \in Rows
  <2>1. ExpiresAt(n) \in Nat
    BY <1>1, StoreAssumption DEF ExpiresAt
  <2> HIDE DEF k
  <2> QED BY <1>1, <1>2, <2>1 DEF Rows
<1>4. row.name = n /\ row.rid = k
  OBVIOUS
<1>5. Sound(clean) /\ clean.content \subseteq db.content /\ clean \in Database
  BY <1>1, DeleteSound DEF Sound
<1>6. clean.content = {r \in db.content : r.name # n} /\ clean.old = db.old
  BY <1>1, DeleteFields DEF Sound
<1> DEFINE C == clean.content \cup {row}
           I == clean.index \cup {<<p, n>> : p \in Prefixes(n)}
<1>7. d = [db EXCEPT !.content = C, !.index = I]
  BY DEF Stored
<1> HIDE DEF k, row, clean, d
<1>8. C \subseteq Rows
  BY <1>3, <1>5 DEF Database
<1>9. I \subseteq Seq(Components) \X Names
  BY <1>5, PrefixesType DEF Database
<1> HIDE DEF C, I
<1>10. db \in Database
  BY <1>1 DEF Sound
<1>11. d \in Database /\ d.content = C /\ d.index = I
  BY <1>7, <1>8, <1>9, <1>10 DEF Database
<1>12. d.content = clean.content \cup {row} /\ d.index = clean.index \cup {<<p, n>> : p \in Prefixes(n)}
  BY <1>11 DEF C, I
<1>13. Keyed(d)
  BY <1>4, <1>5, <1>6, <1>12 DEF Sound, Keyed
<1>14. RowidsBounded(d)
  <2>1. PICK j \in Nat : \A r \in clean.content : r.rid <= j
    BY <1>5 DEF Sound, RowidsBounded
  <2>2. \A r \in clean.content : r.rid \in Nat
    BY <1>5 DEF Database, Rows
  <2>3. \A r \in d.content : r.rid <= j + k
    BY <1>2, <1>4, <1>12, <2>1, <2>2
  <2> QED BY <1>2, <2>3 DEF RowidsBounded
<1>15. NamesOf(d.content) = NamesOf(clean.content) \cup {n}
  BY <1>4, <1>12 DEF NamesOf
<1>16. Indexable(d)
  <2> SUFFICES ASSUME "rows" \notin Damages PROVE ExactIndex(d)
    BY DEF Indexable
  <2>1. clean.index = UNION {Prefixes(m) \X {m} : m \in NamesOf(clean.content)}
    BY <1>5 DEF Sound, Indexable, ExactIndex
  <2>2. {<<p, n>> : p \in Prefixes(n)} = Prefixes(n) \X {n}
    OBVIOUS
  <2>3. d.index = UNION {Prefixes(m) \X {m} : m \in NamesOf(clean.content) \cup {n}}
    BY <1>12, <2>1, <2>2
  <2> QED BY <1>15, <2>3 DEF ExactIndex
<1>17. Capped(d, MaxEntries + 1)
  <2>1. Capped(clean, MaxEntries)
    BY <1>1, <1>5, SubsetCapped
  <2>2. IsFiniteSet(clean.content) /\ Cardinality(clean.content) \in Nat
    BY <2>1, FS_CardinalityType DEF Capped
  <2>3. IsFiniteSet(d.content) /\ Cardinality(d.content) <= Cardinality(clean.content) + 1
    <3> DEFINE K == clean.content
    <3>1. IsFiniteSet(K) /\ Cardinality(K) \in Nat /\ d.content = K \cup {row}
      BY <1>12, <2>2
    <3> HIDE DEF K
    <3>2. IsFiniteSet(K \cup {row}) /\ Cardinality(K \cup {row}) <= Cardinality(K) + 1
      BY <3>1, FS_AddElement
    <3> QED BY <3>1, <3>2 DEF K
  <2>4. Cardinality(d.content) \in Nat
    BY <2>3, FS_CardinalityType
  <2> QED BY <1>1, <2>1, <2>2, <2>3, <2>4 DEF Capped
<1>18. NamesOf(d.content) \subseteq NamesOf(db.content) \cup {n}
  BY <1>5, <1>15 DEF NamesOf
<1> QED BY <1>11, <1>13, <1>14, <1>16, <1>17, <1>18 DEF Sound, d

-----------------------------------------------------------------------------
(* A non-empty table has a first row in the eviction order.                 *)
LEMMA FirstRowExists ==
  ASSUME NEW S \in SUBSET Rows, S # {}
  PROVE  \E r \in S : \A s \in S : ~Before(s, r)
<1>1. \A r \in S : r.at \in Nat /\ r.rid \in Nat
  BY DEF Rows
<1> DEFINE A == {r.at : r \in S}
<1>2. A \in SUBSET Nat /\ A # {}
  BY <1>1
<1>3. PICK a \in A : \A b \in A : a <= b
  <2> HIDE DEF A
  <2> QED BY <1>2, LeastNatural
<1> DEFINE K == {r.rid : r \in {s \in S : s.at = a}}
<1>4. K \in SUBSET Nat /\ K # {}
  BY <1>1, <1>3
<1>5. PICK k \in K : \A j \in K : k <= j
  <2> HIDE DEF K
  <2> QED BY <1>4, LeastNatural
<1>6. PICK r \in S : r.at = a /\ r.rid = k
  BY <1>5
<1>7. \A s \in S : a <= s.at /\ (s.at = a => k <= s.rid)
  BY <1>3, <1>5
<1> QED BY <1>1, <1>6, <1>7 DEF Before

(* Evicting brings a table that is one row over back to its capacity.       *)
LEMMA EvictCapped ==
  ASSUME NEW d, Sound(d), NEW max \in Nat \ {0}, Capped(d, max + 1)
  PROVE  LET c == EvictLru(d, Cardinality(d.content) - max)
         IN Sound(c) /\ Capped(c, max) /\ c.content \subseteq d.content
<1> DEFINE k == Cardinality(d.content) - max
           N == NamesOf(Oldest(d.content, k))
           c == Delete(d, N)
<1>1. Sound(c) /\ c.content \subseteq d.content
  BY DeleteSound
<1>2. c.content = {r \in d.content : r.name \notin N}
  BY DeleteFields DEF Sound
<1>3. IsFiniteSet(d.content) /\ Cardinality(d.content) \in Nat /\ Cardinality(d.content) <= max + 1
  BY FS_CardinalityType DEF Capped
<1> HIDE DEF N, c
<1>4. Capped(c, max)
  <2>1. CASE Cardinality(d.content) <= max
    BY <1>1, <1>3, <2>1, SubsetCapped DEF Capped
  <2>2. CASE Cardinality(d.content) = max + 1
    <3>1. d.content # {} /\ d.content \in SUBSET Rows
      BY <1>3, <2>2, FS_EmptySet DEF Sound, Database
    <3>2. PICK r \in d.content : \A s \in d.content : ~Before(s, r)
      BY <3>1, FirstRowExists
    <3>3. {s \in d.content : Before(s, r)} = {}
      BY <3>2
    <3>4. k = 1
      BY <2>2
    <3>5. r \in Oldest(d.content, k)
      BY <3>2, <3>3, <3>4, FS_EmptySet DEF Oldest
    <3>6. r.name \in N
      BY <3>5 DEF N, NamesOf
    <3>7. r \notin c.content
      BY <1>2, <3>6
    <3>8. /\ IsFiniteSet(c.content) /\ Cardinality(c.content) <= Cardinality(d.content)
          /\ Cardinality(c.content) # Cardinality(d.content)
      BY <1>1, <1>3, <3>2, <3>7, FS_Subset
    <3>9. Cardinality(c.content) \in Nat
      BY <3>8, FS_CardinalityType
    <3> QED BY <1>3, <2>2, <3>8, <3>9 DEF Capped
  <2> QED BY <1>3, <2>1, <2>2
<1> QED BY <1>1, <1>4 DEF EvictLru, c, N

-----------------------------------------------------------------------------
(* A transaction that leaves sound tables within the capacity, and no row   *)
(* of an invalidated name, keeps the invariant.                             *)
LEMMA CommitsInv ==
  ASSUME IInv, NEW d, Commits(d), Sound(d), Capped(d, MaxEntries),
         UNCHANGED <<now, last>>, gone' \subseteq Names,
         "rows" \notin Damages => gone' \cap NamesOf(d.content) = {}
  PROVE  IInv'
<1>1. db' = d /\ disk' = d /\ damage' = "none" /\ d \in Database
  BY DEF Commits, Sound
<1>2. TypeOK'
  BY <1>1 DEF IInv, TypeOK
<1>3. /\ Sound(db)' /\ Capped(db, MaxEntries)' /\ GoneFrom(db)'
      /\ Sound(disk)' /\ Capped(disk, MaxEntries)' /\ GoneFrom(disk)'
  BY <1>1 DEF Sound, Capped, GoneFrom, Keyed, RowidsBounded, Indexable, ExactIndex
<1> QED BY <1>1, <1>2, <1>3 DEF IInv

(* Deleting from the connection's tables keeps them sound and small.        *)
LEMMA DeleteKeeps ==
  ASSUME IInv, NEW S
  PROVE  LET d == Delete(db, S)
         IN /\ Sound(d) /\ Capped(d, MaxEntries)
            /\ NamesOf(d.content) = NamesOf(db.content) \ S
<1> DEFINE d == Delete(db, S)
<1>1. Sound(db) /\ Capped(db, MaxEntries) /\ MaxEntries \in Nat
  BY StoreAssumption DEF IInv
<1>2. Sound(d) /\ d.content \subseteq db.content
  BY <1>1, DeleteSound
<1>3. d.content = {r \in db.content : r.name \notin S}
  BY <1>1, DeleteFields DEF Sound
<1> HIDE DEF d
<1>4. Capped(d, MaxEntries)
  BY <1>1, <1>2, SubsetCapped
<1>5. NamesOf(d.content) = NamesOf(db.content) \ S
  BY <1>3 DEF NamesOf
<1> QED BY <1>2, <1>4, <1>5 DEF d

(* Operations that only delete.                                             *)
LEMMA DeletingInv ==
  ASSUME IInv, NEW S, NEW G \in SUBSET Names, Commits(Delete(db, S)),
         gone' = gone \cup G, UNCHANGED <<now, last>>,
         "rows" \notin Damages => \A n \in G : n \in NamesOf(db.content) => n \in S
  PROVE  IInv'
<1> DEFINE d == Delete(db, S)
<1>1. /\ Sound(d) /\ Capped(d, MaxEntries)
      /\ NamesOf(d.content) = NamesOf(db.content) \ S
  BY DeleteKeeps
<1> HIDE DEF d
<1>2. gone' \subseteq Names
  BY DEF IInv, TypeOK
<1>3. "rows" \notin Damages => gone' \cap NamesOf(d.content) = {}
  BY <1>1 DEF IInv, GoneFrom
<1>4. Commits(d)
  BY DEF d
<1> QED BY <1>1, <1>2, <1>3, <1>4, CommitsInv

LEMMA InsertInv ==
  ASSUME IInv, NEW n \in Names, NEW e \in Editions, Insert(n, e)
  PROVE  IInv'
<1> DEFINE d == Stored(db, n, e)
           c == EvictLru(d, Cardinality(d.content) - MaxEntries)
<1>1. /\ Sound(d) /\ Capped(d, MaxEntries + 1)
      /\ NamesOf(d.content) \subseteq NamesOf(db.content) \cup {n}
  BY StoredSound
<1>2. Commits(c) /\ gone' = gone \ {n} /\ UNCHANGED <<now, last>>
  BY DEF Insert
<1> HIDE DEF d
<1>3. Sound(c) /\ Capped(c, MaxEntries) /\ c.content \subseteq d.content
  BY <1>1, EvictCapped, StoreAssumption
<1> HIDE DEF c
<1>4. NamesOf(c.content) \subseteq NamesOf(db.content) \cup {n}
  BY <1>1, <1>3 DEF NamesOf
<1>5. gone' \subseteq Names
  BY <1>2 DEF IInv, TypeOK
<1>6. "rows" \notin Damages => gone' \cap NamesOf(c.content) = {}
  BY <1>2, <1>4 DEF IInv, GoneFrom
<1> QED BY <1>2, <1>3, <1>5, <1>6, CommitsInv

(* Prefix invalidation goes by the index, which has every name under the    *)
(* prefix.                                                                  *)
LEMMA InvalidatePrefixInv ==
  ASSUME IInv, NEW p \in Names, InvalidatePrefix(p)
  PROVE  IInv'
<1> DEFINE S == Indexed(db, p)
           G == {n \in Names : StartsWith(n, p)}
<1>1. Commits(Delete(db, S)) /\ gone' = gone \cup G /\ UNCHANGED <<now, last>>
  BY DEF InvalidatePrefix
<1>2. "rows" \notin Damages => \A n \in G : n \in NamesOf(db.content) => n \in S
  <2> SUFFICES ASSUME "rows" \notin Damages, NEW n \in G, n \in NamesOf(db.content)
               PROVE  n \in S
    OBVIOUS
  <2>1. db.index = UNION {Prefixes(m) \X {m} : m \in NamesOf(db.content)}
    BY DEF IInv, Sound, Indexable, ExactIndex
  <2>2. p \in Prefixes(n)
    BY PrefixIndexed
  <2>3. <<p, n>> \in db.index
    BY <2>1, <2>2
  <2> QED BY <2>3 DEF Indexed
<1> HIDE DEF S
<1> QED BY <1>1, <1>2, DeletingInv

(* A read, which purges and hands out a row of the tables.                  *)
LEMMA ReadsInv ==
  ASSUME IInv, NEW rows \in SUBSET Rows, Reads(rows)
  PROVE  IInv'
<1> DEFINE S == NamesOf({r \in db.content : Expired(r)})
           d == Delete(db, S)
<1>1. db' = d /\ UNCHANGED <<now, disk, damage, gone>>
  BY DEF Reads, Purge
<1>2. /\ Sound(d) /\ Capped(d, MaxEntries)
      /\ NamesOf(d.content) = NamesOf(db.content) \ S
  BY DeleteKeeps
<1> HIDE DEF d, S
<1>3. last' \in Names \cup {None}
  <2>1. \A r \in rows : r.name \in Names
    BY DEF Rows
  <2> QED BY <2>1 DEF Reads, IInv, TypeOK
<1>4. TypeOK'
  BY <1>1, <1>2, <1>3 DEF IInv, TypeOK, Sound
<1>5. Sound(db)' /\ Capped(db, MaxEntries)' /\ GoneFrom(db)'
  BY <1>1, <1>2 DEF IInv, Sound, Capped, GoneFrom, Keyed, RowidsBounded, Indexable, ExactIndex
<1>6. Sound(disk)' /\ Capped(disk, MaxEntries)' /\ GoneFrom(disk)'
  BY <1>1 DEF IInv, Sound, Capped, GoneFrom, Keyed, RowidsBounded, Indexable, ExactIndex
<1> QED BY <1>1, <1>4, <1>5, <1>6 DEF IInv

-----------------------------------------------------------------------------
(* What salvage makes of a sound file is sound, as long as the index is     *)
(* only dropped where damaged rows are expected.                            *)
LEMMA SalvagedSound ==
  ASSUME IInv, NEW kind, NEW lost, kind = "index" => lost = {},
         kind # "index" => "rows" \in Damages
  PROVE  LET d == Salvaged(disk, kind, lost)
         IN Sound(d) /\ Capped(d, MaxEntries) /\ NamesOf(d.content) \subseteq NamesOf(disk.content)
<1> DEFINE d == Salvaged(disk, kind, lost)
<1>0. Sound(disk) /\ Capped(disk, MaxEntries) /\ MaxEntries \in Nat /\ disk \in Database
  BY StoreAssumption DEF IInv, Sound
<1>1. CASE disk.old
  <2>1. d = Empty
    BY <1>1 DEF Salvaged
  <2>2. Empty \in Database /\ Empty.content = {} /\ Empty.index = {}
    BY DEF Empty, Database
  <2>3. Keyed(Empty) /\ RowidsBounded(Empty) /\ Indexable(Empty) /\ NamesOf(Empty.content) = {}
    BY <2>2 DEF Keyed, RowidsBounded, Indexable, ExactIndex, NamesOf
  <2>4. Capped(Empty, MaxEntries)
    BY <1>0, <2>2, FS_EmptySet DEF Capped
  <2> QED BY <2>1, <2>2, <2>3, <2>4 DEF Sound
<1>2. CASE ~disk.old
  <2> DEFINE C == {r \in disk.content : r.name \notin lost}
             I == IF kind = "index" THEN disk.index ELSE {}
  <2>1. d = [content |-> C, index |-> I, old |-> FALSE]
    BY <1>2 DEF Salvaged
  <2>2. C \subseteq disk.content /\ C \subseteq Rows /\ I \subseteq Seq(Components) \X Names
    BY <1>0 DEF Database
  <2>3. kind = "index" => C = disk.content /\ I = disk.index
    OBVIOUS
  <2> HIDE DEF C, I, d
  <2>4. d \in Database /\ d.content = C /\ d.index = I
    BY <2>1, <2>2 DEF Database
  <2>5. Keyed(d) /\ RowidsBounded(d)
    BY <1>0, <2>2, <2>4 DEF Sound, Keyed, RowidsBounded
  <2>6. Indexable(d)
    BY <1>0, <2>3, <2>4 DEF Sound, Indexable, ExactIndex
  <2>7. Capped(d, MaxEntries)
    BY <1>0, <2>2, <2>4, SubsetCapped
  <2>8. NamesOf(d.content) \subseteq NamesOf(disk.content)
    BY <2>2, <2>4 DEF NamesOf
  <2> QED BY <2>4, <2>5, <2>6, <2>7, <2>8 DEF Sound, d
<1> QED BY <1>1, <1>2

(* Opening the file again.                                                  *)
LEMMA RestartInv ==
  ASSUME IInv, Restart \/ \E kind \in Damages : RestartDamaged(kind)
  PROVE  IInv'
<1>1. \E d : /\ db' = d /\ Sound(d) /\ Capped(d, MaxEntries)
             /\ NamesOf(d.content) \subseteq NamesOf(disk.content)
  <2>1. CASE Restart
    BY <2>1 DEF Restart, IInv
  <2>2. ASSUME NEW kind \in Damages, RestartDamaged(kind)
        PROVE  \E d : /\ db' = d /\ Sound(d) /\ Capped(d, MaxEntries)
                      /\ NamesOf(d.content) \subseteq NamesOf(disk.content)
    <3>1. PICK lost : (kind = "index" => lost = {}) /\ db' = Salvaged(disk, kind, lost)
      BY <2>2 DEF RestartDamaged
    <3>2. kind # "index" => "rows" \in Damages
      BY StoreAssumption
    <3> QED BY <3>1, <3>2, SalvagedSound
  <2> QED BY <2>1, <2>2
<1>2. PICK d : /\ db' = d /\ Sound(d) /\ Capped(d, MaxEntries)
               /\ NamesOf(d.content) \subseteq NamesOf(disk.content)
  BY <1>1
<1>3. UNCHANGED <<now, disk, last, gone>>
  BY DEF Restart, RestartDamaged
<1>4. damage' \in {"none", "index", "rows"} /\ (damage' # "none" => damage' \in Damages)
  BY StoreAssumption DEF Restart, RestartDamaged, IInv, TypeOK
<1>5. TypeOK'
  BY <1>2, <1>3, <1>4 DEF IInv, TypeOK, Sound
<1>6. Sound(db)' /\ Capped(db, MaxEntries)' /\ GoneFrom(db)'
  BY <1>2, <1>3 DEF IInv, Sound, Capped, GoneFrom, Keyed, RowidsBounded, Indexable, ExactIndex
<1>7. Sound(disk)' /\ Capped(disk, MaxEntries)' /\ GoneFrom(disk)'
  BY <1>3 DEF IInv, Sound, Capped, GoneFrom, Keyed, RowidsBounded, Indexable, ExactIndex
<1> QED BY <1>4, <1>5, <1>6, <1>7 DEF IInv

(* What leaves the tables alone.                                            *)
LEMMA IdleInv ==
  ASSUME IInv, UNCHANGED <<db, disk, damage, last, gone>>, now' \in Nat
  PROVE  IInv'
<1>1. TypeOK'
  BY DEF IInv, TypeOK
<1>2. /\ Sound(db)' /\ Capped(db, MaxEntries)' /\ GoneFrom(db)'
      /\ Sound(disk)' /\ Capped(disk, MaxEntries)' /\ GoneFrom(disk)'
  BY DEF IInv, Sound, Capped, GoneFrom, Keyed, RowidsBounded, Indexable, ExactIndex
<1> QED BY <1>1, <1>2 DEF IInv

LEMMA InitInv == Init => IInv
<1> SUFFICES ASSUME Init PROVE IInv
  OBVIOUS
<1> DEFINE d == [Empty EXCEPT !.old = OldLayout]
<1>1. db = d /\ disk = d
  BY DEF Init
<1>2. d \in Database /\ d.content = {} /\ d.index = {}
  BY StoreAssumption DEF Empty, Database
<1> HIDE DEF d
<1>3. Keyed(d) /\ RowidsBounded(d) /\ Indexable(d) /\ NamesOf(d.content) = {}
  BY <1>2 DEF Keyed, RowidsBounded, Indexable, ExactIndex, NamesOf
<1>4. Capped(d, MaxEntries)
  BY <1>2, FS_EmptySet, StoreAssumption DEF Capped
<1> QED BY <1>1, <1>2, <1>3, <1>4 DEF Init, IInv, TypeOK, Sound, GoneFrom

(* Every operation keeps the invariant.                                     *)
LEMMA NextInv == IInv /\ [Next]_vars => IInv'
<1> SUFFICES ASSUME IInv, [Next]_vars PROVE IInv'
  OBVIOUS
<1>1. ASSUME NEW n \in Names, NEW e \in Editions, Insert(n, e) PROVE IInv'
  BY <1>1, InsertInv
<1>2. ASSUME NEW n \in Names, Remove(n) PROVE IInv'
  BY <1>2, DeletingInv DEF Remove
<1>3. ASSUME NEW n \in Names, InvalidatePrefix(n) PROVE IInv'
  BY <1>3, InvalidatePrefixInv
<1>4. \A S : Delete(db, S).content \in SUBSET Rows
  BY DeleteSound DEF IInv, Sound, Database
<1>5. ASSUME NEW n \in Names, NEW pin \in Editions \cup {None}, Get(n, pin) PROVE IInv'
  <2>1. GetRows(Purge(db), n, pin) \in SUBSET Rows
    BY <1>4 DEF GetRows, Purge
  <2> QED BY <1>5, <2>1, ReadsInv DEF Get
<1>6. ASSUME NEW n \in Names, NEW child \in Children, NEW floor \in Floors,
             GetPrefix(n, child, floor)
      PROVE  IInv'
  <2>1. GetPrefixRows(Purge(db), n, child, floor) \in SUBSET Rows
    BY <1>4 DEF GetPrefixRows, Purge
  <2> QED BY <1>6, <2>1, ReadsInv DEF GetPrefix
<1>7. ASSUME NEW k \in 0..MaxEntries, EvictTo(k) PROVE IInv'
  <2> DEFINE S == NamesOf(Oldest(db.content, Cardinality(db.content) - k))
             G == {}
  <2>1. Commits(Delete(db, S)) /\ gone' = gone \cup G /\ UNCHANGED <<now, last>>
    BY <1>7 DEF EvictTo, EvictLru
  <2>2. G \in SUBSET Names /\ \A n \in G : n \in S
    OBVIOUS
  <2> HIDE DEF S, G
  <2> QED BY <2>1, <2>2, DeletingInv
<1>8. CASE PurgeExpired
  <2> DEFINE S == NamesOf({r \in db.content : Expired(r)})
             G == {}
  <2>1. Commits(Delete(db, S)) /\ gone' = gone \cup G /\ UNCHANGED <<now, last>>
    BY <1>8 DEF PurgeExpired, Purge
  <2>2. G \in SUBSET Names /\ \A n \in G : n \in S
    OBVIOUS
  <2> HIDE DEF S, G
  <2> QED BY <2>1, <2>2, DeletingInv
<1>9. CASE Restart \/ \E kind \in Damages : RestartDamaged(kind)
  BY <1>9, RestartInv
<1>10. CASE Tick
  BY <1>10, IdleInv DEF Tick, IInv, TypeOK
<1>11. CASE UNCHANGED vars
  BY <1>11, IdleInv DEF vars, IInv, TypeOK
<1> QED BY <1>1, <1>2, <1>3, <1>5, <1>6, <1>7, <1>8, <1>9, <1>10, <1>11 DEF Next

-----------------------------------------------------------------------------
(* The invariant holds in every reachable state.                            *)
THEOREM StoreInvariant == Spec => []IInv
BY InitInv, NextInv, PTL DEF Spec

(* The tables keep their types.                                             *)
THEOREM StoreTyped == Spec => []TypeOK
<1>1. IInv => TypeOK
  BY DEF IInv
<1> QED BY <1>1, StoreInvariant, PTL

(* The store never outgrows its capacity, in memory or on disk.             *)
THEOREM StoreBounded == Spec => []CapacityRespected
<1>1. IInv => CapacityRespected
  BY DEF IInv, Capped, CapacityRespected
<1> QED BY <1>1, StoreInvariant, PTL

(* Unless salvage meets damaged rows, the prefix index always agrees with   *)
(* the content table ...                                                    *)
THEOREM IndexConsistent ==
  ASSUME "rows" \notin Damages
  PROVE  Spec => []IndexExact
<1>1. IInv => IndexExact
  BY DEF IInv, Sound, Indexable, IndexExact
<1> QED BY <1>1, StoreInvariant, PTL

(* ... and no copy of an invalidated name is left or comes back, whatever   *)
(* is evicted, purged, rolled back by a crash or salvaged in between.       *)
THEOREM InvalidationHolds ==
  ASSUME "rows" \notin Damages
  PROVE  Spec => []InvalidatedStaysGone
<1>1. IInv => InvalidatedStaysGone
  BY DEF IInv, GoneFrom, InvalidatedStaysGone
<1> QED BY <1>1, StoreInvariant, PTL

-----------------------------------------------------------------------------
(* Order and age of the rows, which eviction and freshness go by.           *)

Dated(d) == \A r \in d.content : r.at <= now

RidsDistinct(d) == \A r, s \in d.content : r.rid = s.rid => r = s

SeqsBounded(d) ==
  \E k \in Nat : \A r \in d.content : r.ed.seq # None => r.ed.seq <= k

Aged(d) == Dated(d) /\ RidsDistinct(d) /\ SeqsBounded(d)

(* What the file has and the open connection lacks has expired, or is in a  *)
(* file that has to be salvaged before it is read again.                    *)
Behind ==
  "rows" \notin Damages =>
    \A r \in disk.content : r \in db.content \/ Expired(r) \/ (damage # "none" /\ disk.old)

OInv == IInv /\ Aged(db) /\ Aged(disk) /\ Behind

(* A part of the rows is aged as the whole is, now and later.               *)
LEMMA SubsetAged ==
  ASSUME NEW c, NEW d, d \in Database, Aged(d), c.content \subseteq d.content
  PROVE  Aged(c)
BY DEF Aged, Dated, RidsDistinct, SeqsBounded

LEMMA LaterAged ==
  ASSUME NEW d, d \in Database, Aged(d), now \in Nat, now' \in Nat, now <= now'
  PROVE  /\ \A r \in d.content : r.at <= now'
         /\ RidsDistinct(d) /\ SeqsBounded(d)
BY DEF Aged, Dated, Database, Rows

(* The row an upsert writes comes after all others: it is the newest, and   *)
(* of the rows of its second it has the largest rowid, unless it replaced   *)
(* one, and then the table has not grown.                                   *)
LEMMA StoredAged ==
  ASSUME OInv, NEW n \in Names, NEW e \in Editions
  PROVE  LET d == Stored(db, n, e)
             row == [name |-> n, ed |-> e, at |-> now, expires |-> ExpiresAt(n),
                     rid |-> Rowid(db.content, n)]
         IN /\ Aged(d)
            /\ d.content = {r \in db.content : r.name # n} \cup {row}
            /\ n \notin NamesOf(db.content) => \A r \in db.content : Before(r, row)
            /\ n \in NamesOf(db.content) => Cardinality(d.content) <= MaxEntries
<1> DEFINE k   == Rowid(db.content, n)
           row == [name |-> n, ed |-> e, at |-> now, expires |-> ExpiresAt(n), rid |-> k]
           d   == Stored(db, n, e)
           C   == {r \in db.content : r.name # n}
<1>1. /\ Sound(db) /\ db \in Database /\ Aged(db) /\ now \in Nat /\ Capped(db, MaxEntries)
      /\ MaxEntries \in Nat
  BY StoreAssumption DEF OInv, IInv, TypeOK
<1>2. k \in Nat /\ (n \notin NamesOf(db.content) => \A r \in db.content : r.rid < k)
  BY <1>1, RowidType
<1>3. d.content = C \cup {row}
  <2>1. Delete(db, {n}).content = C
    BY <1>1, DeleteFields
  <2> DEFINE I == Delete(db, {n}).index \cup {<<p, n>> : p \in Prefixes(n)}
             D == Delete(db, {n}).content \cup {row}
  <2>2. d = [db EXCEPT !.content = D, !.index = I]
    BY DEF Stored
  <2> HIDE DEF D, I, row, d
  <2>3. d.content = D
    BY <1>1, <2>2 DEF Database
  <2> QED BY <2>1, <2>3 DEF D
<1>4. \A r \in db.content : r.at \in Nat /\ r.rid \in Nat /\ r.at <= now
  BY <1>1 DEF Database, Rows, Aged, Dated
<1>5. row.name = n /\ row.ed = e /\ row.at = now /\ row.rid = k
  OBVIOUS
<1> HIDE DEF row, d
<1>6. n \notin NamesOf(db.content) => \A r \in db.content : Before(r, row)
  <2> SUFFICES ASSUME n \notin NamesOf(db.content), NEW r \in db.content PROVE Before(r, row)
    OBVIOUS
  <2>1. r.rid < k
    BY <1>2
  <2> HIDE DEF k
  <2> QED BY <1>1, <1>2, <1>4, <1>5, <2>1 DEF Before
<1>7. \A r \in C : r.rid # k
  <2>1. CASE n \notin NamesOf(db.content)
    BY <1>2, <1>4, <2>1
  <2>2. CASE n \in NamesOf(db.content)
    <3> DEFINE o == CHOOSE r \in db.content : r.name = n
    <3>1. o \in db.content /\ o.name = n
      BY <2>2 DEF NamesOf
    <3>2. k = o.rid
      BY <2>2 DEF Rowid
    <3> QED BY <1>1, <3>1, <3>2 DEF Aged, RidsDistinct
  <2> QED BY <2>1, <2>2
<1>8. Aged(d)
  <2> HIDE DEF k
  <2>1. Dated(d)
    BY <1>1, <1>3, <1>4, <1>5 DEF Dated
  <2>2. RidsDistinct(d)
    BY <1>1, <1>3, <1>5, <1>7 DEF RidsDistinct, Aged
  <2>3. SeqsBounded(d)
    <3>1. PICK j \in Nat : \A r \in db.content : r.ed.seq # None => r.ed.seq <= j
      BY <1>1 DEF Aged, SeqsBounded
    <3>2. /\ e.seq \in Nat \cup {None} /\ None \notin Nat
          /\ \A r \in db.content : r.ed.seq \in Nat \cup {None}
      BY <1>1, StoreAssumption DEF Database, Rows, Edition
    <3> DEFINE i == IF e.seq = None THEN j ELSE j + e.seq
    <3>3. i \in Nat /\ j <= i /\ (e.seq # None => e.seq <= i)
      BY <3>2
    <3> HIDE DEF i
    <3>4. \A r \in d.content : r.ed.seq # None => r.ed.seq <= i
      BY <1>3, <1>5, <3>1, <3>2, <3>3
    <3> QED BY <3>3, <3>4 DEF SeqsBounded
  <2> QED BY <2>1, <2>2, <2>3 DEF Aged
<1>9. n \in NamesOf(db.content) => Cardinality(d.content) <= MaxEntries
  <2> SUFFICES ASSUME n \in NamesOf(db.content) PROVE Cardinality(d.content) <= MaxEntries
    OBVIOUS
  <2>1. PICK o \in db.content : o.name = n
    BY DEF NamesOf
  <2>2. IsFiniteSet(db.content) /\ Cardinality(db.content) \in Nat
        /\ Cardinality(db.content) <= MaxEntries
    BY <1>1, FS_CardinalityType DEF Capped
  <2>3. C \subseteq db.content \ {o}
    BY <2>1
  <2>4. IsFiniteSet(db.content \ {o}) /\ Cardinality(db.content \ {o}) = Cardinality(db.content) - 1
    BY <2>2, FS_RemoveElement
  <2> HIDE DEF C
  <2>5. IsFiniteSet(C) /\ Cardinality(C) <= Cardinality(db.content) - 1 /\ Cardinality(C) \in Nat
    BY <2>3, <2>4, FS_Subset, FS_CardinalityType
  <2>6. Cardinality(C \cup {row}) <= Cardinality(C) + 1 /\ Cardinality(C \cup {row}) \in Nat
    <3>1. /\ IsFiniteSet(C \cup {row})
          /\ Cardinality(C \cup {row}) = Cardinality(C) \/ Cardinality(C \cup {row}) = Cardinality(C) + 1
      BY <2>5, FS_AddElement
    <3> QED BY <2>5, <3>1
  <2> QED BY <1>1, <1>3, <2>2, <2>5, <2>6
<1> QED BY <1>3, <1>6, <1>8, <1>9 DEF row, d

(* Evicting from a table that is one row over takes exactly the first row   *)
(* of the eviction order; from one that is not over it takes none.          *)
LEMMA EvictedIsOldest ==
  ASSUME NEW d, Sound(d), RidsDistinct(d), NEW max \in Nat \ {0}, Capped(d, max + 1)
  PROVE  LET c == EvictLru(d, Cardinality(d.content) - max)
         IN /\ Cardinality(d.content) <= max => c.content = d.content
            /\ Cardinality(d.content) > max =>
                 \E r \in d.content :
                   /\ \A s \in d.content : ~Before(s, r)
                   /\ c.content = d.content \ {r}
                   /\ Cardinality(c.content) = max
<1> DEFINE k == Cardinality(d.content) - max
           P(r) == {s \in d.content : Before(s, r)}
           O == Oldest(d.content, k)
           c == EvictLru(d, k)
<1>1. IsFiniteSet(d.content) /\ Cardinality(d.content) \in Nat /\ Cardinality(d.content) <= max + 1
  BY FS_CardinalityType DEF Capped
<1>2. d \in Database /\ d.content \subseteq Rows /\ Keyed(d)
  BY DEF Sound, Database
<1>3. c.content = {r \in d.content : r.name \notin NamesOf(O)}
  BY <1>2, DeleteFields DEF EvictLru
<1>4. O \subseteq d.content
  BY DEF Oldest
<1>5. c.content = d.content \ O
  BY <1>2, <1>3, <1>4 DEF NamesOf, Keyed
<1>6. \A r : IsFiniteSet(P(r)) /\ Cardinality(P(r)) \in Nat
  BY <1>1, FS_Subset, FS_CardinalityType
<1>7. O = {r \in d.content : Cardinality(P(r)) < k}
  BY DEF Oldest
<1> HIDE DEF c, O
<1>8. CASE Cardinality(d.content) <= max
  <2>1. k <= 0 /\ k \in Int
    BY <1>1, <1>8
  <2>2. \A r \in d.content : ~(Cardinality(P(r)) < k)
    <3> HIDE DEF P, k
    <3> QED BY <1>6, <2>1
  <2>3. O = {}
    <3> HIDE DEF P, k
    <3> QED BY <1>7, <2>2
  <2> QED BY <1>1, <1>5, <1>8, <2>3 DEF c
<1>9. CASE Cardinality(d.content) > max
  <2>1. k = 1 /\ Cardinality(d.content) = max + 1
    BY <1>1, <1>9
  <2>2. d.content # {} /\ d.content \in SUBSET Rows
    BY <1>1, <1>2, <2>1, FS_EmptySet
  <2>3. PICK r \in d.content : \A s \in d.content : ~Before(s, r)
    BY <2>2, FirstRowExists
  <2>4. ASSUME NEW q \in d.content PROVE Cardinality(P(q)) < 1 <=> q = r
    <3>1. CASE q = r
      <4>1. P(q) = {}
        BY <2>3, <3>1
      <4> QED BY <3>1, <4>1, FS_EmptySet
    <3>2. CASE q # r
      <4>1. q.at \in Nat /\ q.rid \in Nat /\ r.at \in Nat /\ r.rid \in Nat
        BY <1>2 DEF Rows
      <4>2. q.rid # r.rid
        BY <3>2 DEF RidsDistinct
      <4>3. Before(r, q)
        BY <2>3, <4>1, <4>2 DEF Before
      <4>4. P(q) # {}
        BY <4>3
      <4>5. Cardinality(P(q)) # 0
        BY <1>6, <4>4, FS_EmptySet
      <4> QED BY <1>6, <3>2, <4>5
    <3> QED BY <3>1, <3>2
  <2>5. O = {r}
    BY <1>7, <2>1, <2>4
  <2>6. c.content = d.content \ {r}
    BY <1>5, <2>5
  <2>7. Cardinality(d.content \ {r}) = Cardinality(d.content) - 1
    BY <1>1, <2>3, FS_RemoveElement
  <2>8. Cardinality(c.content) = max
    BY <2>1, <2>6, <2>7
  <2> QED BY <1>1, <1>9, <2>3, <2>6, <2>8 DEF c
<1> QED BY <1>1, <1>8, <1>9

(* What every step but an insertion does to the rows: none appears that is  *)
(* not in the connection's tables or in the file, and a row that only the   *)
(* file had has expired.                                                    *)
RowsKept ==
  /\ now' \in Nat /\ now <= now'
  /\ db'.content \subseteq db.content \/ db'.content \subseteq disk.content
  /\ disk'.content \subseteq db.content \/ disk'.content \subseteq disk.content
  /\ "rows" \notin Damages => \A r \in db'.content : r \in db.content \/ Expired(r)
  /\ Behind'

LEMMA DeletingKeepsRows ==
  ASSUME OInv, NEW S, Commits(Delete(db, S)), UNCHANGED now
  PROVE  RowsKept
<1>1. Delete(db, S).content \subseteq db.content
  BY DeleteSound DEF OInv, IInv
<1>2. db' = Delete(db, S) /\ disk' = db'
  BY DEF Commits
<1>3. now \in Nat
  BY DEF OInv, IInv, TypeOK
<1> QED BY <1>1, <1>2, <1>3 DEF RowsKept, Behind

LEMMA ReadsKeepsRows ==
  ASSUME OInv, NEW rows, Reads(rows)
  PROVE  RowsKept
<1> DEFINE N == NamesOf({r \in db.content : Expired(r)})
<1>1. db' = Purge(db) /\ UNCHANGED <<now, disk, damage>>
  BY DEF Reads
<1>2. db \in Database /\ Keyed(db) /\ now \in Nat
  BY DEF OInv, IInv, Sound, TypeOK
<1>3. db'.content = {r \in db.content : r.name \notin N}
  BY <1>1, <1>2, DeleteFields DEF Purge
<1>4. \A r \in db.content : r \in db'.content \/ Expired(r)
  BY <1>2, <1>3 DEF NamesOf, Keyed
<1>5. \A r : Expired(r)' <=> Expired(r)
  BY <1>1 DEF Expired
<1>6. Behind'
  BY <1>1, <1>4, <1>5 DEF OInv, Behind
<1> QED BY <1>1, <1>2, <1>3, <1>6 DEF RowsKept

LEMMA RestartKeepsRows ==
  ASSUME OInv, Restart \/ \E kind \in Damages : RestartDamaged(kind)
  PROVE  RowsKept
<1>1. now \in Nat /\ UNCHANGED <<now, disk>>
  BY DEF Restart, RestartDamaged, OInv, IInv, TypeOK
<1>2. CASE Restart
  <2>1. db' = disk /\ damage = "none"
    BY <1>2 DEF Restart
  <2> QED BY <1>1, <2>1 DEF RowsKept, OInv, Behind
<1>3. ASSUME NEW kind \in Damages, RestartDamaged(kind) PROVE RowsKept
  <2>1. PICK lost : (kind = "index" => lost = {}) /\ db' = Salvaged(disk, kind, lost)
    BY <1>3 DEF RestartDamaged
  <2>2. damage' = kind /\ kind # "none" /\ damage \in {"none", kind}
    BY <1>3, StoreAssumption DEF RestartDamaged
  <2>3. CASE disk.old
    <3>1. db'.content = {}
      BY <2>1, <2>3 DEF Salvaged, Empty
    <3>2. Behind'
      BY <1>1, <2>2, <2>3 DEF Behind
    <3> QED BY <1>1, <3>1, <3>2 DEF RowsKept
  <2>4. CASE ~disk.old
    <3>1. db'.content = {r \in disk.content : r.name \notin lost}
      BY <2>1, <2>4 DEF Salvaged
    <3>2. "rows" \notin Damages => lost = {}
      BY <2>1, StoreAssumption
    <3>3. "rows" \notin Damages => db'.content = disk.content
      BY <3>1, <3>2
    <3>4. \A r \in disk.content : "rows" \notin Damages => r \in db.content \/ Expired(r)
      BY <2>4 DEF OInv, Behind
    <3> QED BY <1>1, <3>1, <3>3, <3>4 DEF RowsKept, Behind
  <2> QED BY <2>3, <2>4
<1> QED BY <1>2, <1>3

LEMMA OthersKeepRows ==
  ASSUME OInv, [Next]_vars
  PROVE  RowsKept \/ \E n \in Names, e \in Editions : Insert(n, e)
<1>1. ASSUME NEW n \in Names, Remove(n) PROVE RowsKept
  BY <1>1, DeletingKeepsRows DEF Remove
<1>2. ASSUME NEW n \in Names, InvalidatePrefix(n) PROVE RowsKept
  BY <1>2, DeletingKeepsRows DEF InvalidatePrefix
<1>3. ASSUME NEW n, NEW pin, Get(n, pin) PROVE RowsKept
  BY <1>3, ReadsKeepsRows DEF Get
<1>4. ASSUME NEW n, NEW child, NEW floor, GetPrefix(n, child, floor) PROVE RowsKept
  BY <1>4, ReadsKeepsRows DEF GetPrefix
<1>5. ASSUME NEW k, EvictTo(k) PROVE RowsKept
  BY <1>5, DeletingKeepsRows DEF EvictTo, EvictLru
<1>6. CASE PurgeExpired
  BY <1>6, DeletingKeepsRows DEF PurgeExpired, Purge
<1>7. CASE Restart \/ \E kind \in Damages : RestartDamaged(kind)
  BY <1>7, RestartKeepsRows
<1>8. ASSUME now' \in Nat, now <= now', UNCHANGED <<db, disk, damage>> PROVE RowsKept
  <2>1. \A r \in disk.content : Expired(r) => Expired(r)'
    <3>1. \A r \in disk.content : r.expires \in Nat
      BY DEF OInv, IInv, Sound, Database, Rows
    <3> QED BY <1>8, <3>1 DEF Expired, OInv, IInv, TypeOK
  <2> QED BY <1>8, <2>1 DEF RowsKept, OInv, Behind
<1>9. CASE Tick
  BY <1>8, <1>9 DEF Tick, OInv, IInv, TypeOK
<1>10. CASE UNCHANGED vars
  BY <1>8, <1>10 DEF vars, OInv, IInv, TypeOK
<1> QED BY <1>1, <1>2, <1>3, <1>4, <1>5, <1>6, <1>7, <1>9, <1>10 DEF Next


-----------------------------------------------------------------------------
(* What an insertion leaves: the tables of the upsert, less the first row   *)
(* of the eviction order if they are one row over.                          *)
LEMMA InsertOutcome ==
  ASSUME OInv, NEW n \in Names, NEW e \in Editions, Insert(n, e)
  PROVE  LET d == Stored(db, n, e)
         IN /\ UNCHANGED now /\ disk' = db' /\ Aged(d) /\ Sound(d) /\ RidsDistinct(d)
            /\ \/ db'.content = d.content
               \/ /\ n \notin NamesOf(db.content)
                  /\ Cardinality(db'.content) = MaxEntries
                  /\ Cardinality(d.content) = MaxEntries + 1
                  /\ \E r \in d.content :
                       /\ \A s \in d.content : ~Before(s, r)
                       /\ db'.content = d.content \ {r}
<1> DEFINE d == Stored(db, n, e)
<1>1. Sound(d) /\ Capped(d, MaxEntries + 1) /\ MaxEntries \in Nat \ {0}
  BY StoredSound, StoreAssumption DEF OInv
<1>2. Aged(d) /\ (n \in NamesOf(db.content) => Cardinality(d.content) <= MaxEntries)
  BY StoredAged
<1>3. db' = EvictLru(d, Cardinality(d.content) - MaxEntries) /\ disk' = db' /\ UNCHANGED now
  BY DEF Insert, Commits
<1>4. Cardinality(d.content) \in Nat /\ Cardinality(d.content) <= MaxEntries + 1
  BY <1>1, FS_CardinalityType DEF Capped
<1> HIDE DEF d
<1>5. RidsDistinct(d)
  BY <1>2 DEF Aged
<1>6. CASE Cardinality(d.content) <= MaxEntries
  BY <1>1, <1>2, <1>3, <1>5, <1>6, EvictedIsOldest DEF d
<1>7. CASE Cardinality(d.content) > MaxEntries
  <2>1. \E r \in d.content :
           /\ \A s \in d.content : ~Before(s, r)
           /\ db'.content = d.content \ {r}
           /\ Cardinality(db'.content) = MaxEntries
    BY <1>1, <1>3, <1>5, <1>7, EvictedIsOldest
  <2>2. Cardinality(d.content) = MaxEntries + 1 /\ n \notin NamesOf(db.content)
    BY <1>1, <1>2, <1>4, <1>7
  <2> QED BY <1>1, <1>2, <1>3, <1>5, <2>1, <2>2 DEF d
<1> QED BY <1>1, <1>4, <1>6, <1>7

LEMMA InsertKeepsOrder ==
  ASSUME OInv, NEW n \in Names, NEW e \in Editions, Insert(n, e), IInv'
  PROVE  OInv'
<1> DEFINE d == Stored(db, n, e)
<1>1. UNCHANGED now /\ disk' = db' /\ Aged(d) /\ Sound(d) /\ db'.content \subseteq d.content
  BY InsertOutcome
<1> HIDE DEF d
<1>2. Aged(d) /\ d \in Database
  BY <1>1 DEF Sound
<1>3. (\A r \in db'.content : r.at <= now) /\ RidsDistinct(db') /\ SeqsBounded(db')
  BY <1>1, <1>2, SubsetAged DEF Aged, Dated
<1>4. Aged(db)' /\ Aged(disk)'
  BY <1>1, <1>3 DEF Aged, Dated, RidsDistinct, SeqsBounded
<1>5. Behind'
  BY <1>1 DEF Behind
<1> QED BY <1>4, <1>5 DEF OInv

LEMMA InitOrder == Init => OInv
<1> SUFFICES ASSUME Init PROVE OInv
  OBVIOUS
<1>1. IInv
  BY InitInv
<1>2. db.content = {} /\ disk.content = {}
  BY DEF Init, Empty
<1> QED BY <1>1, <1>2 DEF OInv, Aged, Dated, RidsDistinct, SeqsBounded, Behind

LEMMA NextOrder == OInv /\ [Next]_vars => OInv'
<1> SUFFICES ASSUME OInv, [Next]_vars PROVE OInv'
  OBVIOUS
<1>1. IInv'
  BY NextInv DEF OInv
<1>2. ASSUME NEW n \in Names, NEW e \in Editions, Insert(n, e) PROVE OInv'
  BY <1>1, <1>2, InsertKeepsOrder
<1>3. CASE RowsKept
  <2>1. /\ db \in Database /\ Aged(db) /\ disk \in Database /\ Aged(disk)
        /\ now \in Nat /\ now' \in Nat /\ now <= now'
    BY <1>3 DEF OInv, IInv, Sound, TypeOK, RowsKept
  <2>2. ASSUME NEW c, c.content \subseteq db.content \/ c.content \subseteq disk.content
        PROVE  (\A r \in c.content : r.at <= now') /\ RidsDistinct(c) /\ SeqsBounded(c)
    BY <2>1, <2>2, LaterAged DEF RidsDistinct, SeqsBounded
  <2>3. Aged(db)' /\ Aged(disk)'
    BY <1>3, <2>2 DEF RowsKept, Aged, Dated, RidsDistinct, SeqsBounded
  <2> QED BY <1>1, <1>3, <2>3 DEF OInv, RowsKept
<1> QED BY <1>2, <1>3, OthersKeepRows

(* Rows keep their order of insertion, and the file lags behind the open    *)
(* connection only by what has expired.                                     *)
THEOREM StoreOrder == Spec => []OInv
BY InitOrder, NextOrder, PTL DEF Spec

(* An insertion keeps what it inserts and displaces at most one row, the    *)
(* oldest, and only when the store is full.                                 *)
THEOREM EvictionIsLru == Spec => InsertEvictsOldest
<1> DEFINE Step ==
      \A n \in Names, e \in Editions : Insert(n, e) =>
        /\ n \in NamesOf(db'.content)
        /\ \A r \in db.content : r.name # n /\ r \notin db'.content =>
             /\ Cardinality(db'.content) = MaxEntries
             /\ \A s \in db.content \cap db'.content : ~Before(s, r)
<1>1. OInv => Step
  <2> SUFFICES ASSUME OInv, NEW n \in Names, NEW e \in Editions, Insert(n, e)
               PROVE  /\ n \in NamesOf(db'.content)
                      /\ \A r \in db.content : r.name # n /\ r \notin db'.content =>
                           /\ Cardinality(db'.content) = MaxEntries
                           /\ \A s \in db.content \cap db'.content : ~Before(s, r)
    OBVIOUS
  <2> DEFINE d   == Stored(db, n, e)
             row == [name |-> n, ed |-> e, at |-> now, expires |-> ExpiresAt(n),
                     rid |-> Rowid(db.content, n)]
  <2>1. /\ d.content = {r \in db.content : r.name # n} \cup {row} /\ row.name = n
        /\ n \notin NamesOf(db.content) => \A r \in db.content : Before(r, row)
    BY StoredAged
  <2> HIDE DEF row, d
  <2>2. CASE db'.content = d.content
    BY <2>1, <2>2 DEF NamesOf
  <2>3. CASE /\ n \notin NamesOf(db.content)
             /\ Cardinality(db'.content) = MaxEntries
             /\ Cardinality(d.content) = MaxEntries + 1
             /\ \E r \in d.content :
                  /\ \A s \in d.content : ~Before(s, r)
                  /\ db'.content = d.content \ {r}
    <3>1. PICK r0 \in d.content : /\ \A s \in d.content : ~Before(s, r0)
                                  /\ db'.content = d.content \ {r0}
      BY <2>3
    <3>2. d.content # {row}
      <4> SUFFICES ASSUME d.content = {row} PROVE FALSE
        OBVIOUS
      <4>1. Cardinality(d.content) = 1
        BY FS_Singleton
      <4>2. MaxEntries \in Nat \ {0} /\ Cardinality(d.content) = MaxEntries + 1
        BY <2>3, StoreAssumption
      <4> QED BY <4>1, <4>2
    <3>3. PICK s0 \in db.content : s0 \in d.content /\ Before(s0, row)
      BY <2>1, <2>3, <3>2
    <3>4. r0 # row
      BY <3>1, <3>3
    <3>5. row \in db'.content
      BY <2>1, <3>1, <3>4
    <3> QED BY <2>1, <2>3, <3>1, <3>5 DEF NamesOf
  <2> QED BY <2>2, <2>3, InsertOutcome DEF d
<1>2. OInv /\ [Next]_vars => [Step]_vars
  BY <1>1
<1> HIDE DEF Step
<1>3. Spec => [][Step]_vars
  BY <1>2, StoreOrder, PTL DEF Spec
<1> QED BY <1>3 DEF Step, InsertEvictsOldest

-----------------------------------------------------------------------------
(* Prefix reads.  While the index is exact, joining it with the content     *)
(* table selects the rows whose names start with the prefix, and the order  *)
(* of the SELECT has a first row in every selection that is not empty.      *)

(* A name is indexed under nothing but its prefixes.                        *)
LEMMA IndexedPrefix ==
  ASSUME NEW n \in Names, NEW p \in Prefixes(n)
  PROVE  StartsWith(n, p)
<1>1. n \in Seq(Components)
  BY StoreAssumption
<1>2. PICK k \in 1..Len(n) : p = SubSeq(n, 1, k)
  BY DEF Prefixes
<1>3. Len(p) = k /\ \A i \in 1..k : p[i] = n[i]
  BY <1>1, <1>2
<1> QED BY <1>1, <1>3 DEF StartsWith

LEMMA IndexedNames ==
  ASSUME NEW d, ExactIndex(d), d \in Database, NEW p \in Names
  PROVE  \A r \in d.content : r.name \in Indexed(d, p) <=> StartsWith(r.name, p)
<1> SUFFICES ASSUME NEW r \in d.content
             PROVE  r.name \in Indexed(d, p) <=> StartsWith(r.name, p)
  OBVIOUS
<1>1. r.name \in Names /\ r.name \in NamesOf(d.content)
  BY DEF Database, Rows, NamesOf
<1>2. r.name \in Indexed(d, p) <=> <<p, r.name>> \in d.index
  <2>1. d.index \subseteq Seq(Components) \X Names
    BY DEF Database
  <2>2. \A x \in d.index : x[1] = p /\ x[2] = r.name => x = <<p, r.name>>
    BY <2>1
  <2> QED BY <2>2 DEF Indexed
<1>3. <<p, r.name>> \in d.index <=> p \in Prefixes(r.name)
  BY <1>1 DEF ExactIndex
<1> QED BY <1>1, <1>2, <1>3, IndexedPrefix, PrefixIndexed

(* A read chooses from the rows it should choose from.                      *)
LEMMA ReadsEligible ==
  ASSUME OInv, "rows" \notin Damages,
         NEW p \in Names, NEW child \in Children, NEW floor \in Floors
  PROVE  LET all == Eligible(p, child, floor)
         IN GetPrefixRows(Purge(db), p, child, floor)
              = {r \in all : \A s \in all : ~Precedes(child, s, r)}
<1> DEFINE d      == Purge(db)
           joined == {r \in d.content : r.name \in Indexed(d, p)}
           ranked == IF child = "none" THEN joined
                     ELSE {r \in joined : AtLeast(r, floor)}
           valid  == {r \in ranked : r.ed.ok /\ Member(child, r)}
<1>1. Sound(db) /\ db \in Database
  BY DEF OInv, IInv, Sound
<1>2. Sound(d)
  BY <1>1, DeleteSound DEF Purge
<1>3. d.content = {r \in db.content : ~Expired(r)}
  <2>1. d.content = {r \in db.content : r.name \notin NamesOf({s \in db.content : Expired(s)})}
    BY <1>1, DeleteFields DEF Purge
  <2> QED BY <1>1, <2>1 DEF NamesOf, Sound, Keyed
<1>4. GetPrefixRows(d, p, child, floor) = {r \in valid : \A s \in valid : ~Precedes(child, s, r)}
  BY DEF GetPrefixRows
<1> HIDE DEF d
<1>5. joined = {r \in d.content : StartsWith(r.name, p)}
  BY <1>2, IndexedNames DEF Sound, Indexable
<1>6. valid = Eligible(p, child, floor)
  BY <1>3, <1>5 DEF Eligible, Member
<1> HIDE DEF valid
<1> QED BY <1>4, <1>6 DEF d

(* Of rows that are not from the future one is newest.                      *)
LEMMA NewestExists ==
  ASSUME NEW S, S # {}, now \in Nat, \A r \in S : r.at \in Nat /\ r.at <= now
  PROVE  \E r \in S : \A s \in S : s.at <= r.at
<1> DEFINE A == {now - r.at : r \in S}
<1>1. A \in SUBSET Nat /\ A # {}
  OBVIOUS
<1>2. PICK a \in A : \A b \in A : a <= b
  <2> HIDE DEF A
  <2> QED BY <1>1, LeastNatural
<1>3. PICK r \in S : a = now - r.at
  BY <1>2
<1>4. ASSUME NEW s \in S PROVE s.at <= r.at
  <2>1. now - r.at <= now - s.at
    BY <1>2, <1>3
  <2> QED BY <2>1
<1> QED BY <1>4

(* Of rows whose sequence numbers have a bound, some have the highest.      *)
LEMMA HighestExists ==
  ASSUME NEW S, S # {}, NEW k \in Nat, \A r \in S : r.ed.seq \in Nat /\ r.ed.seq <= k
  PROVE  \E r \in S : \A s \in S : s.ed.seq <= r.ed.seq
<1> DEFINE A == {k - r.ed.seq : r \in S}
<1>1. A \in SUBSET Nat /\ A # {}
  OBVIOUS
<1>2. PICK a \in A : \A b \in A : a <= b
  <2> HIDE DEF A
  <2> QED BY <1>1, LeastNatural
<1>3. PICK r \in S : a = k - r.ed.seq
  BY <1>2
<1>4. ASSUME NEW s \in S PROVE s.ed.seq <= r.ed.seq
  <2>1. k - r.ed.seq <= k - s.ed.seq
    BY <1>2, <1>3
  <2> QED BY <2>1
<1> QED BY <1>4

LEMMA LowestExists ==
  ASSUME NEW S, S # {}, \A r \in S : r.ed.seq \in Nat
  PROVE  \E r \in S : \A s \in S : r.ed.seq <= s.ed.seq
<1> DEFINE A == {r.ed.seq : r \in S}
<1>1. A \in SUBSET Nat /\ A # {}
  OBVIOUS
<1>2. PICK a \in A : \A b \in A : a <= b
  <2> HIDE DEF A
  <2> QED BY <1>1, LeastNatural
<1> QED BY <1>2

(* The order of every selector has a first row.                             *)
LEMMA FirstOfSelection ==
  ASSUME OInv, NEW S, S \subseteq db.content, S # {}, NEW child \in Children,
         child # "none" => \A r \in S : r.ed.seq \in Nat
  PROVE  \E r \in S : \A s \in S : ~Precedes(child, s, r)
<1>1. now \in Nat /\ \A r \in S : r.at \in Nat /\ r.at <= now
  BY DEF OInv, IInv, TypeOK, Aged, Dated, Database, Rows
<1>2. PICK k \in Nat : \A r \in S : r.ed.seq # None => r.ed.seq <= k
  BY DEF OInv, Aged, SeqsBounded
<1>3. CASE child = "none"
  <2>1. PICK r \in S : \A s \in S : s.at <= r.at
    BY <1>1, NewestExists
  <2> QED BY <1>1, <1>3, <2>1 DEF Precedes
<1>4. CASE child = "latest"
  <2>0. \A r \in S : r.ed.seq \in Nat /\ r.ed.seq <= k
    BY <1>2, <1>4, StoreAssumption
  <2>1. PICK q \in S : \A s \in S : s.ed.seq <= q.ed.seq
    BY <2>0, HighestExists
  <2> DEFINE T == {s \in S : s.ed.seq = q.ed.seq}
  <2>2. PICK r \in T : \A s \in T : s.at <= r.at
    BY <1>1, NewestExists
  <2> QED BY <1>1, <1>4, <2>0, <2>1, <2>2 DEF Precedes
<1>5. CASE child = "oldest"
  <2>0. \A r \in S : r.ed.seq \in Nat
    BY <1>5
  <2>1. PICK q \in S : \A s \in S : q.ed.seq <= s.ed.seq
    BY <2>0, LowestExists
  <2> DEFINE T == {s \in S : s.ed.seq = q.ed.seq}
  <2>2. PICK r \in T : \A s \in T : s.at <= r.at
    BY <1>1, NewestExists
  <2> QED BY <1>1, <1>5, <2>0, <2>1, <2>2 DEF Precedes
<1> QED BY <1>3, <1>4, <1>5 DEF Children

(* A prefix read finds an edition whenever one is stored under the prefix,  *)
(* unexpired and intact, and with a selector the extreme of all of them     *)
(* (get_prefix: the join with name_prefixes, ORDER BY and the verifying     *)
(* loop), unless a salvage may have left rows without their index.          *)
THEOREM PrefixReads ==
  ASSUME "rows" \notin Damages
  PROVE  Spec => []PrefixReadsComplete
<1>1. OInv => PrefixReadsComplete
  <2> SUFFICES ASSUME OInv, NEW p \in Names, NEW child \in Children, NEW floor \in Floors
               PROVE  LET found == GetPrefixRows(Purge(db), p, child, floor)
                          all   == Eligible(p, child, floor)
                      IN /\ found \subseteq all
                         /\ found = {} => all = {}
                         /\ child = "latest" => \A r \in found, s \in all : s.ed.seq <= r.ed.seq
                         /\ child = "oldest" => \A r \in found, s \in all : s.ed.seq >= r.ed.seq
    BY DEF PrefixReadsComplete
  <2> DEFINE found == GetPrefixRows(Purge(db), p, child, floor)
             all   == Eligible(p, child, floor)
  <2>1. found = {r \in all : \A s \in all : ~Precedes(child, s, r)}
    BY ReadsEligible
  <2>2. all \subseteq db.content
    BY DEF Eligible
  <2>3. child # "none" => \A r \in all : r.ed.seq \in Nat
    BY <2>2, StoreAssumption DEF OInv, IInv, TypeOK, Database, Rows, Edition, Eligible, AtLeast
  <2> HIDE DEF found, all
  <2>4. found = {} => all = {}
    BY <2>1, <2>2, <2>3, FirstOfSelection
  <2>5. child = "latest" => \A r \in found, s \in all : s.ed.seq <= r.ed.seq
    BY <2>1, <2>3 DEF Precedes
  <2>6. child = "oldest" => \A r \in found, s \in all : s.ed.seq >= r.ed.seq
    BY <2>1, <2>3 DEF Precedes
  <2> QED BY <2>1, <2>4, <2>5, <2>6 DEF found, all
<1> QED BY <1>1, StoreOrder, PTL

-----------------------------------------------------------------------------
(* The store implements CacheContract.  What a reader is served of a name   *)
(* is the one live row's edition.                                           *)

Served(n) ==
  IF Live(n) = {} THEN None
  ELSE LET r == CHOOSE x \in Live(n) : TRUE IN [ed |-> r.ed, fresh |-> ServedFresh(r)]

slotted == [n \in Names |-> Served(n)]

(* A live row is the only one of its name, so that it is the one served.    *)
LEMMA ServedRow ==
  ASSUME OInv, NEW n
  PROVE  /\ Live(n) = {} => Served(n) = None
         /\ \A r \in Live(n) : Served(n) = [ed |-> r.ed, fresh |-> ServedFresh(r)]
<1>1. \A r, s \in Live(n) : r = s
  BY DEF OInv, IInv, Sound, Keyed, Live
<1> QED BY <1>1 DEF Served

LEMMA ServedType ==
  ASSUME OInv, NEW n
  PROVE  Served(n) \in Contract!Slot \cup {None}
<1>1. CASE Live(n) = {}
  BY <1>1, ServedRow
<1>2. ASSUME NEW r \in Live(n) PROVE Served(n) \in Contract!Slot
  <2>1. r.ed \in Editions
    BY <1>2 DEF Live, OInv, IInv, Sound, Database, Rows
  <2>2. ServedFresh(r) \in BOOLEAN
    BY <2>1, StoreAssumption DEF ServedFresh, Edition
  <2> QED BY <1>2, <2>1, <2>2, ServedRow DEF Contract!Slot
<1> QED BY <1>1, <1>2

(* A name whose live row, if it has one, was live before serves what it     *)
(* served, gone stale perhaps, or nothing.                                  *)
LEMMA ServedDecays ==
  ASSUME OInv, OInv', now <= now', NEW n, NEW m, n = m,
         \A r \in db'.content : r.name = n => r \in db.content \/ Expired(r)
  PROVE  Served(n)' \in Contract!Decays(Served(n))
<1>1. now \in Nat /\ now' \in Nat /\ db \in Database /\ db' \in Database
  BY DEF OInv, IInv, Sound, TypeOK
<1>2. CASE Live(n)' = {}
  <2>1. Served(n)' = None
    BY <1>2 DEF Served
  <2> QED BY <2>1 DEF Contract!Decays
<1>3. ASSUME NEW r \in Live(n)' PROVE Served(n)' \in Contract!Decays(Served(n))
  <2>1. r \in db'.content /\ r.name = n /\ r.ed.ok /\ ~Expired(r)'
    BY <1>3 DEF Live
  <2>2. r \in Rows
    BY <1>1, <2>1 DEF Database
  <2>3. r.expires \in Nat /\ r.at \in Nat /\ r.ed \in Editions
    BY <2>2 DEF Rows
  <2>4. ~Expired(r)
    BY <1>1, <2>1, <2>3 DEF Expired
  <2>5. r \in Live(n)
    BY <2>1, <2>4 DEF Live
  <2>6. Served(n) = [ed |-> r.ed, fresh |-> ServedFresh(r)]
    BY <2>5, ServedRow
  <2>7. Served(n)' = [ed |-> r.ed, fresh |-> ServedFresh(r)']
    <3>1. \A x, y \in Live(n)' : x = y
      BY DEF OInv, IInv, Sound, Keyed, Live
    <3> QED BY <1>3, <3>1 DEF Served, ServedFresh
  <2>8. r.ed.period \in Nat /\ r.ed.fresh \in BOOLEAN
    BY <2>3, StoreAssumption DEF Edition
  <2>9. ServedFresh(r)' => ServedFresh(r)
    BY <1>1, <2>3, <2>8 DEF ServedFresh
  <2>10. ServedFresh(r) \in BOOLEAN /\ ServedFresh(r)' \in BOOLEAN
    BY <2>8 DEF ServedFresh
  <2>11. Served(n) # None
    BY <2>3, <2>6, <2>10, StoreAssumption
  <2>12. CASE ServedFresh(r)' = ServedFresh(r)
    <3>1. Served(n)' = Served(n)
      BY <2>6, <2>7, <2>12
    <3> QED BY <3>1 DEF Contract!Decays
  <2>13. CASE ServedFresh(r)' = FALSE
    <3>1. Served(n)' = [ed |-> r.ed, fresh |-> FALSE]
      BY <2>7, <2>13
    <3>2. Served(n)' = [ed |-> Served(n).ed, fresh |-> FALSE]
      BY <2>6, <3>1
    <3> QED BY <2>11, <3>2 DEF Contract!Decays
  <2> QED BY <2>9, <2>10, <2>12, <2>13
<1> QED BY <1>2, <1>3

(* An insertion leaves its own edition under the name, or nothing.          *)
LEMMA ServedStored ==
  ASSUME OInv, OInv', NEW n \in Names, NEW e \in Editions, Insert(n, e)
  PROVE  /\ Served(n)' \in {None, [ed |-> e, fresh |-> e.fresh]}
         /\ \A r \in db'.content : r.name # n => r \in db.content
<1> DEFINE d   == Stored(db, n, e)
           row == [name |-> n, ed |-> e, at |-> now, expires |-> ExpiresAt(n),
                   rid |-> Rowid(db.content, n)]
<1>1. /\ d.content = {r \in db.content : r.name # n} \cup {row} /\ row.name = n
      /\ row.at = now /\ row.ed = e
  BY StoredAged
<1>2. db'.content \subseteq d.content /\ UNCHANGED now
  BY InsertOutcome
<1> HIDE DEF d, row
<1>3. CASE Live(n)' = {}
  BY <1>1, <1>2, <1>3 DEF Served
<1>4. ASSUME NEW r \in Live(n)'
      PROVE  Served(n)' = [ed |-> e, fresh |-> e.fresh]
  <2>1. r = row
    BY <1>1, <1>2, <1>4 DEF Live
  <2>2. \A x \in Live(n)' : x = r
    BY <1>4 DEF OInv, IInv, Sound, Keyed, Live
  <2>3. Served(n)' = [ed |-> r.ed, fresh |-> ServedFresh(r)']
    BY <1>4, <2>2 DEF Served, ServedFresh
  <2>4. now \in Nat /\ e.period \in Nat /\ e.fresh \in BOOLEAN
    BY StoreAssumption DEF OInv, IInv, TypeOK, Edition
  <2>5. ServedFresh(r)' = e.fresh
    BY <1>1, <1>2, <2>1, <2>4 DEF ServedFresh
  <2> QED BY <1>1, <2>1, <2>3, <2>5
<1> QED BY <1>1, <1>2, <1>3, <1>4

(* Reads hand out only the edition stored last, and nothing that was stale  *)
(* or lost before comes back by itself: every step of the store is a step   *)
(* of the contract or leaves what it serves as it was.                      *)
THEOREM StoreKeepsContract ==
  ASSUME "rows" \notin Damages
  PROVE  Spec => ImplementsContract
<1>1. Init => Contract!Init
  <2> SUFFICES ASSUME Init PROVE Contract!Init
    OBVIOUS
  <2>1. db.content = {}
    BY DEF Init, Empty
  <2>2. \A n : Live(n) = {}
    BY <2>1 DEF Live
  <2> QED BY <2>2 DEF Contract!Init
<1> DEFINE Typed == slotted \in [Names -> Contract!Slot \cup {None}]
<1>2. OInv => Typed
  BY ServedType DEF slotted
<1> HIDE DEF Typed
<1>3. OInv' => Typed'
  BY <1>2, PTL
<1>4. OInv /\ OInv' /\ [Next]_vars => [Contract!Next]_slotted
  <2> SUFFICES ASSUME OInv, OInv', [Next]_vars PROVE Contract!Next
    OBVIOUS
  <2>1. slotted' \in [Names -> Contract!Slot \cup {None}]
    BY <1>3 DEF Typed
  <2>2. \A n \in Names : slotted[n] = Served(n) /\ slotted'[n] = Served(n)'
    BY DEF slotted
  <2>3. CASE RowsKept
    <3>1. \A n \in Names : Served(n)' \in Contract!Decays(Served(n))
      BY <2>3, ServedDecays DEF RowsKept
    <3>2. Contract!Decay
      BY <2>1, <2>2, <3>1 DEF Contract!Decay, slotted, Served
    <3> QED BY <3>2 DEF Contract!Next
  <2>4. ASSUME NEW n \in Names, NEW e \in Editions, Insert(n, e) PROVE Contract!Store(n, e)
    <3>1. Served(n)' \in {None, [ed |-> e, fresh |-> e.fresh]}
      BY <2>4, ServedStored
    <3>2. \A m \in Names \ {n} : Served(m)' \in Contract!Decays(Served(m))
      BY <2>4, ServedStored, ServedDecays, InsertOutcome DEF OInv, IInv, TypeOK
    <3> QED BY <2>1, <2>2, <3>1, <3>2 DEF Contract!Store, slotted, Served
  <2> QED BY <2>3, <2>4, OthersKeepRows DEF Contract!Next
<1> QED BY <1>1, <1>4, StoreOrder, PTL DEF Spec, ImplementsContract, Contract!Spec, slotted, Served

=============================================================================
