------------------------- MODULE LargeContentProofs -------------------------
(***************************************************************************)
(* Chunking and assembling, for contents of any length, any chunk size and  *)
(* any number of editions, and whatever a cache has made of the packets:    *)
(* what is assembled is the content the manifest was made for.              *)
(***************************************************************************)
EXTENDS LargeContent, SequenceTheorems, WellFoundedInduction, TLAPS

(* Induction over the first numbers, on the set of those for which a fact   *)
(* holds.                                                                   *)
LEMMA UpTo ==
  ASSUME NEW n \in Nat, NEW T, 0 \in T, \A k \in 1..n : k - 1 \in T => k \in T
  PROVE  0..n \subseteq T
<1> DEFINE U == (0..n) \ T
<1> SUFFICES ASSUME U # {} PROVE FALSE
  OBVIOUS
<1>1. U \subseteq Nat
  OBVIOUS
<1>2. PICK x \in U : \A y \in U : ~(<<y, x>> \in OpToRel(<, Nat))
  <2> HIDE DEF U
  <2> QED BY <1>1, NatLessThanWellFounded, WFMin
<1>3. x \in 1..n /\ x \notin T
  OBVIOUS
<1>4. x - 1 \in U
  BY <1>3
<1>5. <<x - 1, x>> \in OpToRel(<, Nat)
  BY <1>3 DEF OpToRel
<1> QED BY <1>2, <1>4, <1>5

(* A function is given by its first value and a step.                       *)
Follows(f, n, base, step) == f[0] = base /\ \A k \in 1..n : f[k] = step[k][f[k - 1]]

LEMMA Recursion ==
  ASSUME NEW S, NEW base \in S, NEW n \in Nat, NEW step \in [1..n -> [S -> S]]
  PROVE  \E f \in [0..n -> S] : Follows(f, n, base, step)
<1> DEFINE Starts(f, m) ==
             f \in [0..m -> S] /\ f[0] = base /\ \A k \in 1..m : f[k] = step[k][f[k - 1]]
           T == {m \in 0..n : \E f : Starts(f, m)}
<1>1. 0 \in T
  <2> DEFINE f == [k \in 0..0 |-> base]
  <2>1. Starts(f, 0)
    OBVIOUS
  <2> HIDE DEF Starts, f
  <2> QED BY <2>1
<1>2. ASSUME NEW m \in 1..n, m - 1 \in T PROVE m \in T
  <2>1. PICK f : Starts(f, m - 1)
    <3> HIDE DEF Starts
    <3> QED BY <1>2
  <2> DEFINE g == [k \in 0..m |-> IF k = m THEN step[m][f[m - 1]] ELSE f[k]]
  <2>2. f[m - 1] \in S /\ step[m] \in [S -> S]
    BY <2>1
  <2>3. g \in [0..m -> S]
    BY <2>1, <2>2
  <2>4. g[0] = base
    BY <2>1
  <2>5. ASSUME NEW k \in 1..m PROVE g[k] = step[k][g[k - 1]]
    <3>1. g[k - 1] = f[k - 1] /\ k - 1 \in 0..(m - 1)
      OBVIOUS
    <3>2. CASE k = m
      BY <3>1, <3>2
    <3>3. CASE k # m
      <4>1. k \in 1..(m - 1) /\ g[k] = f[k]
        BY <3>3
      <4> QED BY <2>1, <3>1, <4>1
    <3> QED BY <3>2, <3>3
  <2> HIDE DEF g
  <2>6. Starts(g, m)
    BY <2>3, <2>4, <2>5
  <2> HIDE DEF Starts
  <2> QED BY <2>6
<1> HIDE DEF T
<1>3. 0..n \subseteq T
  BY <1>1, <1>2, UpTo
<1>4. n \in T
  BY <1>3
<1>5. PICK f : Starts(f, n)
  <2> HIDE DEF Starts
  <2> QED BY <1>4 DEF T
<1> QED BY <1>5 DEF Follows

(* Two functions that start and go on alike are the same.                   *)
Alike(f, g, n) ==
  f[0] = g[0] /\ \A k \in 1..n : f[k - 1] = g[k - 1] => f[k] = g[k]

LEMMA Unique ==
  ASSUME NEW n \in Nat, NEW f, NEW g, Alike(f, g, n)
  PROVE  \A k \in 0..n : f[k] = g[k]
<1> DEFINE T == {k \in 0..n : f[k] = g[k]}
<1>1. 0 \in T /\ \A k \in 1..n : k - 1 \in T => k \in T
  BY DEF Alike
<1> HIDE DEF T
<1>2. 0..n \subseteq T
  BY <1>1, UpTo
<1> QED BY <1>2 DEF T

(* Joining and summing go on from one place to the next.                    *)
JoinsUp(f, n, empty, bodies) ==
  f[0] = empty /\ \A k \in 1..n : f[k] = f[k - 1] \o bodies[k]

SumsUp(f, n, size) == f[0] = 0 /\ \A k \in 1..n : f[k] = f[k - 1] + size[k]

LEMMA Joins ==
  ASSUME NEW S, NEW empty \in S, NEW n \in Nat, NEW bodies,
         \A k \in 1..n, x \in S : x \o bodies[k] \in S
  PROVE  \E f \in [0..n -> S] : JoinsUp(f, n, empty, bodies)
<1> DEFINE step == [k \in 1..n |-> [x \in S |-> x \o bodies[k]]]
<1>1. step \in [1..n -> [S -> S]]
  OBVIOUS
<1>2. \A k \in 1..n, x \in S : step[k][x] = x \o bodies[k]
  OBVIOUS
<1> HIDE DEF step
<1>3. PICK f \in [0..n -> S] : Follows(f, n, empty, step)
  BY <1>1, Recursion
<1>4. \A k \in 1..n : k - 1 \in 0..n
  OBVIOUS
<1>5. \A k \in 1..n : f[k - 1] \in S
  BY <1>4
<1>6. JoinsUp(f, n, empty, bodies)
  BY <1>2, <1>3, <1>5 DEF Follows, JoinsUp
<1> QED BY <1>6

LEMMA Sums ==
  ASSUME NEW n \in Nat, NEW size \in [1..n -> Nat]
  PROVE  \E f \in [0..n -> Nat] : SumsUp(f, n, size)
<1> DEFINE step == [k \in 1..n |-> [x \in Nat |-> x + size[k]]]
<1>1. step \in [1..n -> [Nat -> Nat]]
  OBVIOUS
<1>2. \A k \in 1..n, x \in Nat : step[k][x] = x + size[k]
  OBVIOUS
<1> HIDE DEF step
<1>3. PICK f \in [0..n -> Nat] : Follows(f, n, 0, step)
  <2>1. 0 \in Nat
    OBVIOUS
  <2> QED BY <1>1, <2>1, Recursion
<1>4. \A k \in 1..n : k - 1 \in 0..n
  OBVIOUS
<1>5. \A k \in 1..n : f[k - 1] \in Nat
  BY <1>4
<1>6. SumsUp(f, n, size)
  BY <1>2, <1>3, <1>5 DEF Follows, SumsUp
<1> QED BY <1>6

(* What joining does, body by body.                                         *)
LEMMA ConcatIs ==
  ASSUME NEW B, NEW bodies \in Seq(Seq(B))
  PROVE  \E f \in [0..Len(bodies) -> Seq(B)] :
           JoinsUp(f, Len(bodies), <<>>, bodies) /\ Concat(bodies) = f[Len(bodies)]
<1> DEFINE n == Len(bodies)
           Total(f) == f = [k \in 0..n |-> IF k = 0 THEN <<>> ELSE f[k - 1] \o bodies[k]]
           g == CHOOSE f : Total(f)
<1>1. n \in Nat /\ <<>> \in Seq(B) /\ \A k \in 1..n, x \in Seq(B) : x \o bodies[k] \in Seq(B)
  OBVIOUS
<1>2. Concat(bodies) = g[n]
  BY DEF Concat
<1> HIDE DEF n
<1>3. PICK f \in [0..n -> Seq(B)] : JoinsUp(f, n, <<>>, bodies)
  BY <1>1, Joins
<1>4. Total(f)
  <2>1. \A k \in 0..n : k # 0 => k \in 1..n
    BY <1>1
  <2>2. f = [k \in 0..n |-> f[k]]
    OBVIOUS
  <2> QED BY <1>3, <2>1, <2>2 DEF JoinsUp
<1>5. Total(g)
  <2> HIDE DEF Total
  <2> QED BY <1>4
<1> HIDE DEF g
<1>6. g[0] = <<>> /\ \A k \in 1..n : g[k] = g[k - 1] \o bodies[k]
  <2>1. 0 \in 0..n /\ \A k \in 1..n : k \in 0..n /\ k # 0
    BY <1>1
  <2> QED BY <1>5, <2>1
<1> HIDE DEF Total
<1>7. Alike(f, g, n)
  BY <1>3, <1>6 DEF JoinsUp, Alike
<1>8. \A k \in 0..n : f[k] = g[k]
  BY <1>1, <1>7, Unique
<1>9. Concat(bodies) = f[n]
  BY <1>1, <1>2, <1>8
<1> QED BY <1>3, <1>9 DEF n

(* What summing does, chunk by chunk.                                       *)
LEMMA TotalSizeIs ==
  ASSUME NEW r \in Seq(ChunkRef)
  PROVE  \E f \in [0..Len(r) -> Nat] :
           SumsUp(f, Len(r), [k \in 1..Len(r) |-> r[k].size]) /\ TotalSize(r) = f[Len(r)]
<1> DEFINE n == Len(r)
           Sum(f) == f = [k \in 0..n |-> IF k = 0 THEN 0 ELSE f[k - 1] + r[k].size]
           size == [k \in 1..n |-> r[k].size]
           g == CHOOSE f : Sum(f)
<1>1. n \in Nat /\ \A k \in 1..n : r[k] \in ChunkRef
  OBVIOUS
<1>2. size \in [1..n -> Nat]
  <2>1. \A k \in 1..n : r[k].size \in Nat
    BY <1>1 DEF ChunkRef
  <2> QED BY <2>1
<1>3. TotalSize(r) = g[n]
  BY DEF TotalSize
<1>4. \A k \in 1..n : size[k] = r[k].size
  OBVIOUS
<1> HIDE DEF n, size
<1>5. PICK f \in [0..n -> Nat] : SumsUp(f, n, size)
  BY <1>1, <1>2, Sums
<1>6. f[0] = 0 /\ \A k \in 1..n : f[k] = f[k - 1] + r[k].size
  BY <1>4, <1>5 DEF SumsUp
<1>7. Sum(f)
  <2>1. \A k \in 0..n : k # 0 => k \in 1..n
    BY <1>1
  <2>2. f = [k \in 0..n |-> f[k]]
    OBVIOUS
  <2> QED BY <1>6, <2>1, <2>2
<1>8. Sum(g)
  <2> HIDE DEF Sum
  <2> QED BY <1>7
<1> HIDE DEF g
<1>9. g[0] = 0 /\ \A k \in 1..n : g[k] = g[k - 1] + r[k].size
  <2>1. 0 \in 0..n /\ \A k \in 1..n : k \in 0..n /\ k # 0
    BY <1>1
  <2> QED BY <1>8, <2>1
<1> HIDE DEF Sum
<1>10. Alike(f, g, n)
  BY <1>6, <1>9 DEF Alike
<1>11. \A k \in 0..n : f[k] = g[k]
  BY <1>1, <1>10, Unique
<1>12. TotalSize(r) = f[n]
  BY <1>1, <1>3, <1>11
<1> QED BY <1>5, <1>12 DEF n, size

-----------------------------------------------------------------------------
(* What k chunks of a size span, and how far that reaches into a content.   *)
Span(size, k) == k * size
Reach(c, size, k) == IF Span(size, k) <= Len(c) THEN Span(size, k) ELSE Len(c)

LEMMA Spans ==
  ASSUME NEW size \in Nat, NEW k \in Nat
  PROVE  /\ Span(size, k) \in Nat /\ Span(size, 0) = 0
         /\ Span(size, k + 1) = Span(size, k) + size
BY DEF Span

LEMMA Reaching ==
  ASSUME NEW S, NEW c \in Seq(S), NEW size \in Nat \ {0}, NEW k \in Nat \ {0},
         Span(size, k - 1) < Len(c)
  PROVE  /\ Reach(c, size, k - 1) = Span(size, k - 1)
         /\ ChunkBytes(c, Span(size, k - 1), size)
              = SubSeq(c, Reach(c, size, k - 1) + 1, Reach(c, size, k))
         /\ Reach(c, size, k - 1) \in Nat /\ Reach(c, size, k - 1) < Reach(c, size, k)
         /\ Reach(c, size, k) \in 0..Len(c)
<1> DEFINE a == Span(size, k - 1)
           b == Span(size, k)
<1>1. a \in Nat /\ a + size = b
  <2>1. k - 1 \in Nat /\ (k - 1) + 1 = k
    OBVIOUS
  <2> QED BY <2>1, Spans
<1>2. Len(c) \in Nat /\ a < Len(c)
  OBVIOUS
<1>3. /\ Reach(c, size, k - 1) = IF a <= Len(c) THEN a ELSE Len(c)
      /\ Reach(c, size, k) = IF b <= Len(c) THEN b ELSE Len(c)
      /\ ChunkBytes(c, a, size)
           = SubSeq(c, a + 1, IF a + size <= Len(c) THEN a + size ELSE Len(c))
  BY DEF Reach, ChunkBytes
<1> HIDE DEF a, b
<1>4. Reach(c, size, k - 1) = a
  BY <1>1, <1>2, <1>3
<1>5. ChunkBytes(c, a, size) = SubSeq(c, a + 1, Reach(c, size, k))
  BY <1>1, <1>3
<1>6. a < Reach(c, size, k) /\ Reach(c, size, k) \in 0..Len(c)
  BY <1>1, <1>2, <1>3
<1> QED BY <1>1, <1>4, <1>5, <1>6 DEF a

(* The chunks of a content, joined, are the content.                        *)
LEMMA JoinChunks ==
  ASSUME NEW B, NEW c \in Seq(B), NEW size \in Nat \ {0}, NEW bodies \in Seq(Seq(B)),
         \A i \in 1..Len(bodies) : /\ bodies[i] = ChunkBytes(c, Span(size, i - 1), size)
                                   /\ Span(size, i - 1) < Len(c),
         Len(c) <= Span(size, Len(bodies))
  PROVE  Concat(bodies) = c
<1> DEFINE n == Len(bodies)
           Piece(k) == SubSeq(c, 1, Reach(c, size, k))
<1>1. n \in Nat
  OBVIOUS
<1>2. PICK f \in [0..n -> Seq(B)] : JoinsUp(f, n, <<>>, bodies) /\ Concat(bodies) = f[n]
  BY ConcatIs
<1> DEFINE T == {k \in 0..n : f[k] = Piece(k)}
<1>3. 0 \in T
  <2>1. Reach(c, size, 0) = 0
    BY Spans DEF Reach
  <2>2. SubSeq(c, 1, 0) = <<>>
    BY SubSeqEmpty
  <2>3. f[0] = <<>>
    BY <1>2 DEF JoinsUp
  <2>4. f[0] = Piece(0) /\ 0 \in 0..n
    BY <1>1, <2>1, <2>2, <2>3
  <2> QED BY <2>4
<1>4. ASSUME NEW k \in 1..n, k - 1 \in T PROVE k \in T
  <2> DEFINE a == Reach(c, size, k - 1)
             b == Reach(c, size, k)
  <2>1. /\ a \in Nat /\ a < b /\ b \in 0..Len(c)
        /\ bodies[k] = SubSeq(c, a + 1, b)
    <3>1. k \in Nat \ {0} /\ Span(size, k - 1) < Len(c)
          /\ bodies[k] = ChunkBytes(c, Span(size, k - 1), size)
      BY <1>1
    <3> QED BY <3>1, Reaching
  <2>2. f[k] = f[k - 1] \o bodies[k] /\ f[k - 1] = SubSeq(c, 1, a)
    <3>1. f[k] = f[k - 1] \o bodies[k]
      BY <1>2 DEF JoinsUp
    <3> QED BY <1>4, <3>1
  <2> HIDE DEF a, b
  <2>3. 1 \in 1..(Len(c) + 1) /\ a \in (1 - 1)..Len(c) /\ b \in a..Len(c)
    BY <2>1
  <2>4. SubSeq(c, 1, a) \o SubSeq(c, a + 1, b) = SubSeq(c, 1, b)
    BY <2>3, ConcatAdjacentSubSeq, Zenon
  <2>5. f[k] = SubSeq(c, 1, b)
    BY <2>1, <2>2, <2>4
  <2> QED BY <1>1, <2>5 DEF b
<1>5. 0..n \subseteq T
  <2> HIDE DEF T, n
  <2> QED BY <1>1, <1>3, <1>4, UpTo
<1>6. n \in T
  BY <1>1, <1>5
<1>7. Reach(c, size, n) = Len(c)
  <2>1. Span(size, n) \in Nat /\ Len(c) \in Nat /\ Len(c) <= Span(size, n)
    BY <1>1, Spans
  <2> QED BY <2>1 DEF Reach
<1> QED BY <1>2, <1>6, <1>7, SubSeqFull

(* Their sizes add up to its size.                                          *)
LEMMA SumChunks ==
  ASSUME NEW B, NEW c \in Seq(B), NEW size \in Nat \ {0}, NEW r \in Seq(ChunkRef),
         \A i \in 1..Len(r) : /\ r[i].size = Len(ChunkBytes(c, Span(size, i - 1), size))
                              /\ Span(size, i - 1) < Len(c),
         Len(c) <= Span(size, Len(r))
  PROVE  TotalSize(r) = Len(c)
<1> DEFINE n == Len(r)
           of == [k \in 1..n |-> r[k].size]
<1>1. n \in Nat
  OBVIOUS
<1>2. PICK f \in [0..n -> Nat] : SumsUp(f, n, of) /\ TotalSize(r) = f[n]
  BY TotalSizeIs
<1> DEFINE T == {k \in 0..n : f[k] = Reach(c, size, k)}
<1>3. 0 \in T
  <2>1. Reach(c, size, 0) = 0
    BY Spans DEF Reach
  <2> QED BY <1>1, <1>2, <2>1 DEF SumsUp
<1>4. ASSUME NEW k \in 1..n, k - 1 \in T PROVE k \in T
  <2> DEFINE a == Reach(c, size, k - 1)
             b == Reach(c, size, k)
  <2>1. /\ a \in Nat /\ a < b /\ b \in 0..Len(c)
        /\ r[k].size = Len(SubSeq(c, a + 1, b))
    <3>1. k \in Nat \ {0} /\ Span(size, k - 1) < Len(c)
          /\ r[k].size = Len(ChunkBytes(c, Span(size, k - 1), size))
      BY <1>1
    <3> QED BY <3>1, Reaching
  <2>2. f[k] = f[k - 1] + r[k].size /\ f[k - 1] = a
    BY <1>2, <1>4 DEF SumsUp
  <2> HIDE DEF a, b
  <2>3. Len(SubSeq(c, a + 1, b)) = b - a
    <3>1. a + 1 \in Int /\ b \in Int /\ a + 1 <= b /\ \A i \in (a + 1)..b : c[i] \in B
      BY <2>1
    <3>2. Len(SubSeq(c, a + 1, b)) = IF a + 1 <= b THEN b - (a + 1) + 1 ELSE 0
      BY <3>1, SubSeqProperties
    <3> QED BY <2>1, <3>1, <3>2
  <2>4. f[k] = b
    BY <2>1, <2>2, <2>3
  <2> QED BY <1>1, <2>4 DEF b
<1>5. 0..n \subseteq T
  <2> HIDE DEF T, n
  <2> QED BY <1>1, <1>3, <1>4, UpTo
<1>6. n \in T
  BY <1>1, <1>5
<1>7. Reach(c, size, n) = Len(c)
  <2>1. Span(size, n) \in Nat /\ Len(c) \in Nat /\ Len(c) <= Span(size, n)
    BY <1>1, Spans
  <2> QED BY <2>1 DEF Reach
<1> QED BY <1>2, <1>6, <1>7

-----------------------------------------------------------------------------
(* The i-th chunk of an edition, its reference and its packet.              *)
ChunkOf(e, i) == ChunkBytes(content[e], Span(setup.size, i - 1), setup.size)

RefOf(e, i) ==
  [label |-> i - 1, hash |-> Hash(ChunkOf(e, i)), size |-> Len(ChunkOf(e, i)),
   sequence |-> i - 1]

PacketOf(e, i) == NewPacket(i - 1, ChunkOf(e, i))

Given ==
  /\ content \in [1..Editions -> Contents]
  /\ setup \in [size : Sizes, signer : Signers]

(* The chunker's lists are what the content says, as far as it has come.    *)
Chunked(e) ==
  /\ Len(refs[e]) \in Nat /\ Len(packets[e]) = Len(refs[e])
  /\ offset[e] = Span(setup.size, Len(refs[e]))
  /\ \A i \in 1..Len(refs[e]) :
       /\ refs[e][i] = RefOf(e, i) /\ packets[e][i] = PacketOf(e, i)
       /\ Span(setup.size, i - 1) < Len(content[e])

(* A manifest is made of complete lists.                                    *)
Complete(e) ==
  manifest[e] # None =>
    /\ offset[e] >= Len(content[e])
    /\ manifest[e].chunks = refs[e] /\ manifest[e].hash = Hash(content[e])
    /\ manifest[e].total = TotalSize(refs[e])
    /\ DOMAIN manifest[e] = {"name", "chunks", "hash", "sequence", "total"}

(* What the consumer holds is what was published, and under a label it has  *)
(* at most a packet of that label.                                          *)
Fetched ==
  held # None =>
    /\ held.edition \in 1..Editions /\ manifest[held.edition] # None
    /\ held.manifest.chunks = manifest[held.edition].chunks
    /\ held.manifest.hash = manifest[held.edition].hash
    /\ held.manifest.total = manifest[held.edition].total
    /\ DOMAIN chunks = {refs[held.edition][i].label : i \in DOMAIN refs[held.edition]}
    /\ \A l \in DOMAIN chunks : chunks[l] = None \/ chunks[l].label = l

Lists ==
  /\ offset \in [1..Editions -> Nat]
  /\ refs \in [1..Editions -> Seq(ChunkRef)]
  /\ packets \in [1..Editions -> Seq(Packet)]
  /\ DOMAIN manifest = 1..Editions

LInv ==
  /\ Given /\ Lists
  /\ \A e \in 1..Editions : Chunked(e) /\ Complete(e)
  /\ Fetched

LEMMA ChunkTyped ==
  ASSUME NEW B, NEW c \in Seq(B), NEW k \in Nat, NEW size \in Nat
  PROVE  ChunkBytes(c, k, size) \in Seq(B) /\ Len(ChunkBytes(c, k, size)) \in Nat
<1> DEFINE b == IF k + size <= Len(c) THEN k + size ELSE Len(c)
<1>1. k + 1 \in Int /\ b \in Int /\ \A i \in (k + 1)..b : c[i] \in B
  OBVIOUS
<1> HIDE DEF b
<1>2. SubSeq(c, k + 1, b) \in Seq(B)
  BY <1>1, SubSeqProperties
<1>3. ChunkBytes(c, k, size) = SubSeq(c, k + 1, b)
  BY DEF ChunkBytes, b
<1> QED BY <1>2, <1>3

LEMMA Bounds ==
  ASSUME Given, NEW e \in 1..Editions
  PROVE  /\ content[e] \in Seq(Bytes) /\ content[e] # <<>> /\ Len(content[e]) \in Nat
         /\ setup.size \in Nat \ {0} /\ setup.signer \in BOOLEAN
<1>1. content[e] \in Contents /\ setup.size \in Sizes /\ setup.signer \in Signers
  BY DEF Given
<1>2. content[e] \in Seq(Bytes) \ {<<>>} /\ setup.size \in Nat \ {0} /\ setup.signer \in BOOLEAN
  BY <1>1, LargeContentAssumption
<1>3. Len(content[e]) \in Nat
  BY <1>2
<1> QED BY <1>2, <1>3

(* Appending to one list of a family.                                       *)
LEMMA Extended ==
  ASSUME NEW S, NEW D, NEW f \in [D -> Seq(S)], NEW d \in D, NEW x \in S
  PROVE  LET g == [f EXCEPT ![d] = Append(@, x)]
         IN /\ g \in [D -> Seq(S)]
            /\ \A c \in D : c # d => g[c] = f[c]
            /\ Len(g[d]) = Len(f[d]) + 1 /\ g[d][Len(f[d]) + 1] = x
            /\ \A i \in 1..Len(f[d]) : g[d][i] = f[d][i]
<1> DEFINE g == [f EXCEPT ![d] = Append(@, x)]
           t == Append(f[d], x)
<1>1. f[d] \in Seq(S)
  OBVIOUS
<1>2. t \in Seq(S) /\ Len(t) = Len(f[d]) + 1 /\ t[Len(f[d]) + 1] = x
      /\ \A i \in 1..Len(f[d]) : t[i] = f[d][i]
  BY <1>1, AppendProperties
<1>3. g = [f EXCEPT ![d] = t]
  OBVIOUS
<1> HIDE DEF t, g
<1>4. g \in [D -> Seq(S)] /\ (\A c \in D : c # d => g[c] = f[c]) /\ g[d] = t
  BY <1>2, <1>3
<1> QED BY <1>2, <1>4 DEF g

LEMMA InitLInv == Init => LInv
<1> SUFFICES ASSUME Init PROVE LInv
  OBVIOUS
<1>1. Given /\ Fetched
  BY DEF Init, Given, Fetched
<1>2. Lists
  BY DEF Init, Lists
<1>3. ASSUME NEW e \in 1..Editions PROVE Chunked(e) /\ Complete(e)
  <2>1. refs[e] = <<>> /\ packets[e] = <<>> /\ offset[e] = 0 /\ manifest[e] = None
    BY DEF Init
  <2>2. Len(<<>>) = 0 /\ Span(setup.size, 0) = 0
    BY <1>1, <1>3, Bounds, Spans
  <2>3. Chunked(e)
    BY <2>1, <2>2 DEF Chunked
  <2> QED BY <2>1, <2>3 DEF Complete
<1> QED BY <1>1, <1>2, <1>3 DEF LInv

(* What one turn of the chunker's loop adds.                                *)
LEMMA ChunkAdds ==
  ASSUME LInv, NEW e \in 1..Editions, Chunk(e)
  PROVE  LET n == Len(refs[e])
         IN /\ RefOf(e, n + 1) \in ChunkRef /\ PacketOf(e, n + 1) \in Packet
            /\ refs' = [refs EXCEPT ![e] = Append(@, RefOf(e, n + 1))]
            /\ packets' = [packets EXCEPT ![e] = Append(@, PacketOf(e, n + 1))]
            /\ Span(setup.size, n) < Len(content[e])
            /\ offset' = [offset EXCEPT ![e] = Span(setup.size, n + 1)]
<1> DEFINE n == Len(refs[e])
           size == setup.size
           b == ChunkBytes(content[e], offset[e], size)
<1>1. /\ content[e] \in Seq(Bytes) /\ size \in Nat \ {0} /\ n \in Nat
      /\ offset[e] = Span(size, n) /\ offset[e] \in Nat
  BY Bounds DEF LInv, Chunked, Lists
<1>2. (n + 1) - 1 = n /\ Span(size, n + 1) = Span(size, n) + size
  <2> HIDE DEF n, size
  <2> QED BY <1>1, Spans
<1>3. b = ChunkOf(e, n + 1)
  BY <1>1, <1>2 DEF ChunkOf
<1>4. b \in Seq(Bytes) /\ Len(b) \in Nat
  BY <1>1, ChunkTyped
<1>5. /\ refs' = [refs EXCEPT ![e] = Append(@,
           [label |-> n, hash |-> Hash(b), size |-> Len(b), sequence |-> n])]
      /\ packets' = [packets EXCEPT ![e] = Append(@, NewPacket(n, b))]
      /\ offset' = [offset EXCEPT ![e] = @ + size]
      /\ offset[e] < Len(content[e])
  BY DEF Chunk, Label
<1>6. [label |-> n, hash |-> Hash(b), size |-> Len(b), sequence |-> n] = RefOf(e, n + 1)
  BY <1>2, <1>3 DEF RefOf
<1>7. NewPacket(n, b) = PacketOf(e, n + 1)
  BY <1>2, <1>3 DEF PacketOf
<1>8. [offset EXCEPT ![e] = @ + size] = [offset EXCEPT ![e] = Span(size, n + 1)]
  BY <1>1, <1>2
<1> HIDE DEF b, n, size
<1>9. Hash(b) \in Hashes
  BY <1>4 DEF Hash, Hashes
<1>10. [label |-> n, hash |-> Hash(b), size |-> Len(b), sequence |-> n] \in ChunkRef
  BY <1>1, <1>4, <1>9 DEF ChunkRef, Labels
<1>11. NewPacket(n, b) \in Packet
  BY <1>1, <1>4, <1>9 DEF NewPacket, Packet, Labels, Label
<1> QED BY <1>1, <1>5, <1>6, <1>7, <1>8, <1>10, <1>11 DEF n, size

LEMMA Still ==
  ASSUME UNCHANGED <<content, setup>>, NEW e, NEW i
  PROVE  RefOf(e, i)' = RefOf(e, i) /\ PacketOf(e, i)' = PacketOf(e, i)
BY DEF RefOf, PacketOf, ChunkOf, NewPacket

LEMMA ChunkKeeps ==
  ASSUME LInv, NEW e \in 1..Editions, Chunk(e)
  PROVE  LInv'
<1> DEFINE n == Len(refs[e])
<1>1. /\ RefOf(e, n + 1) \in ChunkRef /\ PacketOf(e, n + 1) \in Packet
      /\ refs' = [refs EXCEPT ![e] = Append(@, RefOf(e, n + 1))]
      /\ packets' = [packets EXCEPT ![e] = Append(@, PacketOf(e, n + 1))]
      /\ Span(setup.size, n) < Len(content[e])
      /\ offset' = [offset EXCEPT ![e] = Span(setup.size, n + 1)]
  BY ChunkAdds
<1>2. UNCHANGED <<content, setup, manifest, net, held, chunks>> /\ offset[e] < Len(content[e])
  BY DEF Chunk
<1>3. Given /\ Lists /\ Chunked(e) /\ n \in Nat /\ Len(packets[e]) = n
  BY DEF LInv, Chunked
<1>4. Span(setup.size, n + 1) \in Nat /\ (n + 1) - 1 = n
  <2>1. setup.size \in Nat /\ n \in Nat
    BY <1>3, Bounds
  <2> HIDE DEF n
  <2>2. n + 1 \in Nat /\ (n + 1) - 1 = n
    BY <2>1
  <2> QED BY <2>1, <2>2, Spans
<1>5. Given'
  BY <1>2, <1>3 DEF Given
<1>6. /\ refs' \in [1..Editions -> Seq(ChunkRef)]
      /\ \A f \in 1..Editions : f # e => refs'[f] = refs[f]
      /\ Len(refs'[e]) = n + 1 /\ refs'[e][n + 1] = RefOf(e, n + 1)
      /\ \A i \in 1..n : refs'[e][i] = refs[e][i]
  <2>1. refs \in [1..Editions -> Seq(ChunkRef)]
    BY <1>3 DEF Lists
  <2> HIDE DEF n
  <2>2. refs' = [refs EXCEPT ![e] = Append(@, RefOf(e, n + 1))] /\ RefOf(e, n + 1) \in ChunkRef
    BY <1>1
  <2> QED BY <2>1, <2>2, Extended DEF n
<1>7. /\ packets' \in [1..Editions -> Seq(Packet)]
      /\ \A f \in 1..Editions : f # e => packets'[f] = packets[f]
      /\ Len(packets'[e]) = n + 1 /\ packets'[e][n + 1] = PacketOf(e, n + 1)
      /\ \A i \in 1..n : packets'[e][i] = packets[e][i]
  <2>1. packets \in [1..Editions -> Seq(Packet)]
    BY <1>3 DEF Lists
  <2> HIDE DEF n
  <2> QED BY <1>1, <1>3, <2>1, Extended
<1>8. /\ offset' \in [1..Editions -> Nat] /\ offset'[e] = Span(setup.size, n + 1)
      /\ \A f \in 1..Editions : f # e => offset'[f] = offset[f]
  BY <1>1, <1>3, <1>4 DEF Lists
<1> HIDE DEF n
<1>9. Lists'
  BY <1>2, <1>3, <1>6, <1>7, <1>8 DEF Lists
<1>10. ASSUME NEW f \in 1..Editions PROVE Chunked(f)' /\ Complete(f)'
  <2>1. CASE f # e
    <3>1. /\ refs'[f] = refs[f] /\ packets'[f] = packets[f] /\ offset'[f] = offset[f]
          /\ Chunked(f) /\ Complete(f)
      BY <1>6, <1>7, <1>8, <2>1 DEF LInv
    <3>2. Chunked(f)'
      BY <1>2, <3>1, Still DEF Chunked
    <3>3. Complete(f)'
      BY <1>2, <3>1 DEF Complete
    <3> QED BY <3>2, <3>3
  <2>2. CASE f = e
    <3>1. ASSUME NEW i \in 1..(n + 1)
          PROVE  /\ refs'[e][i] = RefOf(e, i) /\ packets'[e][i] = PacketOf(e, i)
                 /\ Span(setup.size, i - 1) < Len(content[e])
      <4>1. CASE i = n + 1
        BY <1>1, <1>4, <1>6, <1>7, <4>1 DEF n
      <4>2. CASE i # n + 1
        <5>1. i \in 1..n
          BY <1>3, <4>2
        <5>2. refs[e][i] = RefOf(e, i) /\ packets[e][i] = PacketOf(e, i)
              /\ Span(setup.size, i - 1) < Len(content[e])
          BY <1>3, <5>1 DEF Chunked, n
        <5> QED BY <1>6, <1>7, <5>1, <5>2
      <4> QED BY <4>1, <4>2
    <3>2. Chunked(e)'
      <4>1. \A i : RefOf(e, i)' = RefOf(e, i) /\ PacketOf(e, i)' = PacketOf(e, i)
        BY <1>2, Still
      <4>2. content' = content /\ setup' = setup /\ n + 1 \in Nat
        BY <1>2, <1>3
      <4>3. Len(refs'[e]) = n + 1 /\ Len(packets'[e]) = n + 1
            /\ offset'[e] = Span(setup.size, n + 1)
        BY <1>6, <1>7, <1>8
      <4> QED BY <3>1, <4>1, <4>2, <4>3 DEF Chunked
    <3>3. manifest[e] = None
      <4>1. Complete(e) /\ offset[e] \in Nat /\ Len(content[e]) \in Nat
        BY <1>3, Bounds DEF LInv, Lists
      <4> QED BY <1>2, <4>1 DEF Complete
    <3> QED BY <1>2, <2>2, <3>2, <3>3 DEF Complete
  <2> QED BY <2>1, <2>2
<1>11. Fetched'
  <2>1. ASSUME held # None PROVE held.edition # e /\ held.edition \in 1..Editions
    <3>1. manifest[held.edition] # None /\ held.edition \in 1..Editions
      BY <2>1 DEF LInv, Fetched
    <3>2. Complete(held.edition)
      BY <3>1 DEF LInv
    <3>3. offset[e] \in Nat /\ Len(content[e]) \in Nat
      BY <1>3, Bounds DEF Lists
    <3> QED BY <1>2, <3>1, <3>2, <3>3 DEF Complete
  <2> QED BY <1>2, <1>6, <2>1 DEF LInv, Fetched
<1> QED BY <1>5, <1>9, <1>10, <1>11 DEF LInv

LEMMA CreateKeeps ==
  ASSUME LInv, NEW e \in 1..Editions, Create(e)
  PROVE  LInv'
<1> DEFINE m == [name |-> Path, chunks |-> refs[e], hash |-> Hash(content[e]),
                 sequence |-> e, total |-> TotalSize(refs[e])]
<1>1. /\ offset[e] >= Len(content[e]) /\ manifest[e] = None
      /\ manifest' = [manifest EXCEPT ![e] = m]
      /\ UNCHANGED <<content, setup, offset, refs, packets, net, held, chunks>>
  BY DEF Create
<1>2. /\ m.chunks = refs[e] /\ m.hash = Hash(content[e]) /\ m.total = TotalSize(refs[e])
      /\ DOMAIN m = {"name", "chunks", "hash", "sequence", "total"}
  OBVIOUS
<1>3. Given /\ Lists
  BY DEF LInv
<1> HIDE DEF m
<1>4. /\ DOMAIN manifest' = 1..Editions /\ manifest'[e] = m
      /\ \A f \in 1..Editions : f # e => manifest'[f] = manifest[f]
  BY <1>1, <1>3 DEF Lists
<1>5. Given' /\ Lists'
  BY <1>1, <1>3, <1>4 DEF Given, Lists
<1>6. ASSUME NEW f \in 1..Editions PROVE Chunked(f)' /\ Complete(f)'
  <2>1. Chunked(f) /\ Complete(f)
    BY DEF LInv
  <2>2. Chunked(f)'
    BY <1>1, <2>1, Still DEF Chunked
  <2>3. CASE f = e
    BY <1>1, <1>2, <1>4, <2>2, <2>3 DEF Complete
  <2>4. CASE f # e
    BY <1>1, <1>4, <2>1, <2>2, <2>4 DEF Complete
  <2> QED BY <2>3, <2>4
<1>7. Fetched'
  <2>1. ASSUME held # None
        PROVE held.edition \in 1..Editions /\ manifest'[held.edition] = manifest[held.edition]
    BY <1>1, <1>4, <2>1 DEF LInv, Fetched
  <2> QED BY <1>1, <2>1 DEF LInv, Fetched
<1> QED BY <1>5, <1>6, <1>7 DEF LInv

(* The consumer's side leaves the lists alone.                              *)
LEMMA Apart ==
  ASSUME LInv, UNCHANGED <<content, setup, offset, refs, packets, manifest>>
  PROVE  /\ Given' /\ Lists'
         /\ \A e \in 1..Editions : Chunked(e)' /\ Complete(e)'
<1>1. Given' /\ Lists'
  BY DEF LInv, Given, Lists
<1>2. ASSUME NEW e \in 1..Editions PROVE Chunked(e)' /\ Complete(e)'
  BY Still DEF LInv, Chunked, Complete
<1> QED BY <1>1, <1>2

LEMMA FetchKeeps ==
  ASSUME LInv, NEW e \in 1..Editions, FetchManifest(e)
  PROVE  LInv'
<1> DEFINE m == Parsed(manifest[e])
<1>1. /\ manifest[e] # None
      /\ held' = [edition |-> e, manifest |-> m]
      /\ chunks' = [r \in {m.chunks[i].label : i \in DOMAIN refs[e]} |-> None]
      /\ UNCHANGED <<content, setup, offset, refs, packets, manifest, net>>
  BY DEF FetchManifest
<1>2. m.chunks = manifest[e].chunks /\ m.hash = manifest[e].hash
      /\ m.total = manifest[e].total
  BY <1>1 DEF LInv, Complete, Parsed
<1>3. m.chunks = refs[e]
  BY <1>1, <1>2 DEF LInv, Complete
<1> HIDE DEF m
<1>4. held'.edition = e /\ held'.manifest = m
  BY <1>1
<1>5. DOMAIN chunks' = {refs[e][i].label : i \in DOMAIN refs[e]}
      /\ \A k \in DOMAIN chunks' : chunks'[k] = None
  BY <1>1, <1>3
<1>6. Fetched'
  <2>1. refs' = refs /\ manifest' = manifest /\ manifest[e] # None /\ e \in 1..Editions
    BY <1>1
  <2> QED BY <1>2, <1>4, <1>5, <2>1 DEF Fetched
<1> QED BY <1>1, <1>6, Apart DEF LInv

LEMMA CollectKeeps ==
  ASSUME LInv, NEW l, NEW d, Collect(l, d)
  PROVE  LInv'
<1>1. /\ held # None /\ l \in DOMAIN chunks /\ d.label = l
      /\ chunks' = [chunks EXCEPT ![l] = d]
      /\ UNCHANGED <<content, setup, offset, refs, packets, manifest, net, held>>
  BY DEF Collect
<1>2. DOMAIN chunks' = DOMAIN chunks
      /\ \A k \in DOMAIN chunks : chunks'[k] = IF k = l THEN d ELSE chunks[k]
  BY <1>1
<1>3. Fetched
  BY DEF LInv
<1>4. \A k \in DOMAIN chunks' : chunks'[k] = None \/ chunks'[k].label = k
  BY <1>1, <1>2, <1>3 DEF Fetched
<1>5. DOMAIN chunks' = {refs[held.edition][i].label : i \in DOMAIN refs[held.edition]}
  BY <1>1, <1>2, <1>3 DEF Fetched
<1>6. Fetched'
  BY <1>1, <1>3, <1>4, <1>5 DEF Fetched
<1> QED BY <1>1, <1>6, Apart DEF LInv

LEMMA LInvHolds == Spec => []LInv
<1>1. Init => LInv
  BY InitLInv
<1>2. LInv /\ [Next]_vars => LInv'
  <2> SUFFICES ASSUME LInv, [Next]_vars PROVE LInv'
    OBVIOUS
  <2>1. CASE \E e \in 1..Editions : Chunk(e)
    BY <2>1, ChunkKeeps
  <2>2. CASE \E e \in 1..Editions : Create(e)
    BY <2>2, CreateKeeps
  <2>3. CASE \E e \in 1..Editions : FetchManifest(e)
    BY <2>3, FetchKeeps
  <2>4. CASE \E e \in 1..Editions : \E i \in DOMAIN packets[e] : Deliver(e, i)
    <3>1. UNCHANGED <<content, setup, offset, refs, packets, manifest, held, chunks>>
      BY <2>4 DEF Deliver
    <3>2. Fetched'
      BY <3>1 DEF LInv, Fetched
    <3> QED BY <3>1, <3>2, Apart DEF LInv
  <2>5. CASE \E l \in DOMAIN chunks, d \in net : \E x \in {d} \cup Forgeries(d) : Collect(l, x)
    BY <2>5, CollectKeeps
  <2>6. CASE UNCHANGED vars
    <3>1. UNCHANGED <<content, setup, offset, refs, packets, manifest, held, chunks>>
      BY <2>6 DEF vars
    <3>2. Fetched'
      BY <3>1 DEF LInv, Fetched
    <3> QED BY <3>1, <3>2, Apart DEF LInv
  <2> QED BY <2>1, <2>2, <2>3, <2>4, <2>5, <2>6 DEF Next
<1> QED BY <1>1, <1>2, PTL DEF Spec

-----------------------------------------------------------------------------
(* What is known of the manifest a consumer holds.                          *)
LEMMA Holding ==
  ASSUME LInv, held # None
  PROVE  LET e == held.edition
             m == held.manifest
         IN /\ e \in 1..Editions /\ Given /\ Chunked(e)
            /\ refs[e] \in Seq(ChunkRef)
            /\ Len(content[e]) <= Span(setup.size, Len(refs[e]))
            /\ m.chunks = refs[e] /\ DOMAIN m.chunks = 1..Len(refs[e])
            /\ m.hash = Hash(content[e]) /\ m.total = TotalSize(refs[e])
            /\ \A i \in DOMAIN m.chunks :
                 /\ m.chunks[i].label = i - 1 /\ m.chunks[i].hash = Hash(ChunkOf(e, i))
                 /\ i - 1 \in DOMAIN chunks
            /\ \A l \in DOMAIN chunks : chunks[l] = None \/ chunks[l].label = l
<1> DEFINE e == held.edition
           m == held.manifest
<1>1. /\ e \in 1..Editions /\ manifest[e] # None
      /\ m.chunks = manifest[e].chunks /\ m.hash = manifest[e].hash
      /\ m.total = manifest[e].total
      /\ DOMAIN chunks = {refs[e][i].label : i \in DOMAIN refs[e]}
      /\ \A l \in DOMAIN chunks : chunks[l] = None \/ chunks[l].label = l
  BY DEF LInv, Fetched
<1> HIDE DEF e, m
<1>2. Given /\ Lists /\ Chunked(e) /\ Complete(e)
  BY <1>1 DEF LInv
<1>3. /\ offset[e] >= Len(content[e]) /\ m.chunks = refs[e]
      /\ m.hash = Hash(content[e]) /\ m.total = TotalSize(refs[e])
  BY <1>1, <1>2 DEF Complete
<1>4. refs[e] \in Seq(ChunkRef) /\ offset[e] \in Nat /\ Len(content[e]) \in Nat
  BY <1>1, <1>2, Bounds DEF Lists
<1>5. DOMAIN m.chunks = 1..Len(refs[e]) /\ DOMAIN refs[e] = 1..Len(refs[e])
  BY <1>3, <1>4
<1>6. Len(content[e]) <= Span(setup.size, Len(refs[e]))
  BY <1>2, <1>3, <1>4 DEF Chunked
<1>7. ASSUME NEW i \in DOMAIN m.chunks
      PROVE  /\ m.chunks[i].label = i - 1 /\ m.chunks[i].hash = Hash(ChunkOf(e, i))
             /\ i - 1 \in DOMAIN chunks
  <2>1. m.chunks[i] = RefOf(e, i) /\ i \in DOMAIN refs[e] /\ refs[e][i] = RefOf(e, i)
    BY <1>2, <1>3, <1>5 DEF Chunked
  <2>2. m.chunks[i].label = i - 1 /\ m.chunks[i].hash = Hash(ChunkOf(e, i))
        /\ refs[e][i].label = i - 1
    BY <2>1 DEF RefOf
  <2> QED BY <1>1, <2>1, <2>2
<1> QED BY <1>1, <1>2, <1>3, <1>4, <1>5, <1>6, <1>7 DEF e, m

(* The first of some places is one of them.                                 *)
LEMMA FirstIs ==
  ASSUME NEW S, S \subseteq Nat, S # {}
  PROVE  First(S) \in S
<1>1. PICK x \in S : \A y \in S : ~(<<y, x>> \in OpToRel(<, Nat))
  BY NatLessThanWellFounded, WFMin
<1>2. ASSUME NEW y \in S PROVE x <= y
  <2>1. x \in Nat /\ y \in Nat
    OBVIOUS
  <2>2. ~(y < x)
    BY <1>1, <2>1 DEF OpToRel
  <2> QED BY <2>1, <2>2
<1> QED BY <1>2 DEF First

(* A chunk without a fault is one verify_chunk accepts.                     *)
LEMMA FaultIs ==
  ASSUME NEW m, NEW i, NEW validator \in BOOLEAN
  PROVE  Fault(m, i, validator) = "none"
           <=> VerifyChunk(m.chunks[i], chunks[m.chunks[i].label], validator)
<1> DEFINE ref == m.chunks[i]
           d == chunks[ref.label]
<1>1. Fault(m, i, validator) =
        IF d = None THEN "missing"
        ELSE IF ~HashMatches(ref, d) THEN "hash"
        ELSE IF ~SignatureFits(d, validator) THEN "signature" ELSE "none"
  BY DEF Fault
<1>2. VerifyChunk(ref, d, validator)
        <=> d # None /\ HashMatches(ref, d) /\ SignatureFits(d, validator)
  BY DEF VerifyChunk
<1>3. Fault(m, i, validator) = "none" <=> VerifyChunk(ref, d, validator)
  <2> HIDE DEF d, ref
  <2>1. CASE d = None
    BY <1>1, <1>2, <2>1
  <2>2. CASE d # None /\ ~HashMatches(ref, d)
    BY <1>1, <1>2, <2>2
  <2>3. CASE d # None /\ HashMatches(ref, d) /\ ~SignatureFits(d, validator)
    BY <1>1, <1>2, <2>3
  <2>4. CASE d # None /\ HashMatches(ref, d) /\ SignatureFits(d, validator)
    BY <1>1, <1>2, <2>4
  <2> QED BY <2>1, <2>2, <2>3, <2>4
<1> QED BY <1>3

(* Chunks without a fault join to the content.                              *)
LEMMA JoinedIs ==
  ASSUME LInv, held # None, NEW validator \in BOOLEAN,
         Faults(held.manifest, validator) = {}
  PROVE  Joined(held.manifest) = content[held.edition]
<1> DEFINE e == held.edition
           m == held.manifest
           n == Len(refs[e])
           bodies == [i \in DOMAIN m.chunks |-> chunks[m.chunks[i].label].body]
<1>1. /\ e \in 1..Editions /\ Given /\ Chunked(e) /\ DOMAIN m.chunks = 1..n
      /\ Len(content[e]) <= Span(setup.size, n)
      /\ \A i \in DOMAIN m.chunks : m.chunks[i].hash = Hash(ChunkOf(e, i))
  BY Holding
<1>2. \A i \in DOMAIN m.chunks : Fault(m, i, validator) = "none"
  BY DEF Faults
<1>3. Joined(m) = Concat(bodies)
  BY DEF Joined
<1>4. /\ content[e] \in Seq(Bytes) /\ Len(content[e]) \in Nat /\ setup.size \in Nat \ {0}
      /\ n \in Nat
  BY <1>1, Bounds DEF Chunked
<1> HIDE DEF e, m, n
<1>5. ASSUME NEW i \in 1..n
      PROVE  /\ bodies[i] = ChunkOf(e, i) /\ ChunkOf(e, i) \in Seq(Bytes)
             /\ Span(setup.size, i - 1) < Len(content[e])
  <2>1. VerifyChunk(m.chunks[i], chunks[m.chunks[i].label], validator)
    BY <1>1, <1>2, FaultIs
  <2>2. Hash(chunks[m.chunks[i].label].body) = Hash(ChunkOf(e, i))
    BY <1>1, <2>1 DEF VerifyChunk, HashMatches
  <2>3. chunks[m.chunks[i].label].body = ChunkOf(e, i)
    BY <2>2 DEF Hash
  <2>4. Span(setup.size, i - 1) < Len(content[e])
    BY <1>1 DEF Chunked, n
  <2>5. Span(setup.size, i - 1) \in Nat
    <3>1. i - 1 \in Nat /\ setup.size \in Nat
      BY <1>4
    <3> QED BY <3>1, Spans
  <2>6. ChunkOf(e, i) \in Seq(Bytes)
    BY <1>4, <2>5, ChunkTyped DEF ChunkOf
  <2>7. bodies[i] = chunks[m.chunks[i].label].body
    BY <1>1
  <2> QED BY <2>3, <2>4, <2>6, <2>7
<1>6. bodies = [i \in 1..n |-> bodies[i]]
  BY <1>1
<1> HIDE DEF bodies
<1>7. bodies \in Seq(Seq(Bytes)) /\ Len(bodies) = n
  BY <1>4, <1>5, <1>6
<1>8. \A i \in 1..Len(bodies) : /\ bodies[i] = ChunkBytes(content[e], Span(setup.size, i - 1), setup.size)
                                /\ Span(setup.size, i - 1) < Len(content[e])
  BY <1>5, <1>7 DEF ChunkOf
<1>9. Concat(bodies) = content[e]
  BY <1>1, <1>4, <1>7, <1>8, JoinChunks
<1> QED BY <1>3, <1>9 DEF e, m

(* What the two assemblers make of a manifest: an error while some chunk    *)
(* has a fault, and the content as soon as none has.                        *)
LEMMA Assembling ==
  ASSUME LInv, held # None, NEW validator \in BOOLEAN
  PROVE  LET m == held.manifest
             whole == [error |-> "none", bytes |-> content[held.edition]]
         IN /\ Faults(m, validator) # {} =>
                 /\ AssembleVerified(m, validator).error # "none"
                 /\ Assemble(m, validator).error # "none"
            /\ Faults(m, validator) = {} =>
                 AssembleVerified(m, validator) = whole /\ Assemble(m, validator) = whole
<1> DEFINE m == held.manifest
           whole == [error |-> "none", bytes |-> content[held.edition]]
           r == AssembleVerified(m, validator)
<1>1. Assemble(m, validator) =
        IF r.error = "none" /\ Hash(r.bytes) # m.hash
          THEN [error |-> "integrity", bytes |-> <<>>] ELSE r
  BY DEF Assemble
<1>2. CASE Faults(m, validator) # {}
  <2>1. Faults(m, validator) \subseteq Nat
    <3>1. DOMAIN m.chunks = 1..Len(refs[held.edition]) /\ Len(refs[held.edition]) \in Nat
      BY Holding DEF Chunked
    <3> QED BY <3>1 DEF Faults
  <2>2. First(Faults(m, validator)) \in Faults(m, validator)
    BY <1>2, <2>1, FirstIs
  <2>3. Fault(m, First(Faults(m, validator)), validator) # "none"
    <3> DEFINE i == First(Faults(m, validator))
    <3> HIDE DEF i
    <3>1. i \in Faults(m, validator)
      BY <2>2 DEF i
    <3>2. Fault(m, i, validator) # "none"
      BY <3>1 DEF Faults
    <3> QED BY <3>2 DEF i
  <2>4. r.error = Fault(m, First(Faults(m, validator)), validator)
    BY <1>2 DEF AssembleVerified
  <2> HIDE DEF r, m
  <2>5. r.error # "none"
    BY <2>3, <2>4
  <2>6. Assemble(m, validator) = r
    BY <1>1, <2>5
  <2> QED BY <1>2, <2>5, <2>6 DEF r, m
<1>3. CASE Faults(m, validator) = {}
  <2>1. r = [error |-> "none", bytes |-> Joined(m)]
    BY <1>3 DEF AssembleVerified
  <2>2. Joined(m) = content[held.edition] /\ m.hash = Hash(content[held.edition])
    BY <1>3, JoinedIs, Holding
  <2> HIDE DEF r, m
  <2>3. r = whole /\ Hash(r.bytes) = m.hash
    BY <2>1, <2>2
  <2>4. Assemble(m, validator) = r
    BY <1>1, <2>3
  <2> QED BY <1>3, <2>3, <2>4 DEF r, m
<1> QED BY <1>2, <1>3

-----------------------------------------------------------------------------
LEMMA RoundTripThen == LInv => RoundTrip
<1> SUFFICES ASSUME LInv PROVE RoundTrip
  OBVIOUS
<1> DEFINE e == held.edition
           m == held.manifest
           whole == [error |-> "none", bytes |-> content[e]]
<1>1. ASSUME held # None PROVE m.total = Len(content[e])
  <2>1. /\ e \in 1..Editions /\ Given /\ Chunked(e) /\ refs[e] \in Seq(ChunkRef)
        /\ Len(content[e]) <= Span(setup.size, Len(refs[e])) /\ m.total = TotalSize(refs[e])
    BY <1>1, Holding
  <2>2. content[e] \in Seq(Bytes) /\ setup.size \in Nat \ {0}
    BY <2>1, Bounds
  <2> HIDE DEF e, m
  <2>3. \A i \in 1..Len(refs[e]) :
           /\ refs[e][i].size = Len(ChunkBytes(content[e], Span(setup.size, i - 1), setup.size))
           /\ Span(setup.size, i - 1) < Len(content[e])
    <3>1. ASSUME NEW i \in 1..Len(refs[e])
          PROVE  refs[e][i].size = Len(ChunkOf(e, i)) /\ Span(setup.size, i - 1) < Len(content[e])
      <4>1. refs[e][i] = RefOf(e, i) /\ Span(setup.size, i - 1) < Len(content[e])
        BY <2>1 DEF Chunked
      <4>2. RefOf(e, i).size = Len(ChunkOf(e, i))
        BY DEF RefOf
      <4> QED BY <4>1, <4>2
    <3> QED BY <3>1 DEF ChunkOf
  <2> QED BY <2>1, <2>2, <2>3, SumChunks
<1>2. ASSUME held # None,
             \A l \in DOMAIN chunks : \E i \in DOMAIN packets[e] : chunks[l] = packets[e][i]
      PROVE  Assemble(m, setup.signer) = whole /\ AssembleVerified(m, setup.signer) = whole
  <2>1. /\ e \in 1..Editions /\ Given /\ Chunked(e) /\ DOMAIN m.chunks = 1..Len(refs[e])
        /\ \A i \in DOMAIN m.chunks :
             /\ m.chunks[i].label = i - 1 /\ m.chunks[i].hash = Hash(ChunkOf(e, i))
             /\ i - 1 \in DOMAIN chunks
        /\ \A l \in DOMAIN chunks : chunks[l] = None \/ chunks[l].label = l
    BY <1>2, Holding
  <2>2. setup.signer \in BOOLEAN /\ Len(refs[e]) \in Nat
    BY <2>1, Bounds DEF Chunked
  <2>3. packets[e] \in Seq(Packet) /\ DOMAIN packets[e] = 1..Len(refs[e])
    BY <2>1 DEF LInv, Lists, Chunked
  <2>4. \A l \in DOMAIN chunks : \E i \in DOMAIN packets[e] : chunks[l] = packets[e][i]
    BY <1>2
  <2> HIDE DEF e, m
  <2>5. ASSUME NEW i \in DOMAIN m.chunks
        PROVE  VerifyChunk(m.chunks[i], chunks[m.chunks[i].label], setup.signer)
    <3> DEFINE d == chunks[i - 1]
    <3>1. PICK j \in DOMAIN packets[e] : d = packets[e][j]
      BY <2>1, <2>4
    <3>2. d \in Packet /\ d # None
      BY <2>3, <3>1, LargeContentAssumption
    <3>3. d = PacketOf(e, j)
      BY <2>1, <2>3, <3>1 DEF Chunked
    <3>4. d.label = i - 1
      BY <2>1, <3>2
    <3>5. j = i
      <4>1. d.label = j - 1
        BY <3>3 DEF PacketOf, NewPacket, Label
      <4>2. i \in Nat /\ j \in Nat
        BY <2>1, <2>2, <2>3
      <4> QED BY <3>4, <4>1, <4>2
    <3>6. /\ d.hash = Hash(ChunkOf(e, i)) /\ d.body = ChunkOf(e, i)
          /\ d.signature = IF setup.signer THEN "good" ELSE "none"
      BY <3>3, <3>5 DEF PacketOf, NewPacket
    <3> HIDE DEF d
    <3>7. HashMatches(m.chunks[i], d) /\ SignatureFits(d, setup.signer)
      BY <2>1, <3>6 DEF HashMatches, SignatureFits
    <3>8. VerifyChunk(m.chunks[i], d, setup.signer)
      BY <3>2, <3>7 DEF VerifyChunk
    <3> QED BY <2>1, <3>8 DEF d
  <2>6. Faults(m, setup.signer) = {}
    BY <2>2, <2>5, FaultIs DEF Faults
  <2> QED BY <1>2, <2>2, <2>6, Assembling DEF e, m
<1> QED BY <1>1, <1>2 DEF RoundTrip

(* Once every label has one of the packets the chunker made, both           *)
(* assemblers return the content, and the manifest gives its size.          *)
THEOREM RoundTrips == Spec => []RoundTrip
BY LInvHolds, RoundTripThen, PTL

LEMMA OriginalThen == LInv => AssembledIsOriginal
<1> SUFFICES ASSUME LInv, held # None, NEW validator \in BOOLEAN,
                    AssembleVerified(held.manifest, validator).error = "none"
             PROVE  AssembleVerified(held.manifest, validator).bytes = content[held.edition]
  BY DEF AssembledIsOriginal
<1>1. Faults(held.manifest, validator) = {}
  BY Assembling
<1>2. AssembleVerified(held.manifest, validator)
        = [error |-> "none", bytes |-> content[held.edition]]
  BY <1>1, Assembling
<1> QED BY <1>2

(* Whatever mixture of editions and of altered packets has been collected,  *)
(* what assembling returns without an error is the content the manifest was *)
(* made for, with or without a validator.                                   *)
THEOREM OriginalOrError == Spec => []AssembledIsOriginal
BY LInvHolds, OriginalThen, PTL

LEMMA VerifiedThen == LInv => VerifiedAssembles
<1> SUFFICES ASSUME LInv, held # None, NEW validator \in BOOLEAN
             PROVE
      LET m   == held.manifest
          bad == {i \in DOMAIN m.chunks :
                    ~VerifyChunk(m.chunks[i], chunks[m.chunks[i].label], validator)}
      IN /\ bad = {} <=> AssembleVerified(m, validator).error = "none"
         /\ bad = {} <=> Assemble(m, validator).error = "none"
         /\ MissingLabels(m) \subseteq {m.chunks[i].label : i \in bad}
  BY DEF VerifiedAssembles
<1> DEFINE m == held.manifest
           bad == {i \in DOMAIN m.chunks :
                     ~VerifyChunk(m.chunks[i], chunks[m.chunks[i].label], validator)}
<1>1. bad = Faults(m, validator)
  BY FaultIs DEF Faults
<1>2. /\ Faults(m, validator) # {} => /\ AssembleVerified(m, validator).error # "none"
                                      /\ Assemble(m, validator).error # "none"
      /\ Faults(m, validator) = {} => /\ AssembleVerified(m, validator).error = "none"
                                      /\ Assemble(m, validator).error = "none"
  BY Assembling
<1>3. MissingLabels(m) \subseteq {m.chunks[i].label : i \in bad}
  BY DEF MissingLabels, VerifyChunk
<1> HIDE DEF bad, m
<1>4. /\ bad = {} <=> AssembleVerified(m, validator).error = "none"
      /\ bad = {} <=> Assemble(m, validator).error = "none"
  BY <1>1, <1>2
<1> QED BY <1>3, <1>4 DEF bad, m

(* When nothing is left to fetch again both assemblers succeed, and before  *)
(* that neither does; what is missing is among what is reported.            *)
THEOREM VerifiedWillAssemble == Spec => []VerifiedAssembles
BY LInvHolds, VerifiedThen, PTL
=============================================================================
