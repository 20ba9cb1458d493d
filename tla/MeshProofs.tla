----------------------------- MODULE MeshProofs -----------------------------
(***************************************************************************)
(* Three parts.  The wire format loses nothing of any packet, whatever the  *)
(* widths of the fields.  So what the nodes of a mesh send one another      *)
(* arrives as it was sent.  Then what an invalidation guarantees to the     *)
(* producer's neighbours, on any mesh in which the producer asks nobody for *)
(* its own names, for any number of clients, names, editions, invalidations *)
(* and packets under way, as long as a name is invalidated once a second at *)
(* most.                                                                    *)
(***************************************************************************)
EXTENDS Mesh, SequenceTheorems, WellFoundedInduction, TLAPS

-----------------------------------------------------------------------------
(* PART 1. The wire format.                                                 *)

(* Induction over the first numbers, on the set of those for which a fact   *)
(* holds.                                                                   *)
LEMMA UpTo ==
  ASSUME NEW n \in Nat, NEW T, 0 \in T, \A k \in 1..n : k - 1 \in T => k \in T
  PROVE  0..n \subseteq T
<1> DEFINE U == (0..n) \ T
<1> SUFFICES ASSUME U # {} PROVE FALSE
  OBVIOUS
<1>1. U \subseteq Nat
  OBVIOUS
<1>2. PICK x \in U : \A y \in U : ~(<<y, x>> \in OpToRel(<, Nat))
  <2> HIDE DEF U
  <2> QED BY <1>1, NatLessThanWellFounded, WFMin
<1>3. x \in 1..n /\ x \notin T
  OBVIOUS
<1>4. x - 1 \in U
  BY <1>3
<1>5. <<x - 1, x>> \in OpToRel(<, Nat)
  BY <1>3 DEF OpToRel
<1> QED BY <1>2, <1>4, <1>5

(* A function is given by its first value and a step.                       *)
Follows(f, n, base, step) == f[0] = base /\ \A k \in 1..n : f[k] = step[k][f[k - 1]]

LEMMA Recursion ==
  ASSUME NEW S, NEW base \in S, NEW n \in Nat, NEW step \in [1..n -> [S -> S]]
  PROVE  \E f \in [0..n -> S] : Follows(f, n, base, step)
<1> DEFINE Starts(f, m) ==
             f \in [0..m -> S] /\ f[0] = base /\ \A k \in 1..m : f[k] = step[k][f[k - 1]]
           T == {m \in 0..n : \E f : Starts(f, m)}
<1>1. 0 \in T
  <2> DEFINE f == [k \in 0..0 |-> base]
  <2>1. Starts(f, 0)
    OBVIOUS
  <2> HIDE DEF Starts, f
  <2> QED BY <2>1
<1>2. ASSUME NEW m \in 1..n, m - 1 \in T PROVE m \in T
  <2>1. PICK f : Starts(f, m - 1)
    <3> HIDE DEF Starts
    <3> QED BY <1>2
  <2> DEFINE g == [k \in 0..m |-> IF k = m THEN step[m][f[m - 1]] ELSE f[k]]
  <2>2. f[m - 1] \in S /\ step[m] \in [S -> S]
    BY <2>1
  <2>3. g \in [0..m -> S]
    BY <2>1, <2>2
  <2>4. g[0] = base
    BY <2>1
  <2>5. ASSUME NEW k \in 1..m PROVE g[k] = step[k][g[k - 1]]
    <3>1. g[k - 1] = f[k - 1] /\ k - 1 \in 0..(m - 1)
      OBVIOUS
    <3>2. CASE k = m
      BY <3>1, <3>2
    <3>3. CASE k # m
      <4>1. k \in 1..(m - 1) /\ g[k] = f[k]
        BY <3>3
      <4> QED BY <2>1, <3>1, <4>1
    <3> QED BY <3>2, <3>3
  <2> HIDE DEF g
  <2>6. Starts(g, m)
    BY <2>3, <2>4, <2>5
  <2> HIDE DEF Starts
  <2> QED BY <2>6
<1> HIDE DEF T
<1>3. 0..n \subseteq T
  BY <1>1, <1>2, UpTo
<1>4. n \in T
  BY <1>3
<1>5. PICK f : Starts(f, n)
  <2> HIDE DEF Starts
  <2> QED BY <1>4 DEF T
<1> QED BY <1>5 DEF Follows

(* Two functions that start and go on alike are the same.                   *)
Alike(f, g, n) ==
  f[0] = g[0] /\ \A k \in 1..n : f[k - 1] = g[k - 1] => f[k] = g[k]

LEMMA Unique ==
  ASSUME NEW n \in Nat, NEW f, NEW g, Alike(f, g, n)
  PROVE  \A k \in 0..n : f[k] = g[k]
<1> DEFINE T == {k \in 0..n : f[k] = g[k]}
<1>1. 0 \in T /\ \A k \in 1..n : k - 1 \in T => k \in T
  BY DEF Alike
<1> HIDE DEF T
<1>2. 0..n \subseteq T
  BY <1>1, UpTo
<1> QED BY <1>2 DEF T

-----------------------------------------------------------------------------
(* Numbers.  What is left of a number once k of its bytes are cut off.      *)
LEMMA ByteFacts ==
  /\ Base \in Nat /\ Base >= 64
  /\ Byte \subseteq Nat /\ \A d : d \in Byte <=> d \in Nat /\ d < Base
  /\ Refused \notin Byte
  /\ \A q \in Nat : /\ q \div Base \in Nat /\ q % Base \in Byte
                    /\ ((q \div Base) * Base) + (q % Base) = q
<1>1. Base \in Nat /\ Base >= 64
  BY WireAssumption
<1>2. \A d : d \in Byte <=> d \in Nat /\ d < Base
  BY <1>1 DEF Byte
<1>3. \A q \in Nat : /\ q \div Base \in Nat /\ q % Base \in Nat /\ q % Base < Base
                     /\ ((q \div Base) * Base) + (q % Base) = q
  BY <1>1
<1> QED BY <1>1, <1>2, <1>3, PacketAssumption

LEMMA ShiftedIs ==
  ASSUME NEW v \in Nat, NEW w \in Nat
  PROVE  /\ Shifted(v, w) \in [0..w -> Nat]
         /\ Shifted(v, w)[0] = v
         /\ \A k \in 1..w : Shifted(v, w)[k] = Shifted(v, w)[k - 1] \div Base
<1> DEFINE Shift(f) == f = [k \in 0..w |-> IF k = 0 THEN v ELSE f[k - 1] \div Base]
           g == CHOOSE f : Shift(f)
           step == [k \in 1..w |-> [q \in Nat |-> q \div Base]]
<1>1. Shifted(v, w) = g
  BY DEF Shifted
<1>2. step \in [1..w -> [Nat -> Nat]] /\ \A k \in 1..w, q \in Nat : step[k][q] = q \div Base
  BY ByteFacts
<1> HIDE DEF step
<1>3. PICK f \in [0..w -> Nat] : Follows(f, w, v, step)
  BY <1>2, Recursion
<1>4. \A k \in 1..w : k - 1 \in 0..w /\ k \in 0..w /\ k # 0
  OBVIOUS
<1>5. f[0] = v /\ \A k \in 1..w : f[k] = f[k - 1] \div Base
  <2>1. \A k \in 1..w : f[k - 1] \in Nat
    BY <1>4
  <2> QED BY <1>2, <1>3, <2>1 DEF Follows
<1>6. Shift(f)
  <2>1. \A k \in 0..w : k # 0 => k \in 1..w
    OBVIOUS
  <2>2. f = [k \in 0..w |-> f[k]]
    OBVIOUS
  <2> QED BY <1>5, <2>1, <2>2
<1>7. Shift(g)
  <2> HIDE DEF Shift
  <2> QED BY <1>6
<1> HIDE DEF g
<1>8. g[0] = v /\ \A k \in 1..w : g[k] = g[k - 1] \div Base
  <2>1. 0 \in 0..w
    OBVIOUS
  <2> QED BY <1>4, <1>7, <2>1
<1>9. \A k \in 0..w : f[k] = g[k]
  <2>1. Alike(f, g, w)
    BY <1>5, <1>8 DEF Alike
  <2> QED BY <2>1, Unique
<1>10. g = [k \in 0..w |-> g[k]]
  BY <1>7
<1>11. g \in [0..w -> Nat]
  <2> HIDE DEF Shift
  <2> QED BY <1>9, <1>10
<1> QED BY <1>1, <1>8, <1>11

(* A number that fits is written with so many bytes, and they make it.      *)
LEMMA PackedNum ==
  ASSUME NEW v \in Nat, NEW w \in Nat
  PROVE  /\ PackNum(v, w) \in Seq(Byte \cup {Refused})
         /\ Fits(v, w) => /\ PackNum(v, w) \in Text /\ Len(PackNum(v, w)) = w
                          /\ NumOf(PackNum(v, w)) = v
         /\ ~Fits(v, w) => PackNum(v, w) = <<Refused>>
<1>1. CASE ~Fits(v, w)
  BY <1>1 DEF PackNum
<1>2. CASE Fits(v, w)
  <2> DEFINE s == Shifted(v, w)
             b == PackNum(v, w)
  <2>1. s \in [0..w -> Nat] /\ s[0] = v /\ s[w] = 0
        /\ \A k \in 1..w : s[k] = s[k - 1] \div Base
    BY <1>2, ShiftedIs DEF Fits
  <2>2. b = [i \in 1..w |-> s[w - i] % Base]
    BY <1>2 DEF PackNum
  <2>3. \A i \in 1..w : w - i \in 0..w /\ s[w - i] \in Nat
    BY <2>1
  <2>4. \A i \in 1..w : s[w - i] % Base \in Byte
    BY <2>3, ByteFacts
  <2> HIDE DEF s, b
  <2>5. b \in [1..w -> Byte]
    BY <2>2, <2>4
  <2>6. b \in Seq(Byte) /\ Len(b) = w
    <3> HIDE DEF Byte
    <3> QED BY <2>5
  <2>7. NumOf(b) = v
    <3> DEFINE Num(f) == f = [i \in 0..w |-> IF i = 0 THEN 0 ELSE f[i - 1] * Base + b[i]]
               f == [i \in 0..w |-> s[w - i]]
               g == CHOOSE h : Num(h)
    <3>1. NumOf(b) = g[w]
      BY <2>6 DEF NumOf
    <3>2. f[0] = 0 /\ f[w] = v
      BY <2>1
    <3>3. \A i \in 1..w : f[i] = f[i - 1] * Base + b[i]
      <4> SUFFICES ASSUME NEW i \in 1..w PROVE f[i] = f[i - 1] * Base + b[i]
        OBVIOUS
      <4>1. f[i] = s[w - i] /\ f[i - 1] = s[w - i + 1]
        BY i - 1 \in 0..w, w - (i - 1) = w - i + 1
      <4>2. s[w - i + 1] = s[w - i] \div Base
        BY <2>1, w - i + 1 \in 1..w, (w - i + 1) - 1 = w - i
      <4>3. b[i] = s[w - i] % Base
        BY <2>2
      <4>4. s[w - i] \in Nat
        BY <2>3
      <4> HIDE DEF f
      <4> QED BY <4>1, <4>2, <4>3, <4>4, ByteFacts
    <3>4. Num(f)
      <4>1. \A i \in 0..w : i # 0 => i \in 1..w
        OBVIOUS
      <4>2. f = [i \in 0..w |-> f[i]]
        OBVIOUS
      <4> HIDE DEF f
      <4> QED BY <3>2, <3>3, <4>1, <4>2
    <3>5. Num(g)
      <4> HIDE DEF Num, f
      <4> QED BY <3>4
    <3> HIDE DEF g, f
    <3>6. g[0] = 0 /\ \A i \in 1..w : g[i] = g[i - 1] * Base + b[i]
      <4>1. 0 \in 0..w /\ \A i \in 1..w : i \in 0..w /\ i # 0
        OBVIOUS
      <4> QED BY <3>5, <4>1
    <3> HIDE DEF Num
    <3>7. Alike(f, g, w)
      BY <3>2, <3>3, <3>6 DEF Alike
    <3>8. w \in 0..w
      OBVIOUS
    <3>9. f[w] = g[w]
      BY <3>7, <3>8, Unique
    <3> QED BY <3>1, <3>2, <3>9
  <2>8. Seq(Byte) \subseteq Seq(Byte \cup {Refused})
    <3> HIDE DEF Byte
    <3> QED OBVIOUS
  <2> QED BY <1>2, <2>6, <2>7, <2>8 DEF b, Text
<1> QED BY <1>1, <1>2

LEMMA WidthFacts ==
  /\ U32 \in Nat \ {0} /\ U64 \in Nat \ {0} /\ NonceBytes \in Nat /\ AddrBytes \in Nat
  /\ HashBytes \in Nat /\ SignatureBytes \in Nat /\ MaxComponents \in 1..(Base - 1)
BY WireAssumption

-----------------------------------------------------------------------------
(* Reading.  The bytes at hand go along with what was written as far as     *)
(* they reach; a reader then has the value and what follows, or nothing     *)
(* when they are too few.                                                   *)
Begins(c, b) == \A j \in 1..Len(b) : j <= Len(c) => c[j] = b[j]

Outcome(v, b, c) == IF Len(b) <= Len(c) THEN {<<v, Drop(c, Len(b))>>} ELSE {}

LEMMA Dropping ==
  ASSUME NEW c \in Text, NEW n \in 0..Len(c)
  PROVE  /\ Drop(c, n) \in Text /\ Len(Drop(c, n)) = Len(c) - n
         /\ \A i \in 1..(Len(c) - n) : Drop(c, n)[i] = c[n + i]
<1> DEFINE d == SubSeq(c, n + 1, Len(c))
<1>1. c \in Seq(Byte) /\ Len(c) \in Nat /\ n \in Nat /\ n <= Len(c)
      /\ \A i \in 1..Len(c) : c[i] \in Byte
  BY DEF Text
<1>2. /\ d \in Seq(Byte)
      /\ Len(d) = IF n + 1 <= Len(c) THEN Len(c) - (n + 1) + 1 ELSE 0
      /\ \A i \in 1..(Len(c) - (n + 1) + 1) : d[i] = c[n + 1 + i - 1]
  <2>1. n + 1 \in Int /\ Len(c) \in Int /\ \A i \in (n + 1)..Len(c) : c[i] \in Byte
    BY <1>1
  <2> QED BY <2>1, SubSeqProperties
<1> HIDE DEF d
<1>3. Len(d) = Len(c) - n
  BY <1>1, <1>2
<1>4. ASSUME NEW i \in 1..(Len(c) - n) PROVE d[i] = c[n + i]
  <2>1. i \in 1..(Len(c) - (n + 1) + 1) /\ n + 1 + i - 1 = n + i
    BY <1>1
  <2> QED BY <1>2, <2>1
<1> QED BY <1>2, <1>3, <1>4 DEF d, Drop, Text

LEMMA DropIs ==
  ASSUME NEW c \in Text, NEW n \in 0..Len(c)
  PROVE  /\ Drop(c, n) \in Text /\ Len(Drop(c, n)) = Len(c) - n
         /\ \A i \in 1..(Len(c) - n) : Drop(c, n)[i] = c[n + i]
         /\ n = 0 => Drop(c, n) = c
         /\ \A m \in 0..(Len(c) - n) : Drop(Drop(c, n), m) = Drop(c, n + m)
<1>1. Len(c) \in Nat /\ n \in Nat /\ n <= Len(c)
  BY DEF Text
<1>2. n = 0 => Drop(c, n) = c
  BY SubSeqFull DEF Drop, Text
<1>3. ASSUME NEW m \in 0..(Len(c) - n) PROVE Drop(Drop(c, n), m) = Drop(c, n + m)
  <2> DEFINE a == Drop(c, n)
             b == Drop(c, n + m)
             d == Drop(a, m)
  <2>1. a \in Text /\ Len(a) = Len(c) - n /\ \A i \in 1..(Len(c) - n) : a[i] = c[n + i]
    BY Dropping
  <2>2. n + m \in 0..Len(c)
    BY <1>1
  <2>3. /\ b \in Text /\ Len(b) = Len(c) - (n + m)
        /\ \A i \in 1..(Len(c) - (n + m)) : b[i] = c[(n + m) + i]
    BY <2>2, Dropping
  <2> HIDE DEF a, b
  <2>4. m \in 0..Len(a)
    BY <2>1
  <2>5. d \in Text /\ Len(d) = Len(a) - m /\ \A i \in 1..(Len(a) - m) : d[i] = a[m + i]
    BY <2>1, <2>4, Dropping
  <2> HIDE DEF d
  <2>6. Len(d) = Len(b)
    BY <1>1, <2>1, <2>3, <2>5
  <2>7. ASSUME NEW i \in 1..Len(d) PROVE d[i] = b[i]
    <3>1. /\ i \in 1..(Len(a) - m) /\ m + i \in 1..(Len(c) - n)
          /\ i \in 1..(Len(c) - (n + m)) /\ n + (m + i) = (n + m) + i
      BY <1>1, <2>1, <2>5
    <3>2. d[i] = a[m + i] /\ a[m + i] = c[n + (m + i)] /\ b[i] = c[(n + m) + i]
      BY <2>1, <2>3, <2>5, <3>1
    <3> QED BY <3>1, <3>2
  <2>8. d = b
    BY <2>3, <2>5, <2>6, <2>7, SeqEqual DEF Text
  <2> QED BY <2>8 DEF a, b, d
<1> QED BY <1>2, <1>3, Dropping

LEMMA Concatenation ==
  ASSUME NEW a \in Text, NEW b \in Text
  PROVE  /\ a \o b \in Text /\ Len(a \o b) = Len(a) + Len(b)
         /\ \A i \in 1..(Len(a) + Len(b)) :
              (a \o b)[i] = IF i <= Len(a) THEN a[i] ELSE b[i - Len(a)]
BY ConcatProperties DEF Text

LEMMA BeginsBoth ==
  ASSUME NEW c \in Text, NEW a \in Text, NEW b \in Text, Begins(c, a \o b)
  PROVE  /\ Begins(c, a)
         /\ Len(a) <= Len(c) => Begins(Drop(c, Len(a)), b)
<1>1. Len(a) \in Nat /\ Len(b) \in Nat /\ Len(c) \in Nat
  BY DEF Text
<1>2. \A j \in 1..Len(a \o b) : j <= Len(c) => c[j] = (a \o b)[j]
  BY DEF Begins
<1>3. Begins(c, a)
  <2> SUFFICES ASSUME NEW j \in 1..Len(a), j <= Len(c) PROVE c[j] = a[j]
    BY DEF Begins
  <2>1. j \in 1..Len(a \o b) /\ j \in 1..(Len(a) + Len(b))
    BY <1>1, Concatenation
  <2> QED BY <1>1, <1>2, <2>1, Concatenation
<1>4. ASSUME Len(a) <= Len(c) PROVE Begins(Drop(c, Len(a)), b)
  <2>1. Len(a) \in 0..Len(c)
    BY <1>1, <1>4
  <2> SUFFICES ASSUME NEW j \in 1..Len(b), j <= Len(Drop(c, Len(a)))
               PROVE  Drop(c, Len(a))[j] = b[j]
    BY DEF Begins
  <2>2. j \in 1..(Len(c) - Len(a))
    BY <1>1, <2>1, DropIs
  <2>3. Drop(c, Len(a))[j] = c[Len(a) + j]
    BY <2>1, <2>2, DropIs
  <2>4. /\ Len(a) + j \in 1..(Len(a) + Len(b)) /\ Len(a) + j <= Len(c)
        /\ ~(Len(a) + j <= Len(a)) /\ (Len(a) + j) - Len(a) = j
    BY <1>1, <2>2
  <2>5. (a \o b)[Len(a) + j] = b[j]
    BY <2>4, Concatenation
  <2>6. Len(a) + j \in 1..Len(a \o b)
    BY <2>4, Concatenation
  <2> QED BY <1>2, <2>3, <2>4, <2>5, <2>6
<1> QED BY <1>3, <1>4

LEMMA OutcomeBoth ==
  ASSUME NEW c \in Text, NEW a \in Text, NEW b \in Text, NEW v
  PROVE  /\ Len(a) <= Len(c) => Outcome(v, b, Drop(c, Len(a))) = Outcome(v, a \o b, c)
         /\ ~(Len(a) <= Len(c)) => Outcome(v, a \o b, c) = {}
<1>1. Len(a) \in Nat /\ Len(b) \in Nat /\ Len(c) \in Nat
  BY DEF Text
<1>2. Len(a \o b) = Len(a) + Len(b)
  BY Concatenation
<1>3. ASSUME Len(a) <= Len(c) PROVE Outcome(v, b, Drop(c, Len(a))) = Outcome(v, a \o b, c)
  <2>1. Len(a) \in 0..Len(c)
    BY <1>1, <1>3
  <2>2. Len(Drop(c, Len(a))) = Len(c) - Len(a)
    BY <2>1, DropIs
  <2>3. Len(b) <= Len(c) - Len(a) <=> Len(a) + Len(b) <= Len(c)
    BY <1>1
  <2>4. ASSUME Len(a) + Len(b) <= Len(c)
        PROVE  Drop(Drop(c, Len(a)), Len(b)) = Drop(c, Len(a) + Len(b))
    <3>1. Len(b) \in 0..(Len(c) - Len(a))
      BY <1>1, <2>4
    <3> QED BY <2>1, <3>1, DropIs
  <2> QED BY <1>2, <2>2, <2>3, <2>4 DEF Outcome
<1>4. ~(Len(a) <= Len(c)) => Outcome(v, a \o b, c) = {}
  BY <1>1, <1>2 DEF Outcome
<1> QED BY <1>3, <1>4

(* The elementary readers.                                                  *)
LEMMA BytesRead ==
  ASSUME NEW c \in Text, NEW b \in Text, Begins(c, b)
  PROVE  TakeBytes(c, Len(b)) = Outcome(b, b, c)
<1>1. Len(b) \in Nat /\ Len(c) \in Nat /\ c \in Seq(Byte) /\ b \in Seq(Byte)
      /\ \A i \in 1..Len(c) : c[i] \in Byte
  BY DEF Text
<1>2. CASE Len(b) <= Len(c)
  <2>1. /\ SubSeq(c, 1, Len(b)) \in Seq(Byte)
        /\ Len(SubSeq(c, 1, Len(b))) = IF 1 <= Len(b) THEN Len(b) - 1 + 1 ELSE 0
        /\ \A i \in 1..(Len(b) - 1 + 1) : SubSeq(c, 1, Len(b))[i] = c[1 + i - 1]
    <3>1. 1 \in Int /\ Len(b) \in Int /\ \A i \in 1..Len(b) : c[i] \in Byte
      BY <1>1, <1>2
    <3> QED BY <3>1, SubSeqProperties
  <2>2. Len(SubSeq(c, 1, Len(b))) = Len(b) /\ Len(b) - 1 + 1 = Len(b)
    BY <1>1, <2>1
  <2>3. \A i \in 1..Len(b) : SubSeq(c, 1, Len(b))[i] = b[i]
    <3> SUFFICES ASSUME NEW i \in 1..Len(b) PROVE SubSeq(c, 1, Len(b))[i] = b[i]
      OBVIOUS
    <3>1. 1 + i - 1 = i /\ i <= Len(c)
      BY <1>1, <1>2
    <3> QED BY <2>1, <2>2, <3>1 DEF Begins
  <2>4. SubSeq(c, 1, Len(b)) = b
    BY <1>1, <2>1, <2>2, <2>3, SeqEqual
  <2> QED BY <1>1, <1>2, <2>4 DEF TakeBytes, Outcome
<1>3. CASE ~(Len(b) <= Len(c))
  BY <1>1, <1>3 DEF TakeBytes, Outcome
<1> QED BY <1>2, <1>3

LEMMA NumRead ==
  ASSUME NEW c \in Text, NEW v \in Nat, NEW w \in Nat, Fits(v, w), Begins(c, PackNum(v, w))
  PROVE  TakeNum(c, w) = Outcome(v, PackNum(v, w), c)
<1> DEFINE b == PackNum(v, w)
<1>1. b \in Text /\ Len(b) = w /\ NumOf(b) = v
  BY PackedNum
<1>2. TakeBytes(c, w) = Outcome(b, b, c)
  BY <1>1, BytesRead
<1>3. TakeNum(c, w) = {<<NumOf(x[1]), x[2]>> : x \in Outcome(b, b, c)}
  BY <1>2 DEF TakeNum
<1> HIDE DEF b
<1>4. CASE Len(b) <= Len(c)
  <2>1. {<<NumOf(x[1]), x[2]>> : x \in {<<b, Drop(c, Len(b))>>}} = {<<NumOf(b), Drop(c, Len(b))>>}
    OBVIOUS
  <2> QED BY <1>1, <1>3, <1>4, <2>1 DEF Outcome, b
<1>5. CASE ~(Len(b) <= Len(c))
  <2>1. {<<NumOf(x[1]), x[2]>> : x \in {}} = {}
    OBVIOUS
  <2> QED BY <1>1, <1>3, <1>5, <2>1 DEF Outcome, b
<1> QED BY <1>4, <1>5

-----------------------------------------------------------------------------
(* What is written; nothing in it is Refused when it can be written.        *)
Written  == Seq(Byte \cup {Refused})

LEMMA CleanIsText == ASSUME NEW b \in Written, Clean(b) PROVE b \in Text
<1>1. b \in [1..Len(b) -> Byte \cup {Refused}] /\ Len(b) \in Nat /\ DOMAIN b = 1..Len(b)
  BY LenProperties DEF Written
<1>2. \A i \in 1..Len(b) : b[i] \in Byte
  BY <1>1 DEF Clean
<1>3. b \in [1..Len(b) -> Byte]
  BY <1>1, <1>2
<1> HIDE DEF Byte
<1> QED BY <1>1, <1>3 DEF Text

LEMMA TextIsClean == ASSUME NEW b \in Text PROVE b \in Written /\ Clean(b)
<1>1. b \in Seq(Byte) /\ \A i \in DOMAIN b : b[i] \in Byte
  BY DEF Text
<1>2. b \in Seq(Byte \cup {Refused})
  BY <1>1
<1> QED BY <1>1, <1>2, ByteFacts DEF Written, Clean

LEMMA BytesAreText ==
  ASSUME NEW w \in Nat, NEW b \in Bytes(w) PROVE b \in Text /\ Len(b) = w
<1>1. b \in [1..w -> Byte]
  BY DEF Bytes
<1> HIDE DEF Byte
<1> QED BY <1>1 DEF Text

LEMMA CleanBoth ==
  ASSUME NEW a \in Written, NEW b \in Written
  PROVE  a \o b \in Written /\ (Clean(a \o b) <=> Clean(a) /\ Clean(b))
<1> DEFINE S == Byte \cup {Refused}
<1>1. a \in Seq(S) /\ b \in Seq(S)
  BY DEF Written
<1> HIDE DEF S
<1>2. /\ a \o b \in Seq(S) /\ Len(a \o b) = Len(a) + Len(b)
      /\ \A i \in 1..(Len(a) + Len(b)) :
           (a \o b)[i] = IF i <= Len(a) THEN a[i] ELSE b[i - Len(a)]
  BY <1>1, ConcatProperties
<1>3. /\ Len(a) \in Nat /\ Len(b) \in Nat
      /\ DOMAIN a = 1..Len(a) /\ DOMAIN b = 1..Len(b)
      /\ DOMAIN (a \o b) = 1..(Len(a) + Len(b))
  BY <1>1, <1>2, LenProperties
<1>4. ASSUME Clean(a \o b), NEW i \in 1..Len(a) PROVE a[i] # Refused
  <2>1. i \in 1..(Len(a) + Len(b)) /\ i <= Len(a)
    BY <1>3
  <2> QED BY <1>2, <1>3, <1>4, <2>1 DEF Clean
<1>5. ASSUME Clean(a \o b), NEW i \in 1..Len(b) PROVE b[i] # Refused
  <2>1. /\ Len(a) + i \in 1..(Len(a) + Len(b)) /\ ~(Len(a) + i <= Len(a))
        /\ (Len(a) + i) - Len(a) = i
    BY <1>3
  <2> QED BY <1>2, <1>3, <1>5, <2>1 DEF Clean
<1>6. ASSUME Clean(a), Clean(b), NEW i \in 1..(Len(a) + Len(b)) PROVE (a \o b)[i] # Refused
  <2>1. CASE i <= Len(a)
    BY <1>2, <1>3, <1>6, <2>1 DEF Clean
  <2>2. CASE ~(i <= Len(a))
    <3>1. i - Len(a) \in 1..Len(b)
      BY <1>3, <2>2
    <3> QED BY <1>2, <1>3, <1>6, <2>2, <3>1 DEF Clean
  <2> QED BY <2>1, <2>2
<1>7. a \o b \in Written
  BY <1>2 DEF Written, S
<1>8. Clean(a \o b) => Clean(a) /\ Clean(b)
  BY <1>3, <1>4, <1>5 DEF Clean
<1>9. Clean(a) /\ Clean(b) => Clean(a \o b)
  BY <1>3, <1>6 DEF Clean
<1> QED BY <1>7, <1>8, <1>9

LEMMA NumWritten ==
  ASSUME NEW v \in Nat, NEW w \in Nat
  PROVE  /\ PackNum(v, w) \in Written
         /\ Clean(PackNum(v, w)) => Fits(v, w)
         /\ Fits(v, w) => PackNum(v, w) \in Text /\ Len(PackNum(v, w)) = w
<1>1. ~Clean(<<Refused>>)
  BY DEF Clean
<1> QED BY <1>1, PackedNum DEF Written

(* One byte, and the rest.                                                  *)
LEMMA OneByte ==
  ASSUME NEW d \in Byte, NEW b \in Text, NEW c \in Text, Begins(c, <<d>> \o b)
  PROVE  /\ <<d>> \in Text /\ Len(<<d>>) = 1 /\ <<d>> \o b \in Text
         /\ c = <<>> <=> ~(1 <= Len(c))
         /\ c # <<>> => /\ Head(c) = d /\ Tail(c) \in Text /\ Begins(Tail(c), b)
                        /\ Tail(c) = Drop(c, 1)
<1>1. <<d>> \in Text /\ Len(<<d>>) = 1
  BY DEF Text
<1>2. Len(c) \in Nat /\ (c = <<>> <=> ~(1 <= Len(c)))
  BY EmptySeq DEF Text
<1>3. <<d>> \o b \in Text
  BY <1>1, Concatenation
<1>4. ASSUME c # <<>>
      PROVE  Head(c) = d /\ Tail(c) \in Text /\ Tail(c) = Drop(c, 1) /\ Begins(Tail(c), b)
  <2>1. c \in Seq(Byte)
    BY DEF Text
  <2>2. Tail(c) \in Text /\ Tail(c) = Drop(c, 1)
    <3> HIDE DEF Byte
    <3> QED BY <1>4, <2>1, HeadTailProperties, TailIsSubSeq DEF Drop, Text
  <2>3. Begins(c, <<d>>) /\ Begins(Drop(c, 1), b)
    <3> DEFINE h == <<d>>
    <3>1. h \in Text /\ Len(h) = 1 /\ Begins(c, h \o b) /\ 1 <= Len(c)
      BY <1>1, <1>2, <1>4
    <3> HIDE DEF h
    <3>2. Begins(c, h) /\ (Len(h) <= Len(c) => Begins(Drop(c, Len(h)), b))
      BY <3>1, BeginsBoth, Zenon
    <3>3. Begins(c, h) /\ Begins(Drop(c, 1), b)
      BY <3>1, <3>2
    <3> QED BY <3>3 DEF h
  <2>4. Head(c) = c[1]
    BY <1>4, <2>1
  <2>5. c[1] = d
    <3>1. 1 \in 1..Len(<<d>>) /\ 1 <= Len(c) /\ <<d>>[1] = d
      BY <1>1, <1>2, <1>4
    <3> QED BY <2>3, <3>1 DEF Begins
  <2> QED BY <2>2, <2>3, <2>4, <2>5
<1> QED BY <1>1, <1>2, <1>3, <1>4

LEMMA MarkedNum ==
  ASSUME NEW d \in Byte, NEW v \in Nat, NEW w \in Nat, Fits(v, w), NEW c \in Text,
         Begins(c, <<d>> \o PackNum(v, w))
  PROVE  /\ c = <<>> => Outcome(v, <<d>> \o PackNum(v, w), c) = {}
         /\ c # <<>> => /\ Head(c) = d
                        /\ TakeNum(Tail(c), w) = Outcome(v, <<d>> \o PackNum(v, w), c)
<1> DEFINE b == PackNum(v, w)
<1>1. b \in Text
  BY NumWritten
<1>2. ASSUME NEW x \in Text, Begins(x, b) PROVE TakeNum(x, w) = Outcome(v, b, x)
  BY <1>2, NumRead
<1>3. Begins(c, <<d>> \o b)
  OBVIOUS
<1> HIDE DEF b
<1>4. /\ <<d>> \in Text /\ Len(<<d>>) = 1
      /\ c = <<>> <=> ~(1 <= Len(c))
      /\ c # <<>> => /\ Head(c) = d /\ Tail(c) \in Text /\ Begins(Tail(c), b)
                     /\ Tail(c) = Drop(c, 1)
  BY <1>1, <1>3, OneByte
<1>5. /\ 1 <= Len(c) => Outcome(v, b, Drop(c, 1)) = Outcome(v, <<d>> \o b, c)
      /\ ~(1 <= Len(c)) => Outcome(v, <<d>> \o b, c) = {}
  <2> DEFINE h == <<d>>
  <2>1. h \in Text /\ Len(h) = 1
    BY <1>4
  <2> HIDE DEF h
  <2>2. /\ Len(h) <= Len(c) => Outcome(v, b, Drop(c, Len(h))) = Outcome(v, h \o b, c)
        /\ ~(Len(h) <= Len(c)) => Outcome(v, h \o b, c) = {}
    BY <1>1, <2>1, OutcomeBoth, Zenon
  <2>3. /\ 1 <= Len(c) => Outcome(v, b, Drop(c, 1)) = Outcome(v, h \o b, c)
        /\ ~(1 <= Len(c)) => Outcome(v, h \o b, c) = {}
    BY <2>1, <2>2
  <2> QED BY <2>3 DEF h
<1>6. c # <<>> => TakeNum(Tail(c), w) = Outcome(v, <<d>> \o b, c)
  BY <1>2, <1>4, <1>5
<1> QED BY <1>4, <1>5, <1>6 DEF b

LEMMA SmallFits == ASSUME NEW v \in Byte, NEW w \in Nat \ {0} PROVE Fits(v, w)
<1> DEFINE s == Shifted(v, w)
<1>1. v \in Nat /\ v < Base /\ Base \in Nat /\ Base >= 64
  BY ByteFacts
<1>2. s[0] = v /\ \A k \in 1..w : s[k] = s[k - 1] \div Base
  BY <1>1, ShiftedIs
<1> HIDE DEF s
<1>3. v \div Base = 0 /\ 0 \div Base = 0
  BY <1>1
<1> DEFINE T == {k \in 0..w : k = 0 \/ s[k] = 0}
<1>4. 0 \in T
  OBVIOUS
<1>5. ASSUME NEW k \in 1..w, k - 1 \in T PROVE k \in T
  <2>1. s[k] = s[k - 1] \div Base /\ (k - 1 = 0 \/ s[k - 1] = 0)
    BY <1>2, <1>5
  <2>2. s[k] = 0
    BY <1>2, <1>3, <2>1
  <2> QED BY <2>2
<1> HIDE DEF T
<1>6. 0..w \subseteq T
  BY <1>4, <1>5, UpTo
<1>7. s[w] = 0
  BY <1>6 DEF T
<1> QED BY <1>7 DEF s, Fits

(* _write_varint and _read_varint.                                          *)
LEMMA VarintRead ==
  ASSUME NEW v \in Nat
  PROVE  /\ WriteVarint(v) \in Written
         /\ Clean(WriteVarint(v))
            => /\ WriteVarint(v) \in Text
               /\ \A c \in Text : Begins(c, WriteVarint(v))
                                  => ReadVarint(c) = Outcome(v, WriteVarint(v), c)
<1>1. /\ Base \in Nat /\ Base >= 64 /\ U32 \in Nat /\ U64 \in Nat
      /\ Base - 3 \in Byte /\ Base - 2 \in Byte /\ Base - 1 \in Byte
      /\ v < Base - 3 => v \in Byte
  <2>1. Base \in Nat /\ Base >= 64
    BY ByteFacts
  <2>2. U32 \in Nat /\ U64 \in Nat
    BY WidthFacts
  <2> QED BY <2>1, <2>2 DEF Byte
<1>2. ASSUME NEW d \in Byte, NEW w \in Nat
      PROVE  /\ <<d>> \o PackNum(v, w) \in Written
             /\ Clean(<<d>> \o PackNum(v, w)) => Fits(v, w) /\ <<d>> \o PackNum(v, w) \in Text
  <2>1. <<d>> \in Text
    BY DEF Text
  <2>2. <<d>> \in Written /\ PackNum(v, w) \in Written
    BY <2>1, TextIsClean, NumWritten
  <2> QED BY <2>2, CleanBoth, CleanIsText, NumWritten
<1>3. CASE v < Base - 3
  <2>1. v # Base - 3 /\ v # Base - 2 /\ v # Base - 1
    BY <1>1, <1>3
  <2>4. ~Fits(v, 2) => ~(v < Base - 3)
    BY <1>1, <1>3, SmallFits
  <2>5. WriteVarint(v) = <<v>>
    BY <1>1, <1>3, <2>4 DEF WriteVarint
  <2>2. <<v>> \in Text /\ <<>> \in Text /\ <<v>> \o <<>> = <<v>>
    BY <1>1, <1>3, ConcatEmptySeq DEF Text
  <2>3. ASSUME NEW c \in Text, Begins(c, <<v>>) PROVE ReadVarint(c) = Outcome(v, <<v>>, c)
    <3>1. /\ Len(<<v>>) = 1
          /\ c = <<>> <=> ~(1 <= Len(c))
          /\ c # <<>> => Head(c) = v /\ Tail(c) = Drop(c, 1)
      <4>1. v \in Byte /\ Begins(c, <<v>> \o <<>>)
        BY <1>1, <1>3, <2>2, <2>3
      <4> QED BY <2>2, <4>1, OneByte
    <3>2. c # <<>> => ReadVarint(c) = {<<v, Drop(c, 1)>>}
      BY <2>1, <3>1 DEF ReadVarint
    <3>3. c = <<>> => ReadVarint(c) = {}
      BY DEF ReadVarint
    <3> QED BY <3>1, <3>2, <3>3 DEF Outcome
  <2> QED BY <2>2, <2>3, <2>5, TextIsClean
<1>4. ASSUME NEW d \in Byte, NEW w \in Nat, WriteVarint(v) = <<d>> \o PackNum(v, w),
             \A c : c # <<>> /\ Head(c) = d => ReadVarint(c) = TakeNum(Tail(c), w)
      PROVE  /\ WriteVarint(v) \in Written
             /\ Clean(WriteVarint(v))
                => /\ WriteVarint(v) \in Text
                   /\ \A c \in Text : Begins(c, WriteVarint(v))
                                      => ReadVarint(c) = Outcome(v, WriteVarint(v), c)
  <2>1. WriteVarint(v) \in Written
    BY <1>2, <1>4
  <2>2. ASSUME Clean(WriteVarint(v)), NEW c \in Text, Begins(c, WriteVarint(v))
        PROVE  ReadVarint(c) = Outcome(v, WriteVarint(v), c)
    <3>1. Fits(v, w)
      BY <1>2, <1>4, <2>2
    <3>2. /\ c = <<>> => Outcome(v, <<d>> \o PackNum(v, w), c) = {}
          /\ c # <<>> => /\ Head(c) = d
                         /\ TakeNum(Tail(c), w) = Outcome(v, <<d>> \o PackNum(v, w), c)
      BY <1>4, <2>2, <3>1, MarkedNum
    <3>3. c = <<>> => ReadVarint(c) = {}
      BY DEF ReadVarint
    <3> QED BY <1>4, <3>2, <3>3
  <2> QED BY <1>2, <1>4, <2>1, <2>2
<1>5. CASE ~(v < Base - 3) /\ Fits(v, 2)
  <2>1. WriteVarint(v) = <<Base - 3>> \o PackNum(v, 2)
    BY <1>1, <1>5 DEF WriteVarint
  <2>2. \A c : c # <<>> /\ Head(c) = Base - 3 => ReadVarint(c) = TakeNum(Tail(c), 2)
    BY <1>1 DEF ReadVarint
  <2> QED BY <1>1, <1>4, <2>1, <2>2
<1>6. CASE ~(v < Base - 3) /\ ~Fits(v, 2) /\ Fits(v, U32)
  <2>1. WriteVarint(v) = <<Base - 2>> \o PackNum(v, U32)
    BY <1>1, <1>6 DEF WriteVarint
  <2>2. \A c : c # <<>> /\ Head(c) = Base - 2 => ReadVarint(c) = TakeNum(Tail(c), U32)
    BY <1>1, Base - 2 # Base - 3 DEF ReadVarint
  <2> QED BY <1>1, <1>4, <2>1, <2>2
<1>7. CASE ~(v < Base - 3) /\ ~Fits(v, 2) /\ ~Fits(v, U32)
  <2>1. WriteVarint(v) = <<Base - 1>> \o PackNum(v, U64)
    BY <1>1, <1>7 DEF WriteVarint
  <2>2. \A c : c # <<>> /\ Head(c) = Base - 1 => ReadVarint(c) = TakeNum(Tail(c), U64)
    BY <1>1, Base - 1 # Base - 3, Base - 1 # Base - 2 DEF ReadVarint
  <2> QED BY <1>1, <1>4, <2>1, <2>2
<1> QED BY <1>3, <1>5, <1>6, <1>7

(* Bytes behind their length.                                               *)
LEMMA FramedRead ==
  ASSUME NEW c \in Text, NEW p \in Text, NEW x \in Text, Begins(c, p \o x)
  PROVE  TakeFramed(Outcome(Len(x), p, c)) = Outcome(x, p \o x, c)
<1>1. Len(p) \in Nat /\ Len(c) \in Nat
  BY DEF Text
<1>2. CASE Len(p) <= Len(c)
  <2> DEFINE d == Drop(c, Len(p))
  <2>1. Begins(d, x) /\ d \in Text
    BY <1>1, <1>2, BeginsBoth, DropIs
  <2>2. Outcome(Len(x), p, c) = {<<Len(x), d>>}
    BY <1>2 DEF Outcome
  <2>3. TakeBytes(d, Len(x)) = Outcome(x, x, d)
    BY <2>1, BytesRead
  <2>4. Outcome(x, x, d) = Outcome(x, p \o x, c)
    BY <1>2, OutcomeBoth
  <2> HIDE DEF d
  <2>5. UNION {TakeBytes(n[2], n[1]) : n \in {<<Len(x), d>>}} = TakeBytes(d, Len(x))
    OBVIOUS
  <2> QED BY <2>2, <2>3, <2>4, <2>5 DEF TakeFramed
<1>3. CASE ~(Len(p) <= Len(c))
  <2>1. Outcome(Len(x), p, c) = {} /\ Outcome(x, p \o x, c) = {}
    BY <1>3, OutcomeBoth DEF Outcome
  <2>2. TakeFramed({}) = {}
    BY DEF TakeFramed
  <2> QED BY <2>1, <2>2
<1> QED BY <1>2, <1>3

LEMMA SizedRead ==
  ASSUME NEW x \in Text, NEW w \in Nat
  PROVE  /\ Sized(x, w) \in Written
         /\ Clean(Sized(x, w))
            => /\ Sized(x, w) \in Text
               /\ \A c \in Text : Begins(c, Sized(x, w))
                                  => TakeFramed(TakeNum(c, w)) = Outcome(x, Sized(x, w), c)
<1>1. Len(x) \in Nat
  BY DEF Text
<1>2. PackNum(Len(x), w) \in Written /\ x \in Written /\ Clean(x)
  BY <1>1, NumWritten, TextIsClean
<1>3. Sized(x, w) \in Written /\ (Clean(Sized(x, w)) => Clean(PackNum(Len(x), w)))
  BY <1>2, CleanBoth DEF Sized
<1>4. ASSUME Clean(Sized(x, w)), NEW c \in Text, Begins(c, Sized(x, w))
      PROVE  TakeFramed(TakeNum(c, w)) = Outcome(x, Sized(x, w), c)
  <2>1. Fits(Len(x), w) /\ PackNum(Len(x), w) \in Text
    BY <1>1, <1>3, <1>4, NumWritten
  <2>2. Begins(c, PackNum(Len(x), w) \o x)
    BY <1>4 DEF Sized
  <2>3. TakeNum(c, w) = Outcome(Len(x), PackNum(Len(x), w), c)
    BY <1>1, <2>1, <2>2, BeginsBoth, NumRead
  <2> QED BY <2>1, <2>2, <2>3, FramedRead DEF Sized
<1> QED BY <1>3, <1>4, CleanIsText

LEMMA FrameRead ==
  ASSUME NEW x \in Text
  PROVE  /\ Framed(x) \in Written
         /\ Clean(Framed(x))
            => /\ Framed(x) \in Text
               /\ \A c \in Text : Begins(c, Framed(x))
                                  => TakeFramed(ReadVarint(c)) = Outcome(x, Framed(x), c)
<1> DEFINE p == WriteVarint(Len(x))
<1>1. Len(x) \in Nat
  BY DEF Text
<1>2. p \in Written /\ x \in Written /\ Clean(x)
  BY <1>1, VarintRead, TextIsClean
<1>3. Framed(x) = p \o x
  BY DEF Framed
<1>4. Framed(x) \in Written /\ (Clean(Framed(x)) => Clean(p))
  BY <1>2, <1>3, CleanBoth
<1>5. ASSUME Clean(Framed(x)), NEW c \in Text, Begins(c, Framed(x))
      PROVE  TakeFramed(ReadVarint(c)) = Outcome(x, Framed(x), c)
  <2>1. p \in Text /\ \A y \in Text : Begins(y, p) => ReadVarint(y) = Outcome(Len(x), p, y)
    BY <1>1, <1>4, <1>5, VarintRead
  <2> HIDE DEF p
  <2>2. Begins(c, p)
    BY <1>3, <1>5, <2>1, BeginsBoth
  <2> QED BY <1>3, <1>5, <2>1, <2>2, FramedRead
<1> QED BY <1>4, <1>5, CleanIsText

-----------------------------------------------------------------------------
(* One after the other.                                                     *)
JoinsUp(f, n, bodies) == f[0] = <<>> /\ \A k \in 1..n : f[k] = f[k - 1] \o bodies[k]

LEMMA Joined ==
  ASSUME NEW n \in Nat, NEW bodies, \A k \in 1..n : bodies[k] \in Written
  PROVE  \E f \in [0..n -> Written] : JoinsUp(f, n, bodies)
<1> DEFINE step == [k \in 1..n |-> [x \in Written |-> x \o bodies[k]]]
<1>1. \A x, y \in Written : x \o y \in Written
  BY CleanBoth
<1>2. <<>> \in Written
  BY DEF Written
<1> HIDE DEF Written
<1>3. step \in [1..n -> [Written -> Written]]
  BY <1>1
<1>4. \A k \in 1..n, x \in Written : step[k][x] = x \o bodies[k]
  OBVIOUS
<1> HIDE DEF step
<1>5. PICK f \in [0..n -> Written] : Follows(f, n, <<>>, step)
  BY <1>2, <1>3, Recursion
<1>6. \A k \in 1..n : f[k - 1] \in Written
  <2>1. \A k \in 1..n : k - 1 \in 0..n
    OBVIOUS
  <2> QED BY <2>1
<1>7. JoinsUp(f, n, bodies)
  BY <1>4, <1>5, <1>6 DEF Follows, JoinsUp
<1> QED BY <1>7

LEMMA FlattenIs ==
  ASSUME NEW n \in Nat \ {0}, NEW bodies, DOMAIN bodies = 1..n, Len(bodies) = n,
         \A k \in 1..n : bodies[k] \in Written
  PROVE  \E f \in [0..n -> Written] :
           JoinsUp(f, n, bodies) /\ FlattenSeq(bodies) = f[n]
<1> DEFINE Flat(f) == f = [i \in 1..n |-> IF i = 1 THEN bodies[i] ELSE f[i - 1] \o bodies[i]]
           g == CHOOSE f : Flat(f)
<1>1. FlattenSeq(bodies) = g[n]
  BY DEF FlattenSeq
<1>2. PICK f \in [0..n -> Written] : JoinsUp(f, n, bodies)
  <2>1. n \in Nat
    OBVIOUS
  <2> QED BY <2>1, Joined
<1>3. \A i \in 1..n : f[i] = f[i - 1] \o bodies[i]
  BY <1>2 DEF JoinsUp
<1>4. f[1] = bodies[1]
  <2>1. 1 \in 1..n /\ 1 - 1 = 0
    OBVIOUS
  <2>2. f[0] = <<>> /\ f[1] = f[0] \o bodies[1]
    BY <1>2, <1>3, <2>1 DEF JoinsUp
  <2>3. bodies[1] \in Seq(Byte \cup {Refused})
    BY <2>1 DEF Written
  <2> QED BY <2>2, <2>3, ConcatEmptySeq
<1> DEFINE h == [i \in 1..n |-> f[i]]
<1>5. \A i \in 1..n : h[i] = IF i = 1 THEN bodies[i] ELSE h[i - 1] \o bodies[i]
  <2>1. \A i \in 1..n : i # 1 => i - 1 \in 1..n
    OBVIOUS
  <2>2. \A i \in 1..n : h[i] = f[i] /\ (i # 1 => h[i - 1] = f[i - 1])
    BY <2>1
  <2> HIDE DEF h
  <2> QED BY <1>3, <1>4, <2>2
<1>6. h = [i \in 1..n |-> h[i]]
  OBVIOUS
<1> HIDE DEF h
<1>7. Flat(h)
  BY <1>5, <1>6
<1>8. Flat(g)
  <2> HIDE DEF Flat
  <2> QED BY <1>7
<1> HIDE DEF g
<1>9. \A i \in 1..n : g[i] = IF i = 1 THEN bodies[i] ELSE g[i - 1] \o bodies[i]
  BY <1>8
<1> HIDE DEF Flat
<1> DEFINE T == {k \in 0..n : k # 0 => f[k] = g[k]}
<1>10. 0 \in T
  OBVIOUS
<1>11. ASSUME NEW k \in 1..n, k - 1 \in T PROVE k \in T
  <2>1. CASE k = 1
    BY <1>4, <1>9, <2>1
  <2>2. CASE k # 1
    <3>1. f[k - 1] = g[k - 1]
      BY <1>11, <2>2
    <3>2. f[k] = f[k - 1] \o bodies[k] /\ g[k] = g[k - 1] \o bodies[k]
      BY <1>3, <1>9, <2>2
    <3>3. f[k] = g[k]
      BY <3>1, <3>2, Zenon
    <3> QED BY <3>3
  <2> QED BY <2>1, <2>2
<1> HIDE DEF T
<1>12. 0..n \subseteq T
  <2>1. n \in Nat
    OBVIOUS
  <2> QED BY <1>10, <1>11, <2>1, UpTo
<1>13. f[n] = g[n]
  BY <1>12 DEF T
<1> QED BY <1>1, <1>2, <1>13

(* What was written piece by piece can be written if all its pieces can.    *)
LEMMA CleanJoined ==
  ASSUME NEW n \in Nat, NEW bodies, \A k \in 1..n : bodies[k] \in Written,
         NEW f \in [0..n -> Written], JoinsUp(f, n, bodies), Clean(f[n])
  PROVE  /\ \A k \in 0..n : f[k] \in Text
         /\ \A k \in 1..n : bodies[k] \in Text /\ Clean(bodies[k])
<1> DEFINE T == {k \in 0..n : Clean(f[n - k])}
<1>1. 0 \in T
  OBVIOUS
<1>2. \A k \in 1..n : f[k - 1] \in Written /\ f[k] = f[k - 1] \o bodies[k]
  <2>1. \A k \in 1..n : k - 1 \in 0..n
    OBVIOUS
  <2> QED BY <2>1 DEF JoinsUp
<1>3. \A k \in 1..n : Clean(f[k]) => Clean(f[k - 1]) /\ Clean(bodies[k])
  <2> SUFFICES ASSUME NEW k \in 1..n PROVE Clean(f[k]) => Clean(f[k - 1]) /\ Clean(bodies[k])
    OBVIOUS
  <2>1. f[k - 1] \in Written /\ bodies[k] \in Written /\ f[k] = f[k - 1] \o bodies[k]
    BY <1>2
  <2>2. Clean(f[k - 1] \o bodies[k]) => Clean(f[k - 1]) /\ Clean(bodies[k])
    BY <2>1, CleanBoth, Zenon
  <2> QED BY <2>1, <2>2, Zenon
<1>4. ASSUME NEW k \in 1..n, k - 1 \in T PROVE k \in T
  <2>1. n - (k - 1) \in 1..n /\ (n - (k - 1)) - 1 = n - k
    OBVIOUS
  <2>2. Clean(f[n - (k - 1)])
    BY <1>4
  <2>3. Clean(f[n - k])
    BY <1>3, <2>1, <2>2
  <2> QED BY <2>3
<1> HIDE DEF T
<1>5. 0..n \subseteq T
  BY <1>1, <1>4, UpTo
<1>6. \A k \in 0..n : Clean(f[k])
  <2> SUFFICES ASSUME NEW k \in 0..n PROVE Clean(f[k])
    OBVIOUS
  <2>1. n - k \in 0..n /\ n - (n - k) = k
    OBVIOUS
  <2>2. n - k \in T
    BY <1>5, <2>1
  <2> QED BY <2>1, <2>2 DEF T
<1>7. \A k \in 1..n : Clean(bodies[k])
  BY <1>3, <1>6
<1> QED BY <1>6, <1>7, CleanIsText

(* Reading one after the other: whether the first i pieces are there, and   *)
(* what the next reader has before it.                                      *)
Reach(f, i, c) == Len(f[i]) <= Len(c)

LEMMA NextPiece ==
  ASSUME NEW n \in Nat, NEW bodies, \A k \in 1..n : bodies[k] \in Text,
         NEW f \in [0..n -> Text], JoinsUp(f, n, bodies),
         NEW c \in Text, Begins(c, f[n])
  PROVE  /\ Reach(f, 0, c) /\ Drop(c, Len(f[0])) = c
         /\ \A i \in 0..n : Reach(f, i, c) => Drop(c, Len(f[i])) \in Text
         /\ \A i \in 1..n : Reach(f, i, c) => Reach(f, i - 1, c)
         /\ \A i \in 1..n : Reach(f, i - 1, c) =>
              LET y == Drop(c, Len(f[i - 1]))
              IN /\ y \in Text /\ Begins(y, bodies[i])
                 /\ \A v : Outcome(v, bodies[i], y) =
                             IF Reach(f, i, c) THEN {<<v, Drop(c, Len(f[i]))>>} ELSE {}
<1>1. \A k \in 1..n : f[k - 1] \in Text /\ f[k] \in Text /\ f[k] = f[k - 1] \o bodies[k]
  <2>1. \A k \in 1..n : k - 1 \in 0..n /\ k \in 0..n
    OBVIOUS
  <2> QED BY <2>1 DEF JoinsUp
<1>2. Len(c) \in Nat /\ \A k \in 0..n : Len(f[k]) \in Nat
  BY DEF Text
<1> DEFINE T == {k \in 0..n : Begins(c, f[n - k])}
<1>3. 0 \in T
  OBVIOUS
<1>4. ASSUME NEW k \in 1..n, k - 1 \in T PROVE k \in T
  <2>1. n - (k - 1) \in 1..n /\ (n - (k - 1)) - 1 = n - k
    OBVIOUS
  <2>2. Begins(c, f[n - (k - 1)])
    BY <1>4
  <2>3. Begins(c, f[n - k])
    <3> DEFINE j == n - (k - 1)
    <3>1. j \in 1..n /\ j - 1 = n - k /\ Begins(c, f[j])
      BY <2>1, <2>2
    <3> HIDE DEF j
    <3>2. f[j - 1] \in Text /\ bodies[j] \in Text /\ f[j] = f[j - 1] \o bodies[j]
      BY <1>1, <3>1
    <3>3. Begins(c, f[j - 1] \o bodies[j])
      BY <3>1, <3>2, Zenon
    <3>4. Begins(c, f[j - 1])
      BY <3>2, <3>3, BeginsBoth, Zenon
    <3> QED BY <3>1, <3>4
  <2> QED BY <2>3
<1> HIDE DEF T
<1>5. 0..n \subseteq T
  BY <1>3, <1>4, UpTo
<1>6. \A k \in 0..n : Begins(c, f[k])
  <2> SUFFICES ASSUME NEW k \in 0..n PROVE Begins(c, f[k])
    OBVIOUS
  <2>1. n - k \in 0..n /\ n - (n - k) = k
    OBVIOUS
  <2>2. n - k \in T
    BY <1>5, <2>1
  <2> QED BY <2>1, <2>2 DEF T
<1>7. Reach(f, 0, c) /\ Drop(c, Len(f[0])) = c
  <2>1. f[0] = <<>> /\ Len(f[0]) = 0
    BY DEF JoinsUp
  <2>2. 0 \in 0..Len(c)
    BY <1>2
  <2> QED BY <1>2, <2>1, <2>2, DropIs DEF Reach
<1>8. ASSUME NEW i \in 0..n, Reach(f, i, c) PROVE Drop(c, Len(f[i])) \in Text
  <2>1. Len(f[i]) \in 0..Len(c)
    BY <1>2, <1>8 DEF Reach
  <2> QED BY <2>1, DropIs
<1>9. ASSUME NEW i \in 1..n, Reach(f, i, c) PROVE Reach(f, i - 1, c)
  <2>1. f[i - 1] \in Text /\ bodies[i] \in Text /\ f[i] = f[i - 1] \o bodies[i]
    BY <1>1
  <2>2. Len(f[i - 1] \o bodies[i]) = Len(f[i - 1]) + Len(bodies[i])
    BY <2>1, Concatenation, Zenon
  <2>3. Len(bodies[i]) \in Nat /\ Len(f[i - 1]) \in Nat
    BY <2>1 DEF Text
  <2>4. Len(f[i]) = Len(f[i - 1]) + Len(bodies[i])
    BY <2>1, <2>2, Zenon
  <2>5. Len(f[i]) <= Len(c)
    BY <1>9 DEF Reach
  <2>6. Len(f[i - 1]) <= Len(c)
    <3> DEFINE x == Len(f[i - 1])
               y == Len(bodies[i])
    <3>1. x \in Nat /\ y \in Nat /\ Len(c) \in Nat /\ x + y <= Len(c)
      BY <1>2, <2>3, <2>4, <2>5, Zenon
    <3> HIDE DEF x, y
    <3>2. x <= Len(c)
      BY <3>1
    <3> QED BY <3>2 DEF x
  <2> QED BY <2>6 DEF Reach
<1>10. ASSUME NEW i \in 1..n, Reach(f, i - 1, c), NEW y, y = Drop(c, Len(f[i - 1]))
       PROVE  /\ y \in Text /\ Begins(y, bodies[i])
              /\ \A v : Outcome(v, bodies[i], y) =
                          IF Reach(f, i, c) THEN {<<v, Drop(c, Len(f[i]))>>} ELSE {}
  <2> DEFINE a == f[i - 1]
             b == bodies[i]
  <2>1. a \in Text /\ b \in Text /\ f[i] = a \o b /\ Begins(c, f[i])
    BY <1>1, <1>6
  <2>2. i - 1 \in 0..n /\ Len(a) <= Len(c)
    BY <1>10 DEF Reach
  <2>3. y \in Text
    BY <1>8, <1>10, <2>2
  <2> HIDE DEF a, b
  <2>7. Begins(c, a \o b)
    BY <2>1, Zenon
  <2>4. Begins(Drop(c, Len(a)), b)
    BY <2>1, <2>2, <2>7, BeginsBoth, Zenon
  <2>5. \A v : Outcome(v, b, Drop(c, Len(a))) = Outcome(v, a \o b, c)
    BY <2>1, <2>2, OutcomeBoth, Zenon
  <2>6. \A v : Outcome(v, b, y) =
                 IF Len(f[i]) <= Len(c) THEN {<<v, Drop(c, Len(f[i]))>>} ELSE {}
    BY <1>10, <2>1, <2>5 DEF Outcome, a
  <2> QED BY <1>10, <2>3, <2>4, <2>6 DEF a, b, Reach
<1> QED BY <1>7, <1>8, <1>9, <1>10

-----------------------------------------------------------------------------
(* Names.                                                                   *)
LEMMA OneByteNum ==
  ASSUME NEW v \in Nat, Fits(v, 1) PROVE v \in Byte /\ PackNum(v, 1) = <<v>>
<1> DEFINE s == Shifted(v, 1)
<1>1. s[0] = v /\ s[1] = s[0] \div Base /\ s[1] = 0
  <2>1. 1 \in 1..1 /\ 1 - 1 = 0
    OBVIOUS
  <2> QED BY <2>1, ShiftedIs DEF Fits
<1>2. PackNum(v, 1) = [i \in 1..1 |-> s[1 - i] % Base]
  BY DEF PackNum
<1> HIDE DEF s
<1>3. v \div Base = 0 /\ v \in Nat /\ Base \in Nat /\ Base >= 64
  BY <1>1, ByteFacts
<1>4. v < Base /\ v % Base = v
  <2>1. v % Base \in Byte /\ ((v \div Base) * Base) + (v % Base) = v
    BY ByteFacts
  <2>2. v % Base = v
    BY <1>3, <2>1, ByteFacts
  <2> QED BY <2>1, <2>2, ByteFacts
<1>5. v \in Byte
  BY <1>4, ByteFacts
<1>6. PackNum(v, 1) = [i \in 1..1 |-> v]
  <2>1. \A i \in 1..1 : s[1 - i] % Base = v
    BY <1>1, <1>4
  <2> QED BY <1>2, <2>1
<1>7. [i \in 1..1 |-> v] = <<v>>
  OBVIOUS
<1> QED BY <1>5, <1>6, <1>7

LEMMA ItsOwnStart ==
  ASSUME NEW a \in Text, NEW b \in Text
  PROVE  /\ Begins(a, a) /\ Begins(a \o b, a)
         /\ Len(a) <= Len(a \o b) /\ Drop(a \o b, Len(a)) = b /\ Drop(a, Len(a)) = <<>>
<1>1. Len(a) \in Nat /\ Len(b) \in Nat
  BY DEF Text
<1>2. /\ a \o b \in Text /\ Len(a \o b) = Len(a) + Len(b)
      /\ \A i \in 1..(Len(a) + Len(b)) :
              (a \o b)[i] = IF i <= Len(a) THEN a[i] ELSE b[i - Len(a)]
  BY Concatenation
<1>3. Begins(a, a)
  BY DEF Begins
<1>4. Begins(a \o b, a)
  <2>1. \A j \in 1..Len(a) : j \in 1..(Len(a) + Len(b)) /\ j <= Len(a)
    BY <1>1
  <2> QED BY <1>2, <2>1 DEF Begins
<1>5. Len(a) \in 0..Len(a \o b) /\ Len(a \o b) - Len(a) = Len(b)
  BY <1>1, <1>2
<1>6. /\ Drop(a \o b, Len(a)) \in Text /\ Len(Drop(a \o b, Len(a))) = Len(b)
      /\ \A i \in 1..Len(b) : Drop(a \o b, Len(a))[i] = (a \o b)[Len(a) + i]
  <2> DEFINE c == a \o b
             k == Len(a)
  <2>1. c \in Text /\ k \in 0..Len(c) /\ Len(c) - k = Len(b)
    BY <1>2, <1>5
  <2> HIDE DEF c, k
  <2>2. /\ Drop(c, k) \in Text /\ Len(Drop(c, k)) = Len(c) - k
        /\ \A i \in 1..(Len(c) - k) : Drop(c, k)[i] = c[k + i]
    BY <2>1, Dropping
  <2> QED BY <2>1, <2>2 DEF c, k
<1>7. \A i \in 1..Len(b) : Drop(a \o b, Len(a))[i] = b[i]
  <2> SUFFICES ASSUME NEW i \in 1..Len(b) PROVE Drop(a \o b, Len(a))[i] = b[i]
    OBVIOUS
  <2>1. /\ Len(a) + i \in 1..(Len(a) + Len(b)) /\ ~(Len(a) + i <= Len(a))
        /\ (Len(a) + i) - Len(a) = i
    BY <1>1
  <2> QED BY <1>2, <1>6, <2>1
<1>8. Drop(a \o b, Len(a)) = b
  BY <1>6, <1>7, SeqEqual DEF Text
<1>9. Drop(a, Len(a)) = <<>>
  BY <1>1, SubSeqEmpty DEF Drop
<1> QED BY <1>1, <1>3, <1>4, <1>5, <1>8, <1>9

LEMMA ComponentRead ==
  ASSUME NEW x \in Text, Clean(Sized(x, 1)), NEW p, NEW y \in Text, Begins(y, Sized(x, 1))
  PROVE  ReadComponent({<<p, y>>}) = Outcome(Append(p, x), Sized(x, 1), y)
<1> DEFINE T == TakeFramed(TakeNum(y, 1))
           b == Sized(x, 1)
<1>1. T = Outcome(x, b, y)
  <2>1. 1 \in Nat
    OBVIOUS
  <2> QED BY <2>1, SizedRead
<1>2. ReadComponent({<<p, y>>}) = {<<Append(p, c[1]), c[2]>> : c \in T}
  BY DEF ReadComponent
<1> HIDE DEF T, b
<1>3. CASE Len(b) <= Len(y)
  <2>1. {<<Append(p, c[1]), c[2]>> : c \in {<<x, Drop(y, Len(b))>>}}
          = {<<Append(p, x), Drop(y, Len(b))>>}
    OBVIOUS
  <2> QED BY <1>1, <1>2, <1>3, <2>1 DEF Outcome, b
<1>4. CASE ~(Len(b) <= Len(y))
  <2>1. {<<Append(p, c[1]), c[2]>> : c \in {}} = {}
    OBVIOUS
  <2> QED BY <1>1, <1>2, <1>4, <2>1 DEF Outcome, b
<1> QED BY <1>3, <1>4

LEMMA OneMore ==
  ASSUME NEW S, NEW s \in Seq(S), NEW i \in 1..Len(s)
  PROVE  Append(SubSeq(s, 1, i - 1), s[i]) = SubSeq(s, 1, i)
<1>1. SubSeq(s, 1, i) = SubSeq(s, 1, i - 1) \o <<s[i]>>
  <2>1. 1 \in 1..Len(s) /\ i \in 1..Len(s)
    OBVIOUS
  <2> QED BY <2>1, SubSeqRecursiveSecond
<1>2. SubSeq(s, 1, i - 1) \in Seq(S)
  <2>1. 1 \in Int /\ i - 1 \in Int /\ \A j \in 1..(i - 1) : s[j] \in S
    OBVIOUS
  <2> QED BY <2>1, SubSeqProperties
<1>3. s[i] \in S
  OBVIOUS
<1> QED BY <1>1, <1>2, <1>3, AppendIsConcat

LEMMA PinRead ==
  ASSUME NEW h \in Optional(Bytes(HashBytes)), NEW b,
         b = IF h = None THEN <<>> ELSE <<HashDiscriminator>> \o h
  PROVE  b \in Text /\ ReadPin(b) = {h}
<1>1. CASE h = None
  BY <1>1 DEF ReadPin, Text
<1>2. CASE h # None
  <2> DEFINE d == HashDiscriminator
  <2>1. h \in Text /\ Len(h) = HashBytes
    BY <1>2, WidthFacts, BytesAreText DEF Optional
  <2>2. d \in Byte /\ b = <<d>> \o h
    <3>1. Base - 1 \in Byte
      BY WireAssumption DEF Byte
    <3>2. d = Base - 1
      BY DEF HashDiscriminator
    <3> QED BY <1>2, <3>1, <3>2, Zenon
  <2> HIDE DEF d
  <2>3. <<d>> \in Text
    BY <2>2 DEF Text
  <2>4. b \in Text /\ Begins(b, b) /\ Drop(b, 1) = h /\ 1 <= Len(b)
    <3> DEFINE q == <<d>>
    <3>1. q \in Text /\ b = q \o h /\ Len(q) = 1
      BY <2>2, <2>3
    <3> HIDE DEF q
    <3>2. /\ q \o h \in Text /\ Len(q) <= Len(q \o h) /\ Drop(q \o h, Len(q)) = h
      BY <2>1, <3>1, Concatenation, ItsOwnStart, Zenon
    <3>3. b \in Text /\ Len(q) <= Len(b) /\ Drop(b, Len(q)) = h
      BY <3>1, <3>2, Zenon
    <3>4. Begins(b, b)
      BY DEF Begins
    <3> QED BY <3>1, <3>3, <3>4
  <2>5. /\ b = <<>> <=> ~(1 <= Len(b))
        /\ b # <<>> => Head(b) = d /\ Tail(b) = Drop(b, 1)
    <3>1. Begins(b, <<d>> \o h)
      BY <2>2, <2>4, Zenon
    <3> QED BY <2>1, <2>2, <2>4, <3>1, OneByte, Zenon
  <2>6. b # <<>> /\ Head(b) = d /\ Tail(b) = h
    BY <2>4, <2>5, Zenon
  <2>7. TakeBytes(h, HashBytes) = {<<h, Drop(h, Len(h))>>}
    <3>1. Begins(h, h) /\ Len(h) <= Len(h)
      BY <2>1, ItsOwnStart DEF Text
    <3>2. TakeBytes(h, Len(h)) = Outcome(h, h, h)
      BY <2>1, <3>1, BytesRead
    <3> QED BY <2>1, <3>1, <3>2 DEF Outcome
  <2>8. {x[1] : x \in {<<h, Drop(h, Len(h))>>}} = {h}
    OBVIOUS
  <2>9. ReadPin(b) = {x[1] : x \in TakeBytes(h, HashBytes)}
    BY <2>6 DEF ReadPin, d
  <2> QED BY <2>4, <2>7, <2>8, <2>9
<1> QED BY <1>1, <1>2

LEMMA NameRead ==
  ASSUME NEW n \in WireNames
  PROVE  /\ NameBytes(n) \in Written
         /\ Clean(NameBytes(n))
            => /\ NameBytes(n) \in Text
               /\ ParseName(NameBytes(n))
                    = IF Len(n.components) <= MaxComponents THEN {n} ELSE {}
<1> DEFINE s == n.components
           k == Len(s)
           sized == [i \in DOMAIN s |-> Sized(s[i], 1)]
           flat == FlattenSeq(sized)
           pin == IF n.hash = None THEN <<>> ELSE <<HashDiscriminator>> \o n.hash
           count == PackNum(k, 1)
           b == NameBytes(n)
<1>1. /\ s \in Seq(Text) /\ s # <<>> /\ k \in Nat \ {0} /\ DOMAIN s = 1..k
      /\ n.hash \in Optional(Bytes(HashBytes))
      /\ n = [components |-> s, hash |-> n.hash]
  <2>1. s \in Seq(Text) /\ s # <<>> /\ n.hash \in Optional(Bytes(HashBytes))
        /\ n = [components |-> s, hash |-> n.hash]
    BY DEF WireNames
  <2> HIDE DEF s
  <2> QED BY <2>1, EmptySeq, LenProperties
<1>2. b = (count \o flat) \o pin
  BY DEF NameBytes
<1>3. pin \in Text /\ ReadPin(pin) = {n.hash}
  BY <1>1, PinRead
<1>4. \A i \in 1..k : s[i] \in Text /\ sized[i] = Sized(s[i], 1)
  <2> HIDE DEF k
  <2>1. \A i \in 1..k : s[i] \in Text
    BY <1>1 DEF k
  <2>2. \A i \in 1..k : sized[i] = Sized(s[i], 1)
    BY <1>1
  <2> QED BY <2>1, <2>2
<1>5. DOMAIN sized = 1..k /\ Len(sized) = k
  <2> HIDE DEF s, k
  <2> QED BY <1>1
<1> HIDE DEF sized, b, pin
<1>6. \A i \in 1..k : sized[i] \in Written
  BY <1>4, SizedRead
<1>7. PICK f \in [0..k -> Written] : JoinsUp(f, k, sized) /\ flat = f[k]
  <2> HIDE DEF k, s
  <2> QED BY <1>1, <1>5, <1>6, FlattenIs
<1>8. flat \in Written /\ count \in Written /\ pin \in Written
  <2>1. k \in 0..k
    BY <1>1
  <2> QED BY <1>1, <1>3, <1>7, <2>1, NumWritten, TextIsClean
<1> HIDE DEF flat, count, s, k
<1>9. b \in Written /\ (Clean(b) => Clean(count) /\ Clean(flat))
  <2>1. count \o flat \in Written /\ (Clean(count \o flat) <=> Clean(count) /\ Clean(flat))
    BY <1>8, CleanBoth
  <2>2. (count \o flat) \o pin \in Written
        /\ (Clean((count \o flat) \o pin) <=> Clean(count \o flat) /\ Clean(pin))
    BY <1>8, <2>1, CleanBoth
  <2> QED BY <1>2, <2>1, <2>2, Zenon
<1>10. ASSUME Clean(b)
       PROVE  ParseName(b) = IF k <= MaxComponents THEN {n} ELSE {}
  <2> DEFINE x == flat \o pin
  <2>1. k \in Byte /\ count = <<k>>
    BY <1>1, <1>9, <1>10, NumWritten, OneByteNum DEF count
  <2>2. flat \in Text /\ x \in Text
    BY <1>3, <1>8, <1>9, <1>10, CleanIsText, Concatenation
  <2>3. b = <<k>> \o x
    <3>1. count \in Text /\ count \in Seq(Byte) /\ flat \in Seq(Byte) /\ pin \in Seq(Byte)
      BY <1>3, <1>8, <1>9, <1>10, <2>2, CleanIsText DEF Text
    <3>2. (count \o flat) \o pin = count \o (flat \o pin)
      BY <3>1, ConcatAssociative
    <3> QED BY <1>2, <2>1, <3>2, Zenon
  <2> HIDE DEF x
  <2>4. b # <<>> /\ Head(b) = k /\ Tail(b) = x
    <3> DEFINE q == <<k>>
    <3>1. q \in Text /\ b = q \o x /\ Len(q) = 1
      BY <2>1, <2>3 DEF Text
    <3> HIDE DEF q
    <3>2. q \o x \in Text /\ Len(q) <= Len(q \o x) /\ Drop(q \o x, Len(q)) = x
      BY <2>2, <3>1, Concatenation, ItsOwnStart, Zenon
    <3>3. b \in Text /\ 1 <= Len(b) /\ Drop(b, 1) = x
      BY <3>1, <3>2
    <3>4. Begins(b, b)
      BY DEF Begins
    <3>5. Begins(b, <<k>> \o x)
      BY <2>3, <3>4, Zenon
    <3>6. /\ b = <<>> <=> ~(1 <= Len(b))
          /\ b # <<>> => Head(b) = k /\ Tail(b) = Drop(b, 1)
      BY <2>1, <2>2, <3>3, <3>5, OneByte, Zenon
    <3> QED BY <3>3, <3>6, Zenon
  <2>5. CASE ~(k <= MaxComponents)
    <3>1. k \notin 1..MaxComponents
      BY <1>1, <2>5, WidthFacts
    <3> QED BY <2>4, <2>5, <3>1 DEF ParseName
  <2>6. CASE k <= MaxComponents
    <3>1. k \in 1..MaxComponents
      BY <1>1, <2>6, WidthFacts
    <3> DEFINE Reads(r) ==
                 r = [i \in 0..k |-> IF i = 0 THEN {<< <<>>, x>>} ELSE ReadComponent(r[i - 1])]
               g == CHOOSE r : Reads(r)
               h == [i \in 0..k |-> {<<SubSeq(s, 1, i), Drop(x, Len(f[i]))>>}]
    <3>2. ParseName(b) =
            UNION {{[components |-> st[1], hash |-> p] : p \in ReadPin(st[2])} : st \in g[k]}
      BY <2>4, <3>1 DEF ParseName
    <3>3. k \in Nat /\ f \in [0..k -> Text] /\ Begins(x, f[k]) /\ Reach(f, k, x)
          /\ Drop(x, Len(f[k])) = pin
          /\ \A i \in 1..k : sized[i] \in Text /\ Clean(sized[i])
      <4>1. k \in Nat /\ Clean(f[k])
        BY <1>1, <1>7, <1>9, <1>10
      <4>2. /\ \A i \in 0..k : f[i] \in Text
            /\ \A i \in 1..k : sized[i] \in Text /\ Clean(sized[i])
        BY <1>6, <1>7, <4>1, CleanJoined
      <4>3. f \in [0..k -> Text]
        BY <1>7, <4>2
      <4>4. Begins(x, flat) /\ Len(flat) <= Len(x) /\ Drop(x, Len(flat)) = pin
        BY <1>3, <2>2, ItsOwnStart DEF x
      <4> QED BY <1>7, <4>1, <4>2, <4>3, <4>4, Zenon DEF Reach
    <3>4. /\ Reach(f, 0, x) /\ Drop(x, Len(f[0])) = x
          /\ \A i \in 1..k : Reach(f, i, x) => Reach(f, i - 1, x)
          /\ \A i \in 1..k : Reach(f, i - 1, x) =>
               LET y == Drop(x, Len(f[i - 1]))
               IN /\ y \in Text /\ Begins(y, sized[i])
                  /\ \A v : Outcome(v, sized[i], y) =
                              IF Reach(f, i, x) THEN {<<v, Drop(x, Len(f[i]))>>} ELSE {}
      BY <1>7, <2>2, <3>3, NextPiece
    <3> DEFINE T == {i \in 0..k : Reach(f, k - i, x)}
    <3>5. \A i \in 0..k : Reach(f, i, x)
      <4>1. 0 \in T
        BY <3>3
      <4>2. ASSUME NEW i \in 1..k, i - 1 \in T PROVE i \in T
        <5>1. k - (i - 1) \in 1..k /\ (k - (i - 1)) - 1 = k - i
          BY <3>3
        <5>2. Reach(f, k - (i - 1), x)
          BY <4>2
        <5>3. Reach(f, (k - (i - 1)) - 1, x)
          BY <3>4, <5>1, <5>2
        <5> QED BY <3>3, <5>1, <5>3
      <4> HIDE DEF T
      <4>3. 0..k \subseteq T
        BY <3>3, <4>1, <4>2, UpTo
      <4>4. \A i \in 0..k : k - i \in 0..k /\ k - (k - i) = i
        BY <3>3
      <4>5. \A i \in 0..k : k - i \in T
        BY <4>3, <4>4
      <4> QED BY <4>4, <4>5 DEF T
    <3>6. ASSUME NEW i \in 1..k PROVE h[i] = ReadComponent(h[i - 1])
      <4> DEFINE y == Drop(x, Len(f[i - 1]))
      <4>1. i - 1 \in 0..k /\ Reach(f, i - 1, x) /\ Reach(f, i, x) /\ i \in 0..k
        <5>1. i - 1 \in 0..k /\ i \in 0..k
          BY <3>3
        <5> QED BY <3>5, <5>1, Zenon
      <4>2. /\ y \in Text /\ Begins(y, sized[i])
            /\ \A v : Outcome(v, sized[i], y) = {<<v, Drop(x, Len(f[i]))>>}
        BY <3>4, <4>1
      <4>3. s[i] \in Text /\ sized[i] = Sized(s[i], 1) /\ Clean(Sized(s[i], 1))
        BY <1>4, <3>3
      <4>4. h[i] = {<<SubSeq(s, 1, i), Drop(x, Len(f[i]))>>}
            /\ h[i - 1] = {<<SubSeq(s, 1, i - 1), y>>}
        BY <4>1
      <4> HIDE DEF y, h
      <4>5. ReadComponent({<<SubSeq(s, 1, i - 1), y>>})
              = Outcome(Append(SubSeq(s, 1, i - 1), s[i]), sized[i], y)
        <5>1. Begins(y, Sized(s[i], 1))
          BY <4>2, <4>3, Zenon
        <5> QED BY <4>2, <4>3, <5>1, ComponentRead, Zenon
      <4>6. Append(SubSeq(s, 1, i - 1), s[i]) = SubSeq(s, 1, i)
        BY <1>1, OneMore DEF k
      <4> QED BY <4>2, <4>4, <4>5, <4>6, Zenon
    <3>7. h[0] = {<< <<>>, x>>}
      <4>1. SubSeq(s, 1, 0) = <<>>
        BY SubSeqEmpty
      <4>2. 0 \in 0..k
        BY <3>3
      <4> QED BY <3>4, <4>1, <4>2
    <3>8. h[k] = {<<s, pin>>}
      <4>1. SubSeq(s, 1, k) = s
        BY <1>1, SubSeqFull DEF k
      <4>2. k \in 0..k
        BY <3>3
      <4> QED BY <3>3, <4>1, <4>2
    <3>9. h = [i \in 0..k |-> h[i]]
      OBVIOUS
    <3> HIDE DEF h, T
    <3>10. Reads(h)
      <4>1. \A i \in 0..k : i # 0 => i \in 1..k
        BY <3>3
      <4> QED BY <3>6, <3>7, <3>9, <4>1
    <3>11. Reads(g)
      <4> HIDE DEF Reads
      <4> QED BY <3>10
    <3> HIDE DEF g
    <3>12. g[0] = {<< <<>>, x>>} /\ \A i \in 1..k : g[i] = ReadComponent(g[i - 1])
      <4>1. 0 \in 0..k /\ \A i \in 1..k : i \in 0..k /\ i # 0
        BY <3>3
      <4> QED BY <3>11, <4>1
    <3> HIDE DEF Reads
    <3>13. g[k] = h[k]
      <4>1. Alike(h, g, k)
        <5>1. ASSUME NEW i \in 1..k, h[i - 1] = g[i - 1] PROVE h[i] = g[i]
          <6>1. h[i] = ReadComponent(h[i - 1]) /\ g[i] = ReadComponent(g[i - 1])
            BY <3>6, <3>12
          <6> QED BY <5>1, <6>1, Zenon
        <5> QED BY <3>7, <3>12, <5>1 DEF Alike
      <4>2. k \in 0..k
        BY <3>3
      <4> QED BY <3>3, <4>1, <4>2, Unique
    <3>14. UNION {{[components |-> st[1], hash |-> p] : p \in ReadPin(st[2])} :
                    st \in {<<s, pin>>}} = {[components |-> s, hash |-> p] : p \in ReadPin(pin)}
      OBVIOUS
    <3>15. {[components |-> s, hash |-> p] : p \in {n.hash}} = {n}
      BY <1>1
    <3> QED BY <1>3, <2>6, <3>2, <3>8, <3>13, <3>14, <3>15
  <2> QED BY <2>5, <2>6
<1> QED BY <1>9, <1>10, CleanIsText DEF b, k, s

-----------------------------------------------------------------------------
(* The flags byte.                                                          *)
LEMMA WeightIs == \A i \in 1..6 : Weight[i] \in Nat
<1>1. \A i \in 1..6 : i = 1 \/ i = 2 \/ i = 3 \/ i = 4 \/ i = 5 \/ i = 6
  OBVIOUS
<1> QED BY <1>1 DEF Weight

SumsFlags(f, m, p, keys) ==
  /\ f[0] = 0
  /\ \A i \in 1..m : f[i] = f[i - 1] + (IF Raised(p, keys[i]) THEN Weight[i] ELSE 0)

LEMMA FlagsSum ==
  ASSUME NEW p, NEW m \in 1..6, NEW keys, Len(keys) = m
  PROVE  \E f \in [0..m -> Nat] :
           FlagsOf(p, keys) = f[m] /\ SumsFlags(f, m, p, keys)
<1> DEFINE Sums(f) == f = [i \in 0..m |->
                           IF i = 0 THEN 0
                           ELSE f[i - 1] + (IF Raised(p, keys[i]) THEN Weight[i] ELSE 0)]
           g == CHOOSE f : Sums(f)
           D(i) == IF Raised(p, keys[i]) THEN Weight[i] ELSE 0
           step == [i \in 1..m |-> [q \in Nat |-> q + D(i)]]
<1>1. FlagsOf(p, keys) = g[m]
  BY DEF FlagsOf
<1>2. \A i \in 1..m : Weight[i] \in Nat
  <2>1. \A i \in 1..m : i \in 1..6
    OBVIOUS
  <2> QED BY <2>1, WeightIs
<1>3. \A i \in 1..m : D(i) \in Nat
  BY <1>2
<1>4. \A i \in 1..m : D(i) = IF Raised(p, keys[i]) THEN Weight[i] ELSE 0
  OBVIOUS
<1> HIDE DEF D
<1>5. step \in [1..m -> [Nat -> Nat]] /\ \A i \in 1..m, q \in Nat : step[i][q] = q + D(i)
  BY <1>3
<1> HIDE DEF step
<1>6. m \in Nat /\ 0 \in Nat /\ \A i \in 1..m : i - 1 \in 0..m /\ i \in 0..m /\ i # 0
  OBVIOUS
<1>7. PICK f \in [0..m -> Nat] : Follows(f, m, 0, step)
  BY <1>5, <1>6, Recursion
<1>8. f[0] = 0 /\ \A i \in 1..m : f[i] = f[i - 1] + D(i)
  <2>1. \A i \in 1..m : f[i - 1] \in Nat
    BY <1>6
  <2> QED BY <1>5, <1>7, <2>1 DEF Follows
<1>9. Sums(f)
  <2>1. \A i \in 0..m : i # 0 => i \in 1..m
    OBVIOUS
  <2>2. f = [i \in 0..m |-> f[i]]
    OBVIOUS
  <2>3. \A i \in 0..m :
          f[i] = IF i = 0 THEN 0
                 ELSE f[i - 1] + (IF Raised(p, keys[i]) THEN Weight[i] ELSE 0)
    BY <1>4, <1>8, <2>1
  <2> QED BY <2>2, <2>3
<1>10. Sums(g)
  <2> HIDE DEF Sums
  <2> QED BY <1>9
<1> HIDE DEF g
<1>11. g[0] = 0 /\ \A i \in 1..m : g[i] = g[i - 1] + D(i)
  <2>1. 0 \in 0..m
    OBVIOUS
  <2>2. \A i \in 1..m : g[i] = g[i - 1] + (IF Raised(p, keys[i]) THEN Weight[i] ELSE 0)
    BY <1>6, <1>10
  <2>3. g[0] = 0
    BY <1>10, <2>1
  <2> QED BY <1>4, <2>2, <2>3
<1> HIDE DEF Sums
<1>12. Alike(f, g, m)
  BY <1>8, <1>11 DEF Alike
<1>13. f[m] = g[m]
  <2>1. m \in 0..m
    OBVIOUS
  <2> QED BY <1>6, <1>12, <2>1, Unique
<1>14. SumsFlags(f, m, p, keys)
  BY <1>4, <1>8 DEF SumsFlags
<1> QED BY <1>1, <1>13, <1>14

LEMMA FlagsAre ==
  ASSUME NEW p, NEW m \in 1..6, NEW keys, Len(keys) = m
  PROVE  /\ FlagsOf(p, keys) \in Nat /\ FlagsOf(p, keys) < 64
         /\ \A i \in 1..m : Bit(FlagsOf(p, keys), i) <=> Raised(p, keys[i])
<1> DEFINE N == FlagsOf(p, keys)
           E(i) == IF i <= m /\ Raised(p, keys[i]) THEN 1 ELSE 0
<1>0. PICK f \in [0..m -> Nat] : FlagsOf(p, keys) = f[m] /\ SumsFlags(f, m, p, keys)
  BY FlagsSum
<1>1. /\ f[0] = 0 /\ FlagsOf(p, keys) = f[m]
      /\ \A i \in 1..m : f[i] = f[i - 1] + (IF Raised(p, keys[i]) THEN Weight[i] ELSE 0)
  BY <1>0 DEF SumsFlags
<1>2. /\ Weight[1] = 1 /\ Weight[2] = 2 /\ Weight[3] = 4
      /\ Weight[4] = 8 /\ Weight[5] = 16 /\ Weight[6] = 32
  BY DEF Weight
<1>3. \A i \in 1..6 : E(i) \in {0, 1}
  OBVIOUS
<1>4. \A i \in 1..m : (E(i) = 1 <=> Raised(p, keys[i]))
  OBVIOUS
<1>5. \A i \in 1..6 : ~(i <= m) => E(i) = 0
  OBVIOUS
<1>6. \A i \in 1..m : (IF Raised(p, keys[i]) THEN Weight[i] ELSE 0) = Weight[i] * E(i)
  <2>1. \A i \in 1..m : Weight[i] \in Nat
    <3>1. \A i \in 1..m : i \in 1..6
      OBVIOUS
    <3> QED BY <3>1, WeightIs
  <2> QED BY <2>1
<1> HIDE DEF E
<1>7. \A i \in 1..m : f[i] = f[i - 1] + Weight[i] * E(i)
  BY <1>1, <1>6
<1>8. \A i \in 0..m : f[i] \in Nat
  OBVIOUS
<1> DEFINE e1 == E(1)
           e2 == E(2)
           e3 == E(3)
           e4 == E(4)
           e5 == E(5)
           e6 == E(6)
           y1 == f[1]
           y2 == f[2]
           y3 == f[3]
           y4 == f[4]
           y5 == f[5]
           y6 == f[6]
<1>9. /\ e1 \in {0, 1} /\ e2 \in {0, 1} /\ e3 \in {0, 1}
      /\ e4 \in {0, 1} /\ e5 \in {0, 1} /\ e6 \in {0, 1}
  BY <1>3
<1>10. /\ y1 = e1
       /\ m >= 2 => y2 = y1 + 2 * e2
       /\ m >= 3 => y3 = y2 + 4 * e3
       /\ m >= 4 => y4 = y3 + 8 * e4
       /\ m >= 5 => y5 = y4 + 16 * e5
       /\ m >= 6 => y6 = y5 + 32 * e6
  <2>1. y1 = e1
    BY <1>1, <1>2, <1>7, <1>9, 1 \in 1..m, 1 - 1 = 0
  <2>2. m >= 2 => y2 = y1 + 2 * e2
    BY <1>2, <1>7, m >= 2 => 2 \in 1..m, 2 - 1 = 1
  <2>3. m >= 3 => y3 = y2 + 4 * e3
    BY <1>2, <1>7, m >= 3 => 3 \in 1..m, 3 - 1 = 2
  <2>4. m >= 4 => y4 = y3 + 8 * e4
    BY <1>2, <1>7, m >= 4 => 4 \in 1..m, 4 - 1 = 3
  <2>5. m >= 5 => y5 = y4 + 16 * e5
    BY <1>2, <1>7, m >= 5 => 5 \in 1..m, 5 - 1 = 4
  <2>6. m >= 6 => y6 = y5 + 32 * e6
    BY <1>2, <1>7, m >= 6 => 6 \in 1..m, 6 - 1 = 5
  <2> QED BY <2>1, <2>2, <2>3, <2>4, <2>5, <2>6
<1>13. /\ m < 2 => e2 = 0
       /\ m < 3 => e3 = 0
       /\ m < 4 => e4 = 0
       /\ m < 5 => e5 = 0
       /\ m < 6 => e6 = 0
  BY <1>5
<1>14. /\ m = 1 => N = y1
       /\ m = 2 => N = y2
       /\ m = 3 => N = y3
       /\ m = 4 => N = y4
       /\ m = 5 => N = y5
       /\ m = 6 => N = y6
  BY <1>1
<1> HIDE DEF N, e1, e2, e3, e4, e5, e6, y1, y2, y3, y4, y5, y6
<1>15. N = e1 + 2 * e2 + 4 * e3 + 8 * e4 + 16 * e5 + 32 * e6
  <2>1. m = 1 \/ m = 2 \/ m = 3 \/ m = 4 \/ m = 5 \/ m = 6
    OBVIOUS
  <2> QED BY <1>9, <1>10, <1>13, <1>14, <2>1
<1>16. /\ N \in Nat /\ N < 64
       /\ (N \div 1) % 2 = e1 /\ (N \div 2) % 2 = e2 /\ (N \div 4) % 2 = e3
       /\ (N \div 8) % 2 = e4 /\ (N \div 16) % 2 = e5 /\ (N \div 32) % 2 = e6
  <2>1. N \in Nat /\ N < 64
    BY <1>9, <1>15
  <2>2. /\ N \div 1 = N /\ N % 2 = e1
        /\ N \div 2 = e2 + 2 * e3 + 4 * e4 + 8 * e5 + 16 * e6
        /\ N \div 4 = e3 + 2 * e4 + 4 * e5 + 8 * e6
        /\ N \div 8 = e4 + 2 * e5 + 4 * e6
        /\ N \div 16 = e5 + 2 * e6
        /\ N \div 32 = e6
    BY <1>9, <1>15
  <2>3. /\ (e2 + 2 * e3 + 4 * e4 + 8 * e5 + 16 * e6) % 2 = e2
        /\ (e3 + 2 * e4 + 4 * e5 + 8 * e6) % 2 = e3
        /\ (e4 + 2 * e5 + 4 * e6) % 2 = e4
        /\ (e5 + 2 * e6) % 2 = e5
        /\ e6 % 2 = e6
    BY <1>9
  <2> QED BY <2>1, <2>2, <2>3
<1>11. ASSUME NEW i \in 1..m PROVE (N \div Weight[i]) % 2 = E(i)
  <2>1. i = 1 \/ i = 2 \/ i = 3 \/ i = 4 \/ i = 5 \/ i = 6
    OBVIOUS
  <2> QED BY <1>2, <1>16, <2>1 DEF e1, e2, e3, e4, e5, e6
<1>12. \A i \in 1..m : Bit(N, i) <=> Raised(p, keys[i])
  BY <1>4, <1>11 DEF Bit
<1> QED BY <1>12, <1>16 DEF N

-----------------------------------------------------------------------------
(* Fields.  What a reader knows once it has the flags.                      *)
Listed(keys) == {keys[i] : i \in DOMAIN keys}

Flagged(q, keys, p) ==
  [k \in DOMAIN q \cup Listed(keys) |-> IF k \in Listed(keys) THEN Raised(p, k) ELSE q[k]]

FlagKeys(keys, p) ==
  /\ Len(keys) \in 1..6 /\ DOMAIN keys = 1..Len(keys)
  /\ \A i, j \in 1..Len(keys) : keys[i] = keys[j] => i = j
  /\ \A i \in 1..Len(keys) : keys[i] \in Switches => p[keys[i]] \in BOOLEAN

LEMMA FlagsRead ==
  ASSUME NEW p, NEW keys, FlagKeys(keys, p), NEW q
  PROVE  LET b == PackNum(FlagsOf(p, keys), 1)
         IN b \in Text /\ \A c \in Text : Begins(c, b)
                            => TakeFlags(<<q, c>>, keys) = Outcome(Flagged(q, keys, p), b, c)
<1> DEFINE m == Len(keys)
           N == FlagsOf(p, keys)
           b == PackNum(N, 1)
<1>1. m \in 1..6 /\ DOMAIN keys = 1..m /\ \A i, j \in 1..m : keys[i] = keys[j] => i = j
  BY DEF FlagKeys
<1>2. \A i \in 1..m : keys[i] \in Switches => p[keys[i]] \in BOOLEAN
  BY DEF FlagKeys
<1>3. N \in Nat /\ N < 64 /\ \A i \in 1..m : Bit(N, i) <=> Raised(p, keys[i])
  BY <1>1, FlagsAre
<1> HIDE DEF N
<1>4. N \in Byte /\ Fits(N, 1)
  <2>1. N \in Byte
    <3>1. Base \in Nat /\ Base >= 64
      BY ByteFacts
    <3>2. N \in Nat /\ N < Base
      BY <1>3, <3>1
    <3> QED BY <3>2, ByteFacts
  <2>2. 1 \in Nat \ {0}
    OBVIOUS
  <2> QED BY <2>1, <2>2, SmallFits
<1>5. b = <<N>> /\ b \in Text /\ Len(b) = 1
  <2>1. b = <<N>>
    BY <1>3, <1>4, OneByteNum
  <2>2. <<N>> \in Text /\ Len(<<N>>) = 1
    BY <1>4 DEF Text
  <2> QED BY <2>1, <2>2, Zenon
<1>6. ASSUME NEW k \in Listed(keys)
      PROVE  (\E i \in DOMAIN keys : keys[i] = k /\ Bit(N, i)) = Raised(p, k)
  <2>1. PICK j \in 1..m : keys[j] = k
    BY <1>1 DEF Listed
  <2>2. (\E i \in DOMAIN keys : keys[i] = k /\ Bit(N, i)) <=> Raised(p, k)
    BY <1>1, <1>3, <2>1
  <2>3. Raised(p, k) \in BOOLEAN
    <3>1. CASE k \in Switches
      <4>1. p[k] \in BOOLEAN
        BY <1>2, <2>1, <3>1
      <4> QED BY <3>1, <4>1 DEF Raised
    <3>2. CASE k \notin Switches
      BY <3>2 DEF Raised
    <3> QED BY <3>1, <3>2
  <2> QED BY <2>2, <2>3
<1>7. ASSUME NEW c \in Text, Begins(c, b)
      PROVE  TakeFlags(<<q, c>>, keys) = Outcome(Flagged(q, keys, p), b, c)
  <2>1. <<>> \in Text /\ b \o <<>> = b /\ b \in Text /\ Len(b) = 1
    <3> HIDE DEF b
    <3> QED BY <1>5, ConcatEmptySeq DEF Text
  <2>2. /\ c = <<>> <=> ~(1 <= Len(c))
        /\ c # <<>> => Head(c) = N /\ Tail(c) = Drop(c, 1)
    <3>1. Begins(c, <<N>> \o <<>>)
      BY <1>5, <1>7, <2>1, Zenon
    <3> QED BY <1>4, <2>1, <3>1, OneByte, Zenon
  <2>3. CASE c = <<>>
    <3>1. TakeFlags(<<q, c>>, keys) = {}
      BY <2>3 DEF TakeFlags
    <3> QED BY <2>1, <2>2, <2>3, <3>1 DEF Outcome
  <2>4. CASE c # <<>>
    <3> DEFINE F == [k \in DOMAIN q \cup Listed(keys) |->
                       IF k \in Listed(keys)
                         THEN \E i \in DOMAIN keys : keys[i] = k /\ Bit(N, i) ELSE q[k]]
    <3>1. TakeFlags(<<q, c>>, keys) = {<<F, Tail(c)>>}
      <4>1. Head(c) = N
        BY <2>2, <2>4
      <4> QED BY <2>4, <4>1 DEF TakeFlags, Listed
    <3>2. F = Flagged(q, keys, p)
      <4>1. \A k \in Listed(keys) :
              (\E i \in DOMAIN keys : keys[i] = k /\ Bit(N, i)) = Raised(p, k)
        BY <1>6
      <4>2. \A k \in DOMAIN q \cup Listed(keys) :
              (IF k \in Listed(keys)
                 THEN \E i \in DOMAIN keys : keys[i] = k /\ Bit(N, i) ELSE q[k])
              = (IF k \in Listed(keys) THEN Raised(p, k) ELSE q[k])
        BY <4>1, Zenon
      <4> QED BY <4>2, Zenon DEF Flagged
    <3> HIDE DEF F
    <3>3. Outcome(Flagged(q, keys, p), b, c) = {<<Flagged(q, keys, p), Drop(c, 1)>>}
      BY <2>1, <2>2, <2>4 DEF Outcome
    <3> QED BY <2>2, <2>4, <3>1, <3>2, <3>3, Zenon
  <2> QED BY <2>3, <2>4
<1> QED BY <1>5, <1>7 DEF N

LEMMA IntoIs ==
  ASSUME NEW q, NEW c, NEW k, NEW v, NEW b, NEW x
  PROVE  Into(<<q, x>>, k, Outcome(v, b, c)) = Outcome(With(q, k, v), b, c)
<1>1. CASE Len(b) <= Len(c)
  <2>1. {<<With(q, k, y[1]), y[2]>> : y \in {<<v, Drop(c, Len(b))>>}}
          = {<<With(q, k, v), Drop(c, Len(b))>>}
    OBVIOUS
  <2> QED BY <1>1, <2>1 DEF Into, Outcome
<1>2. CASE ~(Len(b) <= Len(c))
  BY <1>2 DEF Into, Outcome
<1> QED BY <1>1, <1>2

(* A field that is not there takes no bytes; the record has None for it.    *)
Skips(f, p) == f[1] \in {"num", "raw", "nested", "framed"} /\ p[f[2]] = None

Knows(q, f, p) == Absent(<<q, <<>> >>, f[2]) <=> Skips(f, p)

LEMMA AbsentIs ==
  ASSUME NEW q, NEW f, NEW p, Knows(q, f, p), NEW c
  PROVE  Absent(<<q, c>>, f[2]) <=> Skips(f, p)
BY DEF Knows, Absent

LEMMA SkippedRead ==
  ASSUME NEW f, NEW p, Skips(f, p), f[2] # "hop_limit", NEW q, Knows(q, f, p)
  PROVE  /\ FieldBytes(f, p) = <<>> /\ PlainBytes(f, p) = <<>>
         /\ \A c \in Text :
              /\ TakePlain(<<q, c>>, f) = Outcome(With(q, f[2], p[f[2]]), <<>>, c)
              /\ TakeField(<<q, c>>, f) = Outcome(With(q, f[2], p[f[2]]), <<>>, c)
<1>1. f[1] \in {"num", "raw", "nested", "framed"} /\ p[f[2]] = None
  BY DEF Skips
<1>2. f[1] # "flags" /\ f[1] # "name" /\ f[1] # "blob"
  BY <1>1
<1>3. PlainBytes(f, p) = <<>>
  BY <1>1, <1>2 DEF PlainBytes
<1>4. FieldBytes(f, p) = <<>>
  <2>1. CASE f[1] \in {"nested", "framed"}
    BY <1>1, <1>2, <2>1 DEF FieldBytes
  <2>2. CASE f[1] \in {"num", "raw"}
    <3>1. f[1] # "nested" /\ f[1] # "framed"
      BY <2>2
    <3> QED BY <1>2, <1>3, <3>1 DEF FieldBytes
  <2> QED BY <1>1, <2>1, <2>2
<1>5. ASSUME NEW c \in Text
      PROVE  /\ TakePlain(<<q, c>>, f) = Outcome(With(q, f[2], p[f[2]]), <<>>, c)
             /\ TakeField(<<q, c>>, f) = Outcome(With(q, f[2], p[f[2]]), <<>>, c)
  <2>1. Absent(<<q, c>>, f[2])
    BY AbsentIs
  <2>2. AbsentValue(f[2]) = None
    BY DEF AbsentValue
  <2>3. TakePlain(<<q, c>>, f) = {<<With(q, f[2], None), c>>}
    <3>1. TakePlain(<<q, c>>, f) = {<<With(q, f[2], AbsentValue(f[2])), c>>}
      BY <1>2, <2>1 DEF TakePlain
    <3> QED BY <2>2, <3>1
  <2>4. TakeField(<<q, c>>, f) = TakePlain(<<q, c>>, f)
    BY <1>1, <1>2, <2>1 DEF TakeField
  <2>5. Outcome(With(q, f[2], None), <<>>, c) = {<<With(q, f[2], None), c>>}
    <3>1. Len(c) \in Nat /\ Len(<<>>) = 0 /\ 0 \in 0..Len(c)
      BY DEF Text
    <3>2. Drop(c, 0) = c
      BY <3>1, DropIs
    <3> QED BY <3>1, <3>2 DEF Outcome
  <2> QED BY <1>1, <2>3, <2>4, <2>5
<1> QED BY <1>3, <1>4, <1>5

-----------------------------------------------------------------------------
(* What a reader knows after the field.                                     *)
After(q, f, p) == IF f[1] = "flags" THEN Flagged(q, f[3], p) ELSE With(q, f[2], p[f[2]])

Numeric(f, p) == f[1] = "num" /\ f[3] \in Nat /\ p[f[2]] \in Optional(Nat)
RawField(f, p) == f[1] = "raw" /\ f[3] \in Nat /\ p[f[2]] \in Optional(Bytes(f[3]))
FlagsField(f, p) == f[1] = "flags" /\ FlagKeys(f[3], p)

Plain(f, p) ==
  /\ FlagsField(f, p) \/ Numeric(f, p) \/ RawField(f, p)
  /\ f[2] = "hop_limit" => p[f[2]] # None

LEMMA PlainRead ==
  ASSUME NEW f, NEW p, Plain(f, p)
  PROVE  /\ FieldBytes(f, p) = PlainBytes(f, p) /\ PlainBytes(f, p) \in Written
         /\ \A st : TakeField(st, f) = TakePlain(st, f)
         /\ Clean(PlainBytes(f, p)) =>
              /\ PlainBytes(f, p) \in Text
              /\ \A q : f[1] = "flags" \/ Knows(q, f, p) =>
                   \A c \in Text : Begins(c, PlainBytes(f, p)) =>
                     TakePlain(<<q, c>>, f) = Outcome(After(q, f, p), PlainBytes(f, p), c)
<1> DEFINE b == PlainBytes(f, p)
           Good == b \in Written /\ (Clean(b) =>
              /\ b \in Text
              /\ \A q : f[1] = "flags" \/ Knows(q, f, p) =>
                   \A c \in Text : Begins(c, b) =>
                     TakePlain(<<q, c>>, f) = Outcome(After(q, f, p), b, c))
<1>1. f[1] \in {"flags", "num", "raw"}
  BY DEF Plain, FlagsField, Numeric, RawField
<1>2. FieldBytes(f, p) = b
  <2>1. f[1] # "name" /\ f[1] # "blob" /\ f[1] # "nested" /\ f[1] # "framed"
    BY <1>1
  <2> QED BY <2>1 DEF FieldBytes
<1>3. ASSUME NEW st PROVE TakeField(st, f) = TakePlain(st, f)
  <2>1. f[1] # "name" /\ f[1] # "blob" /\ f[1] # "nested" /\ f[1] # "framed"
    BY <1>1
  <2> QED BY <1>1, <2>1 DEF TakeField
<1>4. CASE f[1] = "flags"
  <2>1. FlagKeys(f[3], p)
    BY <1>4 DEF Plain, FlagsField, Numeric, RawField
  <2>2. b = PackNum(FlagsOf(p, f[3]), 1)
    BY <1>4 DEF PlainBytes
  <2>3. ASSUME NEW q
        PROVE  b \in Text /\ \A c \in Text : Begins(c, b)
                 => TakeFlags(<<q, c>>, f[3]) = Outcome(Flagged(q, f[3], p), b, c)
    BY <2>1, <2>2, FlagsRead, Zenon
  <2>4. b \in Text
    BY <2>3
  <2>5. ASSUME NEW q, NEW c \in Text, Begins(c, b)
        PROVE  TakePlain(<<q, c>>, f) = Outcome(After(q, f, p), b, c)
    <3>1. TakePlain(<<q, c>>, f) = TakeFlags(<<q, c>>, f[3])
      BY <1>4 DEF TakePlain
    <3>2. After(q, f, p) = Flagged(q, f[3], p)
      BY <1>4 DEF After
    <3> QED BY <2>3, <2>5, <3>1, <3>2, Zenon
  <2> HIDE DEF b
  <2>6. Good
    BY <2>4, <2>5, TextIsClean
  <2> QED BY <1>2, <1>3, <2>6 DEF b
<1>5. CASE f[1] # "flags"
  <2> DEFINE k == f[2]
  <2>1. Numeric(f, p) \/ RawField(f, p)
    BY <1>5 DEF Plain, FlagsField
  <2>2. CASE p[k] = None
    <3>1. Skips(f, p) /\ k # "hop_limit"
      BY <1>1, <1>5, <2>2 DEF Skips, Plain
    <3>2. b = <<>> /\ <<>> \in Text
      <4>1. b = <<>>
        BY <1>1, <1>5, <2>2 DEF PlainBytes
      <4> QED BY <4>1 DEF Text
    <3>3. ASSUME NEW q, Knows(q, f, p), NEW c \in Text
          PROVE  TakePlain(<<q, c>>, f) = Outcome(After(q, f, p), b, c)
      <4>1. TakePlain(<<q, c>>, f) = Outcome(With(q, f[2], p[f[2]]), <<>>, c)
        BY <3>1, <3>3, SkippedRead
      <4> QED BY <1>5, <3>2, <4>1 DEF After
    <3>4. b \in Text /\ b \in Written
      BY <3>2, TextIsClean
    <3> HIDE DEF b
    <3>5. Good
      BY <1>5, <3>3, <3>4
    <3> QED BY <1>2, <1>3, <3>5 DEF b
  <2>3. CASE p[k] # None
    <3>1. ~Skips(f, p)
      BY <2>3 DEF Skips
    <3> DEFINE taken(c) == IF f[1] = "num" THEN TakeNum(c, f[3]) ELSE TakeBytes(c, f[3])
    <3>2. b \in Written /\ (Clean(b) =>
            b \in Text /\ \A c \in Text : Begins(c, b) => taken(c) = Outcome(p[k], b, c))
      <4>1. CASE Numeric(f, p)
        <5>1. p[k] \in Nat /\ f[3] \in Nat /\ f[1] = "num"
          BY <2>3, <4>1 DEF Numeric, Optional
        <5>2. b = PackNum(p[k], f[3])
          BY <2>3, <5>1 DEF PlainBytes
        <5>3. b \in Written /\ (Clean(b) => Fits(p[k], f[3]) /\ b \in Text)
          BY <5>1, <5>2, NumWritten, CleanIsText
        <5>4. ASSUME Clean(b), NEW c \in Text, Begins(c, b)
              PROVE  TakeNum(c, f[3]) = Outcome(p[k], b, c)
          BY <5>1, <5>2, <5>3, <5>4, NumRead
        <5> QED BY <5>1, <5>3, <5>4
      <4>2. CASE RawField(f, p)
        <5>1. p[k] \in Bytes(f[3]) /\ f[3] \in Nat /\ f[1] = "raw"
          BY <2>3, <4>2 DEF RawField, Optional
        <5>2. b = p[k]
          BY <2>3, <5>1 DEF PlainBytes
        <5>3. b \in Text /\ Len(b) = f[3] /\ b \in Written
          BY <5>1, <5>2, BytesAreText, TextIsClean
        <5>4. ASSUME NEW c \in Text, Begins(c, b)
              PROVE  TakeBytes(c, f[3]) = Outcome(p[k], b, c)
          BY <5>2, <5>3, <5>4, BytesRead
        <5> QED BY <5>1, <5>3, <5>4
      <4> QED BY <2>1, <4>1, <4>2
    <3>3. ASSUME Clean(b), NEW q, Knows(q, f, p), NEW c \in Text, Begins(c, b)
          PROVE  TakePlain(<<q, c>>, f) = Outcome(After(q, f, p), b, c)
      <4>1. ~Absent(<<q, c>>, k)
        BY <3>1, <3>3, AbsentIs
      <4>2. TakePlain(<<q, c>>, f) = Into(<<q, c>>, k, taken(c))
        BY <1>1, <1>5, <4>1 DEF TakePlain
      <4>3. taken(c) = Outcome(p[k], b, c)
        BY <3>2, <3>3
      <4>4. After(q, f, p) = With(q, k, p[k])
        BY <1>5 DEF After
      <4>5. Into(<<q, c>>, k, Outcome(p[k], b, c)) = Outcome(With(q, k, p[k]), b, c)
        BY IntoIs
      <4> HIDE DEF taken, k
      <4> QED BY <4>2, <4>3, <4>4, <4>5
    <3> HIDE DEF b
    <3>4. Good
      BY <1>5, <3>2, <3>3
    <3> QED BY <1>2, <1>3, <3>4 DEF b
  <2> QED BY <2>2, <2>3
<1> QED BY <1>4, <1>5

-----------------------------------------------------------------------------
(* Layouts.  Announced(L, i, k): a flags byte among the first i fields speaks of *)
(* key k.  HasRead(L, i, k): k is one of the first i fields.                *)
Announced(L, i, k) == \E j \in 1..i : L[j][1] = "flags" /\ k \in Listed(L[j][3])

HasRead(L, i, k) == \E j \in 1..i : L[j][1] # "flags" /\ L[j][2] = k

Due(L, i, k) == Announced(L, i, k) /\ ~HasRead(L, i, k)

Known(L, start, i, p) == {k \in DOMAIN p : k \in start \/ Announced(L, i, k) \/ HasRead(L, i, k)}

(* What a reader of p knows after i fields.                                 *)
Seen(L, start, i, p) ==
  [k \in Known(L, start, i, p) |-> IF Due(L, i, k) THEN Raised(p, k) ELSE p[k]]

(* Field i comes in its place.                                              *)
FlagsInPlace(f, L, start, i, p) ==
  \A k \in Listed(f[3]) : k \in DOMAIN p \ start /\ ~HasRead(L, i - 1, k)

ValueInPlace(f, L, start, i, p) ==
  /\ f[2] \in DOMAIN p \ (start \cup Switches)
  /\ ~HasRead(L, i - 1, f[2])
  /\ IF Announced(L, i - 1, f[2]) THEN f[1] \notin {"name", "blob"} ELSE ~Skips(f, p)

InPlace(f, L, start, i, p) ==
  IF f[1] = "flags" THEN FlagsInPlace(f, L, start, i, p) ELSE ValueInPlace(f, L, start, i, p)

Form(f) == f[1] \in {"flags", "num", "raw", "nested", "framed", "name", "blob"}

LEMMA OneFieldMore ==
  ASSUME NEW L, NEW n \in Nat, NEW i \in 1..n, NEW k
  PROVE  /\ Announced(L, i, k)
              <=> Announced(L, i - 1, k) \/ (L[i][1] = "flags" /\ k \in Listed(L[i][3]))
         /\ HasRead(L, i, k) <=> HasRead(L, i - 1, k) \/ (L[i][1] # "flags" /\ L[i][2] = k)
<1>1. i \in 1..i /\ \A j \in 1..i : j \in 1..(i - 1) \/ j = i
  OBVIOUS
<1>2. \A j \in 1..(i - 1) : j \in 1..i
  OBVIOUS
<1> QED BY <1>1, <1>2 DEF Announced, HasRead

LEMMA SeenNext ==
  ASSUME NEW L, NEW start, NEW n \in Nat, NEW i \in 1..n, NEW p, Form(L[i]),
         InPlace(L[i], L, start, i, p)
  PROVE  /\ Seen(L, start, i, p) = After(Seen(L, start, i - 1, p), L[i], p)
         /\ L[i][1] = "flags" \/ Knows(Seen(L, start, i - 1, p), L[i], p)
<1> DEFINE f == L[i]
           q == Seen(L, start, i - 1, p)
           K == Known(L, start, i - 1, p)
           N == Known(L, start, i, p)
           V(k) == IF Due(L, i, k) THEN Raised(p, k) ELSE p[k]
           U(k) == IF Due(L, i - 1, k) THEN Raised(p, k) ELSE p[k]
<1>1. /\ DOMAIN q = K /\ \A k \in K : q[k] = U(k)
      /\ Seen(L, start, i, p) = [k \in N |-> V(k)]
  BY DEF Seen
<1>2. \A k : /\ Announced(L, i, k)
                  <=> Announced(L, i - 1, k) \/ (f[1] = "flags" /\ k \in Listed(f[3]))
             /\ HasRead(L, i, k) <=> HasRead(L, i - 1, k) \/ (f[1] # "flags" /\ f[2] = k)
  BY OneFieldMore
<1> HIDE DEF q
<1>3. CASE f[1] = "flags"
  <2>1. \A k \in Listed(f[3]) : k \in DOMAIN p /\ k \notin start /\ ~HasRead(L, i - 1, k)
    BY <1>3 DEF InPlace, FlagsInPlace
  <2>2. N = K \cup Listed(f[3])
    BY <1>2, <1>3, <2>1 DEF Known
  <2>3. \A k \in N : V(k) = IF k \in Listed(f[3]) THEN Raised(p, k) ELSE q[k]
    <3>1. ASSUME NEW k \in Listed(f[3]) PROVE Due(L, i, k)
      BY <1>2, <1>3, <2>1 DEF Due
    <3>2. ASSUME NEW k \in K, k \notin Listed(f[3]) PROVE V(k) = q[k]
      <4>1. Due(L, i, k) <=> Due(L, i - 1, k)
        BY <1>2, <1>3, <3>2 DEF Due
      <4> QED BY <1>1, <4>1
    <3> QED BY <2>2, <3>1, <3>2
  <2>4. After(q, f, p)
          = [k \in K \cup Listed(f[3]) |-> IF k \in Listed(f[3]) THEN Raised(p, k) ELSE q[k]]
    BY <1>1, <1>3 DEF After, Flagged
  <2>5. [k \in N |-> V(k)]
          = [k \in K \cup Listed(f[3]) |-> IF k \in Listed(f[3]) THEN Raised(p, k) ELSE q[k]]
    <3> HIDE DEF N, V, K
    <3> QED BY <2>2, <2>3
  <2>6. Seen(L, start, i, p) = After(q, f, p)
    <3> HIDE DEF N, V, K
    <3> QED BY <1>1, <2>4, <2>5, Zenon
  <2> QED BY <1>3, <2>6 DEF q
<1>4. CASE f[1] # "flags"
  <2> DEFINE m == f[2]
  <2>1. /\ m \in DOMAIN p /\ m \notin start /\ m \notin Switches /\ ~HasRead(L, i - 1, m)
        /\ IF Announced(L, i - 1, m) THEN f[1] \notin {"name", "blob"} ELSE ~Skips(f, p)
    BY <1>4 DEF InPlace, ValueInPlace
  <2>2. N = K \cup {m}
    BY <1>2, <1>4, <2>1 DEF Known
  <2>3. \A k \in N : V(k) = IF k = m THEN p[m] ELSE q[k]
    <3>1. ~Due(L, i, m)
      BY <1>2, <1>4 DEF Due
    <3>2. ASSUME NEW k \in K, k # m PROVE V(k) = q[k]
      <4>1. Due(L, i, k) <=> Due(L, i - 1, k)
        BY <1>2, <1>4, <3>2 DEF Due
      <4> QED BY <1>1, <4>1
    <3> QED BY <2>2, <3>1, <3>2
  <2>4. After(q, f, p) = [k \in K \cup {m} |-> IF k = m THEN p[m] ELSE q[k]]
    BY <1>1, <1>4 DEF After, With
  <2>5. [k \in N |-> V(k)] = [k \in K \cup {m} |-> IF k = m THEN p[m] ELSE q[k]]
    <3> HIDE DEF N, V, K, m
    <3> QED BY <2>2, <2>3
  <2>6. Seen(L, start, i, p) = After(q, f, p)
    <3> HIDE DEF N, V, K, m
    <3> QED BY <1>1, <2>4, <2>5, Zenon
  <2>7. Knows(q, f, p)
    <3>1. Absent(<<q, <<>> >>, m) <=> (m \in K /\ q[m] = FALSE)
      BY <1>1 DEF Absent
    <3>2. m \in K <=> Announced(L, i - 1, m)
      BY <2>1 DEF Known
    <3>3. CASE Announced(L, i - 1, m)
      <4>1. q[m] = (p[m] # None)
        <5>1. q[m] = Raised(p, m)
          BY <1>1, <2>1, <3>2, <3>3 DEF Due
        <5>2. Raised(p, m) = (p[m] # None)
          BY <2>1 DEF Raised
        <5> QED BY <5>1, <5>2, Zenon
      <4>2. f[1] \in {"num", "raw", "nested", "framed"}
        BY <1>4, <2>1, <3>3 DEF Form
      <4>3. Skips(f, p) <=> p[m] = None
        BY <4>2 DEF Skips
      <4>4. (q[m] = FALSE) <=> (p[m] = None)
        BY <4>1, Zenon
      <4> QED BY <3>1, <3>2, <3>3, <4>3, <4>4 DEF Knows
    <3>4. CASE ~Announced(L, i - 1, m)
      BY <2>1, <3>1, <3>2, <3>4 DEF Knows
    <3> QED BY <3>3, <3>4
  <2> QED BY <2>6, <2>7 DEF q
<1> QED BY <1>3, <1>4

(* The first and the last of it.                                            *)
LEMMA SeenEnds ==
  ASSUME NEW L, NEW start, NEW n \in Nat, NEW p,
         p = [k \in DOMAIN p |-> p[k]], start \subseteq DOMAIN p,
         \A k \in DOMAIN p : k \in start \/ Announced(L, n, k) \/ HasRead(L, n, k),
         \A k : Due(L, n, k) => k \in Switches
  PROVE  /\ Seen(L, start, 0, p) = [k \in start |-> p[k]]
         /\ Seen(L, start, n, p) = p
<1>1. Seen(L, start, 0, p) = [k \in start |-> p[k]]
  <2>1. \A k : ~Announced(L, 0, k) /\ ~HasRead(L, 0, k) /\ ~Due(L, 0, k)
    BY DEF Announced, HasRead, Due
  <2>2. Known(L, start, 0, p) = start
    BY <2>1 DEF Known
  <2>3. \A k \in start : (IF Due(L, 0, k) THEN Raised(p, k) ELSE p[k]) = p[k]
    BY <2>1
  <2> QED BY <2>2, <2>3 DEF Seen
<1>2. Seen(L, start, n, p) = p
  <2>1. Known(L, start, n, p) = DOMAIN p
    BY DEF Known
  <2>2. \A k \in DOMAIN p : (IF Due(L, n, k) THEN Raised(p, k) ELSE p[k]) = p[k]
    BY DEF Raised
  <2>3. Seen(L, start, n, p) = [k \in DOMAIN p |-> p[k]]
    BY <2>1, <2>2 DEF Seen
  <2> QED BY <2>3, Zenon
<1> QED BY <1>1, <1>2

-----------------------------------------------------------------------------
(* Walking a layout.  A name with too many components stops the reader.     *)
TooLong(f, p) == f[1] = "name" /\ ~(Len(p[f[2]].components) <= MaxComponents)

NoneTooLong(L, i, p) == \A j \in 1..i : ~TooLong(L[j], p)

Walk(L, start, p, f, c, i) ==
  IF Reach(f, i, c) /\ NoneTooLong(L, i, p)
    THEN {<<Seen(L, start, i, p), Drop(c, Len(f[i]))>>} ELSE {}

LEMMA WalkStarts ==
  ASSUME NEW L, NEW start, NEW p, NEW n \in Nat, NEW bodies,
         \A k \in 1..n : bodies[k] \in Text,
         NEW f \in [0..n -> Text], JoinsUp(f, n, bodies), NEW c \in Text, Begins(c, f[n])
  PROVE  Walk(L, start, p, f, c, 0) = {<<Seen(L, start, 0, p), c>>}
<1>1. Reach(f, 0, c) /\ Drop(c, Len(f[0])) = c
  BY NextPiece
<1>2. NoneTooLong(L, 0, p)
  BY DEF NoneTooLong
<1> QED BY <1>1, <1>2 DEF Walk

GoesOn(L, start, p, f, c, i, body, y) ==
  /\ Walk(L, start, p, f, c, i - 1) \in {{}, {<<Seen(L, start, i - 1, p), y>>}}
  /\ Walk(L, start, p, f, c, i - 1) = {} => Walk(L, start, p, f, c, i) = {}
  /\ Walk(L, start, p, f, c, i - 1) # {} =>
       /\ y \in Text /\ Begins(y, body)
       /\ Walk(L, start, p, f, c, i)
            = IF TooLong(L[i], p) THEN {} ELSE Outcome(Seen(L, start, i, p), body, y)

LEMMA WalkGoesOn ==
  ASSUME NEW L, NEW start, NEW p, NEW n \in Nat, NEW bodies,
         \A k \in 1..n : bodies[k] \in Text,
         NEW f \in [0..n -> Text], JoinsUp(f, n, bodies), NEW c \in Text, Begins(c, f[n]),
         NEW i \in 1..n, NEW y, y = Drop(c, Len(f[i - 1]))
  PROVE  GoesOn(L, start, p, f, c, i, bodies[i], y)
<1> DEFINE W == Walk(L, start, p, f, c, i - 1)
           X == Walk(L, start, p, f, c, i)
           A == Reach(f, i - 1, c)
           N == NoneTooLong(L, i - 1, p)
<1>1. W = IF A /\ N THEN {<<Seen(L, start, i - 1, p), y>>} ELSE {}
  BY DEF Walk
<1>2. X = IF Reach(f, i, c) /\ NoneTooLong(L, i, p)
            THEN {<<Seen(L, start, i, p), Drop(c, Len(f[i]))>>} ELSE {}
  BY DEF Walk
<1>3. NoneTooLong(L, i, p) <=> N /\ ~TooLong(L[i], p)
  <2>1. i \in 1..i /\ (\A j \in 1..i : j \in 1..(i - 1) \/ j = i)
        /\ (\A j \in 1..(i - 1) : j \in 1..i)
    OBVIOUS
  <2> QED BY <2>1 DEF NoneTooLong
<1>4. Reach(f, i, c) => A
  BY NextPiece
<1>5. A => /\ y \in Text /\ Begins(y, bodies[i])
           /\ \A v : Outcome(v, bodies[i], y) =
                       IF Reach(f, i, c) THEN {<<v, Drop(c, Len(f[i]))>>} ELSE {}
  BY NextPiece
<1> HIDE DEF W, X, A, N
<1>6. CASE ~(A /\ N)
  BY <1>1, <1>2, <1>3, <1>4, <1>6 DEF GoesOn, W, X
<1>7. CASE A /\ N
  <2>1. W = {<<Seen(L, start, i - 1, p), y>>} /\ W # {}
    BY <1>1, <1>7
  <2>2. X = IF TooLong(L[i], p) THEN {} ELSE Outcome(Seen(L, start, i, p), bodies[i], y)
    BY <1>2, <1>3, <1>5, <1>7
  <2>3. y \in Text /\ Begins(y, bodies[i])
    BY <1>5, <1>7
  <2> QED BY <2>1, <2>2, <2>3 DEF GoesOn, W, X
<1> QED BY <1>6, <1>7 DEF GoesOn, W, X

LEMMA WalkEnds ==
  ASSUME NEW L, NEW start, NEW p, NEW n \in Nat, NEW f, NEW c, Seen(L, start, n, p) = p
  PROVE  Walk(L, start, p, f, c, n)
           = IF NoneTooLong(L, n, p) THEN Outcome(p, f[n], c) ELSE {}
BY DEF Walk, Outcome, Reach

(* A packet that has what its layout speaks of.                             *)
Laid(L) == Len(L) \in Nat \ {0} /\ DOMAIN L = 1..Len(L)

Fitting(kind, start, p) ==
  LET L == Layout[kind]
  IN /\ Laid(L)
     /\ \A i \in 1..Len(L) : Form(L[i]) /\ InPlace(L[i], L, start, i, p)
     /\ p = [k \in DOMAIN p |-> p[k]] /\ start \subseteq DOMAIN p
     /\ \A k \in DOMAIN p : k \in start \/ Announced(L, Len(L), k) \/ HasRead(L, Len(L), k)
     /\ \A k : Due(L, Len(L), k) => k \in Switches
     /\ Acceptable(kind, p)

SeenThrough(L, n, start, p) ==
  /\ Laid(L)
  /\ \A i \in 1..n : /\ Seen(L, start, i, p) = After(Seen(L, start, i - 1, p), L[i], p)
                     /\ L[i][1] = "flags" \/ Knows(Seen(L, start, i - 1, p), L[i], p)
  /\ Seen(L, start, 0, p) = [k \in start |-> p[k]]
  /\ Seen(L, start, n, p) = p

LEMMA FittingSeen ==
  ASSUME NEW kind, NEW start, NEW p, Fitting(kind, start, p)
  PROVE  SeenThrough(Layout[kind], Len(Layout[kind]), start, p)
<1> DEFINE L == Layout[kind]
           n == Len(L)
<1>1. /\ Laid(L) /\ n \in Nat
      /\ \A i \in 1..n : Form(L[i]) /\ InPlace(L[i], L, start, i, p)
      /\ p = [k \in DOMAIN p |-> p[k]] /\ start \subseteq DOMAIN p
      /\ \A k \in DOMAIN p : k \in start \/ Announced(L, n, k) \/ HasRead(L, n, k)
      /\ \A k : Due(L, n, k) => k \in Switches
  BY DEF Fitting, Laid
<1> HIDE DEF L, n
<1>2. ASSUME NEW i \in 1..n
      PROVE  /\ Seen(L, start, i, p) = After(Seen(L, start, i - 1, p), L[i], p)
             /\ L[i][1] = "flags" \/ Knows(Seen(L, start, i - 1, p), L[i], p)
  BY <1>1, SeenNext
<1>3. Seen(L, start, 0, p) = [k \in start |-> p[k]] /\ Seen(L, start, n, p) = p
  BY <1>1, SeenEnds
<1> QED BY <1>1, <1>2, <1>3 DEF L, n, SeenThrough

-----------------------------------------------------------------------------
(* A part is read back from the bytes it was written as.                    *)
Joint(kind, bodies) == FlattenSeq([i \in DOMAIN Layout[kind] |-> bodies[i]])

LEMMA JointIs ==
  ASSUME NEW kind, Laid(Layout[kind]), NEW bodies,
         \A i \in 1..Len(Layout[kind]) : bodies[i] \in Written
  PROVE  \E f \in [0..Len(Layout[kind]) -> Written] :
           /\ JoinsUp(f, Len(Layout[kind]), bodies)
           /\ Joint(kind, bodies) = f[Len(Layout[kind])]
<1> DEFINE n == Len(Layout[kind])
           g == [i \in DOMAIN Layout[kind] |-> bodies[i]]
<1>1. n \in Nat \ {0} /\ DOMAIN Layout[kind] = 1..n
  BY DEF Laid
<1> HIDE DEF n
<1>2. DOMAIN g = 1..n /\ \A i \in 1..n : g[i] = bodies[i]
  BY <1>1
<1>3. Len(g) = n
  BY <1>1
<1> HIDE DEF g
<1>4. \A i \in 1..n : g[i] \in Written
  BY <1>2 DEF n
<1>5. PICK f \in [0..n -> Written] : JoinsUp(f, n, g) /\ FlattenSeq(g) = f[n]
  BY <1>1, <1>2, <1>3, <1>4, FlattenIs
<1>6. JoinsUp(f, n, bodies)
  BY <1>2, <1>5 DEF JoinsUp
<1>7. Joint(kind, bodies) = f[n]
  BY <1>5 DEF Joint, g
<1> QED BY <1>5, <1>6, <1>7 DEF n

LEMMA PartRead ==
  ASSUME NEW kind, NEW p, Fitting(kind, {}, p),
         \A i \in 1..Len(Layout[kind]) : Plain(Layout[kind][i], p)
  PROVE  /\ PartBytes(kind, p) \in Written
         /\ Clean(PartBytes(kind, p)) =>
              /\ PartBytes(kind, p) \in Text
              /\ \A c \in Text : Begins(c, PartBytes(kind, p)) =>
                   ReadPart(kind, c) = Outcome(p, PartBytes(kind, p), c)
<1> DEFINE L == Layout[kind]
           n == Len(L)
           bodies == [i \in DOMAIN L |-> PlainBytes(L[i], p)]
           b == PartBytes(kind, p)
<1>1. Laid(L) /\ n \in Nat \ {0} /\ DOMAIN L = 1..n /\ Acceptable(kind, p)
  BY DEF Fitting, Laid
<1>2. /\ \A i \in 1..n : /\ Seen(L, {}, i, p) = After(Seen(L, {}, i - 1, p), L[i], p)
                         /\ L[i][1] = "flags" \/ Knows(Seen(L, {}, i - 1, p), L[i], p)
      /\ Seen(L, {}, 0, p) = [k \in {} |-> p[k]]
      /\ Seen(L, {}, n, p) = p
  <2>1. SeenThrough(L, n, {}, p)
    BY FittingSeen, Zenon
  <2> HIDE DEF L, n
  <2> QED BY <2>1, Zenon DEF SeenThrough
<1>3. \A i \in 1..n : Plain(L[i], p)
  OBVIOUS
<1>4. b = Joint(kind, bodies)
  BY DEF PartBytes, Joint
<1>5. \A i \in 1..n : bodies[i] = PlainBytes(L[i], p)
  BY <1>1
<1> HIDE DEF bodies
<1>6. \A i \in 1..n : bodies[i] \in Written
  BY <1>3, <1>5, PlainRead, Zenon
<1>7. PICK f \in [0..n -> Written] : JoinsUp(f, n, bodies) /\ b = f[n]
  <2>1. \E f \in [0..n -> Written] : JoinsUp(f, n, bodies) /\ Joint(kind, bodies) = f[n]
    BY <1>1, <1>6, JointIs
  <2> QED BY <1>4, <2>1
<1> HIDE DEF n, L
<1>8. \A i \in 1..n : i \in 0..n /\ i - 1 \in 0..n
  BY <1>1
<1>9. b \in Written /\ n \in 0..n /\ n \in Nat
  BY <1>1, <1>7
<1>10. ASSUME Clean(b), NEW c \in Text, Begins(c, b)
       PROVE  ReadPart(kind, c) = Outcome(p, b, c)
  <2> DEFINE Step(S, i) == ReadPlain(S, L[i])
             Reads(r) == r = [i \in 0..n |-> IF i = 0 THEN {<<Empty, c>>}
                                             ELSE Step(r[i - 1], i)]
             g == CHOOSE r : Reads(r)
             W(i) == Walk(L, {}, p, f, c, i)
             h == [i \in 0..n |-> W(i)]
  <2>1. ReadPart(kind, c) = {st \in g[n] : Acceptable(kind, st[1])}
    BY DEF ReadPart, L, n
  <2>2. /\ f \in [0..n -> Text]
        /\ \A i \in 1..n : bodies[i] \in Text /\ Clean(bodies[i])
        /\ Begins(c, f[n])
    <3>1. Clean(f[n]) /\ Begins(c, f[n])
      BY <1>7, <1>10
    <3>2. /\ \A i \in 0..n : f[i] \in Text
          /\ \A i \in 1..n : bodies[i] \in Text /\ Clean(bodies[i])
      BY <1>6, <1>7, <1>9, <3>1, CleanJoined
    <3> QED BY <1>7, <3>1, <3>2
  <2>3. W(0) = {<<Empty, c>>}
    <3>1. W(0) = {<<Seen(L, {}, 0, p), c>>}
      BY <1>7, <1>9, <2>2, WalkStarts
    <3>2. Seen(L, {}, 0, p) = Empty
      BY <1>2 DEF Empty
    <3> QED BY <3>1, <3>2, Zenon
  <2>4. ASSUME NEW i \in 1..n PROVE W(i) = Step(W(i - 1), i)
    <3> DEFINE y == Drop(c, Len(f[i - 1]))
               q == Seen(L, {}, i - 1, p)
    <3>1. /\ W(i - 1) \in {{}, {<<q, y>>}}
          /\ W(i - 1) = {} => W(i) = {}
          /\ W(i - 1) # {} =>
              /\ y \in Text /\ Begins(y, bodies[i])
              /\ W(i) = IF TooLong(L[i], p) THEN {} ELSE Outcome(Seen(L, {}, i, p), bodies[i], y)
      <4>1. y = Drop(c, Len(f[i - 1])) /\ \A k \in 1..n : bodies[k] \in Text
        BY <2>2
      <4> HIDE DEF y
      <4>2. JoinsUp(f, n, bodies) /\ n \in Nat /\ f \in [0..n -> Text] /\ Begins(c, f[n])
        BY <1>7, <1>9, <2>2
      <4>3. GoesOn(L, {}, p, f, c, i, bodies[i], y)
        BY <4>1, <4>2, WalkGoesOn, Zenon
      <4> HIDE DEF q
      <4> QED BY <4>3 DEF GoesOn, q
    <3>2. ~TooLong(L[i], p)
      <4>1. L[i][1] # "name"
        BY <1>3 DEF Plain, FlagsField, Numeric, RawField
      <4> QED BY <4>1 DEF TooLong
    <3> HIDE DEF W, y, q
    <3>3. CASE W(i - 1) = {}
      <4>1. Step({}, i) = {}
        BY DEF ReadPlain
      <4> HIDE DEF Step
      <4> QED BY <3>1, <3>3, <4>1
    <3>4. CASE W(i - 1) # {}
      <4>1. Step({<<q, y>>}, i) = TakePlain(<<q, y>>, L[i])
        BY DEF ReadPlain
      <4>2. TakePlain(<<q, y>>, L[i]) = Outcome(After(q, L[i], p), bodies[i], y)
        <5>1. /\ Plain(L[i], p) /\ bodies[i] = PlainBytes(L[i], p)
              /\ L[i][1] = "flags" \/ Knows(q, L[i], p)
          BY <1>2, <1>3, <1>5 DEF q
        <5>2. y \in Text /\ Begins(y, PlainBytes(L[i], p)) /\ Clean(PlainBytes(L[i], p))
          BY <2>2, <3>1, <3>4, <5>1
        <5>3. \A r : L[i][1] = "flags" \/ Knows(r, L[i], p) =>
                \A d \in Text : Begins(d, PlainBytes(L[i], p)) =>
                  TakePlain(<<r, d>>, L[i]) = Outcome(After(r, L[i], p), PlainBytes(L[i], p), d)
          BY <5>1, <5>2, PlainRead, Zenon
        <5> QED BY <5>1, <5>2, <5>3, Zenon
      <4>3. After(q, L[i], p) = Seen(L, {}, i, p)
        BY <1>2 DEF q
      <4>4. W(i - 1) = {<<q, y>>}
        BY <3>1, <3>4
      <4> HIDE DEF Step
      <4> QED BY <3>1, <3>2, <3>4, <4>1, <4>2, <4>3, <4>4
    <3> QED BY <3>3, <3>4
  <2> HIDE DEF W, Step
  <2>5. Reads(h)
    <3>1. \A i \in 0..n : h[i] = IF i = 0 THEN {<<Empty, c>>} ELSE Step(h[i - 1], i)
      <4>1. \A i \in 0..n : i # 0 => i \in 1..n /\ i - 1 \in 0..n
        BY <1>9
      <4>2. \A i \in 0..n : h[i] = W(i)
        OBVIOUS
      <4> HIDE DEF h
      <4> QED BY <2>3, <2>4, <4>1, <4>2
    <3>2. h = [i \in 0..n |-> h[i]]
      OBVIOUS
    <3> HIDE DEF h
    <3> QED BY <3>1, <3>2
  <2>6. g[n] = h[n]
    <3>1. Reads(g)
      <4> HIDE DEF Reads, h
      <4> QED BY <2>5
    <3> HIDE DEF g, h
    <3>2. Alike(h, g, n)
      <4>1. /\ h[0] = {<<Empty, c>>} /\ \A i \in 1..n : h[i] = Step(h[i - 1], i)
            /\ g[0] = {<<Empty, c>>} /\ \A i \in 1..n : g[i] = Step(g[i - 1], i)
        <5>1. 0 \in 0..n /\ \A i \in 1..n : i \in 0..n /\ i # 0
          BY <1>9
        <5> QED BY <2>5, <3>1, <5>1
      <4> HIDE DEF Reads
      <4>2. ASSUME NEW i \in 1..n, h[i - 1] = g[i - 1] PROVE h[i] = g[i]
        BY <4>1, <4>2
      <4> QED BY <4>1, <4>2 DEF Alike
    <3> HIDE DEF Reads
    <3> QED BY <1>9, <3>2, Unique
  <2>7. h[n] = Outcome(p, b, c)
    <3>1. NoneTooLong(L, n, p)
      <4>1. \A i \in 1..n : L[i][1] # "name"
        BY <1>3 DEF Plain, FlagsField, Numeric, RawField
      <4> QED BY <4>1 DEF NoneTooLong, TooLong
    <3>2. W(n) = Outcome(p, f[n], c)
      BY <1>2, <1>9, <3>1, WalkEnds DEF W
    <3> QED BY <1>7, <1>9, <3>2
  <2>8. {st \in Outcome(p, b, c) : Acceptable(kind, st[1])} = Outcome(p, b, c)
    <3> HIDE DEF b
    <3> QED BY <1>1 DEF Outcome
  <2> HIDE DEF g, h
  <2> QED BY <2>1, <2>6, <2>7, <2>8, Zenon
<1> HIDE DEF b
<1>11. Clean(b) => b \in Text
  BY <1>9, CleanIsText
<1> QED BY <1>9, <1>10, <1>11 DEF b

-----------------------------------------------------------------------------
(* The other forms of a field.                                              *)
Fitted(kind, m) ==
  Fitting(kind, {}, m) /\ \A i \in 1..Len(Layout[kind]) : Plain(Layout[kind][i], m)

BlobField(f, p) == f[1] = "blob" /\ f[3] \in Nat \ {0} /\ p[f[2]] \in Text
NamedField(f, p) == f[1] = "name" /\ f[3] \in Nat /\ p[f[2]] \in WireNames
PartField(f, p) ==
  f[1] \in {"nested", "framed"} /\ (p[f[2]] = None \/ Fitted(f[3], p[f[2]]))

Sound(f, p) ==
  /\ Plain(f, p) \/ BlobField(f, p) \/ NamedField(f, p) \/ PartField(f, p)
  /\ f[2] # "hop_limit" \/ p[f[2]] # None

FieldMeets(f, p) ==
  /\ FieldBytes(f, p) \in Written
  /\ Clean(FieldBytes(f, p)) =>
       /\ FieldBytes(f, p) \in Text
       /\ \A q : f[1] = "flags" \/ Knows(q, f, p) =>
            \A c \in Text : Begins(c, FieldBytes(f, p)) =>
              TakeField(<<q, c>>, f)
                = IF TooLong(f, p) THEN {} ELSE Outcome(After(q, f, p), FieldBytes(f, p), c)

LEMMA PlainMeets == ASSUME NEW f, NEW p, Plain(f, p) PROVE FieldMeets(f, p)
<1> DEFINE b == PlainBytes(f, p)
<1>1. FieldBytes(f, p) = b /\ b \in Written /\ \A st : TakeField(st, f) = TakePlain(st, f)
  BY PlainRead, Zenon
<1>2. Clean(b) => /\ b \in Text
                  /\ \A q : f[1] = "flags" \/ Knows(q, f, p) =>
                       \A c \in Text : Begins(c, b) =>
                         TakePlain(<<q, c>>, f) = Outcome(After(q, f, p), b, c)
  BY PlainRead, Zenon
<1>3. ~TooLong(f, p)
  BY DEF TooLong, Plain, FlagsField, Numeric, RawField
<1> HIDE DEF b
<1> QED BY <1>1, <1>2, <1>3 DEF FieldMeets

(* A field that is there, whatever its form: taken is what its reader takes.*)
LEMMA TakenMeets ==
  ASSUME NEW f, NEW p, f[1] # "flags", ~TooLong(f, p), NEW b, b = FieldBytes(f, p),
         b \in Written, Clean(b) => b \in Text,
         \A q, c : Clean(b) /\ c \in Text /\ Begins(c, b) /\ Knows(q, f, p)
           => TakeField(<<q, c>>, f) = Into(<<q, c>>, f[2], Outcome(p[f[2]], b, c))
  PROVE  FieldMeets(f, p)
<1>1. ASSUME Clean(b), NEW q, Knows(q, f, p), NEW c \in Text, Begins(c, b)
      PROVE  TakeField(<<q, c>>, f) = Outcome(After(q, f, p), b, c)
  <2>1. TakeField(<<q, c>>, f) = Into(<<q, c>>, f[2], Outcome(p[f[2]], b, c))
    BY <1>1
  <2>2. After(q, f, p) = With(q, f[2], p[f[2]])
    BY DEF After
  <2>3. Into(<<q, c>>, f[2], Outcome(p[f[2]], b, c)) = Outcome(With(q, f[2], p[f[2]]), b, c)
    BY IntoIs
  <2> QED BY <2>1, <2>2, <2>3
<1> QED BY <1>1 DEF FieldMeets

LEMMA SkipsMeets ==
  ASSUME NEW f, NEW p, Skips(f, p), f[2] # "hop_limit" PROVE FieldMeets(f, p)
<1>1. f[1] # "flags" /\ ~TooLong(f, p)
  BY DEF Skips, TooLong
<1>2. <<>> \in Text /\ <<>> \in Written
  <2>1. <<>> \in Text
    BY DEF Text
  <2> QED BY <2>1, TextIsClean
<1>3. ASSUME NEW q, Knows(q, f, p)
      PROVE  /\ FieldBytes(f, p) = <<>>
             /\ \A c \in Text :
                  TakeField(<<q, c>>, f) = Outcome(With(q, f[2], p[f[2]]), <<>>, c)
  BY <1>3, SkippedRead
<1>4. FieldBytes(f, p) = <<>>
  <2>1. CASE f[1] \in {"nested", "framed"}
    <3>1. f[1] # "name" /\ f[1] # "blob" /\ p[f[2]] = None
      BY <2>1 DEF Skips
    <3> QED BY <2>1, <3>1 DEF FieldBytes
  <2>2. CASE f[1] \in {"num", "raw"}
    <3>1. f[1] # "name" /\ f[1] # "blob" /\ f[1] # "nested" /\ f[1] # "framed"
          /\ f[1] # "flags" /\ p[f[2]] = None
      BY <2>2 DEF Skips
    <3> QED BY <3>1 DEF FieldBytes, PlainBytes
  <2> QED BY <2>1, <2>2 DEF Skips
<1>5. \A q : After(q, f, p) = With(q, f[2], p[f[2]])
  BY <1>1 DEF After
<1> QED BY <1>1, <1>2, <1>3, <1>4, <1>5 DEF FieldMeets

LEMMA BlobMeets == ASSUME NEW f, NEW p, BlobField(f, p) PROVE FieldMeets(f, p)
<1> DEFINE v == p[f[2]]
           b == FieldBytes(f, p)
<1>1. f[1] = "blob" /\ f[3] \in Nat /\ f[3] # 0 /\ v \in Text
  BY DEF BlobField
<1>2. b = Sized(v, f[3])
  BY <1>1 DEF FieldBytes
<1>3. b \in Written /\ (Clean(b) => b \in Text /\ \A c \in Text :
        Begins(c, b) => TakeFramed(TakeNum(c, f[3])) = Outcome(v, b, c))
  <2> DEFINE w == f[3]
             x == Sized(v, w)
  <2>1. v \in Text /\ w \in Nat /\ b = x
    BY <1>1, <1>2
  <2> HIDE DEF v, w, b
  <2>2. x \in Written /\ (Clean(x) => x \in Text /\ \A c \in Text :
          Begins(c, x) => TakeFramed(TakeNum(c, w)) = Outcome(v, x, c))
    BY <2>1, SizedRead
  <2> HIDE DEF x
  <2> QED BY <2>1, <2>2 DEF w
<1>4. f[1] # "flags" /\ ~TooLong(f, p) /\ ~Skips(f, p)
  BY <1>1 DEF TooLong, Skips
<1>5. ASSUME NEW q, NEW c, Clean(b), c \in Text, Begins(c, b), Knows(q, f, p)
      PROVE  TakeField(<<q, c>>, f) = Into(<<q, c>>, f[2], Outcome(v, b, c))
  <2>1. ~Absent(<<q, c>>, f[2])
    BY <1>4, <1>5, AbsentIs
  <2>2. TakeField(<<q, c>>, f) = Into(<<q, c>>, f[2], TakeFramed(TakeNum(c, f[3])))
    BY <1>1, <2>1 DEF TakeField
  <2> QED BY <1>3, <1>5, <2>2
<1>6. b = FieldBytes(f, p)
  OBVIOUS
<1> HIDE DEF b
<1> QED BY <1>3, <1>4, <1>5, <1>6, TakenMeets

LEMMA NestedMeets ==
  ASSUME NEW f, NEW p, f[1] = "nested", p[f[2]] # None, Fitted(f[3], p[f[2]])
  PROVE  FieldMeets(f, p)
<1> DEFINE v == p[f[2]]
           b == FieldBytes(f, p)
<1>2. b = PartBytes(f[3], v)
  BY DEF FieldBytes
<1>3. b \in Written /\ (Clean(b) => b \in Text /\ \A c \in Text :
        Begins(c, b) => ReadPart(f[3], c) = Outcome(v, b, c))
  BY <1>2, PartRead, Zenon DEF Fitted
<1>4. f[1] # "flags" /\ ~TooLong(f, p) /\ ~Skips(f, p)
  BY DEF TooLong, Skips
<1>5. ASSUME NEW q, NEW c, Clean(b), c \in Text, Begins(c, b), Knows(q, f, p)
      PROVE  TakeField(<<q, c>>, f) = Into(<<q, c>>, f[2], Outcome(v, b, c))
  <2>1. ~Absent(<<q, c>>, f[2])
    BY <1>4, <1>5, AbsentIs
  <2>2. TakeField(<<q, c>>, f) = Into(<<q, c>>, f[2], ReadPart(f[3], c))
    BY <2>1 DEF TakeField
  <2> QED BY <1>3, <1>5, <2>2
<1>6. b = FieldBytes(f, p)
  OBVIOUS
<1> HIDE DEF b
<1> QED BY <1>3, <1>4, <1>5, <1>6, TakenMeets

-----------------------------------------------------------------------------
(* Bytes behind their length, which is a varint where w is 0.               *)
Boxed(x, w) == IF w = 0 THEN Framed(x) ELSE Sized(x, w)

TakeBox(c, w) == TakeFramed(IF w = 0 THEN ReadVarint(c) ELSE TakeNum(c, w))

LEMMA BoxRead ==
  ASSUME NEW x \in Written, NEW w \in Nat
  PROVE  /\ Boxed(x, w) \in Written
         /\ Clean(Boxed(x, w)) =>
              /\ Clean(x) /\ x \in Text /\ Boxed(x, w) \in Text
              /\ \A c \in Text : Begins(c, Boxed(x, w))
                                 => TakeBox(c, w) = Outcome(x, Boxed(x, w), c)
<1> DEFINE h == IF w = 0 THEN WriteVarint(Len(x)) ELSE PackNum(Len(x), w)
           b == Boxed(x, w)
<1>1. Len(x) \in Nat
  BY DEF Written
<1>2. h \in Written
  BY <1>1, VarintRead, NumWritten
<1>3. b = h \o x
  BY DEF Boxed, Framed, Sized
<1> HIDE DEF h
<1>4. b \in Written /\ (Clean(b) => Clean(x) /\ x \in Text)
  BY <1>2, <1>3, CleanBoth, CleanIsText
<1>5. ASSUME Clean(b)
      PROVE  b \in Text /\ \A c \in Text : Begins(c, b) => TakeBox(c, w) = Outcome(x, b, c)
  <2>1. x \in Text
    BY <1>4, <1>5
  <2>2. CASE w = 0
    <3>1. b = Framed(x)
      BY <2>2 DEF Boxed
    <3> HIDE DEF b
    <3>2. b \in Text /\ \A c \in Text : Begins(c, b) => TakeFramed(ReadVarint(c)) = Outcome(x, b, c)
      BY <1>5, <2>1, <3>1, FrameRead
    <3>3. \A c : TakeBox(c, w) = TakeFramed(ReadVarint(c))
      BY <2>2 DEF TakeBox
    <3> QED BY <3>2, <3>3
  <2>3. CASE w # 0
    <3>1. b = Sized(x, w)
      BY <2>3 DEF Boxed
    <3> HIDE DEF b
    <3>2. b \in Text /\ \A c \in Text : Begins(c, b) => TakeFramed(TakeNum(c, w)) = Outcome(x, b, c)
      BY <1>5, <2>1, <3>1, SizedRead
    <3>3. \A c : TakeBox(c, w) = TakeFramed(TakeNum(c, w))
      BY <2>3 DEF TakeBox
    <3> QED BY <3>2, <3>3
  <2> QED BY <2>2, <2>3
<1> HIDE DEF b
<1> QED BY <1>4, <1>5 DEF b

LEMMA NamedMeets == ASSUME NEW f, NEW p, NamedField(f, p) PROVE FieldMeets(f, p)
<1> DEFINE v == p[f[2]]
           w == f[3]
           x == NameBytes(v)
           b == FieldBytes(f, p)
           long == ~(Len(v.components) <= MaxComponents)
<1>1. f[1] = "name" /\ w \in Nat /\ v \in WireNames
  BY DEF NamedField
<1>2. b = Boxed(x, w)
  BY <1>1 DEF FieldBytes, Boxed
<1>3. x \in Written /\ (Clean(x) => ParseName(x) = IF long THEN {} ELSE {v})
  <2>1. x \in Written /\ (Clean(x) => ParseName(x)
                            = IF Len(v.components) <= MaxComponents THEN {v} ELSE {})
    BY <1>1, NameRead
  <2> HIDE DEF x
  <2> QED BY <2>1
<1>4. /\ b \in Written
      /\ Clean(b) => /\ Clean(x) /\ b \in Text
                     /\ \A c \in Text : Begins(c, b) => TakeBox(c, w) = Outcome(x, b, c)
  <2> HIDE DEF x, w, b
  <2> QED BY <1>1, <1>2, <1>3, BoxRead
<1>5. f[1] # "flags" /\ ~Skips(f, p) /\ (TooLong(f, p) <=> long)
  BY <1>1 DEF TooLong, Skips
<1>6. ASSUME Clean(b), NEW q, Knows(q, f, p), NEW c \in Text, Begins(c, b)
      PROVE  TakeField(<<q, c>>, f)
               = IF TooLong(f, p) THEN {} ELSE Outcome(After(q, f, p), b, c)
  <2> DEFINE inner(S) == UNION {{<<n, y[2]>> : n \in ParseName(y[1])} : y \in S}
             d == Drop(c, Len(b))
  <2>1. ~Absent(<<q, c>>, f[2])
    BY <1>5, <1>6, AbsentIs
  <2>2. TakeField(<<q, c>>, f) = Into(<<q, c>>, f[2], inner(TakeBox(c, w)))
    BY <1>1, <2>1 DEF TakeField, TakeBox
  <2>3. TakeBox(c, w) = Outcome(x, b, c) /\ ParseName(x) = IF long THEN {} ELSE {v}
    BY <1>3, <1>4, <1>6
  <2>4. inner(Outcome(x, b, c)) = IF long THEN {} ELSE Outcome(v, b, c)
    <3>1. inner({<<x, d>>}) = {<<n, d>> : n \in ParseName(x)}
      OBVIOUS
    <3>2. {<<n, d>> : n \in {}} = {} /\ {<<n, d>> : n \in {v}} = {<<v, d>>}
      OBVIOUS
    <3>3. inner({}) = {}
      OBVIOUS
    <3> HIDE DEF inner, x, v, long, b, d
    <3>4. inner({<<x, d>>}) = IF long THEN {} ELSE {<<v, d>>}
      BY <2>3, <3>1, <3>2
    <3> QED BY <3>3, <3>4 DEF Outcome, d
  <2>5. Into(<<q, c>>, f[2], {}) = {}
    BY DEF Into
  <2>6. Into(<<q, c>>, f[2], Outcome(v, b, c)) = Outcome(With(q, f[2], v), b, c)
    BY IntoIs
  <2>7. After(q, f, p) = With(q, f[2], v)
    BY <1>5 DEF After
  <2> HIDE DEF inner, b, long, v, x
  <2> QED BY <1>5, <2>2, <2>3, <2>4, <2>5, <2>6, <2>7
<1> HIDE DEF x
<1> QED BY <1>4, <1>5, <1>6 DEF FieldMeets

LEMMA FramedMeets ==
  ASSUME NEW f, NEW p, f[1] = "framed", p[f[2]] # None, Fitted(f[3], p[f[2]])
  PROVE  FieldMeets(f, p)
<1> DEFINE v == p[f[2]]
           x == PartBytes(f[3], v)
           b == FieldBytes(f, p)
<1>1. b = Boxed(x, 0)
  BY DEF FieldBytes, Boxed
<1>2. x \in Written /\ (Clean(x) => x \in Text /\ ReadPart(f[3], x) = {<<v, <<>> >>})
  <2>1. x \in Written /\ (Clean(x) => x \in Text /\ \A c \in Text :
          Begins(c, x) => ReadPart(f[3], c) = Outcome(v, x, c))
    BY PartRead, Zenon DEF Fitted
  <2>2. ASSUME Clean(x) PROVE x \in Text /\ ReadPart(f[3], x) = {<<v, <<>> >>}
    <3>1. x \in Text
      BY <2>1, <2>2
    <3> HIDE DEF x
    <3>2. Begins(x, x) /\ Drop(x, Len(x)) = <<>> /\ Len(x) <= Len(x)
      BY <3>1, ItsOwnStart DEF Text
    <3>3. ReadPart(f[3], x) = Outcome(v, x, x)
      BY <2>1, <2>2, <3>1, <3>2
    <3>4. Outcome(v, x, x) = {<<v, <<>> >>}
      BY <3>2 DEF Outcome
    <3> QED BY <3>1, <3>3, <3>4
  <2> QED BY <2>1, <2>2
<1>3. /\ b \in Written
      /\ Clean(b) => /\ Clean(x) /\ b \in Text
                     /\ \A c \in Text : Begins(c, b) => TakeBox(c, 0) = Outcome(x, b, c)
  <2> HIDE DEF x, b
  <2>1. 0 \in Nat
    OBVIOUS
  <2> QED BY <1>1, <1>2, <2>1, BoxRead
<1>4. f[1] # "flags" /\ ~TooLong(f, p) /\ ~Skips(f, p)
  BY DEF TooLong, Skips
<1>5. ASSUME NEW q, NEW c, Clean(b), c \in Text, Begins(c, b), Knows(q, f, p)
      PROVE  TakeField(<<q, c>>, f) = Into(<<q, c>>, f[2], Outcome(v, b, c))
  <2> DEFINE inner(S) == UNION {{<<m[1], y[2]>> : m \in ReadPart(f[3], y[1])} : y \in S}
             d == Drop(c, Len(b))
  <2>1. ~Absent(<<q, c>>, f[2])
    BY <1>4, <1>5, AbsentIs
  <2>2. TakeField(<<q, c>>, f) = Into(<<q, c>>, f[2], inner(TakeBox(c, 0)))
    BY <2>1 DEF TakeField, TakeBox
  <2>3. TakeBox(c, 0) = Outcome(x, b, c) /\ ReadPart(f[3], x) = {<<v, <<>> >>}
    BY <1>2, <1>3, <1>5
  <2>4. inner(Outcome(x, b, c)) = Outcome(v, b, c)
    <3>1. inner({<<x, d>>}) = {<<m[1], d>> : m \in ReadPart(f[3], x)}
      OBVIOUS
    <3>2. {<<m[1], d>> : m \in {<<v, <<>> >>}} = {<<v, d>>}
      OBVIOUS
    <3>3. inner({}) = {}
      OBVIOUS
    <3> HIDE DEF inner, x, v, b, d
    <3>4. inner({<<x, d>>}) = {<<v, d>>}
      BY <2>3, <3>1, <3>2
    <3> QED BY <3>3, <3>4 DEF Outcome, d
  <2> HIDE DEF inner, b, v, x
  <2> QED BY <2>2, <2>3, <2>4
<1>6. b = FieldBytes(f, p)
  OBVIOUS
<1> HIDE DEF b, x
<1> QED BY <1>3, <1>4, <1>5, <1>6, TakenMeets

LEMMA FieldRead == ASSUME NEW f, NEW p, Sound(f, p) PROVE FieldMeets(f, p)
<1>1. CASE Plain(f, p)
  BY <1>1, PlainMeets
<1>2. CASE BlobField(f, p)
  BY <1>2, BlobMeets
<1>3. CASE NamedField(f, p)
  BY <1>3, NamedMeets
<1>4. CASE PartField(f, p)
  <2>1. CASE p[f[2]] = None
    <3>1. Skips(f, p) /\ f[2] # "hop_limit"
      BY <1>4, <2>1 DEF PartField, Skips, Sound
    <3> QED BY <3>1, SkipsMeets
  <2>2. CASE p[f[2]] # None
    BY <1>4, <2>2, NestedMeets, FramedMeets DEF PartField
  <2> QED BY <2>1, <2>2
<1> QED BY <1>1, <1>2, <1>3, <1>4 DEF Sound

-----------------------------------------------------------------------------
(* A packet is read back from the bytes of its fields.                      *)
Packed(kind, p) ==
  Joint(kind, [i \in DOMAIN Layout[kind] |-> FieldBytes(Layout[kind][i], p)])

NamesAre(L) == \A i \in 1..Len(L) : L[i][1] = "name" <=> L[i][2] \in {"name", "prefix"}

Conforms(kind, p) ==
  /\ p.kind = kind /\ Fitting(kind, {"kind"}, p) /\ NamesAre(Layout[kind])
  /\ \A i \in 1..Len(Layout[kind]) : Sound(Layout[kind][i], p)

LEMMA BodyRead ==
  ASSUME NEW kind, NEW p, Conforms(kind, p)
  PROVE  /\ Packed(kind, p) \in Written
         /\ Clean(Packed(kind, p)) =>
              /\ Packed(kind, p) \in Text
              /\ \A c \in Text : Begins(c, Packed(kind, p)) =>
                   ReadBody(kind, c)
                     = IF /\ NoneTooLong(Layout[kind], Len(Layout[kind]), p)
                          /\ Len(Packed(kind, p)) <= Len(c)
                         THEN {p} ELSE {}
<1> DEFINE L == Layout[kind]
           n == Len(L)
           s == {"kind"}
           bodies == [i \in DOMAIN L |-> FieldBytes(L[i], p)]
           b == Packed(kind, p)
           N == NoneTooLong(L, n, p)
<1>1. Laid(L) /\ n \in Nat \ {0} /\ DOMAIN L = 1..n /\ Acceptable(kind, p) /\ p.kind = kind
  BY DEF Conforms, Fitting, Laid
<1>2. /\ \A i \in 1..n : /\ Seen(L, s, i, p) = After(Seen(L, s, i - 1, p), L[i], p)
                         /\ L[i][1] = "flags" \/ Knows(Seen(L, s, i - 1, p), L[i], p)
      /\ Seen(L, s, 0, p) = [k \in s |-> p[k]]
      /\ Seen(L, s, n, p) = p
  <2>1. Fitting(kind, s, p)
    BY DEF Conforms
  <2>2. SeenThrough(L, n, s, p)
    BY <2>1, FittingSeen, Zenon
  <2> HIDE DEF L, n, s
  <2> QED BY <2>2, Zenon DEF SeenThrough
<1>3. \A i \in 1..n : Sound(L[i], p)
  BY DEF Conforms
<1>4. b = Joint(kind, bodies)
  BY DEF Packed
<1>5. \A i \in 1..n : bodies[i] = FieldBytes(L[i], p)
  BY <1>1
<1> HIDE DEF bodies
<1>6. \A i \in 1..n : bodies[i] \in Written /\ FieldMeets(L[i], p)
  <2>1. \A i \in 1..n : FieldMeets(L[i], p)
    BY <1>3, FieldRead, Zenon
  <2> QED BY <1>5, <2>1, Zenon DEF FieldMeets
<1>7. PICK f \in [0..n -> Written] : JoinsUp(f, n, bodies) /\ b = f[n]
  <2>1. \E f \in [0..n -> Written] : JoinsUp(f, n, bodies) /\ Joint(kind, bodies) = f[n]
    BY <1>1, <1>6, JointIs
  <2> QED BY <1>4, <2>1
<1> HIDE DEF n, L
<1>8. [k \in s |-> p[k]] = [kind |-> kind]
  BY <1>1
<1>9. b \in Written /\ n \in 0..n /\ n \in Nat
  BY <1>1, <1>7
<1> HIDE DEF s
<1>10. ASSUME Clean(b), NEW c \in Text, Begins(c, b)
       PROVE  ReadBody(kind, c) = IF N /\ Len(b) <= Len(c) THEN {p} ELSE {}
  <2> DEFINE Step(S, i) == ReadField(S, L[i])
             first == {<<[kind |-> kind], c>>}
             Reads(r) == r = [i \in 0..n |-> IF i = 0 THEN first ELSE Step(r[i - 1], i)]
             g == CHOOSE r : Reads(r)
             W(i) == Walk(L, s, p, f, c, i)
             h == [i \in 0..n |-> W(i)]
  <2>1. ReadBody(kind, c) = {x \in {st[1] : st \in g[n]} : Acceptable(kind, x)}
    BY DEF ReadBody, L, n
  <2>2. /\ f \in [0..n -> Text]
        /\ \A i \in 1..n : bodies[i] \in Text /\ Clean(bodies[i])
        /\ Begins(c, f[n])
    <3>1. Clean(f[n]) /\ Begins(c, f[n])
      BY <1>7, <1>10
    <3>2. /\ \A i \in 0..n : f[i] \in Text
          /\ \A i \in 1..n : bodies[i] \in Text /\ Clean(bodies[i])
      BY <1>6, <1>7, <1>9, <3>1, CleanJoined
    <3> QED BY <1>7, <3>1, <3>2
  <2>3. W(0) = first
    <3>1. W(0) = {<<Seen(L, s, 0, p), c>>}
      BY <1>7, <1>9, <2>2, WalkStarts
    <3>2. Seen(L, s, 0, p) = [kind |-> kind]
      BY <1>2, <1>8, Zenon
    <3> QED BY <3>1, <3>2, Zenon
  <2> HIDE DEF first
  <2>4. ASSUME NEW i \in 1..n PROVE W(i) = Step(W(i - 1), i)
    <3> DEFINE y == Drop(c, Len(f[i - 1]))
               q == Seen(L, s, i - 1, p)
    <3>1. /\ W(i - 1) \in {{}, {<<q, y>>}}
          /\ W(i - 1) = {} => W(i) = {}
          /\ W(i - 1) # {} =>
              /\ y \in Text /\ Begins(y, bodies[i])
              /\ W(i) = IF TooLong(L[i], p) THEN {} ELSE Outcome(Seen(L, s, i, p), bodies[i], y)
      <4>1. y = Drop(c, Len(f[i - 1])) /\ \A k \in 1..n : bodies[k] \in Text
        BY <2>2
      <4> HIDE DEF y
      <4>2. JoinsUp(f, n, bodies) /\ n \in Nat /\ f \in [0..n -> Text] /\ Begins(c, f[n])
        BY <1>7, <1>9, <2>2
      <4>3. GoesOn(L, s, p, f, c, i, bodies[i], y)
        BY <4>1, <4>2, WalkGoesOn, Zenon
      <4> HIDE DEF q
      <4> QED BY <4>3 DEF GoesOn, q
    <3> HIDE DEF W, y, q
    <3>2. CASE W(i - 1) = {}
      <4>1. Step({}, i) = {}
        BY DEF ReadField
      <4> HIDE DEF Step
      <4> QED BY <3>1, <3>2, <4>1
    <3>3. CASE W(i - 1) # {}
      <4>1. Step({<<q, y>>}, i) = TakeField(<<q, y>>, L[i])
        BY DEF ReadField
      <4>2. TakeField(<<q, y>>, L[i])
              = IF TooLong(L[i], p) THEN {} ELSE Outcome(After(q, L[i], p), bodies[i], y)
        <5>1. /\ FieldMeets(L[i], p) /\ bodies[i] = FieldBytes(L[i], p)
              /\ L[i][1] = "flags" \/ Knows(q, L[i], p)
          BY <1>2, <1>5, <1>6 DEF q
        <5>2. y \in Text /\ Begins(y, FieldBytes(L[i], p)) /\ Clean(FieldBytes(L[i], p))
          BY <2>2, <3>1, <3>3, <5>1
        <5> QED BY <5>1, <5>2 DEF FieldMeets
      <4>3. After(q, L[i], p) = Seen(L, s, i, p)
        BY <1>2 DEF q
      <4>4. W(i - 1) = {<<q, y>>}
        BY <3>1, <3>3
      <4> HIDE DEF Step
      <4> QED BY <3>1, <3>3, <4>1, <4>2, <4>3, <4>4
    <3> QED BY <3>2, <3>3
  <2> HIDE DEF W, Step
  <2>5. Reads(h)
    <3>1. \A i \in 0..n : h[i] = IF i = 0 THEN first ELSE Step(h[i - 1], i)
      <4>1. \A i \in 0..n : i # 0 => i \in 1..n /\ i - 1 \in 0..n
        BY <1>9
      <4>2. \A i \in 0..n : h[i] = W(i)
        OBVIOUS
      <4> HIDE DEF h
      <4> QED BY <2>3, <2>4, <4>1, <4>2
    <3>2. h = [i \in 0..n |-> h[i]]
      OBVIOUS
    <3> HIDE DEF h
    <3> QED BY <3>1, <3>2
  <2>6. g[n] = h[n]
    <3>1. Reads(g)
      <4> HIDE DEF Reads, h
      <4> QED BY <2>5
    <3> HIDE DEF g, h
    <3>2. Alike(h, g, n)
      <4>1. /\ h[0] = first /\ \A i \in 1..n : h[i] = Step(h[i - 1], i)
            /\ g[0] = first /\ \A i \in 1..n : g[i] = Step(g[i - 1], i)
        <5>1. 0 \in 0..n /\ \A i \in 1..n : i \in 0..n /\ i # 0
          BY <1>9
        <5> QED BY <2>5, <3>1, <5>1
      <4> HIDE DEF Reads
      <4>2. ASSUME NEW i \in 1..n, h[i - 1] = g[i - 1] PROVE h[i] = g[i]
        BY <4>1, <4>2
      <4> QED BY <4>1, <4>2 DEF Alike
    <3> HIDE DEF Reads
    <3> QED BY <1>9, <3>2, Unique
  <2>7. h[n] = IF N THEN Outcome(p, b, c) ELSE {}
    <3>1. W(n) = IF N THEN Outcome(p, f[n], c) ELSE {}
      BY <1>2, <1>9, WalkEnds DEF W, L, n
    <3> HIDE DEF N
    <3> QED BY <1>7, <1>9, <3>1
  <2>8. {x \in {st[1] : st \in Outcome(p, b, c)} : Acceptable(kind, x)}
          = IF Len(b) <= Len(c) THEN {p} ELSE {}
    <3>1. CASE Len(b) <= Len(c)
      <4>1. {st[1] : st \in {<<p, Drop(c, Len(b))>>}} = {p}
        OBVIOUS
      <4>2. {x \in {p} : Acceptable(kind, x)} = {p}
        BY <1>1
      <4> HIDE DEF b
      <4> QED BY <3>1, <4>1, <4>2 DEF Outcome
    <3>2. CASE ~(Len(b) <= Len(c))
      <4> HIDE DEF b
      <4> QED BY <3>2 DEF Outcome
    <3> QED BY <3>1, <3>2
  <2>9. {x \in {st[1] : st \in {}} : Acceptable(kind, x)} = {}
    OBVIOUS
  <2> HIDE DEF g, h, N, b
  <2> QED BY <2>1, <2>6, <2>7, <2>8, <2>9
<1> HIDE DEF b, N
<1>11. Clean(b) => b \in Text
  BY <1>9, CleanIsText
<1> QED BY <1>9, <1>10, <1>11 DEF b, N, n, L

-----------------------------------------------------------------------------
(* Every layout has at most one flags byte.  t is its place, 0 if there is  *)
(* none; Spoken(L, t) are the keys it speaks of.                            *)
Spoken(L, t) == IF t = 0 THEN {} ELSE Listed(L[t][3])

WellOrdered(L, t, start) ==
  /\ \A i \in 1..Len(L) : Form(L[i]) /\ (L[i][1] = "flags" <=> i = t)
  /\ \A i, j \in (1..Len(L)) \ {t} : L[i][2] = L[j][2] => i = j
  /\ \A i \in (1..Len(L)) \ {t} :
       /\ L[i][2] \notin start \cup Switches
       /\ L[i][2] \in Spoken(L, t) => t < i /\ L[i][1] \notin {"name", "blob"}
  /\ \A k \in Spoken(L, t) :
       k \notin start /\ (k \in Switches \/ \E i \in (1..Len(L)) \ {t} : L[i][2] = k)

Comprises(L, t, start, p) ==
  /\ p = [k \in DOMAIN p |-> p[k]]
  /\ start \subseteq DOMAIN p /\ Spoken(L, t) \subseteq DOMAIN p
  /\ \A i \in (1..Len(L)) \ {t} :
       L[i][2] \in DOMAIN p /\ (L[i][2] \in Spoken(L, t) \/ ~Skips(L[i], p))
  /\ \A k \in DOMAIN p :
       k \in start \cup Spoken(L, t) \/ \E i \in (1..Len(L)) \ {t} : L[i][2] = k

LEMMA WellOrderedFits ==
  ASSUME NEW kind, NEW t \in 0..Len(Layout[kind]), NEW start, NEW p, Laid(Layout[kind]),
         WellOrdered(Layout[kind], t, start), Comprises(Layout[kind], t, start, p),
         Acceptable(kind, p)
  PROVE  Fitting(kind, start, p)
<1> DEFINE L == Layout[kind]
           n == Len(L)
           K == Spoken(L, t)
<1>1. /\ n \in Nat \ {0} /\ t \in 0..n
      /\ \A i \in 1..n : Form(L[i]) /\ (L[i][1] = "flags" <=> i = t)
      /\ \A i, j \in (1..n) \ {t} : L[i][2] = L[j][2] => i = j
      /\ \A i \in (1..n) \ {t} : /\ L[i][2] \notin start \cup Switches
                                 /\ L[i][2] \in K => t < i /\ L[i][1] \notin {"name", "blob"}
      /\ \A k \in K : k \notin start /\ (k \in Switches \/ \E i \in (1..n) \ {t} : L[i][2] = k)
  BY DEF Laid, WellOrdered
<1>2. /\ p = [k \in DOMAIN p |-> p[k]] /\ start \subseteq DOMAIN p /\ K \subseteq DOMAIN p
      /\ \A i \in (1..n) \ {t} : L[i][2] \in DOMAIN p /\ (L[i][2] \in K \/ ~Skips(L[i], p))
      /\ \A k \in DOMAIN p : k \in start \cup K \/ \E i \in (1..n) \ {t} : L[i][2] = k
  BY DEF Comprises
<1>3. t # 0 => K = Listed(L[t][3]) /\ t \in 1..n
  BY <1>1 DEF Spoken
<1>4. t = 0 => K = {}
  BY DEF Spoken
<1> HIDE DEF L, n, K
<1>5. \A i \in 0..n : \A k : /\ Announced(L, i, k) <=> t # 0 /\ t <= i /\ k \in K
                             /\ HasRead(L, i, k) <=> \E j \in (1..n) \ {t} : j <= i /\ L[j][2] = k
  <2> SUFFICES ASSUME NEW i \in 0..n, NEW k
               PROVE  /\ Announced(L, i, k) <=> t # 0 /\ t <= i /\ k \in K
                      /\ HasRead(L, i, k) <=> \E j \in (1..n) \ {t} : j <= i /\ L[j][2] = k
    OBVIOUS
  <2>1. \A j : j \in 1..i <=> j \in 1..n /\ j <= i
    BY <1>1
  <2>2. \A j \in 1..n : L[j][1] = "flags" <=> j = t
    BY <1>1
  <2>3. Announced(L, i, k) <=> t # 0 /\ t <= i /\ k \in K
    <3>1. ASSUME Announced(L, i, k) PROVE t # 0 /\ t <= i /\ k \in K
      <4>1. PICK j \in 1..i : L[j][1] = "flags" /\ k \in Listed(L[j][3])
        BY <3>1 DEF Announced
      <4>2. j = t /\ t # 0 /\ t <= i
        BY <1>1, <2>1, <2>2, <4>1
      <4> QED BY <1>3, <4>1, <4>2
    <3>2. ASSUME t # 0, t <= i, k \in K PROVE Announced(L, i, k)
      <4>1. t \in 1..i /\ L[t][1] = "flags" /\ k \in Listed(L[t][3])
        BY <1>3, <2>1, <2>2, <3>2
      <4> QED BY <4>1 DEF Announced
    <3> QED BY <3>1, <3>2
  <2>4. HasRead(L, i, k) <=> \E j \in (1..n) \ {t} : j <= i /\ L[j][2] = k
    BY <2>1, <2>2 DEF HasRead
  <2> QED BY <2>3, <2>4
<1>6. ASSUME NEW i \in 1..n PROVE Form(L[i]) /\ InPlace(L[i], L, start, i, p)
  <2>1. i - 1 \in 0..n /\ \A j \in 1..n : j <= i - 1 <=> j < i
    BY <1>1
  <2>2. \A k : HasRead(L, i - 1, k) <=> \E j \in (1..n) \ {t} : j < i /\ L[j][2] = k
    BY <1>5, <2>1
  <2>3. \A k : Announced(L, i - 1, k) <=> t # 0 /\ t < i /\ k \in K
    BY <1>1, <1>5, <2>1
  <2>4. CASE i = t
    <3>1. L[i][1] = "flags" /\ Listed(L[i][3]) = K
      BY <1>1, <1>3, <2>4
    <3>2. ASSUME NEW k \in K PROVE k \in DOMAIN p \ start /\ ~HasRead(L, i - 1, k)
      <4>1. k \in DOMAIN p /\ k \notin start
        BY <1>1, <1>2
      <4>2. ~HasRead(L, i - 1, k)
        BY <1>1, <2>2, <2>4
      <4> QED BY <4>1, <4>2
    <3> QED BY <1>1, <3>1, <3>2 DEF InPlace, FlagsInPlace
  <2>5. CASE i # t
    <3> DEFINE m == L[i][2]
    <3>1. L[i][1] # "flags" /\ i \in (1..n) \ {t}
      BY <1>1, <2>5
    <3>2. m \in DOMAIN p \ (start \cup Switches)
      BY <1>1, <1>2, <3>1
    <3>3. ~HasRead(L, i - 1, m)
      BY <1>1, <2>2, <3>1
    <3>4. Announced(L, i - 1, m) => L[i][1] \notin {"name", "blob"}
      BY <1>1, <2>3, <3>1
    <3>5. ~Announced(L, i - 1, m) => ~Skips(L[i], p)
      BY <1>1, <1>2, <1>4, <2>3, <3>1
    <3> QED BY <1>1, <3>1, <3>2, <3>3, <3>4, <3>5 DEF InPlace, ValueInPlace
  <2> QED BY <2>4, <2>5
<1>7. n \in 0..n /\ \A j \in 1..n : j <= n
  BY <1>1
<1>8. \A k \in DOMAIN p : k \in start \/ Announced(L, n, k) \/ HasRead(L, n, k)
  BY <1>1, <1>2, <1>4, <1>5, <1>7
<1>9. \A k : Due(L, n, k) => k \in Switches
  BY <1>1, <1>5, <1>7 DEF Due
<1> QED BY <1>2, <1>6, <1>8, <1>9 DEF Fitting, L, n

-----------------------------------------------------------------------------
(* The parts.                                                               *)
LEMMA SelectorFits == ASSUME NEW s \in Selectors PROVE Fitted("Selector", s)
<1> DEFINE L == Layout["Selector"]
           keys == <<"min_sequence", "latest", "oldest">>
<1>1. L = SelectorLayout
  BY DEF Layout
<1>2. /\ DOMAIN L = 1..2 /\ Len(L) = 2
      /\ L[1][1] = "flags" /\ L[1][2] = "flags" /\ L[1][3] = keys
      /\ L[2][1] = "num" /\ L[2][2] = "min_sequence" /\ L[2][3] = U64
  <2> HIDE DEF L
  <2> QED BY <1>1 DEF SelectorLayout
<1>3. Listed(keys) = {"min_sequence", "latest", "oldest"}
  BY DEF Listed
<1>4. /\ s.min_sequence \in Optional(Nat) /\ s.latest \in BOOLEAN /\ s.oldest \in BOOLEAN
      /\ ~(s.latest /\ s.oldest)
      /\ DOMAIN s = {"min_sequence", "latest", "oldest"} /\ s = [k \in DOMAIN s |-> s[k]]
  BY DEF Selectors
<1>5. FlagKeys(keys, s)
  BY <1>4 DEF FlagKeys, Switches
<1> HIDE DEF L, keys
<1>6. \A i : i \in 1..2 <=> i = 1 \/ i = 2
  OBVIOUS
<1>7. Laid(L)
  BY <1>2 DEF Laid
<1>8. WellOrdered(L, 1, {})
  BY <1>2, <1>3, <1>6 DEF WellOrdered, Form, Spoken, Switches
<1>9. Comprises(L, 1, {}, s)
  BY <1>2, <1>3, <1>4, <1>6 DEF Comprises, Spoken
<1>10. Fitting("Selector", {}, s)
  <2>1. Acceptable("Selector", s)
    BY <1>4 DEF Acceptable
  <2>2. 1 \in 0..Len(L)
    BY <1>2
  <2> QED BY <1>7, <1>8, <1>9, <2>1, <2>2, WellOrderedFits DEF L
<1>11. \A i \in 1..Len(L) : Plain(L[i], s)
  <2>1. Plain(L[1], s)
    BY <1>2, <1>5 DEF Plain, FlagsField
  <2>2. Plain(L[2], s)
    BY <1>2, <1>4, WidthFacts DEF Plain, Numeric
  <2> QED BY <1>2, <1>6, <2>1, <2>2
<1> QED BY <1>10, <1>11 DEF Fitted, L

LEMMA MetadataFits == ASSUME NEW m \in Metadatas PROVE Fitted("Metadata", m)
<1> DEFINE L == Layout["Metadata"]
           keys == <<"content_hash", "sequence", "stale_age", "freshness_period",
                     "signed_at", "encrypted">>
           named == {"content_hash", "sequence", "stale_age", "freshness_period",
                     "signed_at", "encrypted"}
<1>1. L = MetadataLayout
  BY DEF Layout
<1>2. /\ DOMAIN L = 1..6 /\ Len(L) = 6
      /\ L[1][1] = "flags" /\ L[1][2] = "flags" /\ L[1][3] = keys
      /\ L[2][1] = "raw" /\ L[2][2] = "content_hash" /\ L[2][3] = HashBytes
      /\ L[3][1] = "num" /\ L[3][2] = "sequence" /\ L[3][3] = U64
      /\ L[4][1] = "num" /\ L[4][2] = "stale_age" /\ L[4][3] = U64
      /\ L[5][1] = "num" /\ L[5][2] = "freshness_period" /\ L[5][3] = U64
      /\ L[6][1] = "num" /\ L[6][2] = "signed_at" /\ L[6][3] = U64
  <2> HIDE DEF L
  <2> QED BY <1>1 DEF MetadataLayout
<1>3. Listed(keys) = named
  BY DEF Listed
<1>4. /\ m.content_hash \in Optional(Bytes(HashBytes)) /\ m.sequence \in Optional(Nat)
      /\ m.stale_age \in Optional(Nat) /\ m.freshness_period \in Optional(Nat)
      /\ m.signed_at \in Optional(Nat) /\ m.encrypted \in BOOLEAN
      /\ DOMAIN m = named /\ m = [k \in DOMAIN m |-> m[k]]
  BY DEF Metadatas
<1>5. FlagKeys(keys, m)
  BY <1>4 DEF FlagKeys, Switches
<1> HIDE DEF L, keys
<1>6. \A i : i \in 1..6 <=> i = 1 \/ i = 2 \/ i = 3 \/ i = 4 \/ i = 5 \/ i = 6
  OBVIOUS
<1>7. Laid(L)
  BY <1>2 DEF Laid
<1>8. WellOrdered(L, 1, {})
  BY <1>2, <1>3, <1>6 DEF WellOrdered, Form, Spoken, Switches
<1>9. Comprises(L, 1, {}, m)
  BY <1>2, <1>3, <1>4, <1>6 DEF Comprises, Spoken
<1>10. Fitting("Metadata", {}, m)
  <2>1. Acceptable("Metadata", m)
    BY DEF Acceptable
  <2>2. 1 \in 0..Len(L)
    BY <1>2
  <2> QED BY <1>7, <1>8, <1>9, <2>1, <2>2, WellOrderedFits DEF L
<1>11. \A i \in 1..Len(L) : Plain(L[i], m)
  <2>1. Plain(L[1], m)
    BY <1>2, <1>5 DEF Plain, FlagsField
  <2>2. Plain(L[2], m)
    BY <1>2, <1>4, WidthFacts DEF Plain, RawField
  <2>3. Plain(L[3], m) /\ Plain(L[4], m) /\ Plain(L[5], m) /\ Plain(L[6], m)
    BY <1>2, <1>4, WidthFacts DEF Plain, Numeric
  <2> QED BY <1>2, <1>6, <2>1, <2>2, <2>3
<1> QED BY <1>10, <1>11 DEF Fitted, L

-----------------------------------------------------------------------------
(* The packets.                                                             *)
LEMMA InterestConforms == ASSUME NEW m \in Interests PROVE Conforms("Interest", m)
<1> DEFINE L == Layout["Interest"]
           keys == <<"can_be_prefix", "must_be_fresh", "selector", "hop_limit">>
<1>1. L = InterestLayout
  BY DEF Layout
<1>2. /\ DOMAIN L = 1..6 /\ Len(L) = 6
      /\ L[1][1] = "name" /\ L[1][2] = "name" /\ L[1][3] = 0
      /\ L[2][1] = "raw" /\ L[2][2] = "nonce" /\ L[2][3] = NonceBytes
      /\ L[3][1] = "num" /\ L[3][2] = "lifetime_ms" /\ L[3][3] = U32
      /\ L[4][1] = "flags" /\ L[4][2] = "flags" /\ L[4][3] = keys
      /\ L[5][1] = "nested" /\ L[5][2] = "selector" /\ L[5][3] = "Selector"
      /\ L[6][1] = "num" /\ L[6][2] = "hop_limit" /\ L[6][3] = 1
  <2> HIDE DEF L
  <2> QED BY <1>1 DEF InterestLayout, NameField
<1>3. Listed(keys) = {"can_be_prefix", "must_be_fresh", "selector", "hop_limit"}
  BY DEF Listed
<1>4. /\ m.kind = "Interest" /\ m.name \in WireNames /\ m.nonce \in Bytes(NonceBytes)
      /\ m.lifetime_ms \in Nat /\ m.can_be_prefix \in BOOLEAN
      /\ m.must_be_fresh \in BOOLEAN /\ m.selector \in Optional(Selectors)
      /\ m.hop_limit \in Nat
      /\ DOMAIN m = {"kind", "name", "nonce", "lifetime_ms", "can_be_prefix",
                     "must_be_fresh", "selector", "hop_limit"}
      /\ m = [k \in DOMAIN m |-> m[k]]
  BY DEF Interests
<1>5. FlagKeys(keys, m)
  BY <1>4 DEF FlagKeys, Switches
<1> HIDE DEF L, keys
<1>6. \A i : i \in 1..6 <=> i = 1 \/ i = 2 \/ i = 3 \/ i = 4 \/ i = 5 \/ i = 6
  OBVIOUS
<1>7. None \notin Nat /\ None \notin Text
  BY PacketAssumption
<1>8. m.nonce \in Text
  BY <1>4, WidthFacts, BytesAreText
<1>9. Laid(L)
  BY <1>2 DEF Laid
<1>10. WellOrdered(L, 4, {"kind"})
  BY <1>2, <1>3, <1>6 DEF WellOrdered, Form, Spoken, Switches
<1>11. Comprises(L, 4, {"kind"}, m)
  BY <1>2, <1>3, <1>4, <1>6, <1>7, <1>8 DEF Comprises, Spoken, Skips
<1>12. Fitting("Interest", {"kind"}, m)
  <2>1. Acceptable("Interest", m)
    BY <1>4 DEF Acceptable
  <2>2. 4 \in 0..Len(L)
    BY <1>2
  <2> QED BY <1>9, <1>10, <1>11, <2>1, <2>2, WellOrderedFits DEF L
<1>13. \A i \in 1..Len(L) : Sound(L[i], m)
  <2>1. Sound(L[1], m)
    BY <1>2, <1>4, WidthFacts DEF Sound, NamedField
  <2>2. Sound(L[2], m)
    BY <1>2, <1>4, WidthFacts DEF Sound, Plain, RawField, Optional
  <2>3. Sound(L[3], m)
    BY <1>2, <1>4, <1>7, WidthFacts DEF Sound, Plain, Numeric, Optional
  <2>4. Sound(L[4], m)
    BY <1>2, <1>5 DEF Sound, Plain, FlagsField
  <2>5. Sound(L[5], m)
    BY <1>2, <1>4, SelectorFits DEF Sound, PartField, Optional
  <2>6. Sound(L[6], m)
    BY <1>2, <1>4, <1>7, WidthFacts DEF Sound, Plain, Numeric, Optional
  <2> QED BY <1>2, <1>6, <2>1, <2>2, <2>3, <2>4, <2>5, <2>6
<1>14. NamesAre(L)
  BY <1>2, <1>6 DEF NamesAre
<1> QED BY <1>4, <1>12, <1>13, <1>14 DEF Conforms, L

LEMMA DataConforms == ASSUME NEW m \in Datas PROVE Conforms("Data", m)
<1> DEFINE L == Layout["Data"]
           keys == <<"metadata", "signature">>
<1>1. L = DataLayout
  BY DEF Layout
<1>2. /\ DOMAIN L = 1..5 /\ Len(L) = 5
      /\ L[1][1] = "name" /\ L[1][2] = "name" /\ L[1][3] = 0
      /\ L[2][1] = "blob" /\ L[2][2] = "content" /\ L[2][3] = U32
      /\ L[3][1] = "flags" /\ L[3][2] = "flags" /\ L[3][3] = keys
      /\ L[4][1] = "framed" /\ L[4][2] = "metadata" /\ L[4][3] = "Metadata"
      /\ L[5][1] = "raw" /\ L[5][2] = "signature" /\ L[5][3] = SignatureBytes
  <2> HIDE DEF L
  <2> QED BY <1>1 DEF DataLayout, NameField
<1>3. Listed(keys) = {"metadata", "signature"}
  BY DEF Listed
<1>4. /\ m.kind = "Data" /\ m.name \in WireNames /\ m.content \in Text
      /\ m.metadata \in Optional(Metadatas)
      /\ m.signature \in Optional(Bytes(SignatureBytes))
      /\ DOMAIN m = {"kind", "name", "content", "metadata", "signature"}
      /\ m = [k \in DOMAIN m |-> m[k]]
  BY DEF Datas
<1>5. FlagKeys(keys, m)
  BY <1>4 DEF FlagKeys, Switches
<1> HIDE DEF L, keys
<1>6. \A i : i \in 1..5 <=> i = 1 \/ i = 2 \/ i = 3 \/ i = 4 \/ i = 5
  OBVIOUS
<1>7. None \notin Nat /\ None \notin Text
  BY PacketAssumption
<1>9. Laid(L)
  BY <1>2 DEF Laid
<1>10. WellOrdered(L, 3, {"kind"})
  BY <1>2, <1>3, <1>6 DEF WellOrdered, Form, Spoken, Switches
<1>11. Comprises(L, 3, {"kind"}, m)
  BY <1>2, <1>3, <1>4, <1>6, <1>7 DEF Comprises, Spoken, Skips
<1>12. Fitting("Data", {"kind"}, m)
  <2>1. Acceptable("Data", m)
    BY <1>4 DEF Acceptable
  <2>2. 3 \in 0..Len(L)
    BY <1>2
  <2> QED BY <1>9, <1>10, <1>11, <2>1, <2>2, WellOrderedFits DEF L
<1>13. \A i \in 1..Len(L) : Sound(L[i], m)
  <2>1. Sound(L[1], m)
    BY <1>2, <1>4, WidthFacts DEF Sound, NamedField
  <2>2. Sound(L[2], m)
    BY <1>2, <1>4, WidthFacts DEF Sound, BlobField
  <2>3. Sound(L[3], m)
    BY <1>2, <1>5 DEF Sound, Plain, FlagsField
  <2>4. Sound(L[4], m)
    BY <1>2, <1>4, MetadataFits DEF Sound, PartField, Optional
  <2>5. Sound(L[5], m)
    BY <1>2, <1>4, WidthFacts DEF Sound, Plain, RawField, Optional
  <2> QED BY <1>2, <1>6, <2>1, <2>2, <2>3, <2>4, <2>5
<1>14. NamesAre(L)
  BY <1>2, <1>6 DEF NamesAre
<1> QED BY <1>4, <1>12, <1>13, <1>14 DEF Conforms, L

LEMMA APSubscribeConforms == ASSUME NEW m \in APSubscribes PROVE Conforms("APSubscribe", m)
<1> DEFINE L == Layout["APSubscribe"]
           keys == <<"start_from_now">>
<1>1. L = APSubscribeLayout
  BY DEF Layout
<1>2. /\ DOMAIN L = 1..2 /\ Len(L) = 2
      /\ L[1][1] = "name" /\ L[1][2] = "name" /\ L[1][3] = 0
      /\ L[2][1] = "flags" /\ L[2][2] = "flags" /\ L[2][3] = keys
  <2> HIDE DEF L
  <2> QED BY <1>1 DEF APSubscribeLayout, NameField
<1>3. Listed(keys) = {"start_from_now"}
  BY DEF Listed
<1>4. /\ m.kind = "APSubscribe" /\ m.name \in WireNames /\ m.start_from_now \in BOOLEAN
      /\ DOMAIN m = {"kind", "name", "start_from_now"} /\ m = [k \in DOMAIN m |-> m[k]]
  BY DEF APSubscribes
<1>5. FlagKeys(keys, m)
  BY <1>4 DEF FlagKeys, Switches
<1> HIDE DEF L, keys
<1>6. \A i : i \in 1..2 <=> i = 1 \/ i = 2
  OBVIOUS
<1>7. None \notin Nat /\ None \notin Text
  BY PacketAssumption
<1>9. Laid(L)
  BY <1>2 DEF Laid
<1>10. WellOrdered(L, 2, {"kind"})
  BY <1>2, <1>3, <1>6 DEF WellOrdered, Form, Spoken, Switches
<1>11. Comprises(L, 2, {"kind"}, m)
  BY <1>2, <1>3, <1>4, <1>6, <1>7 DEF Comprises, Spoken, Skips
<1>12. Fitting("APSubscribe", {"kind"}, m)
  <2>1. Acceptable("APSubscribe", m)
    BY <1>4 DEF Acceptable
  <2>2. 2 \in 0..Len(L)
    BY <1>2
  <2> QED BY <1>9, <1>10, <1>11, <2>1, <2>2, WellOrderedFits DEF L
<1>13. \A i \in 1..Len(L) : Sound(L[i], m)
  <2>1. Sound(L[1], m)
    BY <1>2, <1>4, WidthFacts DEF Sound, NamedField
  <2>2. Sound(L[2], m)
    BY <1>2, <1>5 DEF Sound, Plain, FlagsField
  <2> QED BY <1>2, <1>6, <2>1, <2>2
<1>14. NamesAre(L)
  BY <1>2, <1>6 DEF NamesAre
<1> QED BY <1>4, <1>12, <1>13, <1>14 DEF Conforms, L

LEMMA PropPeerConforms ==
  ASSUME NEW m \in PropPeers, m.rns_addr \in Bytes(AddrBytes)
  PROVE  Conforms("PropPeer", m)
<1> DEFINE L == Layout["PropPeer"]
           keys == <<"wants_sync">>
<1>1. L = PropPeerLayout
  BY DEF Layout
<1>2. /\ DOMAIN L = 1..2 /\ Len(L) = 2
      /\ L[1][1] = "raw" /\ L[1][2] = "rns_addr" /\ L[1][3] = AddrBytes
      /\ L[2][1] = "flags" /\ L[2][2] = "flags" /\ L[2][3] = keys
  <2> HIDE DEF L
  <2> QED BY <1>1 DEF PropPeerLayout, NameField
<1>3. Listed(keys) = {"wants_sync"}
  BY DEF Listed
<1>4. /\ m.kind = "PropPeer" /\ m.rns_addr \in Bytes(AddrBytes)
      /\ m.wants_sync \in BOOLEAN /\ DOMAIN m = {"kind", "rns_addr", "wants_sync"}
      /\ m = [k \in DOMAIN m |-> m[k]]
  BY DEF PropPeers
<1>5. FlagKeys(keys, m)
  BY <1>4 DEF FlagKeys, Switches
<1> HIDE DEF L, keys
<1>6. \A i : i \in 1..2 <=> i = 1 \/ i = 2
  OBVIOUS
<1>7. None \notin Nat /\ None \notin Text
  BY PacketAssumption
<1>8. m.rns_addr \in Text
  BY <1>4, WidthFacts, BytesAreText
<1>9. Laid(L)
  BY <1>2 DEF Laid
<1>10. WellOrdered(L, 2, {"kind"})
  BY <1>2, <1>3, <1>6 DEF WellOrdered, Form, Spoken, Switches
<1>11. Comprises(L, 2, {"kind"}, m)
  BY <1>2, <1>3, <1>4, <1>6, <1>7, <1>8 DEF Comprises, Spoken, Skips
<1>12. Fitting("PropPeer", {"kind"}, m)
  <2>1. Acceptable("PropPeer", m)
    BY <1>4 DEF Acceptable
  <2>2. 2 \in 0..Len(L)
    BY <1>2
  <2> QED BY <1>9, <1>10, <1>11, <2>1, <2>2, WellOrderedFits DEF L
<1>13. \A i \in 1..Len(L) : Sound(L[i], m)
  <2>1. Sound(L[1], m)
    BY <1>2, <1>4, WidthFacts DEF Sound, Plain, RawField, Optional
  <2>2. Sound(L[2], m)
    BY <1>2, <1>5 DEF Sound, Plain, FlagsField
  <2> QED BY <1>2, <1>6, <2>1, <2>2
<1>14. NamesAre(L)
  BY <1>2, <1>6 DEF NamesAre
<1> QED BY <1>4, <1>12, <1>13, <1>14 DEF Conforms, L

LEMMA CapPeerConforms == ASSUME NEW m \in CapPeers PROVE Conforms("CapPeer", m)
<1> DEFINE L == Layout["CapPeer"]
<1>1. L = CapPeerLayout
  BY DEF Layout
<1>2. /\ DOMAIN L = 1..2 /\ Len(L) = 2
      /\ L[1][1] = "num" /\ L[1][2] = "role" /\ L[1][3] = 1
      /\ L[2][1] = "num" /\ L[2][2] = "features" /\ L[2][3] = U32
  <2> HIDE DEF L
  <2> QED BY <1>1 DEF CapPeerLayout, NameField
<1>4. /\ m.kind = "CapPeer" /\ m.role \in Nat /\ m.features \in Nat
      /\ DOMAIN m = {"kind", "role", "features"} /\ m = [k \in DOMAIN m |-> m[k]]
  BY DEF CapPeers
<1> HIDE DEF L
<1>6. \A i : i \in 1..2 <=> i = 1 \/ i = 2
  OBVIOUS
<1>7. None \notin Nat /\ None \notin Text
  BY PacketAssumption
<1>9. Laid(L)
  BY <1>2 DEF Laid
<1>10. WellOrdered(L, 0, {"kind"})
  BY <1>2, <1>6 DEF WellOrdered, Form, Spoken, Switches
<1>11. Comprises(L, 0, {"kind"}, m)
  BY <1>2, <1>4, <1>6, <1>7 DEF Comprises, Spoken, Skips
<1>12. Fitting("CapPeer", {"kind"}, m)
  <2>1. Acceptable("CapPeer", m)
    BY <1>4 DEF Acceptable
  <2>2. 0 \in 0..Len(L)
    BY <1>2
  <2> QED BY <1>9, <1>10, <1>11, <2>1, <2>2, WellOrderedFits DEF L
<1>13. \A i \in 1..Len(L) : Sound(L[i], m)
  <2>1. Sound(L[1], m)
    BY <1>2, <1>4, <1>7, WidthFacts DEF Sound, Plain, Numeric, Optional
  <2>2. Sound(L[2], m)
    BY <1>2, <1>4, <1>7, WidthFacts DEF Sound, Plain, Numeric, Optional
  <2> QED BY <1>2, <1>6, <2>1, <2>2
<1>14. NamesAre(L)
  BY <1>2, <1>6 DEF NamesAre
<1> QED BY <1>4, <1>12, <1>13, <1>14 DEF Conforms, L

LEMMA InvalidateConforms == ASSUME NEW m \in Invalidates PROVE Conforms("Invalidate", m)
<1> DEFINE L == Layout["Invalidate"]
           keys == <<"is_prefix", "signature">>
<1>1. L = InvalidateLayout
  BY DEF Layout
<1>2. /\ DOMAIN L = 1..4 /\ Len(L) = 4
      /\ L[1][1] = "name" /\ L[1][2] = "name" /\ L[1][3] = 0
      /\ L[2][1] = "num" /\ L[2][2] = "epoch" /\ L[2][3] = U64
      /\ L[3][1] = "flags" /\ L[3][2] = "flags" /\ L[3][3] = keys
      /\ L[4][1] = "raw" /\ L[4][2] = "signature" /\ L[4][3] = SignatureBytes
  <2> HIDE DEF L
  <2> QED BY <1>1 DEF InvalidateLayout, NameField
<1>3. Listed(keys) = {"is_prefix", "signature"}
  BY DEF Listed
<1>4. /\ m.kind = "Invalidate" /\ m.name \in WireNames /\ m.epoch \in Nat
      /\ m.is_prefix \in BOOLEAN /\ m.signature \in Optional(Bytes(SignatureBytes))
      /\ DOMAIN m = {"kind", "name", "epoch", "is_prefix", "signature"}
      /\ m = [k \in DOMAIN m |-> m[k]]
  BY DEF Invalidates
<1>5. FlagKeys(keys, m)
  BY <1>4 DEF FlagKeys, Switches
<1> HIDE DEF L, keys
<1>6. \A i : i \in 1..4 <=> i = 1 \/ i = 2 \/ i = 3 \/ i = 4
  OBVIOUS
<1>7. None \notin Nat /\ None \notin Text
  BY PacketAssumption
<1>9. Laid(L)
  BY <1>2 DEF Laid
<1>10. WellOrdered(L, 3, {"kind"})
  BY <1>2, <1>3, <1>6 DEF WellOrdered, Form, Spoken, Switches
<1>11. Comprises(L, 3, {"kind"}, m)
  BY <1>2, <1>3, <1>4, <1>6, <1>7 DEF Comprises, Spoken, Skips
<1>12. Fitting("Invalidate", {"kind"}, m)
  <2>1. Acceptable("Invalidate", m)
    BY <1>4 DEF Acceptable
  <2>2. 3 \in 0..Len(L)
    BY <1>2
  <2> QED BY <1>9, <1>10, <1>11, <2>1, <2>2, WellOrderedFits DEF L
<1>13. \A i \in 1..Len(L) : Sound(L[i], m)
  <2>1. Sound(L[1], m)
    BY <1>2, <1>4, WidthFacts DEF Sound, NamedField
  <2>2. Sound(L[2], m)
    BY <1>2, <1>4, <1>7, WidthFacts DEF Sound, Plain, Numeric, Optional
  <2>3. Sound(L[3], m)
    BY <1>2, <1>5 DEF Sound, Plain, FlagsField
  <2>4. Sound(L[4], m)
    BY <1>2, <1>4, WidthFacts DEF Sound, Plain, RawField, Optional
  <2> QED BY <1>2, <1>6, <2>1, <2>2, <2>3, <2>4
<1>14. NamesAre(L)
  BY <1>2, <1>6 DEF NamesAre
<1> QED BY <1>4, <1>12, <1>13, <1>14 DEF Conforms, L

LEMMA NackConforms == ASSUME NEW m \in Nacks PROVE Conforms("Nack", m)
<1> DEFINE L == Layout["Nack"]
<1>1. L = NackLayout
  BY DEF Layout
<1>2. /\ DOMAIN L = 1..2 /\ Len(L) = 2
      /\ L[1][1] = "name" /\ L[1][2] = "name" /\ L[1][3] = 0
      /\ L[2][1] = "num" /\ L[2][2] = "reason" /\ L[2][3] = 1
  <2> HIDE DEF L
  <2> QED BY <1>1 DEF NackLayout, NameField
<1>4. /\ m.kind = "Nack" /\ m.name \in WireNames /\ m.reason \in Nat
      /\ m.reason \in 1..3 /\ DOMAIN m = {"kind", "name", "reason"}
      /\ m = [k \in DOMAIN m |-> m[k]]
  BY DEF Nacks
<1> HIDE DEF L
<1>6. \A i : i \in 1..2 <=> i = 1 \/ i = 2
  OBVIOUS
<1>7. None \notin Nat /\ None \notin Text
  BY PacketAssumption
<1>9. Laid(L)
  BY <1>2 DEF Laid
<1>10. WellOrdered(L, 0, {"kind"})
  BY <1>2, <1>6 DEF WellOrdered, Form, Spoken, Switches
<1>11. Comprises(L, 0, {"kind"}, m)
  BY <1>2, <1>4, <1>6, <1>7 DEF Comprises, Spoken, Skips
<1>12. Fitting("Nack", {"kind"}, m)
  <2>1. Acceptable("Nack", m)
    BY <1>4 DEF Acceptable
  <2>2. 0 \in 0..Len(L)
    BY <1>2
  <2> QED BY <1>9, <1>10, <1>11, <2>1, <2>2, WellOrderedFits DEF L
<1>13. \A i \in 1..Len(L) : Sound(L[i], m)
  <2>1. Sound(L[1], m)
    BY <1>2, <1>4, WidthFacts DEF Sound, NamedField
  <2>2. Sound(L[2], m)
    BY <1>2, <1>4, <1>7, WidthFacts DEF Sound, Plain, Numeric, Optional
  <2> QED BY <1>2, <1>6, <2>1, <2>2
<1>14. NamesAre(L)
  BY <1>2, <1>6 DEF NamesAre
<1> QED BY <1>4, <1>12, <1>13, <1>14 DEF Conforms, L

LEMMA CapabilityConforms == ASSUME NEW m \in CapabilityFiles PROVE Conforms("Capability", m)
<1> DEFINE L == Layout["Capability"]
           keys == <<"signature">>
<1>1. L = CapabilityLayout
  BY DEF Layout
<1>2. /\ DOMAIN L = 1..8 /\ Len(L) = 8
      /\ L[1][1] = "raw" /\ L[1][2] = "producer" /\ L[1][3] = AddrBytes
      /\ L[2][1] = "raw" /\ L[2][2] = "consumer" /\ L[2][3] = AddrBytes
      /\ L[3][1] = "num" /\ L[3][2] = "issued_at" /\ L[3][3] = U64
      /\ L[4][1] = "num" /\ L[4][2] = "expires_at" /\ L[4][3] = U64
      /\ L[5][1] = "name" /\ L[5][2] = "prefix" /\ L[5][3] = 2
      /\ L[6][1] = "blob" /\ L[6][2] = "wrapped_cek" /\ L[6][3] = 2
      /\ L[7][1] = "flags" /\ L[7][2] = "flags" /\ L[7][3] = keys
      /\ L[8][1] = "raw" /\ L[8][2] = "signature" /\ L[8][3] = SignatureBytes
  <2> HIDE DEF L
  <2> QED BY <1>1 DEF CapabilityLayout, NameField
<1>3. Listed(keys) = {"signature"}
  BY DEF Listed
<1>4. /\ m.kind = "Capability" /\ m.producer \in Bytes(AddrBytes)
      /\ m.consumer \in Bytes(AddrBytes) /\ m.issued_at \in Nat /\ m.expires_at \in Nat
      /\ m.prefix \in WireNames /\ m.wrapped_cek \in Text
      /\ m.signature \in Optional(Bytes(SignatureBytes))
      /\ m.prefix.components[1] = m.producer
      /\ DOMAIN m = {"kind", "producer", "consumer", "issued_at", "expires_at",
                     "prefix", "wrapped_cek", "signature"}
      /\ m = [k \in DOMAIN m |-> m[k]]
  BY DEF CapabilityFiles
<1>5. FlagKeys(keys, m)
  BY <1>4 DEF FlagKeys, Switches
<1> HIDE DEF L, keys
<1>6. \A i : i \in 1..8 <=> i = 1 \/ i = 2 \/ i = 3 \/ i = 4 \/ i = 5 \/ i = 6 \/ i = 7 \/ i = 8
  OBVIOUS
<1>7. None \notin Nat /\ None \notin Text
  BY PacketAssumption
<1>8. m.producer \in Text /\ m.consumer \in Text
  BY <1>4, WidthFacts, BytesAreText
<1>9. Laid(L)
  BY <1>2 DEF Laid
<1>10. WellOrdered(L, 7, {"kind"})
  BY <1>2, <1>3, <1>6 DEF WellOrdered, Form, Spoken, Switches
<1>11. Comprises(L, 7, {"kind"}, m)
  BY <1>2, <1>3, <1>4, <1>6, <1>7, <1>8 DEF Comprises, Spoken, Skips
<1>12. Fitting("Capability", {"kind"}, m)
  <2>1. Acceptable("Capability", m)
    BY <1>4 DEF Acceptable
  <2>2. 7 \in 0..Len(L)
    BY <1>2
  <2> QED BY <1>9, <1>10, <1>11, <2>1, <2>2, WellOrderedFits DEF L
<1>13. \A i \in 1..Len(L) : Sound(L[i], m)
  <2>1. Sound(L[1], m)
    BY <1>2, <1>4, WidthFacts DEF Sound, Plain, RawField, Optional
  <2>2. Sound(L[2], m)
    BY <1>2, <1>4, WidthFacts DEF Sound, Plain, RawField, Optional
  <2>3. Sound(L[3], m)
    BY <1>2, <1>4, <1>7, WidthFacts DEF Sound, Plain, Numeric, Optional
  <2>4. Sound(L[4], m)
    BY <1>2, <1>4, <1>7, WidthFacts DEF Sound, Plain, Numeric, Optional
  <2>5. Sound(L[5], m)
    BY <1>2, <1>4, WidthFacts DEF Sound, NamedField
  <2>6. Sound(L[6], m)
    BY <1>2, <1>4, WidthFacts DEF Sound, BlobField
  <2>7. Sound(L[7], m)
    BY <1>2, <1>5 DEF Sound, Plain, FlagsField
  <2>8. Sound(L[8], m)
    BY <1>2, <1>4, WidthFacts DEF Sound, Plain, RawField, Optional
  <2> QED BY <1>2, <1>6, <2>1, <2>2, <2>3, <2>4, <2>5, <2>6, <2>7, <2>8
<1>14. NamesAre(L)
  BY <1>2, <1>6 DEF NamesAre
<1> QED BY <1>4, <1>12, <1>13, <1>14 DEF Conforms, L

-----------------------------------------------------------------------------
(* Normal leaves every packet what it is.                                   *)
Normalized(p, m) ==
  /\ m = Normal(p) /\ Conforms(p.kind, m)
  /\ DOMAIN p \cap {"name", "prefix"} = DOMAIN m \cap {"name", "prefix"}
  /\ \A k \in DOMAIN p \cap {"name", "prefix"} : m[k] = p[k]

LEMMA Unchanged ==
  ASSUME NEW p, Normal(p) = p, Conforms(p.kind, p) PROVE \E m : Normalized(p, m)
BY DEF Normalized

LEMMA InterestNormal == ASSUME NEW p \in Interests PROVE \E m : Normalized(p, m)
<1> DEFINE s == IF Silent(p.selector) THEN None ELSE p.selector
           h == p.hop_limit % Base
           m == With(With(p, "selector", s), "hop_limit", h)
<1>1. /\ p.kind = "Interest"
      /\ DOMAIN p = {"kind", "name", "nonce", "lifetime_ms", "can_be_prefix",
                     "must_be_fresh", "selector", "hop_limit"}
  BY DEF Interests
<1>2. s \in Optional(Selectors)
  <2>1. p.selector \in Optional(Selectors)
    BY DEF Interests
  <2> QED BY <2>1 DEF Optional
<1>3. h \in Nat
  <2>1. p.hop_limit \in Nat
    BY DEF Interests
  <2> QED BY <2>1, ByteFacts
<1>4. m = Normal(p)
  BY <1>1 DEF Normal
<1> HIDE DEF s, h
<1>5. /\ DOMAIN m = DOMAIN p /\ m = [k \in DOMAIN m |-> m[k]]
      /\ \A k \in DOMAIN p : m[k] = IF k = "hop_limit" THEN h
                                    ELSE IF k = "selector" THEN s ELSE p[k]
  BY <1>1 DEF With
<1> HIDE DEF m
<1>6. m \in Interests
  <2>1. /\ m.kind = p.kind /\ m.name = p.name /\ m.nonce = p.nonce
        /\ m.lifetime_ms = p.lifetime_ms /\ m.can_be_prefix = p.can_be_prefix
        /\ m.must_be_fresh = p.must_be_fresh /\ m.selector = s /\ m.hop_limit = h
    BY <1>1, <1>5
  <2>2. m = [kind |-> m.kind, name |-> m.name, nonce |-> m.nonce,
             lifetime_ms |-> m.lifetime_ms, can_be_prefix |-> m.can_be_prefix,
             must_be_fresh |-> m.must_be_fresh, selector |-> m.selector,
             hop_limit |-> m.hop_limit]
    BY <1>1, <1>5
  <2> QED BY <1>2, <1>3, <2>1, <2>2 DEF Interests
<1>7. Conforms("Interest", m)
  BY <1>6, InterestConforms
<1>8. \A k \in DOMAIN p \cap {"name", "prefix"} : m[k] = p[k]
  BY <1>5
<1> QED BY <1>1, <1>4, <1>5, <1>7, <1>8 DEF Normalized

LEMMA DataNormal == ASSUME NEW p \in Datas PROVE \E m : Normalized(p, m)
<1>1. /\ p.kind = "Data" /\ DOMAIN p = {"kind", "name", "content", "metadata", "signature"}
  BY DEF Datas
<1>2. CASE ~Silent(p.metadata)
  <2>1. Normal(p) = p
    BY <1>1, <1>2 DEF Normal
  <2> QED BY <1>1, <2>1, DataConforms, Unchanged
<1>3. CASE Silent(p.metadata)
  <2> DEFINE m == With(p, "metadata", None)
  <2>1. m = Normal(p)
    BY <1>1, <1>3 DEF Normal
  <2>2. /\ DOMAIN m = DOMAIN p /\ m = [k \in DOMAIN m |-> m[k]]
        /\ \A k \in DOMAIN p : m[k] = IF k = "metadata" THEN None ELSE p[k]
    BY <1>1 DEF With
  <2> HIDE DEF m
  <2>3. m \in Datas
    <3>1. /\ m.kind = p.kind /\ m.name = p.name /\ m.content = p.content
          /\ m.metadata = None /\ m.signature = p.signature
      BY <1>1, <2>2
    <3>2. m = [kind |-> m.kind, name |-> m.name, content |-> m.content,
               metadata |-> m.metadata, signature |-> m.signature]
      BY <1>1, <2>2
    <3> QED BY <3>1, <3>2 DEF Datas, Optional
  <2>4. Conforms("Data", m)
    BY <2>3, DataConforms
  <2>5. \A k \in DOMAIN p \cap {"name", "prefix"} : m[k] = p[k]
    BY <2>2
  <2> QED BY <1>1, <2>1, <2>2, <2>4, <2>5 DEF Normalized
<1> QED BY <1>2, <1>3

LEMMA PropPeerNormal == ASSUME NEW p \in PropPeers PROVE \E m : Normalized(p, m)
<1> DEFINE a == [i \in 1..AddrBytes |-> IF i <= Len(p.rns_addr) THEN p.rns_addr[i] ELSE 0]
           m == With(p, "rns_addr", a)
<1>1. /\ p.kind = "PropPeer" /\ DOMAIN p = {"kind", "rns_addr", "wants_sync"}
      /\ p.rns_addr \in Text
  BY DEF PropPeers
<1>2. a \in Bytes(AddrBytes)
  <2>1. 0 \in Byte /\ AddrBytes \in Nat
    BY ByteFacts, WidthFacts
  <2>2. \A i \in 1..AddrBytes : i <= Len(p.rns_addr) => p.rns_addr[i] \in Byte
    BY <1>1, <2>1 DEF Text
  <2>3. \A i \in 1..AddrBytes : a[i] \in Byte
    BY <2>1, <2>2
  <2> QED BY <2>3 DEF Bytes
<1>3. m = Normal(p)
  BY <1>1 DEF Normal
<1> HIDE DEF a
<1>4. /\ DOMAIN m = DOMAIN p /\ m = [k \in DOMAIN m |-> m[k]]
      /\ \A k \in DOMAIN p : m[k] = IF k = "rns_addr" THEN a ELSE p[k]
  BY <1>1 DEF With
<1> HIDE DEF m
<1>5. m \in PropPeers /\ m.rns_addr \in Bytes(AddrBytes)
  <2>1. m.kind = p.kind /\ m.rns_addr = a /\ m.wants_sync = p.wants_sync
    BY <1>1, <1>4
  <2>2. m = [kind |-> m.kind, rns_addr |-> m.rns_addr, wants_sync |-> m.wants_sync]
    BY <1>1, <1>4
  <2>3. a \in Text
    BY <1>2, WidthFacts, BytesAreText
  <2> QED BY <1>2, <2>1, <2>2, <2>3 DEF PropPeers
<1>6. Conforms("PropPeer", m)
  BY <1>5, PropPeerConforms
<1>7. \A k \in DOMAIN p \cap {"name", "prefix"} : m[k] = p[k]
  BY <1>1
<1> QED BY <1>1, <1>3, <1>4, <1>6, <1>7 DEF Normalized

LEMMA PacketNormal == ASSUME NEW p \in Packets PROVE \E m : Normalized(p, m)
<1>1. CASE p \in Interests
  BY <1>1, InterestNormal
<1>2. CASE p \in Datas
  BY <1>2, DataNormal
<1>3. CASE p \in PropPeers
  BY <1>3, PropPeerNormal
<1>4. ASSUME p.kind \notin {"Interest", "Data", "PropPeer"} PROVE Normal(p) = p
  BY <1>4 DEF Normal
<1>5. CASE p \in APSubscribes
  <2>1. p.kind = "APSubscribe"
    BY <1>5 DEF APSubscribes
  <2> QED BY <1>4, <1>5, <2>1, APSubscribeConforms, Unchanged
<1>6. CASE p \in CapPeers
  <2>1. p.kind = "CapPeer"
    BY <1>6 DEF CapPeers
  <2> QED BY <1>4, <1>6, <2>1, CapPeerConforms, Unchanged
<1>7. CASE p \in Invalidates
  <2>1. p.kind = "Invalidate"
    BY <1>7 DEF Invalidates
  <2> QED BY <1>4, <1>7, <2>1, InvalidateConforms, Unchanged
<1>8. CASE p \in Nacks
  <2>1. p.kind = "Nack"
    BY <1>8 DEF Nacks
  <2> QED BY <1>4, <1>8, <2>1, NackConforms, Unchanged
<1>9. CASE p \in CapabilityFiles
  <2>1. p.kind = "Capability"
    BY <1>9 DEF CapabilityFiles
  <2> QED BY <1>4, <1>9, <2>1, CapabilityConforms, Unchanged
<1> QED BY <1>1, <1>2, <1>3, <1>5, <1>6, <1>7, <1>8, <1>9 DEF Packets

-----------------------------------------------------------------------------
(* What was written is what is read, and a cut packet is none.              *)
LEMMA NamesWalked ==
  ASSUME NEW kind, NEW m, Conforms(kind, m)
  PROVE  /\ NoneTooLong(Layout[kind], Len(Layout[kind]), m)
              <=> \A k \in DOMAIN m \cap {"name", "prefix"} :
                    Len(m[k].components) <= MaxComponents
         /\ \A k \in DOMAIN m \cap {"name", "prefix"} : m[k] \in WireNames
<1> DEFINE L == Layout[kind]
           n == Len(L)
           fine(k) == Len(m[k].components) <= MaxComponents
<1>1. /\ n \in Nat /\ m.kind = kind
      /\ \A i \in 1..n : L[i][1] = "name" <=> L[i][2] \in {"name", "prefix"}
      /\ \A i \in 1..n : InPlace(L[i], L, {"kind"}, i, m)
      /\ \A k \in DOMAIN m : k \in {"kind"} \/ Announced(L, n, k) \/ HasRead(L, n, k)
      /\ \A k : Due(L, n, k) => k \in Switches
      /\ \A i \in 1..n : Sound(L[i], m)
  BY DEF Conforms, NamesAre, Fitting, Laid
<1> HIDE DEF L, n
<1>2. NoneTooLong(L, n, m) <=> \A i \in 1..n : L[i][1] = "name" => fine(L[i][2])
  BY DEF NoneTooLong, TooLong
<1> HIDE DEF fine
<1>3. ASSUME NEW i \in 1..n, L[i][1] = "name"
      PROVE  L[i][2] \in DOMAIN m \cap {"name", "prefix"}
  <2>1. InPlace(L[i], L, {"kind"}, i, m) /\ L[i][1] # "flags"
    BY <1>1, <1>3
  <2> QED BY <1>1, <1>3, <2>1 DEF InPlace, ValueInPlace
<1>4. ASSUME NEW k \in DOMAIN m \cap {"name", "prefix"}
      PROVE  \E i \in 1..n : L[i][1] = "name" /\ L[i][2] = k
  <2>1. k \notin Switches /\ k # "kind"
    BY DEF Switches
  <2>2. HasRead(L, n, k)
    BY <1>1, <2>1 DEF Due
  <2>3. PICK i \in 1..n : L[i][2] = k
    BY <2>2 DEF HasRead
  <2> QED BY <1>1, <2>3
<1>5. ASSUME NEW k \in DOMAIN m \cap {"name", "prefix"} PROVE m[k] \in WireNames
  <2>1. PICK i \in 1..n : L[i][1] = "name" /\ L[i][2] = k
    BY <1>4
  <2>2. NamedField(L[i], m)
    BY <1>1, <2>1 DEF Sound, Plain, FlagsField, Numeric, RawField, BlobField, PartField
  <2> QED BY <2>1, <2>2 DEF NamedField
<1> QED BY <1>2, <1>3, <1>4, <1>5 DEF L, n, fine

LEMMA CutIs ==
  ASSUME NEW b \in Text, NEW c \in Cut(b)
  PROVE  c \in Text /\ Begins(c, b) /\ Len(c) < Len(b)
<1>1. PICK k \in 0..(Len(b) - 1) : c = SubSeq(b, 1, k)
  BY DEF Cut
<1>2. Len(b) \in Nat /\ k \in Nat /\ k < Len(b) /\ b \in Seq(Byte)
  BY DEF Text
<1>3. /\ SubSeq(b, 1, k) \in Seq(Byte) /\ Len(SubSeq(b, 1, k)) = k
      /\ \A i \in 1..k : SubSeq(b, 1, k)[i] = b[i]
  BY <1>2
<1> QED BY <1>1, <1>2, <1>3 DEF Begins, Text

LEMMA TheOneIs == \A p : TheOne({p}) = p /\ TheOne({}) = Refused
BY DEF TheOne

LEMMA BodyPacked ==
  ASSUME NEW kind, NEW p, p.kind = kind, NEW m, Normalized(p, m)
  PROVE  Body(p) = Packed(kind, m) /\ Body(p) \in Written
<1> DEFINE L == Layout[kind]
           bodies == [i \in DOMAIN L |-> FieldBytes(L[i], m)]
<1>1. Conforms(kind, m) /\ m = Normal(p)
  BY DEF Normalized
<1>2. [i \in DOMAIN L |-> bodies[i]] = bodies
  OBVIOUS
<1>3. Body(p) = FlattenSeq(bodies)
  BY <1>1 DEF Body
<1> HIDE DEF bodies
<1>4. Packed(kind, m) = FlattenSeq([i \in DOMAIN L |-> bodies[i]])
  BY DEF Packed, Joint, bodies
<1>5. Body(p) = Packed(kind, m)
  BY <1>2, <1>3, <1>4
<1>6. Packed(kind, m) \in Written
  BY <1>1, BodyRead
<1> QED BY <1>5, <1>6

(* The body of a packet of the kind, and a body that was cut.               *)
LEMMA BodyBack ==
  ASSUME NEW kind, NEW p, p.kind = kind, NEW m, Normalized(p, m), Clean(Body(p))
  PROVE  /\ Body(p) \in Text
         /\ \A c \in Text : Begins(c, Body(p)) =>
              TheOne(ReadBody(kind, c))
                = IF Long(p) \/ Len(c) < Len(Body(p)) THEN Refused ELSE m
<1> DEFINE b == Body(p)
           L == Layout[kind]
           N == NoneTooLong(L, Len(L), m)
<1>1. Conforms(kind, m) /\ m = Normal(p)
  BY DEF Normalized
<1>2. b = Packed(kind, m)
  BY BodyPacked
<1>3. N <=> ~Long(p)
  <2>1. N <=> \A k \in DOMAIN m \cap {"name", "prefix"} : Len(m[k].components) <= MaxComponents
    BY <1>1, NamesWalked
  <2>2. /\ DOMAIN p \cap {"name", "prefix"} = DOMAIN m \cap {"name", "prefix"}
        /\ \A k \in DOMAIN p \cap {"name", "prefix"} : m[k] = p[k]
    BY DEF Normalized
  <2>3. ASSUME NEW k \in DOMAIN p \cap {"name", "prefix"}
        PROVE  ~(Len(p[k].components) <= MaxComponents) <=> Len(p[k].components) > MaxComponents
    <3>1. p[k].components \in Seq(Text)
      BY <1>1, <2>2, NamesWalked DEF WireNames
    <3> DEFINE s == p[k].components
    <3> HIDE DEF s
    <3>2. Len(s) \in Nat
      BY <3>1 DEF s
    <3>3. ~(Len(s) <= MaxComponents) <=> Len(s) > MaxComponents
      BY <3>2, WidthFacts
    <3> QED BY <3>3 DEF s
  <2> QED BY <2>1, <2>2, <2>3 DEF Long
<1> HIDE DEF N
<1>4. b \in Text /\ \A c \in Text : Begins(c, b) =>
        ReadBody(kind, c) = IF N /\ Len(b) <= Len(c) THEN {m} ELSE {}
  <2>1. Clean(Packed(kind, m))
    BY <1>2
  <2> HIDE DEF b
  <2> QED BY <1>1, <1>2, <2>1, BodyRead DEF N
<1> HIDE DEF b
<1>5. ASSUME NEW c \in Text, Begins(c, b)
      PROVE  TheOne(ReadBody(kind, c)) = IF Long(p) \/ Len(c) < Len(b) THEN Refused ELSE m
  <2>1. Len(c) \in Nat /\ Len(b) \in Nat
    BY <1>4 DEF Text
  <2>2. ReadBody(kind, c) = IF N /\ Len(b) <= Len(c) THEN {m} ELSE {}
    BY <1>4, <1>5
  <2>3. CASE N /\ Len(b) <= Len(c)
    <3>1. ~Long(p) /\ ~(Len(c) < Len(b))
      BY <1>3, <2>1, <2>3
    <3> QED BY <2>2, <2>3, <3>1, TheOneIs
  <2>4. CASE ~(N /\ Len(b) <= Len(c))
    <3>1. Long(p) \/ Len(c) < Len(b)
      BY <1>3, <2>1, <2>4
    <3> QED BY <2>2, <2>4, <3>1, TheOneIs
  <2> QED BY <2>3, <2>4
<1> QED BY <1>4, <1>5 DEF b

LEMMA FileFaithful ==
  ASSUME NEW p \in Packets, p.kind = "Capability" PROVE Faithful(p)
<1> DEFINE b == Body(p)
           Parse(x) == TheOne(ReadBody("Capability", x))
<1>1. PICK m : Normalized(p, m)
  BY PacketNormal
<1>2. m = Normal(p)
  BY <1>1 DEF Normalized
<1>3. ASSUME Clean(b)
      PROVE  /\ Parse(b) = IF Long(p) THEN Refused ELSE Normal(p)
             /\ \A c \in Cut(b) : Parse(c) = Refused
  <2>1. b \in Text /\ \A c \in Text : Begins(c, b) =>
          Parse(c) = IF Long(p) \/ Len(c) < Len(b) THEN Refused ELSE m
    BY <1>1, <1>3, BodyBack
  <2> HIDE DEF b, Parse
  <2>2. Begins(b, b) /\ Len(b) \in Nat /\ ~(Len(b) < Len(b))
    BY <2>1, ItsOwnStart DEF Text
  <2>3. Parse(b) = IF Long(p) THEN Refused ELSE Normal(p)
    BY <1>2, <2>1, <2>2
  <2>4. ASSUME NEW c \in Cut(b) PROVE Parse(c) = Refused
    BY <2>1, CutIs
  <2> QED BY <2>3, <2>4
<1> HIDE DEF b
<1>4. Faithful(p) <=> (Clean(b) => /\ Parse(b) = IF Long(p) THEN Refused ELSE Normal(p)
                                   /\ \A c \in Cut(b) : Parse(c) = Refused)
  BY DEF Faithful, Clean, Long, b
<1> QED BY <1>3, <1>4

LEMMA Header ==
  ASSUME NEW p \in Packets, p.kind # "Capability"
  PROVE  \E t \in DOMAIN PacketType :
           /\ t \in Byte /\ PacketType[t] = p.kind /\ ToBytes(p) = <<t, Version>> \o Body(p)
<1> DEFINE t == CHOOSE i \in DOMAIN PacketType : PacketType[i] = p.kind
<1>1. p.kind \in {"Interest", "Data", "APSubscribe", "PropPeer", "CapPeer",
                  "Invalidate", "Nack"}
  BY DEF Packets, Interests, Datas, APSubscribes, PropPeers, CapPeers, Invalidates, Nacks,
         CapabilityFiles
<1>2. DOMAIN PacketType = 1..7 /\ \E i \in 1..7 : PacketType[i] = p.kind
  <2>1. /\ PacketType[1] = "Interest" /\ PacketType[2] = "Data"
        /\ PacketType[3] = "APSubscribe" /\ PacketType[4] = "PropPeer"
        /\ PacketType[5] = "CapPeer" /\ PacketType[6] = "Invalidate"
        /\ PacketType[7] = "Nack" /\ DOMAIN PacketType = 1..7
    BY DEF PacketType
  <2> QED BY <1>1, <2>1
<1>3. t \in 1..7 /\ PacketType[t] = p.kind
  BY <1>2
<1>4. ToBytes(p) = <<t, Version>> \o Body(p)
  BY DEF ToBytes
<1> HIDE DEF t
<1>5. t \in Byte
  BY <1>3, ByteFacts
<1> QED BY <1>2, <1>3, <1>4, <1>5

(* The two bytes in front.                                                  *)
LEMMA TwoBytes ==
  ASSUME NEW t \in Byte, NEW v \in Byte, NEW b \in Text, NEW c \in Text,
         Begins(c, <<t, v>> \o b)
  PROVE  /\ <<t, v>> \in Text /\ Len(<<t, v>>) = 2
         /\ <<t, v>> \o b \in Text /\ Len(<<t, v>> \o b) = 2 + Len(b)
         /\ Len(c) >= 2 => /\ c[1] = t /\ c[2] = v
                           /\ Drop(c, 2) \in Text /\ Begins(Drop(c, 2), b)
                           /\ Len(Drop(c, 2)) = Len(c) - 2
<1> DEFINE h == <<t, v>>
<1>1. h \in Text /\ Len(h) = 2 /\ h[1] = t /\ h[2] = v
  BY DEF Text
<1> HIDE DEF h
<1>2. h \o b \in Text /\ Len(h \o b) = 2 + Len(b)
  BY <1>1, Concatenation
<1>3. Begins(c, h) /\ (2 <= Len(c) => Begins(Drop(c, 2), b))
  <2>1. Begins(c, h \o b)
    BY DEF h
  <2>2. Begins(c, h) /\ (Len(h) <= Len(c) => Begins(Drop(c, Len(h)), b))
    BY <1>1, <2>1, BeginsBoth
  <2> QED BY <1>1, <2>2, Zenon
<1>4. Len(c) \in Nat
  BY DEF Text
<1>5. ASSUME Len(c) >= 2
      PROVE  /\ c[1] = t /\ c[2] = v /\ Drop(c, 2) \in Text /\ Begins(Drop(c, 2), b)
             /\ Len(Drop(c, 2)) = Len(c) - 2
  <2>1. 2 \in 0..Len(c) /\ 2 <= Len(c)
    BY <1>4, <1>5
  <2>2. c[1] = h[1] /\ c[2] = h[2]
    BY <1>1, <1>3, <2>1 DEF Begins
  <2> QED BY <1>1, <1>3, <2>1, <2>2, DropIs
<1> QED BY <1>1, <1>2, <1>5 DEF h

LEMMA PacketFaithful ==
  ASSUME NEW p \in Packets, p.kind # "Capability" PROVE Faithful(p)
<1> DEFINE b == ToBytes(p)
           d == Body(p)
           kind == p.kind
<1>1. PICK m : Normalized(p, m)
  BY PacketNormal
<1>2. m = Normal(p) /\ d \in Written
  BY <1>1, BodyPacked DEF Normalized
<1>3. PICK t \in DOMAIN PacketType :
        t \in Byte /\ PacketType[t] = kind /\ b = <<t, Version>> \o d
  BY Header
<1>4. Version \in Byte
  BY ByteFacts DEF Version
<1> DEFINE h == <<t, Version>>
<1>5. h \in Text
  BY <1>3, <1>4 DEF Text
<1>6. ASSUME Clean(b)
      PROVE  /\ ParsePacket(b) = IF Long(p) THEN Refused ELSE Normal(p)
             /\ \A c \in Cut(b) : ParsePacket(c) = Refused
  <2>1. Clean(d)
    <3> HIDE DEF h, b, d
    <3> QED BY <1>2, <1>3, <1>5, <1>6, TextIsClean, CleanBoth DEF h
  <2>2. d \in Text /\ \A c \in Text : Begins(c, d) =>
          TheOne(ReadBody(kind, c)) = IF Long(p) \/ Len(c) < Len(d) THEN Refused ELSE m
    BY <1>1, <2>1, BodyBack
  <2> HIDE DEF d, b
  <2>3. b \in Text /\ Len(b) = 2 + Len(d) /\ Len(d) \in Nat
    <3> HIDE DEF h
    <3>1. h \o d \in Text
      BY <1>5, <2>2, Concatenation
    <3>2. Begins(h \o d, h \o d)
      BY DEF Begins
    <3> QED BY <1>3, <1>4, <2>2, <3>1, <3>2, TwoBytes DEF h, Text
  <2>4. ASSUME NEW c \in Text, Begins(c, b)
        PROVE  ParsePacket(c) = IF Long(p) \/ Len(c) < Len(b) THEN Refused ELSE m
    <3>1. Len(c) \in Nat
      BY DEF Text
    <3>2. CASE Len(c) < 2
      <4>1. Len(c) < Len(b)
        BY <2>3, <3>1, <3>2
      <4> QED BY <3>2, <4>1 DEF ParsePacket
    <3>3. CASE ~(Len(c) < 2)
      <4> DEFINE r == Drop(c, 2)
      <4>1. Len(c) >= 2 /\ Begins(c, <<t, Version>> \o d)
        BY <1>3, <2>4, <3>1, <3>3
      <4>2. /\ c[1] = t /\ c[2] = Version /\ r \in Text /\ Begins(r, d)
            /\ Len(r) = Len(c) - 2
        BY <1>3, <1>4, <2>2, <4>1, TwoBytes
      <4>3. ParsePacket(c) = TheOne(ReadBody(kind, r))
        BY <1>3, <3>3, <4>2 DEF ParsePacket
      <4> HIDE DEF r
      <4>4. Len(r) < Len(d) <=> Len(c) < Len(b)
        BY <2>3, <3>1, <4>2
      <4> QED BY <2>2, <4>2, <4>3, <4>4
    <3> QED BY <3>2, <3>3
  <2>5. Begins(b, b) /\ Len(b) \in Nat /\ ~(Len(b) < Len(b))
    BY <2>3, ItsOwnStart DEF Text
  <2>6. ParsePacket(b) = IF Long(p) THEN Refused ELSE Normal(p)
    BY <1>2, <2>3, <2>4, <2>5
  <2>7. ASSUME NEW c \in Cut(b) PROVE ParsePacket(c) = Refused
    BY <2>3, <2>4, CutIs
  <2> QED BY <2>6, <2>7
<1> HIDE DEF b
<1>7. Faithful(p) <=> (Clean(b) => /\ ParsePacket(b) = IF Long(p) THEN Refused ELSE Normal(p)
                                   /\ \A c \in Cut(b) : ParsePacket(c) = Refused)
  BY DEF Faithful, Clean, Long, b
<1> QED BY <1>6, <1>7

(* Every packet the constructors make is read back from its bytes as it was *)
(* written, up to what Normal leaves out, no cut packet is taken for one,   *)
(* and a name of too many components is refused (packet.py to_bytes and     *)
(* from_bytes of every kind, access.py of the capability file).             *)
THEOREM EveryPacketFaithful == \A p \in Packets : Faithful(p)
BY FileFaithful, PacketFaithful

(* In particular the samples that the runs write, read and cut are read as  *)
(* they were written (packet.py to_bytes, from_bytes, parse_packet).        *)
THEOREM SamplesAreFaithful == SamplesFaithful
<1>1. Samples \subseteq Packets
  BY PacketAssumption
<1> QED BY <1>1, EveryPacketFaithful DEF SamplesFaithful

-----------------------------------------------------------------------------
(* PART 2. What the nodes send is written and read as it is.                *)

LEMMA Stamps ==
  ASSUME NEW e \in Byte
  PROVE  /\ [i \in 1..SignatureBytes |-> e] \in Bytes(SignatureBytes)
         /\ [i \in 1..HashBytes |-> e] \in Bytes(HashBytes)
         /\ [i \in 1..SignatureBytes |-> e] # None
<1>1. [i \in 1..SignatureBytes |-> e] \in Bytes(SignatureBytes)
      /\ [i \in 1..HashBytes |-> e] \in Bytes(HashBytes)
  BY DEF Bytes
<1>2. None \notin Text
  BY PacketAssumption
<1>3. \A b \in Bytes(SignatureBytes) : b \in Text
  BY WidthFacts, BytesAreText
<1> QED BY <1>1, <1>2, <1>3

(* A packet that carries a name in use and nothing that Normal changes.     *)
Plainly(p) == p \in Packets /\ p.kind # "Capability" /\ Normal(p) = p /\ ~Long(p)

LEMMA NamesInUse ==
  ASSUME NEW n \in Names \cup Revocables
  PROVE  /\ WireName(n) \in WireNames
         /\ \A p : p.name = WireName(n) /\ "prefix" \notin DOMAIN p => ~Long(p)
<1>1. WireName(n) \in WireNames /\ Len(n) <= MaxComponents
  BY TrafficAssumption
<1>2. WireName(n).components = n
  BY DEF WireName
<1>3. n \in Seq(Text)
  BY <1>1, <1>2 DEF WireNames
<1>4. Len(n) \in Nat /\ MaxComponents \in Nat
  BY <1>3, ByteFacts, WidthFacts
<1>5. ~(Len(n) > MaxComponents)
  BY <1>1, <1>4
<1> QED BY <1>1, <1>2, <1>5 DEF Long

LEMMA InterestPlainly ==
  ASSUME NEW m \in Meshes, NEW a \in m.asks, NEW k \in 0..Hops
  PROVE  Plainly(InterestFor(a, k))
<1> DEFINE p == InterestFor(a, k)
<1>1. a.name \in Names /\ a.nonce \in Nonces
  BY MeshAssumption DEF Mesh
<1>2. a.nonce \in Bytes(NonceBytes) /\ WireName(a.name) \in WireNames
  BY <1>1, TrafficAssumption
<1>3. k \in Nat /\ k % Base = k
  <2>1. Hops \in Nat /\ Hops < Base /\ Base \in Nat
    BY MeshAssumption, TrafficAssumption, ByteFacts
  <2> QED BY <2>1
<1>4. /\ DOMAIN p = {"kind", "name", "nonce", "lifetime_ms", "can_be_prefix",
                     "must_be_fresh", "selector", "hop_limit"}
      /\ p = [x \in DOMAIN p |-> p[x]]
      /\ p.kind = "Interest" /\ p.name = WireName(a.name) /\ p.selector = None
      /\ p.hop_limit = k
  BY DEF InterestFor
<1>5. p \in Interests
  BY <1>2, <1>3 DEF InterestFor, Interests, Optional
<1> HIDE DEF p
<1>6. Normal(p) = p
  <2>1. ~Silent(p.selector)
    BY <1>4 DEF Silent
  <2>2. Normal(p) = With(With(p, "selector", None), "hop_limit", k)
    BY <1>3, <1>4, <2>1 DEF Normal
  <2>3. With(p, "selector", None) = p
    BY <1>4 DEF With
  <2>4. With(p, "hop_limit", k) = p
    BY <1>4 DEF With
  <2> QED BY <2>2, <2>3, <2>4
<1> QED BY <1>1, <1>4, <1>5, <1>6, NamesInUse DEF Plainly, Packets, p

LEMMA DataPlainly ==
  ASSUME NEW n \in Names, NEW m \in Meshes, NEW e \in 1..m.editions
  PROVE  Plainly(DataFor(n, e))
<1> DEFINE p == DataFor(n, e)
           d == p.metadata
<1>1. e \in Nat /\ e \in Byte
  <2>1. m.editions \in Nat /\ m.editions < Base /\ Base \in Nat
    BY MeshAssumption, TrafficAssumption, ByteFacts DEF Mesh
  <2>2. e \in Nat /\ e < Base
    BY <2>1
  <2> QED BY <2>2, ByteFacts
<1>2. WireName(n) \in WireNames
  BY TrafficAssumption
<1>3. <<e>> \in Text
  <2> HIDE DEF Byte
  <2> QED BY <1>1 DEF Text
<1>4. d \in Metadatas /\ d.sequence = e /\ "sequence" \in DOMAIN d
  BY <1>1, Stamps DEF DataFor, Metadatas, Optional
<1>5. /\ "prefix" \notin DOMAIN p /\ p.kind = "Data" /\ p.name = WireName(n)
  BY DEF DataFor
<1>6. p \in Datas
  <2>1. p = [kind |-> "Data", name |-> WireName(n), content |-> <<e>>, metadata |-> d,
             signature |-> [i \in 1..SignatureBytes |-> e]]
    BY DEF DataFor
  <2> HIDE DEF p, d
  <2> QED BY <1>1, <1>2, <1>3, <1>4, <2>1, Stamps DEF Datas, Optional
<1>7. Normal(p) = p
  <2>1. None # e /\ "sequence" \notin Switches
    BY <1>1, PacketAssumption DEF Switches
  <2>2. ~Silent(d)
    <3> HIDE DEF p, d
    <3> QED BY <1>4, <2>1 DEF Silent, Raised
  <2> HIDE DEF p
  <2> QED BY <1>5, <2>2 DEF Normal
<1> HIDE DEF p
<1>8. ~Long(p)
  BY <1>5, NamesInUse
<1> QED BY <1>5, <1>6, <1>7, <1>8 DEF Plainly, Packets, p

LEMMA NackPlainly == ASSUME NEW n \in Names PROVE Plainly(NackFor(n))
<1> DEFINE p == NackFor(n)
<1>1. WireName(n) \in WireNames
  BY TrafficAssumption
<1>2. "prefix" \notin DOMAIN p /\ p.kind = "Nack" /\ p.name = WireName(n) /\ p \in Nacks
  BY <1>1 DEF NackFor, Nacks
<1> HIDE DEF p
<1>3. Normal(p) = p /\ ~Long(p)
  BY <1>2, NamesInUse DEF Normal
<1> QED BY <1>2, <1>3 DEF Plainly, Packets, p

LEMMA CapabilitiesPlainly == Plainly(Capabilities)
<1>1. /\ Capabilities.kind = "CapPeer" /\ DOMAIN Capabilities = {"kind", "role", "features"}
      /\ Capabilities \in CapPeers
  BY DEF Capabilities, CapPeers
<1>2. Normal(Capabilities) = Capabilities /\ ~Long(Capabilities)
  BY <1>1 DEF Normal, Long
<1> QED BY <1>1, <1>2 DEF Plainly, Packets

LEMMA InvalidatePlainly ==
  ASSUME NEW r \in Purges, NEW e \in 1..Horizon PROVE Plainly(InvalidateFor(r, e))
<1> DEFINE p == InvalidateFor(r, e)
<1>1. r.name \in Revocables /\ r.prefix \in BOOLEAN
  BY MeshAssumption
<1>2. WireName(r.name) \in WireNames
  BY <1>1, TrafficAssumption
<1>3. [i \in 1..SignatureBytes |-> 1] \in Bytes(SignatureBytes)
  <2>1. 1 \in Byte
    BY ByteFacts
  <2> QED BY <2>1, Stamps
<1>4. e \in Nat
  BY MeshAssumption
<1>5. /\ "prefix" \notin DOMAIN p /\ p.kind = "Invalidate" /\ p.name = WireName(r.name)
      /\ p \in Invalidates
  BY <1>1, <1>2, <1>3, <1>4 DEF InvalidateFor, Invalidates, Optional
<1> HIDE DEF p
<1>6. Normal(p) = p /\ ~Long(p)
  BY <1>1, <1>5, NamesInUse DEF Normal
<1> QED BY <1>5, <1>6 DEF Plainly, Packets, p

LEMMA TrafficPlainly == \A p \in Traffic : Plainly(p)
BY InterestPlainly, DataPlainly, NackPlainly, CapabilitiesPlainly, InvalidatePlainly
   DEF Traffic

(* Whatever the nodes of a mesh send one another arrives as it was sent     *)
(* (packet.py to_bytes, parse_packet).                                      *)
THEOREM TrafficArrives == TrafficFaithful
<1> SUFFICES ASSUME NEW p \in Traffic PROVE Received[p] = p /\ p # Refused
  BY DEF TrafficFaithful
<1>1. p \in Packets /\ p.kind # "Capability" /\ Normal(p) = p /\ ~Long(p)
  BY TrafficPlainly DEF Plainly
<1>2. Clean(ToBytes(p))
  BY TrafficAssumption
<1>3. ParsePacket(ToBytes(p)) = p
  BY <1>1, <1>2, EveryPacketFaithful DEF Faithful
<1>4. p # Refused
  BY <1>1, PacketAssumption
<1> QED BY <1>3, <1>4 DEF Received

-----------------------------------------------------------------------------
(* PART 3. The mesh.                                                        *)

(* The producer forwards no Interest: it has no next hop.                   *)
ProducerIsOrigin == \A m \in Meshes : m.routes[Producer] = <<>>

-----------------------------------------------------------------------------
(* Types.                                                                   *)

Requests  == {InterestFor(a, k) : a \in net.asks, k \in 0..Hops}
Answers   == {DataFor(n, e) : n \in Names, e \in 1..net.editions}
Refusals  == {NackFor(n) : n \in Names}
Revoking  == {InvalidateFor(p, e) : p \in Purges, e \in 1..Horizon}
Messages  == Requests \cup Answers \cup Refusals \cup Revoking \cup {Capabilities}

(* What a handler that waits has in hand.                                   *)
Task(h, t) ==
  /\ t \in [interest : Requests, out : Nodes \cup {None}, rest : Seq(Nodes),
            fut : {-1} \cup 0..net.editions]
  /\ \A i \in DOMAIN t.rest : <<h[1], t.rest[i]>> \in Links

Typed ==
  /\ net \in Meshes
  /\ queue \in [Links -> Seq(Messages)]
  /\ lost \subseteq Links
  /\ store \in [Nodes -> [Names -> 0..net.editions]]
  /\ pit \in [Nodes -> SUBSET Names]
  /\ failed \in [Nodes -> SUBSET Nodes]
  /\ nackers \in [Servers -> SUBSET Nodes]
  /\ seen \in [Servers -> [Revocables -> 0..Horizon]]
  /\ DOMAIN hand = Handlers
  /\ \A h \in Handlers : hand[h] # None => Task(h, hand[h])
  /\ edition \in [Names -> 0..net.editions]
  /\ revoked \in [Names -> Nat]
  /\ now \in 1..Horizon

-----------------------------------------------------------------------------
(* The producer's neighbours.                                               *)

On(q) == {q[i] : i \in DOMAIN q}

(* The producer waits for nobody, and what it holds is not revoked.         *)
Origin ==
  /\ pit[Producer] = {}
  /\ \A h \in Handlers : h[1] = Producer => hand[h] = None
  /\ \A n \in Names :
       /\ revoked[n] <= edition[n]
       /\ store[Producer][n] # 0 => revoked[n] < store[Producer][n]

(* Nothing is newer than what the producer has issued, and it has issued    *)
(* what it remembers.                                                       *)
Clock ==
  /\ \A n \in Revocables :
       /\ seen[Producer][n] <= now
       /\ seen[Producer][n] # 0 => \E x \in issued : x[1] = n /\ x[2] = seen[Producer][n]
       /\ \A m \in Servers : seen[m][n] <= seen[Producer][n]
  /\ \A l \in Links : \A p \in On(queue[l]) :
       p.kind = "Invalidate" => p.epoch <= seen[Producer][p.name.components]

(* Of the servers, S has the producer and not s, and but for the link from  *)
(* the producer to s no link leaves it.                                     *)
Apart(s, S) ==
  /\ s \in net.recalls /\ S \subseteq Servers /\ Producer \in S /\ s \notin S
  /\ Closed(S, {<<Producer, s>>})
  /\ net.routes[s] = <<Producer>>

(* Server s asks the producer only, and only the producer answers.          *)
AsksProducer(s) ==
  /\ \A l \in Links :
       /\ l[1] = s /\ l[2] # Producer => \A p \in On(queue[l]) : p.kind # "Interest"
       /\ l[2] = s /\ l[1] # Producer =>
            hand[l] = None /\ \A p \in On(queue[l]) : p.kind # "Data"
  /\ \A h \in Handlers : h[1] = s /\ hand[h] # None =>
       \A i \in DOMAIN hand[h].rest : hand[h].rest[i] = Producer

(* What the servers behind s know of invalidations, and what comes from     *)
(* them and from the clients, s has heard.                                  *)
HeardFirst(s, S) ==
  /\ \A m \in Servers \ S : \A n \in Revocables : seen[m][n] <= seen[s][n]
  /\ \A l \in Links : l[1] \notin S => \A p \in On(queue[l]) :
       p.kind = "Invalidate" => p.epoch <= seen[s][p.name.components]

(* The invalidations of a name are on a link in their order.                *)
InOrder(q) ==
  \A i, j \in DOMAIN q :
    /\ i < j
    /\ q[i].kind = "Invalidate" /\ q[j].kind = "Invalidate"
    /\ q[i].name.components = q[j].name.components
    => q[i].epoch < q[j].epoch

NewTo(s, q) ==
  \A i \in DOMAIN q : q[i].kind = "Invalidate" => q[i].epoch > seen[s][q[i].name.components]

(* After place i an invalidation of n comes.                                *)
RevokedAfter(q, i, n) ==
  \E j \in DOMAIN q : j > i /\ q[j].kind = "Invalidate"
                      /\ Covers(q[j].name.components, q[j].is_prefix, n)

(* What is revoked, on the link from the producer or in the store, will be  *)
(* purged.                                                                  *)
DataFollowed(q) ==
  \A i \in DOMAIN q :
    q[i].kind = "Data" /\ q[i].metadata.sequence <= revoked[q[i].name.components]
    => RevokedAfter(q, i, q[i].name.components)

StoreFollowed(s, q) ==
  \A n \in Names : store[s][n] # 0 /\ store[s][n] <= revoked[n] => RevokedAfter(q, 0, n)

WillBePurged(s) ==
  LET l == <<Producer, s>>
  IN l \notin lost => DataFollowed(queue[l]) /\ StoreFollowed(s, queue[l])

Neighbour(s, S) ==
  /\ AsksProducer(s)
  /\ HeardFirst(s, S)
  /\ InOrder(queue[<<Producer, s>>])
  /\ NewTo(s, queue[<<Producer, s>>])
  /\ WillBePurged(s)

(* The inductive invariant.                                                 *)
MInv ==
  /\ Typed /\ Origin /\ Clock
  /\ \A s \in Servers : \A S \in SUBSET Servers : Apart(s, S) => Neighbour(s, S)

-----------------------------------------------------------------------------
(* The packets under way.                                                   *)

LEMMA NetFacts ==
  ASSUME net \in Meshes
  PROVE  /\ Links \subseteq Nodes \X Nodes
         /\ \A l \in Links : <<l[2], l[1]>> \in Links /\ l = <<l[1], l[2]>>
         /\ net.routes \in [Nodes -> Seq(Nodes)]
         /\ \A n \in Nodes : \A i \in DOMAIN net.routes[n] : <<n, net.routes[n][i]>> \in Links
         /\ net.editions \in Nat
         /\ net.asks \subseteq [client : Clients, name : Names, nonce : Nonces]
         /\ net.recalls \subseteq Servers
         /\ Links \subseteq Handlers
         /\ Producer \in Servers /\ Servers \subseteq Nodes
         /\ \A h \in Handlers : h[1] \in Nodes /\ h = <<h[1], h[2]>> /\ (h[2] # App => h \in Links)
         /\ \A l \in Links : l[2] # App
<1>1. net \in Mesh
  BY MeshAssumption
<1>2. Links \subseteq Nodes \X Nodes
  BY <1>1 DEF Mesh, Links
<1>3. /\ \A l \in Links : <<l[2], l[1]>> \in Links /\ l = <<l[1], l[2]>>
      /\ \A n \in Nodes : \A i \in DOMAIN net.routes[n] : <<n, net.routes[n][i]>> \in Links
  BY <1>2, MeshAssumption DEF Links
<1>4. App \notin Nodes /\ Servers \subseteq Nodes /\ Clients \subseteq Nodes
  BY MeshAssumption DEF Nodes
<1>6. \A h \in Handlers : h[1] \in Nodes /\ h = <<h[1], h[2]>> /\ (h[2] # App => h \in Links)
  BY <1>2, <1>3, <1>4 DEF Handlers
<1> QED BY <1>1, <1>2, <1>3, <1>4, <1>6, MeshAssumption DEF Mesh, Handlers

LEMMA InterestFacts ==
  ASSUME net \in Meshes
  PROVE  /\ \A a \in net.asks : InterestFor(a, Hops) \in Requests
         /\ \A p \in Requests :
              /\ p.kind = "Interest"
              /\ p.name.components \in Names
              /\ p.hop_limit # 0 => [p EXCEPT !.hop_limit = @ - 1] \in Requests
<1>1. Hops \in Nat
  BY MeshAssumption
<1>2. net.asks \subseteq [client : Clients, name : Names, nonce : Nonces]
  BY NetFacts
<1>3. ASSUME NEW a \in net.asks PROVE InterestFor(a, Hops) \in Requests
  BY <1>1 DEF Requests
<1>4. ASSUME NEW a, NEW k
      PROVE  /\ InterestFor(a, k).kind = "Interest"
             /\ InterestFor(a, k).name.components = a.name
             /\ InterestFor(a, k).hop_limit = k
  BY DEF InterestFor, WireName
<1>5. ASSUME NEW a, NEW k, NEW j
      PROVE  [InterestFor(a, k) EXCEPT !.hop_limit = j] = InterestFor(a, j)
  <2>1. ASSUME NEW name, NEW nonce, NEW no
        PROVE  [[kind |-> "Interest", name |-> name, nonce |-> nonce, lifetime_ms |-> 4,
                 can_be_prefix |-> no, must_be_fresh |-> no, selector |-> None,
                 hop_limit |-> k] EXCEPT !.hop_limit = j]
             = [kind |-> "Interest", name |-> name, nonce |-> nonce, lifetime_ms |-> 4,
                can_be_prefix |-> no, must_be_fresh |-> no, selector |-> None, hop_limit |-> j]
    OBVIOUS
  <2> QED BY <2>1, Zenon DEF InterestFor
<1>6. ASSUME NEW p \in Requests
      PROVE  /\ p.kind = "Interest"
             /\ p.name.components \in Names
             /\ p.hop_limit # 0 => [p EXCEPT !.hop_limit = @ - 1] \in Requests
  <2>1. PICK a \in net.asks, k \in 0..Hops : p = InterestFor(a, k)
    BY DEF Requests
  <2>2. a.name \in Names
    BY <1>2
  <2>3. k # 0 => k - 1 \in 0..Hops
    BY <1>1
  <2>4. k # 0 => InterestFor(a, k - 1) \in Requests
    BY <2>3 DEF Requests
  <2>5. [p EXCEPT !.hop_limit = @ - 1] = InterestFor(a, k - 1)
    <3>1. p.hop_limit = k
      BY <1>4, <2>1
    <3>2. [InterestFor(a, k) EXCEPT !.hop_limit = k - 1] = InterestFor(a, k - 1)
      BY <1>5, Zenon
    <3> QED BY <2>1, <3>1, <3>2, Zenon
  <2> QED BY <1>4, <2>1, <2>2, <2>4, <2>5
<1> QED BY <1>3, <1>6

LEMMA AnswerFacts ==
  /\ \A p \in Answers :
       /\ p.kind = "Data"
       /\ p.name.components \in Names
       /\ p.metadata.sequence \in 1..net.editions
  /\ \A n \in Names, e \in 1..net.editions :
       /\ DataFor(n, e) \in Answers
       /\ DataFor(n, e).name.components = n
       /\ DataFor(n, e).metadata.sequence = e
<1>1. ASSUME NEW n, NEW e
      PROVE  /\ DataFor(n, e).kind = "Data" /\ DataFor(n, e).name.components = n
             /\ DataFor(n, e).metadata.sequence = e
  BY DEF DataFor, WireName
<1>2. ASSUME NEW p \in Answers
      PROVE  \E n \in Names, e \in 1..net.editions : p = DataFor(n, e)
  BY DEF Answers
<1>3. \A n \in Names, e \in 1..net.editions : DataFor(n, e) \in Answers
  BY DEF Answers
<1> QED BY <1>1, <1>2, <1>3

LEMMA RevokingFacts ==
  /\ \A p \in Revoking :
       /\ p.kind = "Invalidate"
       /\ p.name.components \in Revocables
       /\ p.epoch \in 1..Horizon
       /\ p.signature # None
  /\ \A p \in Purges, e \in 1..Horizon :
       /\ InvalidateFor(p, e) \in Revoking
       /\ InvalidateFor(p, e).name.components = p.name
       /\ InvalidateFor(p, e).epoch = e
       /\ InvalidateFor(p, e).is_prefix = p.prefix
<1>1. ASSUME NEW p, NEW e
      PROVE  LET i == InvalidateFor(p, e)
             IN /\ i.kind = "Invalidate" /\ i.name.components = p.name
                /\ i.epoch = e /\ i.is_prefix = p.prefix
                /\ i.signature # None
  <2>1. 1 \in Byte
    BY ByteFacts
  <2> QED BY <2>1, Stamps DEF InvalidateFor, WireName
<1>2. ASSUME NEW i \in Revoking
      PROVE  \E p \in Purges, e \in 1..Horizon : i = InvalidateFor(p, e)
  BY DEF Revoking
<1>3. \A p \in Purges, e \in 1..Horizon : InvalidateFor(p, e) \in Revoking
  BY DEF Revoking
<1>4. \A p \in Purges : p.name \in Revocables
  BY DEF Revocables
<1> QED BY <1>1, <1>2, <1>3, <1>4

LEMMA OtherFacts ==
  /\ \A p \in Refusals : p.kind = "Nack" /\ p.name.components \in Names
  /\ \A n \in Names : NackFor(n) \in Refusals
  /\ Capabilities.kind = "CapPeer"
<1>1. ASSUME NEW n PROVE NackFor(n).kind = "Nack" /\ NackFor(n).name.components = n
  BY DEF NackFor, WireName
<1>2. ASSUME NEW p \in Refusals PROVE \E n \in Names : p = NackFor(n)
  BY DEF Refusals
<1> QED BY <1>1, <1>2 DEF Refusals, Capabilities

LEMMA PacketFacts ==
  ASSUME net \in Meshes
  PROVE  \A p \in Messages :
           /\ p \in Traffic
           /\ p.kind \in {"Interest", "Data", "Nack", "Invalidate", "CapPeer"}
           /\ p.kind = "Interest" <=> p \in Requests
           /\ p.kind = "Data" <=> p \in Answers
           /\ p.kind = "Nack" <=> p \in Refusals
           /\ p.kind = "Invalidate" <=> p \in Revoking
<1>1. Messages \subseteq Traffic
  <2>1. ASSUME NEW p \in Requests PROVE p \in Traffic
    <3>1. PICK a \in net.asks, k \in 0..Hops : p = InterestFor(a, k)
      BY DEF Requests
    <3>2. a \in UNION {m.asks : m \in Meshes}
      OBVIOUS
    <3> QED BY <3>1, <3>2 DEF Traffic
  <2>2. ASSUME NEW p \in Answers PROVE p \in Traffic
    <3>1. PICK n \in Names, e \in 1..net.editions : p = DataFor(n, e)
      BY DEF Answers
    <3>2. p \in {DataFor(m, x) : m \in Names, x \in 1..net.editions}
      BY <3>1
    <3> QED BY <3>2 DEF Traffic
  <2> QED BY <2>1, <2>2 DEF Messages, Refusals, Revoking, Traffic
<1>2. /\ \A p \in Requests : p.kind = "Interest"
      /\ \A p \in Answers : p.kind = "Data"
      /\ \A p \in Refusals : p.kind = "Nack"
      /\ \A p \in Revoking : p.kind = "Invalidate"
      /\ Capabilities.kind = "CapPeer"
  BY InterestFacts, AnswerFacts, RevokingFacts, OtherFacts
<1> QED BY <1>1, <1>2 DEF Messages

-----------------------------------------------------------------------------
(* Queues.                                                                  *)

LEMMA TailOf ==
  ASSUME NEW T, NEW q \in Seq(T), q # <<>>
  PROVE  /\ Head(q) = q[1] /\ 1 \in DOMAIN q /\ Head(q) \in T
         /\ Tail(q) \in Seq(T)
         /\ DOMAIN Tail(q) = 1..(Len(q) - 1)
         /\ \A i \in DOMAIN Tail(q) : Tail(q)[i] = q[i + 1] /\ i + 1 \in DOMAIN q
         /\ \A i \in DOMAIN q : i = 1 \/ (i - 1 \in DOMAIN Tail(q) /\ Tail(q)[i - 1] = q[i])
         /\ On(Tail(q)) \subseteq On(q) /\ Head(q) \in On(q)
<1>1. Len(q) \in Nat /\ Len(q) # 0 /\ DOMAIN q = 1..Len(q)
  OBVIOUS
<1>2. Tail(q) \in Seq(T) /\ DOMAIN Tail(q) = 1..(Len(q) - 1) /\ Head(q) = q[1] /\ Head(q) \in T
  OBVIOUS
<1>3. \A i \in DOMAIN Tail(q) : Tail(q)[i] = q[i + 1] /\ i + 1 \in DOMAIN q
  BY <1>1, <1>2
<1>4. \A i \in DOMAIN q : i = 1 \/ (i - 1 \in DOMAIN Tail(q) /\ Tail(q)[i - 1] = q[i])
  BY <1>1, <1>2
<1>5. On(Tail(q)) \subseteq On(q)
  BY <1>3 DEF On
<1> QED BY <1>1, <1>2, <1>3, <1>4, <1>5 DEF On

LEMMA AppendTo ==
  ASSUME NEW T, NEW q \in Seq(T), NEW p \in T
  PROVE  LET r == Append(q, p) IN
         /\ r \in Seq(T)
         /\ DOMAIN r = 1..(Len(q) + 1) /\ Len(q) \in Nat /\ DOMAIN q = 1..Len(q)
         /\ \A i \in DOMAIN q : i \in DOMAIN r /\ r[i] = q[i] /\ i # Len(q) + 1
         /\ r[Len(q) + 1] = p
         /\ \A i \in DOMAIN r : i \in DOMAIN q \/ i = Len(q) + 1
         /\ On(r) = On(q) \cup {p}
<1> DEFINE r == Append(q, p)
<1>1. /\ r \in Seq(T) /\ DOMAIN r = 1..(Len(q) + 1) /\ Len(q) \in Nat /\ DOMAIN q = 1..Len(q)
      /\ \A i \in DOMAIN q : r[i] = q[i]
      /\ r[Len(q) + 1] = p
  OBVIOUS
<1> HIDE DEF r
<1>2. \A i \in DOMAIN q : i \in DOMAIN r /\ i # Len(q) + 1
  BY <1>1
<1>3. \A i \in DOMAIN r : i \in DOMAIN q \/ i = Len(q) + 1
  BY <1>1
<1>4. Len(q) + 1 \in DOMAIN r
  BY <1>1
<1>5. On(r) = On(q) \cup {p}
  BY <1>1, <1>2, <1>3, <1>4 DEF On
<1> QED BY <1>1, <1>2, <1>3, <1>5 DEF r

LEMMA RevokedAfterTail ==
  ASSUME NEW T, NEW q \in Seq(T), q # <<>>, NEW i \in Nat, NEW n, RevokedAfter(q, i + 1, n)
  PROVE  RevokedAfter(Tail(q), i, n)
<1>1. PICK j \in DOMAIN q : /\ j > i + 1 /\ q[j].kind = "Invalidate"
                            /\ Covers(q[j].name.components, q[j].is_prefix, n)
  BY DEF RevokedAfter
<1>2. j \in Nat /\ j # 1
  BY <1>1
<1>3. j - 1 \in DOMAIN Tail(q) /\ Tail(q)[j - 1] = q[j] /\ j - 1 > i
  BY <1>1, <1>2, TailOf
<1> QED BY <1>1, <1>3 DEF RevokedAfter

LEMMA RevokedAfterAppend ==
  ASSUME NEW T, NEW q \in Seq(T), NEW p \in T, NEW i \in Nat, NEW n,
         \/ RevokedAfter(q, i, n)
         \/ /\ i \in 0..Len(q)
            /\ p.kind = "Invalidate" /\ Covers(p.name.components, p.is_prefix, n)
  PROVE  RevokedAfter(Append(q, p), i, n)
<1>1. CASE RevokedAfter(q, i, n)
  BY <1>1, AppendTo DEF RevokedAfter
<1>2. CASE /\ i \in 0..Len(q)
           /\ p.kind = "Invalidate" /\ Covers(p.name.components, p.is_prefix, n)
  <2>1. Len(q) + 1 \in DOMAIN Append(q, p) /\ Append(q, p)[Len(q) + 1] = p /\ Len(q) + 1 > i
    BY <1>2, AppendTo
  <2> QED BY <1>2, <2>1 DEF RevokedAfter
<1> QED BY <1>1, <1>2

(* A queue keeps its order when a packet is taken off, or one is added that *)
(* is no invalidation or a newer one.                                       *)
LEMMA OrderKept ==
  ASSUME NEW q \in Seq(Messages), NEW s, InOrder(q), NewTo(s, q)
  PROVE  /\ q # <<>> => InOrder(Tail(q)) /\ NewTo(s, Tail(q))
         /\ \A p \in Messages :
              (p.kind = "Invalidate" =>
                 /\ p.epoch > seen[s][p.name.components]
                 /\ \A x \in On(q) : x.kind = "Invalidate"
                                     /\ x.name.components = p.name.components
                                     => x.epoch < p.epoch)
              => InOrder(Append(q, p)) /\ NewTo(s, Append(q, p))
<1>1. ASSUME q # <<>> PROVE InOrder(Tail(q)) /\ NewTo(s, Tail(q))
  <2>1. \A i \in DOMAIN Tail(q) : Tail(q)[i] = q[i + 1] /\ i + 1 \in DOMAIN q /\ i \in Nat
    BY <1>1, TailOf
  <2>2. InOrder(Tail(q))
    BY <2>1 DEF InOrder
  <2> QED BY <2>1, <2>2 DEF NewTo
<1>2. ASSUME NEW p \in Messages,
             p.kind = "Invalidate" =>
                 /\ p.epoch > seen[s][p.name.components]
                 /\ \A x \in On(q) : x.kind = "Invalidate"
                                     /\ x.name.components = p.name.components
                                     => x.epoch < p.epoch
      PROVE  InOrder(Append(q, p)) /\ NewTo(s, Append(q, p))
  <2> DEFINE r == Append(q, p)
  <2>1. /\ DOMAIN r = 1..(Len(q) + 1) /\ Len(q) \in Nat /\ DOMAIN q = 1..Len(q)
        /\ \A i \in DOMAIN q : i \in DOMAIN r /\ r[i] = q[i] /\ i # Len(q) + 1
        /\ r[Len(q) + 1] = p
        /\ \A i \in DOMAIN r : i \in DOMAIN q \/ i = Len(q) + 1
    BY AppendTo
  <2> HIDE DEF r
  <2>2. ASSUME NEW i \in DOMAIN r, NEW j \in DOMAIN r, i < j,
               r[i].kind = "Invalidate", r[j].kind = "Invalidate",
               r[i].name.components = r[j].name.components
        PROVE  r[i].epoch < r[j].epoch
    <3>1. i \in DOMAIN q
      BY <2>1, <2>2
    <3>2. CASE j \in DOMAIN q
      BY <2>1, <2>2, <3>1, <3>2 DEF InOrder
    <3>3. CASE j = Len(q) + 1
      BY <1>2, <2>1, <2>2, <3>1, <3>3 DEF On
    <3> QED BY <2>1, <3>2, <3>3
  <2>3. InOrder(r)
    BY <2>2 DEF InOrder
  <2>4. NewTo(s, r)
    BY <1>2, <2>1 DEF NewTo
  <2> QED BY <2>3, <2>4 DEF r
<1> QED BY <1>1, <1>2

LEMMA FollowedKept ==
  ASSUME NEW q \in Seq(Messages), DataFollowed(q)
  PROVE  /\ q # <<>> => DataFollowed(Tail(q))
         /\ \A p \in Messages :
              (p.kind = "Data" => p.metadata.sequence > revoked[p.name.components])
              /\ (p.kind = "Data" => p.metadata.sequence \in Nat /\ revoked[p.name.components] \in Nat)
              => DataFollowed(Append(q, p))
<1>1. ASSUME q # <<>> PROVE DataFollowed(Tail(q))
  <2> SUFFICES ASSUME NEW i \in DOMAIN Tail(q), Tail(q)[i].kind = "Data",
                      Tail(q)[i].metadata.sequence <= revoked[Tail(q)[i].name.components]
               PROVE  RevokedAfter(Tail(q), i, Tail(q)[i].name.components)
    BY DEF DataFollowed
  <2>1. Tail(q)[i] = q[i + 1] /\ i + 1 \in DOMAIN q /\ i \in Nat
    BY <1>1, TailOf
  <2>2. RevokedAfter(q, i + 1, q[i + 1].name.components)
    BY <2>1 DEF DataFollowed
  <2> QED BY <1>1, <2>1, <2>2, RevokedAfterTail
<1>2. ASSUME NEW p \in Messages,
             p.kind = "Data" => p.metadata.sequence > revoked[p.name.components],
             p.kind = "Data" => p.metadata.sequence \in Nat /\ revoked[p.name.components] \in Nat
      PROVE  DataFollowed(Append(q, p))
  <2> DEFINE r == Append(q, p)
  <2> SUFFICES ASSUME NEW i \in DOMAIN r, r[i].kind = "Data",
                      r[i].metadata.sequence <= revoked[r[i].name.components]
               PROVE  RevokedAfter(r, i, r[i].name.components)
    BY DEF DataFollowed
  <2>1. /\ \A j \in DOMAIN q : r[j] = q[j] /\ j \in Nat
        /\ r[Len(q) + 1] = p
        /\ i \in DOMAIN q \/ i = Len(q) + 1
    BY AppendTo
  <2>2. i # Len(q) + 1
    <3> HIDE DEF r
    <3> QED BY <1>2, <2>1
  <2>3. RevokedAfter(q, i, q[i].name.components)
    <3> HIDE DEF r
    <3> QED BY <2>1, <2>2 DEF DataFollowed
  <2> QED BY <2>1, <2>2, <2>3, RevokedAfterAppend
<1> QED BY <1>1, <1>2

-----------------------------------------------------------------------------
(* Sending.                                                                 *)

Queues == [Links -> Seq(Messages)]

LEMMA SendDoes ==
  ASSUME TrafficFaithful, net \in Meshes, NEW q \in Queues, NEW l \in Links, NEW p \in Messages
  PROVE  /\ Send(q, l, p) \in Queues
         /\ Send(q, l, p) = q \/ Send(q, l, p) = [q EXCEPT ![l] = Append(@, p)]
<1>1. Received[p] = p
  BY PacketFacts DEF TrafficFaithful
<1>2. Send(q, l, p) = q \/ Send(q, l, p) = [q EXCEPT ![l] = Append(@, p)]
  BY <1>1 DEF Send
<1>3. Append(q[l], p) \in Seq(Messages)
  BY AppendTo DEF Queues
<1> QED BY <1>2, <1>3 DEF Queues

LEMMA SendAllDoes ==
  ASSUME TrafficFaithful, net \in Meshes, NEW q \in Queues, NEW ls \in SUBSET Links, NEW p \in Messages
  PROVE  /\ SendAll(q, ls, p) \in Queues
         /\ Full(q, ls) \subseteq ls
         /\ \A l \in Links :
              SendAll(q, ls, p)[l] = IF l \in ls /\ l \notin Full(q, ls) THEN Append(q[l], p)
                                                                       ELSE q[l]
<1>1. Received[p] = p
  BY PacketFacts DEF TrafficFaithful
<1>2. \A l \in Links : q[l] \in Seq(Messages) /\ Append(q[l], p) \in Seq(Messages) /\ Len(q[l]) \in Nat
  BY AppendTo DEF Queues
<1>3. Window \in Nat
  BY MeshAssumption
<1>4. \A l \in ls : l \notin Full(q, ls) <=> Len(q[l]) < Window
  BY <1>2, <1>3 DEF Full
<1> QED BY <1>1, <1>2, <1>4 DEF SendAll, Full, Queues

(* The queues r are the queues q with p on those of the links ls that have  *)
(* room.                                                                    *)
Spread(r, q, ls, p) ==
  \A k \in Links : r[k] = IF k \in ls /\ k \notin Full(q, ls) THEN Append(q[k], p) ELSE q[k]

LEMMA SendAllSpreads ==
  ASSUME TrafficFaithful, net \in Meshes, NEW q \in Queues, NEW ls \in SUBSET Links,
         NEW p \in Messages
  PROVE  Spread(SendAll(q, ls, p), q, ls, p)
BY SendAllDoes DEF Spread

(* What a handler h, with the rest of the queues being q, may have done to  *)
(* the queues: sent back a refusal or an edition out of E of name n, or     *)
(* asked one of M.                                                          *)
Speaks(h, q, n, E, M) ==
  \/ queue' = q
  \/ \E l \in Links, p \in Messages :
       /\ queue' = [q EXCEPT ![l] = Append(@, p)]
       /\ \/ l = h /\ p \in Refusals
          \/ /\ l = h /\ p \in Answers
             /\ p.name.components = n /\ p.metadata.sequence \in E
          \/ l[1] = h[1] /\ l[2] \in M /\ p \in Requests

(* And to itself and to the PIT.                                            *)
Works(h, q, n, E, M) ==
  /\ Speaks(h, q, n, E, M)
  /\ \/ hand' = hand
     \/ \E t : /\ hand' = [hand EXCEPT ![h] = t]
               /\ t # None =>
                    /\ Task(h, t)
                    /\ \A i \in DOMAIN t.rest : t.rest[i] \in M
                    /\ M # {} \/ n \in pit[h[1]]
  /\ \/ pit' = pit
     \/ \E P \in SUBSET Names : pit' = [pit EXCEPT ![h[1]] = P] /\ (M = {} => P \subseteq pit[h[1]])

Told(hops) == {hops[i] : i \in DOMAIN hops}

LEMMA NackSpeaks ==
  ASSUME TrafficFaithful, net \in Meshes, NEW q \in Queues, NEW h \in Handlers, NEW n \in Names,
         NEW E, NEW M, h[1] \in Servers => nackers[h[1]] \subseteq Nodes,
         queue' = MaybeNack(h, q, n)
  PROVE  Speaks(h, q, n, E, M)
<1>1. CASE ~(h[1] \in Servers /\ h[2] \in nackers[h[1]])
  BY <1>1 DEF MaybeNack, Speaks
<1>2. CASE h[1] \in Servers /\ h[2] \in nackers[h[1]]
  <2>1. h \in Links
    BY <1>2, NetFacts, MeshAssumption
  <2>2. NackFor(n) \in Refusals /\ NackFor(n) \in Messages
    BY OtherFacts DEF Messages
  <2> QED BY <1>2, <2>1, <2>2, SendDoes DEF MaybeNack, Speaks
<1> QED BY <1>1, <1>2

LEMMA AnswerSpeaks ==
  ASSUME TrafficFaithful, net \in Meshes, NEW q \in Queues, NEW h \in Handlers, NEW n \in Names,
         NEW E, NEW M, NEW e \in 1..net.editions, e \in E,
         queue' = Answered(h, q, n, e)
  PROVE  Speaks(h, q, n, E, M)
<1>1. CASE h[2] = App
  BY <1>1 DEF Answered, Speaks
<1>2. CASE h[2] # App
  <2>1. h \in Links
    BY <1>2, NetFacts
  <2>2. DataFor(n, e) \in Answers /\ DataFor(n, e) \in Messages
        /\ DataFor(n, e).name.components = n /\ DataFor(n, e).metadata.sequence = e
    BY AnswerFacts DEF Messages
  <2> QED BY <1>2, <2>1, <2>2, SendDoes DEF Answered, Speaks
<1> QED BY <1>1, <1>2

LEMMA ReturnsWorks ==
  ASSUME NEW h, NEW q, NEW n, NEW E, NEW M, NEW x, NEW P \in SUBSET Names,
         P \subseteq pit[h[1]],
         Returns(h, x, P), queue' = x => Speaks(h, q, n, E, M)
  PROVE  Works(h, q, n, E, M)
<1>1. /\ hand' = [hand EXCEPT ![h] = None]
      /\ queue' = x
      /\ pit' = [pit EXCEPT ![h[1]] = P]
  BY DEF Returns
<1>2. \E t : /\ hand' = [hand EXCEPT ![h] = t]
             /\ t # None => /\ Task(h, t)
                            /\ \A k \in DOMAIN t.rest : t.rest[k] \in M
                            /\ M # {} \/ n \in pit[h[1]]
  BY <1>1, Zenon
<1> QED BY <1>1, <1>2, Zenon DEF Works

LEMMA TryHopsWorks ==
  ASSUME TrafficFaithful, net \in Meshes, NEW q \in Queues, NEW h \in Handlers,
         NEW i \in Requests, NEW hops \in Seq(Nodes), NEW P \in SUBSET Names, NEW E,
         NEW M, Told(hops) \subseteq M,
         \A k \in DOMAIN hops : <<h[1], hops[k]>> \in Links,
         h[1] \in Servers => nackers[h[1]] \subseteq Nodes,
         P \subseteq pit[h[1]],
         TryHops(h, i, hops, q, P)
  PROVE  Works(h, q, i.name.components, E, M)
<1> DEFINE n == i.name.components
<1>1. n \in Names
  BY InterestFacts
<1> HIDE DEF n
<1>2. CASE hops = <<>>
  <2>1. Returns(h, MaybeNack(h, q, n), P)
    BY <1>2 DEF TryHops, n
  <2>2. queue' = MaybeNack(h, q, n) => Speaks(h, q, n, E, M)
    BY <1>1, NackSpeaks
  <2> QED BY <2>1, <2>2, ReturnsWorks DEF n
<1>3. CASE hops # <<>>
  <2> DEFINE t == [interest |-> i, out |-> Head(hops), rest |-> Tail(hops), fut |-> 0]
             l == <<h[1], Head(hops)>>
  <2>1. /\ Head(hops) \in Nodes /\ Tail(hops) \in Seq(Nodes) /\ Head(hops) = hops[1]
        /\ 1 \in DOMAIN hops
        /\ \A k \in DOMAIN Tail(hops) : Tail(hops)[k] = hops[k + 1] /\ k + 1 \in DOMAIN hops
    BY <1>3, TailOf
  <2>2. /\ hand' = [hand EXCEPT ![h] = t]
        /\ queue' = Send(q, l, i)
        /\ pit' = [pit EXCEPT ![h[1]] = P \cup {n}]
    BY <1>3 DEF TryHops, n
  <2>3. l \in Links /\ i \in Messages /\ l[1] = h[1] /\ l[2] = Head(hops)
    BY <2>1 DEF Messages
  <2>4. hops[1] \in M /\ \A k \in DOMAIN Tail(hops) : Tail(hops)[k] \in M
    BY <2>1 DEF Told
  <2>5. Speaks(h, q, n, E, M)
    <3> HIDE DEF l
    <3>1. queue' = q \/ queue' = [q EXCEPT ![l] = Append(@, i)]
      BY <2>2, <2>3, SendDoes
    <3> QED BY <2>1, <2>3, <2>4, <3>1 DEF Speaks
  <2>6. Task(h, t)
    <3>1. 0 \in {-1} \cup 0..net.editions
      BY NetFacts
    <3> QED BY <2>1, <3>1 DEF Task
  <2>7. \A k \in DOMAIN t.rest : t.rest[k] \in M
    BY <2>4
  <2>8. M # {}
    BY <2>4
  <2>9. \E x : /\ hand' = [hand EXCEPT ![h] = x]
               /\ x # None => /\ Task(h, x)
                              /\ \A k \in DOMAIN x.rest : x.rest[k] \in M
                              /\ M # {} \/ n \in pit[h[1]]
    <3> HIDE DEF t
    <3> QED BY <2>2, <2>6, <2>7, <2>8, Zenon
  <2>10. P \cup {n} \in SUBSET Names
    BY <1>1
  <2> QED BY <2>2, <2>5, <2>8, <2>9, <2>10, Zenon DEF Works, n
<1> QED BY <1>2, <1>3

LEMMA UsableFacts ==
  ASSUME net \in Meshes, NEW n \in Nodes, NEW hops \in Usable(n)
  PROVE  /\ hops \in Seq(Nodes)
         /\ Told(hops) \subseteq Told(net.routes[n])
         /\ \A k \in DOMAIN hops : <<n, hops[k]>> \in Links
<1> DEFINE r == net.routes[n]
<1>1. r \in Seq(Nodes) /\ \A k \in DOMAIN r : <<n, r[k]>> \in Links
  BY NetFacts
<1>2. PICK f \in Picks(r, failed[n]) : hops = [k \in DOMAIN f |-> r[f[k]]]
  BY Zenon DEF Usable
<1>3. PICK j \in 0..Len(r) : f \in [1..j -> DOMAIN r]
  BY <1>2 DEF Picks
<1> HIDE DEF r
<1>4. hops = [k \in 1..j |-> r[f[k]]] /\ \A k \in 1..j : f[k] \in DOMAIN r
  BY <1>2, <1>3
<1>5. \A k \in 1..j : hops[k] = r[f[k]] /\ r[f[k]] \in Nodes
  BY <1>1, <1>4
<1>6. j \in Nat /\ DOMAIN hops = 1..j
  BY <1>1, <1>4
<1>7. hops \in [1..j -> Nodes]
  BY <1>4, <1>5
<1>8. hops \in Seq(Nodes)
  BY <1>6, <1>7
<1>9. Told(hops) \subseteq Told(r)
  BY <1>4, <1>5, <1>6 DEF Told
<1> QED BY <1>1, <1>4, <1>5, <1>6, <1>8, <1>9 DEF r

LEMMA ExpressWorks ==
  ASSUME TrafficFaithful, Typed, NEW q \in Queues, NEW h \in Handlers,
         NEW i \in Requests, Express(h, i, q)
  PROVE  LET n == i.name.components
         IN /\ Works(h, q, n, {store[h[1]][n]} \ {0}, Told(net.routes[h[1]]))
            /\ UNCHANGED failed
<1> DEFINE n == i.name.components
           node == h[1]
           E == {store[node][n]} \ {0}
           M == Told(net.routes[node])
<1>1. /\ n \in Names /\ node \in Nodes /\ net \in Meshes
      /\ store[node][n] \in 0..net.editions
      /\ pit[node] \in SUBSET Names
      /\ node \in Servers => nackers[node] \subseteq Nodes
  BY InterestFacts, NetFacts DEF Typed
<1>2. UNCHANGED failed
  BY Zenon DEF Express
<1> DEFINE loop == <<h[2], i.nonce>> \in nonces[node]
<1>3. \/ Returns(h, MaybeNack(h, q, n), pit[node])
      \/ store[node][n] # 0 /\ Returns(h, Answered(h, q, n, store[node][n]), pit[node])
      \/ /\ n \in pit[node]
         /\ hand' = [hand EXCEPT ![h] = [interest |-> i, out |-> None,
                                         rest |-> <<>>, fut |-> 0]]
         /\ queue' = q
         /\ UNCHANGED pit
      \/ /\ i.hop_limit # 0
         /\ \E hops \in Usable(node) :
              TryHops(h, [i EXCEPT !.hop_limit = @ - 1], hops, q, pit[node])
  BY Zenon DEF Express
<1> HIDE DEF n, node, E, M
<1> SUFFICES Works(h, q, n, E, M)
  BY <1>2 DEF n, node, E, M
<1>4. ASSUME NEW x, Returns(h, x, pit[node]), queue' = x => Speaks(h, q, n, E, M)
      PROVE  Works(h, q, n, E, M)
  BY <1>1, <1>4, ReturnsWorks DEF node
<1>5. CASE Returns(h, MaybeNack(h, q, n), pit[node])
  BY <1>1, <1>4, <1>5, NackSpeaks DEF node
<1>6. CASE store[node][n] # 0 /\ Returns(h, Answered(h, q, n, store[node][n]), pit[node])
  <2>1. store[node][n] \in 1..net.editions /\ store[node][n] \in E
    BY <1>1, <1>6, NetFacts DEF E
  <2> QED BY <1>1, <1>4, <1>6, <2>1, AnswerSpeaks DEF node
<1>7. CASE /\ n \in pit[node]
           /\ hand' = [hand EXCEPT ![h] = [interest |-> i, out |-> None,
                                           rest |-> <<>>, fut |-> 0]]
           /\ queue' = q
           /\ UNCHANGED pit
  <2> DEFINE t == [interest |-> i, out |-> None, rest |-> <<>>, fut |-> 0]
  <2>1. 0 \in {-1} \cup 0..net.editions
    BY <1>1, NetFacts
  <2>2. /\ t.interest = i /\ t.out = None /\ t.rest = <<>> /\ t.fut = 0
        /\ t.rest \in Seq(Nodes) /\ DOMAIN t.rest = {}
    OBVIOUS
  <2>3. hand' = [hand EXCEPT ![h] = t]
    BY <1>7
  <2>4. Task(h, t)
    BY <2>1, <2>2 DEF Task
  <2> HIDE DEF t
  <2>5. \A k \in DOMAIN t.rest : t.rest[k] \in M
    BY <2>2
  <2>6. \E x : /\ hand' = [hand EXCEPT ![h] = x]
               /\ x # None => /\ Task(h, x)
                              /\ \A k \in DOMAIN x.rest : x.rest[k] \in M
                              /\ M # {} \/ n \in pit[h[1]]
    BY <1>7, <2>3, <2>4, <2>5, Zenon DEF node
  <2>7. Speaks(h, q, n, E, M)
    BY <1>7, Zenon DEF Speaks
  <2> QED BY <1>7, <2>6, <2>7, Zenon DEF Works
<1>8. CASE /\ i.hop_limit # 0
           /\ \E hops \in Usable(node) :
                TryHops(h, [i EXCEPT !.hop_limit = @ - 1], hops, q, pit[node])
  <2> DEFINE j == [i EXCEPT !.hop_limit = @ - 1]
  <2>1. j \in Requests
    BY <1>1, <1>8, InterestFacts, Zenon
  <2>2. j.name = i.name
    <3>1. PICK a \in net.asks, k \in 0..Hops : i = InterestFor(a, k)
      BY DEF Requests
    <3> QED BY <3>1 DEF InterestFor
  <2>3. PICK hops \in Usable(node) : TryHops(h, j, hops, q, pit[node])
    BY <1>8
  <2> HIDE DEF j
  <2>4. /\ hops \in Seq(Nodes) /\ Told(hops) \subseteq M
        /\ \A k \in DOMAIN hops : <<h[1], hops[k]>> \in Links
    BY <1>1, UsableFacts DEF M, node
  <2>5. Works(h, q, j.name.components, E, M)
    BY <1>1, <2>1, <2>3, <2>4, TryHopsWorks DEF node
  <2> QED BY <2>2, <2>5 DEF n
<1> QED BY <1>3, <1>5, <1>6, <1>7, <1>8

(* A handler that waited goes on.                                           *)
LEMMA GoesOnWorks ==
  ASSUME TrafficFaithful, Typed, NEW h \in Handlers, Resume(h) \/ Timeout(h) \/ GiveUp(h)
  PROVE  /\ hand[h] # None
         /\ \E n \in Names : Works(h, queue, n, {hand[h].fut}, Told(hand[h].rest))
         /\ failed' \in [Nodes -> SUBSET Nodes]
         /\ UNCHANGED <<nonces, lost, store, nackers, seen, asked, origin>>
<1> DEFINE t == hand[h]
           n == t.interest.name.components
           node == h[1]
           M == Told(t.rest)
<1>1. t # None /\ UNCHANGED <<nonces, lost, store, nackers, seen, asked, origin>>
  BY Zenon DEF Resume, Timeout, GiveUp
<1>2. /\ t.interest \in Requests /\ t.rest \in Seq(Nodes)
      /\ t.fut \in {-1} \cup 0..net.editions
      /\ t.out = None \/ t.out \in Nodes
      /\ \A i \in DOMAIN t.rest : <<node, t.rest[i]>> \in Links
  BY <1>1 DEF Typed, Task
<1>3. /\ n \in Names /\ node \in Nodes /\ net \in Meshes
      /\ pit[node] \in SUBSET Names
      /\ node \in Servers => nackers[node] \subseteq Nodes
      /\ queue \in Queues
  BY <1>2, InterestFacts, NetFacts DEF Typed, Queues
<1>4. failed \in [Nodes -> SUBSET Nodes]
  BY DEF Typed
<1>5. ASSUME FailsOver(h)
      PROVE  Works(h, queue, n, {t.fut}, M) /\ failed' \in [Nodes -> SUBSET Nodes]
  <2>1. CASE t.out = None
    <3>1. Returns(h, MaybeNack(h, queue, n), pit[node]) /\ UNCHANGED failed
      BY <1>5, <2>1, Zenon DEF FailsOver
    <3> HIDE DEF t, n, node, M
    <3>2. queue' = MaybeNack(h, queue, n) => Speaks(h, queue, n, {t.fut}, M)
      BY <1>3, NackSpeaks DEF node
    <3> QED BY <1>3, <1>4, <3>1, <3>2, ReturnsWorks DEF node
  <2>2. CASE t.out # None
    <3>1. /\ TryHops(h, t.interest, t.rest, queue, pit[node] \ {n})
          /\ failed' = [failed EXCEPT ![node] = @ \cup {t.out}]
      BY <1>5, <2>2, Zenon DEF FailsOver, NextHops, Blamed
    <3> HIDE DEF t, node
    <3>2. Works(h, queue, n, {t.fut}, M)
      BY <1>2, <1>3, <3>1, TryHopsWorks DEF node
    <3>3. failed' \in [Nodes -> SUBSET Nodes]
      BY <1>2, <1>3, <1>4, <2>2, <3>1
    <3> QED BY <3>2, <3>3
  <2> QED BY <2>1, <2>2
<1>6. ASSUME Resume(h), t.fut # -1
      PROVE  Works(h, queue, n, {t.fut}, M) /\ failed' \in [Nodes -> SUBSET Nodes]
  <2> DEFINE P == IF t.out = None THEN pit[node] ELSE pit[node] \ {n}
  <2>1. /\ t.fut # 0
        /\ Returns(h, Answered(h, queue, n, t.fut), P)
        /\ failed' = IF t.out = None THEN failed
                     ELSE [failed EXCEPT ![node] = @ \ {t.out}]
    BY <1>6, Zenon DEF Resume, Credited
  <2> HIDE DEF t, n, node, M
  <2>2. t.fut \in 1..net.editions
    BY <1>2, <1>3, <1>6, <2>1, NetFacts
  <2>3. queue' = Answered(h, queue, n, t.fut) => Speaks(h, queue, n, {t.fut}, M)
    BY <1>3, <2>2, AnswerSpeaks
  <2>4. P \in SUBSET Names /\ P \subseteq pit[h[1]]
    BY <1>3 DEF node
  <2>5. Works(h, queue, n, {t.fut}, M)
    BY <2>1, <2>3, <2>4, ReturnsWorks
  <2>6. failed' \in [Nodes -> SUBSET Nodes]
    BY <1>3, <1>4, <2>1
  <2> QED BY <2>5, <2>6
<1>7. ASSUME GiveUp(h)
      PROVE  Works(h, queue, n, {t.fut}, M) /\ failed' \in [Nodes -> SUBSET Nodes]
  <2>1. Returns(h, queue, pit[node]) /\ UNCHANGED failed
    BY <1>7, Zenon DEF GiveUp
  <2> HIDE DEF t, n, node, M
  <2>2. Speaks(h, queue, n, {t.fut}, M) \/ queue' # queue
    BY DEF Speaks
  <2> QED BY <1>3, <1>4, <2>1, <2>2, ReturnsWorks DEF node
<1>8. FailsOver(h) \/ (Resume(h) /\ t.fut # -1) \/ GiveUp(h)
  BY Zenon DEF Resume, Timeout
<1>9. Works(h, queue, n, {t.fut}, M) /\ failed' \in [Nodes -> SUBSET Nodes]
  BY <1>5, <1>6, <1>7, <1>8
<1> QED BY <1>1, <1>3, <1>9

-----------------------------------------------------------------------------
(* What the steps do to the tables.                                         *)

(* The mesh stays as it is, and what is defined by it.                      *)
LEMMA SameNet ==
  ASSUME UNCHANGED net
  PROVE  /\ Links' = Links /\ Handlers' = Handlers /\ Messages' = Messages
         /\ Requests' = Requests /\ Answers' = Answers
         /\ \A h, t : Task(h, t)' <=> Task(h, t)
         /\ \A s, S : Apart(s, S)' <=> Apart(s, S)
<1>1. Links' = Links /\ Requests' = Requests /\ Answers' = Answers
  BY DEF Links, Requests, Answers
<1>2. Handlers' = Handlers
  BY <1>1 DEF Handlers
<1>5. Refusals' = Refusals /\ Revoking' = Revoking
  BY DEF Refusals, Revoking
<1>6. Messages' = Messages
  BY <1>1, <1>5 DEF Messages, Capabilities
<1>3. ASSUME NEW h, NEW t PROVE Task(h, t)' <=> Task(h, t)
  BY <1>1 DEF Task
<1>4. ASSUME NEW s, NEW S PROVE Apart(s, S)' <=> Apart(s, S)
  BY <1>1 DEF Apart, Closed
<1> QED BY <1>1, <1>2, <1>3, <1>4, <1>6

LEMMA WorksFacts ==
  ASSUME Typed, NEW h \in Handlers, NEW q \in Queues, NEW n, NEW E, NEW M, Works(h, q, n, E, M)
  PROVE  /\ queue' \in Queues
         /\ DOMAIN hand' = Handlers
         /\ \A x \in Handlers : hand'[x] = hand[x] \/
              /\ x = h
              /\ hand'[x] # None =>
                   /\ Task(x, hand'[x])
                   /\ \A i \in DOMAIN hand'[x].rest : hand'[x].rest[i] \in M
                   /\ M # {} \/ n \in pit[h[1]]
         /\ pit' \in [Nodes -> SUBSET Names]
         /\ \A x \in Nodes : pit'[x] = pit[x] \/ (x = h[1] /\ (M = {} => pit'[x] \subseteq pit[x]))
<1>1. /\ DOMAIN hand = Handlers /\ pit \in [Nodes -> SUBSET Names] /\ h[1] \in Nodes
  BY NetFacts DEF Typed
<1>2. queue' \in Queues
  <2>1. Speaks(h, q, n, E, M)
    BY Zenon DEF Works
  <2>2. CASE queue' = q
    BY <2>2
  <2>3. ASSUME NEW k \in Links, NEW p \in Messages, queue' = [q EXCEPT ![k] = Append(@, p)]
        PROVE  queue' \in Queues
    <3>1. Append(q[k], p) \in Seq(Messages)
      BY AppendTo DEF Queues
    <3> QED BY <2>3, <3>1 DEF Queues
  <2> QED BY <2>1, <2>2, <2>3 DEF Speaks
<1>3. PICK t : /\ hand' = hand \/ hand' = [hand EXCEPT ![h] = t]
               /\ hand' = hand \/ (t # None =>
                    /\ Task(h, t)
                    /\ \A i \in DOMAIN t.rest : t.rest[i] \in M
                    /\ M # {} \/ n \in pit[h[1]])
  BY Zenon DEF Works
<1>4. /\ DOMAIN hand' = Handlers
      /\ \A x \in Handlers : hand'[x] = hand[x] \/
           /\ x = h
           /\ hand'[x] # None =>
                /\ Task(x, hand'[x])
                /\ \A i \in DOMAIN hand'[x].rest : hand'[x].rest[i] \in M
                /\ M # {} \/ n \in pit[h[1]]
  BY <1>1, <1>3
<1>5. /\ pit' \in [Nodes -> SUBSET Names]
      /\ \A x \in Nodes : pit'[x] = pit[x] \/ (x = h[1] /\ (M = {} => pit'[x] \subseteq pit[x]))
  <2>1. CASE pit' = pit
    BY <1>1, <2>1
  <2>2. CASE pit' # pit
    <3>1. PICK P \in SUBSET Names : pit' = [pit EXCEPT ![h[1]] = P] /\ (M = {} => P \subseteq pit[h[1]])
      BY <2>2 DEF Works
    <3> QED BY <1>1, <3>1
  <2> QED BY <2>1, <2>2
<1> QED BY <1>2, <1>4, <1>5

LEMMA WorksTyped ==
  ASSUME Typed, UNCHANGED net, NEW h \in Handlers, NEW q \in Queues, NEW n, NEW E, NEW M,
         Works(h, q, n, E, M), failed' \in [Nodes -> SUBSET Nodes],
         UNCHANGED <<lost, store, nackers, seen, origin>>
  PROVE  Typed'
<1>1. /\ Links' = Links /\ Handlers' = Handlers /\ Messages' = Messages
      /\ \A x, t : Task(x, t)' <=> Task(x, t)
  BY SameNet
<1>2. /\ queue' \in Queues /\ DOMAIN hand' = Handlers
      /\ \A x \in Handlers : hand'[x] = hand[x] \/ (hand'[x] # None => Task(x, hand'[x]))
      /\ pit' \in [Nodes -> SUBSET Names]
  BY WorksFacts
<1> QED BY <1>1, <1>2 DEF Typed, Queues, origin

LEMMA RestFacts ==
  ASSUME Typed, NEW l \in Links, queue[l] # <<>>
  PROVE  /\ Rest(l) \in Queues
         /\ Rest(l)[l] = Tail(queue[l]) /\ \A k \in Links : k # l => Rest(l)[k] = queue[k]
         /\ Head(queue[l]) \in Messages /\ Head(queue[l]) \in On(queue[l])
<1>1. queue \in Queues /\ queue[l] \in Seq(Messages)
  BY DEF Typed, Queues
<1>2. Tail(queue[l]) \in Seq(Messages) /\ Head(queue[l]) \in Messages /\ Head(queue[l]) \in On(queue[l])
  BY <1>1, TailOf
<1>3. /\ Rest(l) \in Queues
      /\ Rest(l)[l] = Tail(queue[l]) /\ \A k \in Links : k # l => Rest(l)[k] = queue[k]
  BY <1>1, <1>2 DEF Rest, Queues
<1> QED BY <1>2, <1>3

LEMMA HandleInterestWorks ==
  ASSUME TrafficFaithful, Typed, NEW l \in Links, queue[l] # <<>>,
         HandleInterest(l, Head(queue[l]))
  PROVE  LET p == Head(queue[l])
             n == p.name.components
             h == <<l[2], l[1]>>
         IN /\ p.kind = "Interest" /\ p \in Requests /\ n \in Names /\ h \in Handlers
            /\ Works(h, Rest(l), n, {store[l[2]][n]} \ {0}, Told(net.routes[l[2]]))
            /\ failed' \in [Nodes -> SUBSET Nodes]
            /\ UNCHANGED <<lost, store, nackers, seen, origin>>
<1> DEFINE p == Head(queue[l])
           n == p.name.components
           h == <<l[2], l[1]>>
           node == l[2]
           E == {store[node][n]} \ {0}
           M == Told(net.routes[node])
<1>2. p.kind = "Interest" /\ net \in Meshes
  BY DEF HandleInterest, Typed
<1>3. /\ p \in Requests /\ n \in Names /\ Rest(l) \in Queues
  BY <1>2, RestFacts, PacketFacts, InterestFacts
<1>4. h \in Handlers /\ h[1] = node /\ h[2] = l[1] /\ node \in Nodes
  BY <1>2, NetFacts
<1>5. store[node][n] \in 0..net.editions
  BY <1>3, <1>4 DEF Typed
<1>6. UNCHANGED <<lost, store, nackers, seen, origin>>
  BY Zenon DEF HandleInterest
<1>7. Works(h, Rest(l), n, E, M) /\ failed' \in [Nodes -> SUBSET Nodes]
  <2>1. CASE store[node][n] # 0
    <3>1. queue' = Answered(h, Rest(l), n, store[node][n]) /\ UNCHANGED tables
      BY <2>1, Zenon DEF HandleInterest
    <3> HIDE DEF p, n, h, node
    <3>2. store[node][n] \in 1..net.editions /\ store[node][n] \in E
      BY <1>2, <1>5, <2>1, NetFacts
    <3>3. Speaks(h, Rest(l), n, E, M)
      BY <1>2, <1>3, <1>4, <3>1, <3>2, AnswerSpeaks
    <3>4. hand' = hand /\ pit' = pit /\ failed' = failed
      BY <3>1 DEF tables
    <3> QED BY <3>3, <3>4 DEF Works, Typed
  <2>2. CASE store[node][n] = 0
    <3>1. Express(h, p, Rest(l))
      BY <2>2, Zenon DEF HandleInterest
    <3> HIDE DEF p, h, node
    <3>2. Works(h, Rest(l), n, E, M) /\ UNCHANGED failed
      BY <1>3, <1>4, <3>1, ExpressWorks
    <3> QED BY <3>2 DEF Typed
  <2> QED BY <2>1, <2>2
<1> HIDE DEF h, node
<1> QED BY <1>2, <1>3, <1>4, <1>6, <1>7 DEF h, node

LEMMA AskWorks ==
  ASSUME TrafficFaithful, Typed, NEW a \in net.asks, Ask(a)
  PROVE  LET h == <<a.client, App>>
             n == InterestFor(a, Hops).name.components
         IN /\ h \in Handlers /\ h[1] \notin Servers /\ h[2] \notin Servers /\ n \in Names
            /\ Works(h, queue, n, {store[h[1]][n]} \ {0}, Told(net.routes[h[1]]))
            /\ failed' \in [Nodes -> SUBSET Nodes]
            /\ UNCHANGED <<lost, store, nackers, seen, origin>>
<1> DEFINE h == <<a.client, App>>
           i == InterestFor(a, Hops)
           n == i.name.components
           E == {store[h[1]][n]} \ {0}
           M == Told(net.routes[h[1]])
<1>1. net \in Meshes /\ queue \in Queues
  BY DEF Typed, Queues
<1>2. h \in Handlers /\ h[1] \notin Servers /\ h[2] \notin Servers
  BY <1>1, NetFacts, MeshAssumption DEF Handlers, Nodes
<1>3. i \in Requests /\ n \in Names
  BY <1>1, InterestFacts
<1>4. Express(h, i, queue) /\ UNCHANGED <<lost, store, nackers, seen, origin>>
  BY Zenon DEF Ask
<1> HIDE DEF h, i
<1>5. Works(h, queue, n, E, M) /\ UNCHANGED failed
  BY <1>1, <1>2, <1>3, <1>4, ExpressWorks
<1>6. failed' \in [Nodes -> SUBSET Nodes]
  BY <1>5 DEF Typed
<1> QED BY <1>2, <1>3, <1>4, <1>5, <1>6 DEF h, i

LEMMA ResolveFacts ==
  ASSUME Typed, NEW n, NEW m, NEW v \in {-1} \cup 0..net.editions, Resolve(n, m, v)
  PROVE  /\ DOMAIN hand' = Handlers
         /\ \A h \in Handlers : hand'[h] # None =>
              hand[h] # None /\ Task(h, hand'[h]) /\ hand'[h].rest = hand[h].rest
<1>1. hand' = [h \in Handlers |-> IF h \in Waiting(n, m) THEN [hand[h] EXCEPT !.fut = v]
                                                         ELSE hand[h]]
  BY DEF Resolve
<1>2. ASSUME NEW h \in Handlers, hand'[h] # None
      PROVE  hand[h] # None /\ Task(h, hand'[h]) /\ hand'[h].rest = hand[h].rest
  <2>1. CASE h \notin Waiting(n, m)
    BY <1>1, <1>2, <2>1 DEF Typed
  <2>2. CASE h \in Waiting(n, m)
    <3>1. hand[h] # None /\ Task(h, hand[h])
      BY <2>2 DEF Waiting, Typed
    <3>2. hand'[h] = [hand[h] EXCEPT !.fut = v]
      BY <1>1, <2>2
    <3>3. hand[h] \in [interest : Requests, out : Nodes \cup {None}, rest : Seq(Nodes),
                       fut : {-1} \cup 0..net.editions]
      BY <3>1 DEF Task
    <3>4. /\ hand'[h].rest = hand[h].rest
          /\ hand'[h] \in [interest : Requests, out : Nodes \cup {None}, rest : Seq(Nodes),
                           fut : {-1} \cup 0..net.editions]
      BY <3>2, <3>3
    <3> QED BY <3>1, <3>4 DEF Task
  <2> QED BY <2>1, <2>2
<1> QED BY <1>1, <1>2

LEMMA HandleDataDoes ==
  ASSUME Typed, NEW l \in Links, queue[l] # <<>>, HandleData(l, Head(queue[l]))
  PROVE  LET p == Head(queue[l])
             n == p.name.components
             m == l[2]
             v == p.metadata.sequence
         IN /\ p.kind = "Data" /\ n \in Names /\ v \in 1..net.editions
            /\ queue' = Rest(l) /\ UNCHANGED <<lost, failed, nackers, seen, origin>>
            /\ DOMAIN hand' = Handlers
            /\ \A h \in Handlers : hand'[h] # None =>
                 hand[h] # None /\ Task(h, hand'[h]) /\ hand'[h].rest = hand[h].rest
            /\ store' \in [Nodes -> [Names -> 0..net.editions]]
            /\ \A x \in Nodes : \A y \in Names :
                 store'[x][y] = IF x = m /\ y = n /\ n \in pit[m] THEN v ELSE store[x][y]
            /\ pit' \in [Nodes -> SUBSET Names] /\ \A x \in Nodes : pit'[x] \subseteq pit[x]
<1> DEFINE p == Head(queue[l])
           n == p.name.components
           m == l[2]
           v == p.metadata.sequence
<1>1. p.kind = "Data" /\ net \in Meshes
  BY DEF HandleData, Typed
<1>2. n \in Names /\ v \in 1..net.editions
  BY <1>1, RestFacts, PacketFacts, AnswerFacts
<1>3. m \in Nodes /\ net.editions \in Nat
  BY <1>1, NetFacts
<1>4. queue' = Rest(l) /\ UNCHANGED <<lost, failed, nackers, seen, origin>>
  BY Zenon DEF HandleData
<1>5. \/ /\ n \in pit[m] /\ Resolve(m, n, v)
         /\ store' = [store EXCEPT ![m][n] = v]
         /\ pit' = [pit EXCEPT ![m] = @ \ {n}]
      \/ n \notin pit[m] /\ hand' = hand /\ store' = store /\ pit' = pit
  BY Zenon DEF HandleData
<1>6. /\ store \in [Nodes -> [Names -> 0..net.editions]] /\ pit \in [Nodes -> SUBSET Names]
      /\ DOMAIN hand = Handlers /\ \A h \in Handlers : hand[h] # None => Task(h, hand[h])
  BY DEF Typed
<1> HIDE DEF n, m, v
<1>7. DOMAIN hand' = Handlers /\ \A h \in Handlers : hand'[h] # None =>
        hand[h] # None /\ Task(h, hand'[h]) /\ hand'[h].rest = hand[h].rest
  <2>1. CASE Resolve(m, n, v)
    BY <1>2, <1>3, <2>1, ResolveFacts
  <2>2. CASE hand' = hand
    BY <1>6, <2>2
  <2> QED BY <1>5, <2>1, <2>2
<1>8. /\ store' \in [Nodes -> [Names -> 0..net.editions]]
      /\ \A x \in Nodes : \A y \in Names :
           store'[x][y] = IF x = m /\ y = n /\ n \in pit[m] THEN v ELSE store[x][y]
  <2>1. CASE n \in pit[m] /\ store' = [store EXCEPT ![m][n] = v]
    BY <1>2, <1>3, <1>6, <2>1
  <2>2. CASE n \notin pit[m] /\ store' = store
    BY <1>6, <2>2
  <2> QED BY <1>5, <2>1, <2>2
<1>9. pit' \in [Nodes -> SUBSET Names] /\ \A x \in Nodes : pit'[x] \subseteq pit[x]
  BY <1>3, <1>5, <1>6
<1> QED BY <1>1, <1>2, <1>4, <1>7, <1>8, <1>9 DEF n, m, v

LEMMA PurgedFacts ==
  ASSUME Typed, NEW x \in Servers, NEW name, NEW prefix
  PROVE  /\ Purged(x, name, prefix) \in [Nodes -> [Names -> 0..net.editions]]
         /\ \A m \in Nodes : m # x => Purged(x, name, prefix)[m] = store[m]
         /\ \A n \in Names : Purged(x, name, prefix)[x][n] =
              IF Covers(name, prefix, n) THEN 0 ELSE store[x][n]
<1>1. /\ store \in [Nodes -> [Names -> 0..net.editions]] /\ x \in Nodes
      /\ 0 \in 0..net.editions
  BY NetFacts DEF Typed
<1> DEFINE row == [n \in Names |-> IF Covers(name, prefix, n) THEN 0 ELSE store[x][n]]
<1>2. row \in [Names -> 0..net.editions]
  BY <1>1
<1>3. Purged(x, name, prefix) = [store EXCEPT ![x] = row]
  BY Zenon DEF Purged
<1>4. \A n \in Names : row[n] = IF Covers(name, prefix, n) THEN 0 ELSE store[x][n]
  OBVIOUS
<1> HIDE DEF row
<1> QED BY <1>1, <1>2, <1>3, <1>4

LEMMA OwnDoes ==
  ASSUME Typed, (\E n \in Names : Publish(n)) \/ Tick
  PROVE  /\ store' \in [Nodes -> [Names -> 0..net.editions]]
         /\ edition' \in [Names -> 0..net.editions]
         /\ now' \in 1..Horizon /\ now <= now'
         /\ \A m \in Nodes : m # Producer => store'[m] = store[m]
         /\ \A n \in Names :
              /\ edition[n] <= edition'[n]
              /\ store'[Producer][n] = store[Producer][n] \/ store'[Producer][n] > edition[n]
<1>1. /\ net \in Meshes /\ Producer \in Servers /\ Servers \subseteq Nodes /\ net.editions \in Nat
      /\ Horizon \in Nat
  BY NetFacts, MeshAssumption DEF Typed
<1>2. /\ store \in [Nodes -> [Names -> 0..net.editions]]
      /\ edition \in [Names -> 0..net.editions] /\ now \in 1..Horizon
  BY DEF Typed
<1>3. ASSUME NEW n \in Names, Publish(n)
      PROVE  /\ edition' = [edition EXCEPT ![n] = @ + 1]
             /\ store' = [store EXCEPT ![Producer][n] = edition[n] + 1]
             /\ edition[n] < net.editions /\ now' = now
  BY <1>3, Zenon DEF Publish
<1>4. CASE \E n \in Names : Publish(n)
  <2>1. PICK n \in Names : /\ edition' = [edition EXCEPT ![n] = @ + 1]
                           /\ store' = [store EXCEPT ![Producer][n] = edition[n] + 1]
                           /\ edition[n] < net.editions /\ now' = now
    BY <1>3, <1>4
  <2>2. edition[n] \in Nat /\ edition[n] + 1 \in 0..net.editions
    BY <1>1, <1>2, <2>1
  <2>3. edition' \in [Names -> 0..net.editions] /\ \A y \in Names : edition[y] <= edition'[y]
    BY <1>1, <1>2, <2>1, <2>2
  <2>4. /\ store' \in [Nodes -> [Names -> 0..net.editions]]
        /\ \A m \in Nodes : m # Producer => store'[m] = store[m]
        /\ \A y \in Names : store'[Producer][y] = IF y = n THEN edition[n] + 1
                                                          ELSE store[Producer][y]
    BY <1>1, <1>2, <2>1, <2>2
  <2>5. now' \in 1..Horizon /\ now <= now'
    BY <1>1, <1>2, <2>1
  <2> QED BY <2>2, <2>3, <2>4, <2>5
<1>5. CASE Tick
  <2>1. now < Horizon /\ now' = now + 1 /\ store' = store /\ edition' = edition
    BY <1>5 DEF Tick
  <2> QED BY <1>1, <1>2, <2>1
<1> QED BY <1>4, <1>5

-----------------------------------------------------------------------------
(* Types are kept.                                                          *)

LEMMA TypedInit == TrafficFaithful /\ Init =>
  Typed /\ \A l \in Links : \A p \in On(queue[l]) : p.kind = "CapPeer"
<1> SUFFICES ASSUME TrafficFaithful, Init
             PROVE  Typed /\ \A l \in Links : \A p \in On(queue[l]) : p.kind = "CapPeer"
  OBVIOUS
<1>1. net \in Meshes
  BY DEF Init
<1>2. /\ Producer \in Servers /\ Servers \subseteq Nodes /\ net.editions \in Nat
      /\ Horizon \in Nat /\ Horizon >= 1 /\ Links \subseteq Handlers
  BY <1>1, NetFacts, MeshAssumption
<1>3. Capabilities \in Messages /\ Received[Capabilities] = Capabilities /\ Capabilities.kind = "CapPeer"
  <2>1. Capabilities \in Messages
    BY DEF Messages
  <2> QED BY <1>1, <2>1, PacketFacts, OtherFacts DEF TrafficFaithful
<1>4. /\ queue \in Queues
      /\ \A l \in Links : queue[l] = <<Capabilities>> \/ queue[l] = <<>>
  <2>1. queue = [l \in Links |-> IF l[1] \in Servers /\ l \notin net.greeted
                                   THEN <<Received[Capabilities]>> ELSE <<>>]
    BY DEF Init
  <2>2. <<Capabilities>> \in Seq(Messages) /\ <<>> \in Seq(Messages)
    BY <1>3
  <2> QED BY <1>3, <2>1, <2>2 DEF Queues
<1>5. \A l \in Links : \A p \in On(queue[l]) : p.kind = "CapPeer"
  BY <1>3, <1>4 DEF On
<1>6. Typed
  <2>1. nackers \in [Servers -> SUBSET Nodes]
    BY <1>2 DEF Init
  <2>2. /\ store \in [Nodes -> [Names -> 0..net.editions]]
        /\ edition \in [Names -> 0..net.editions] /\ revoked \in [Names -> Nat]
    BY <1>2 DEF Init
  <2>3. seen \in [Servers -> [Revocables -> 0..Horizon]] /\ now \in 1..Horizon
    BY <1>2 DEF Init
  <2>4. /\ pit \in [Nodes -> SUBSET Names] /\ failed \in [Nodes -> SUBSET Nodes]
        /\ lost \subseteq Links /\ DOMAIN hand = Handlers
        /\ \A h \in Handlers : hand[h] = None
    BY DEF Init
  <2> QED BY <1>1, <1>4, <2>1, <2>2, <2>3, <2>4 DEF Typed, Queues
<1> QED BY <1>5, <1>6

LEMMA FloodTyped ==
  ASSUME Typed, UNCHANGED net, NEW x \in Servers, NEW n \in Revocables, NEW e \in 0..Horizon,
         seen' = [seen EXCEPT ![x][n] = e],
         store' \in [Nodes -> [Names -> 0..net.editions]],
         queue' \in Queues, lost' \subseteq Links,
         UNCHANGED <<nackers, tables, edition, now>>, revoked' \in [Names -> Nat]
  PROVE  Typed'
<1>1. /\ Links' = Links /\ Handlers' = Handlers /\ Messages' = Messages
      /\ \A h, t : Task(h, t)' <=> Task(h, t)
  BY SameNet
<1>2. seen' \in [Servers -> [Revocables -> 0..Horizon]]
  BY DEF Typed
<1>3. hand' = hand /\ pit' = pit /\ failed' = failed
  BY DEF tables
<1> QED BY <1>1, <1>2, <1>3 DEF Typed, Queues

LEMMA TakenTyped ==
  ASSUME Typed, UNCHANGED net, NEW l \in Links, queue[l] # <<>>, queue' = Rest(l),
         UNCHANGED <<lost, seen, failed, origin>>,
         nackers' \in [Servers -> SUBSET Nodes],
         pit' \in [Nodes -> SUBSET Names],
         DOMAIN hand' = Handlers,
         \A h \in Handlers : hand'[h] # None => Task(h, hand'[h]),
         store' \in [Nodes -> [Names -> 0..net.editions]]
  PROVE  Typed'
<1>1. /\ Links' = Links /\ Handlers' = Handlers /\ Messages' = Messages
      /\ \A x, t : Task(x, t)' <=> Task(x, t)
  BY SameNet
<1>2. Rest(l) \in Queues
  BY RestFacts
<1> QED BY <1>1, <1>2 DEF Typed, Queues, origin

LEMMA PumpTyped ==
  ASSUME TrafficFaithful, Typed, UNCHANGED net, NEW l \in Links, Pump(l)
  PROVE  Typed'
<1> DEFINE p == Head(queue[l])
           x == l[2]
<1>1. /\ queue[l] # <<>>
      /\ \/ HandleInterest(l, p) \/ HandleData(l, p) \/ HandleNack(l, p)
         \/ HandleInvalidate(l, p) \/ HandleCapPeer(l, p) \/ Ignore(l, p)
  BY Zenon DEF Pump
<1>2. /\ net \in Meshes /\ pit \in [Nodes -> SUBSET Names] /\ DOMAIN hand = Handlers
      /\ \A h \in Handlers : hand[h] # None => Task(h, hand[h])
      /\ store \in [Nodes -> [Names -> 0..net.editions]]
      /\ nackers \in [Servers -> SUBSET Nodes]
      /\ l[1] \in Nodes
  BY NetFacts DEF Typed
<1>3. p \in Messages /\ Rest(l) \in Queues
  BY <1>1, RestFacts
<1>4. CASE HandleInterest(l, p)
  BY <1>1, <1>3, <1>4, HandleInterestWorks, WorksTyped
<1>5. CASE HandleData(l, p)
  <2>1. /\ queue' = Rest(l) /\ UNCHANGED <<lost, failed, nackers, seen, origin>>
        /\ DOMAIN hand' = Handlers
        /\ \A h \in Handlers : hand'[h] # None => Task(h, hand'[h])
        /\ store' \in [Nodes -> [Names -> 0..net.editions]]
        /\ pit' \in [Nodes -> SUBSET Names]
    BY <1>1, <1>5, HandleDataDoes
  <2> QED BY <1>1, <1>2, <2>1, TakenTyped
<1>6. CASE HandleNack(l, p)
  <2>1. /\ queue' = Rest(l) /\ Resolve(x, p.name.components, -1)
        /\ UNCHANGED <<lost, store, pit, failed, nackers, seen, origin>>
    BY <1>6, Zenon DEF HandleNack
  <2>2. -1 \in {-1} \cup 0..net.editions
    OBVIOUS
  <2>3. DOMAIN hand' = Handlers /\ \A h \in Handlers : hand'[h] # None => Task(h, hand'[h])
    BY <2>1, <2>2, ResolveFacts
  <2> QED BY <1>1, <1>2, <2>1, <2>3, TakenTyped
<1>7. ASSUME queue' = Rest(l), UNCHANGED <<lost, store, seen, tables, origin>>,
             nackers' \in [Servers -> SUBSET Nodes]
      PROVE  Typed'
  <2>1. hand' = hand /\ pit' = pit /\ failed' = failed
    BY <1>7 DEF tables
  <2> QED BY <1>1, <1>2, <1>7, <2>1, TakenTyped
<1>8. CASE HandleCapPeer(l, p)
  <2>1. /\ queue' = Rest(l) /\ UNCHANGED <<lost, store, seen, tables, origin>> /\ x \in Servers
        /\ nackers' = [nackers EXCEPT ![x] =
             IF Bit(p.features, 6) THEN @ \cup {l[1]} ELSE @ \ {l[1]}]
    BY <1>8, Zenon DEF HandleCapPeer
  <2>2. nackers' \in [Servers -> SUBSET Nodes]
    BY <1>2, <2>1
  <2> QED BY <1>7, <2>1, <2>2
<1>9. CASE Ignore(l, p) \/ (HandleInvalidate(l, p) /\ ~(Verified(x, p) /\ InvalidationIsFresh(x, p)))
  <2>1. queue' = Rest(l) /\ UNCHANGED <<lost, store, nackers, seen, tables, origin>>
    BY <1>9, Zenon DEF Ignore, HandleInvalidate
  <2> QED BY <1>2, <1>7, <2>1
<1>10. CASE HandleInvalidate(l, p) /\ Verified(x, p) /\ InvalidationIsFresh(x, p)
  <2> DEFINE name == p.name.components
             ls == Onward(l)
  <2>1. /\ p.kind = "Invalidate" /\ x \in Servers
        /\ seen' = [seen EXCEPT ![x][name] = p.epoch]
        /\ store' = Purged(x, name, p.is_prefix)
        /\ queue' = SendAll(Rest(l), ls, p)
        /\ lost' = lost \cup Full(Rest(l), ls)
        /\ UNCHANGED <<nackers, tables, origin>>
    BY <1>10, Zenon DEF HandleInvalidate
  <2>2. name \in Revocables /\ p.epoch \in 0..Horizon
    <3>1. p \in Revoking
      BY <1>2, <1>3, <2>1, PacketFacts
    <3> QED BY <3>1, MeshAssumption, RevokingFacts
  <2>3. ls \in SUBSET Links
    BY DEF Onward
  <2> HIDE DEF p, name, x, ls
  <2>4. /\ SendAll(Rest(l), ls, p) \in Queues /\ Full(Rest(l), ls) \subseteq Links
    BY <1>2, <1>3, <2>3, SendAllDoes
  <2>5. store' \in [Nodes -> [Names -> 0..net.editions]]
    BY <2>1, PurgedFacts
  <2>6. /\ lost' \subseteq Links /\ revoked' \in [Names -> Nat]
        /\ UNCHANGED <<edition, now>>
    BY <2>1, <2>4 DEF Typed, origin
  <2>7. queue' \in Queues /\ UNCHANGED <<nackers, tables>>
    BY <2>1, <2>4
  <2> QED BY <2>1, <2>2, <2>5, <2>6, <2>7, FloodTyped
<1> QED BY <1>1, <1>4, <1>5, <1>6, <1>8, <1>9, <1>10

LEMMA InvalidateTyped ==
  ASSUME TrafficFaithful, Typed, UNCHANGED net, NEW p \in Purges, Invalidate(p)
  PROVE  Typed'
<1> DEFINE faces == {l \in Links : l[1] = Producer}
           inv == InvalidateFor(p, now)
           epoch == IF InvalidationIsFresh(Producer, inv) THEN now ELSE seen[Producer][p.name]
<1>1. /\ seen' = [seen EXCEPT ![Producer][p.name] = epoch]
      /\ store' = Purged(Producer, p.name, p.prefix)
      /\ revoked' = [n \in Names |-> IF Covers(p.name, p.prefix, n) THEN edition[n] ELSE revoked[n]]
      /\ queue' = SendAll(queue, faces, inv)
      /\ lost' = lost \cup Full(queue, faces)
      /\ UNCHANGED <<nackers, tables, edition, now>>
  BY Zenon DEF Invalidate
<1>2. /\ net \in Meshes /\ queue \in Queues /\ now \in 1..Horizon /\ Horizon \in Nat
      /\ edition \in [Names -> 0..net.editions] /\ revoked \in [Names -> Nat]
      /\ seen \in [Servers -> [Revocables -> 0..Horizon]]
  BY MeshAssumption DEF Typed, Queues
<1>3. Producer \in Servers /\ p.name \in Revocables /\ inv \in Messages
  BY <1>2, MeshAssumption, RevokingFacts DEF Revocables, Messages
<1>4. revoked' \in [Names -> Nat]
  <2>1. \A n \in Names : edition[n] \in Nat
    BY <1>2, NetFacts
  <2> QED BY <1>1, <1>2, <2>1
<1>5. epoch \in 0..Horizon
  BY <1>2, <1>3
<1>6. faces \in SUBSET Links
  OBVIOUS
<1> HIDE DEF faces, inv, epoch
<1>7. SendAll(queue, faces, inv) \in Queues /\ Full(queue, faces) \subseteq Links
  BY <1>2, <1>3, <1>6, SendAllDoes
<1>8. store' \in [Nodes -> [Names -> 0..net.editions]]
  BY <1>1, <1>3, PurgedFacts
<1>9. queue' \in Queues /\ lost' \subseteq Links
  BY <1>1, <1>7 DEF Typed
<1> QED BY <1>1, <1>3, <1>4, <1>5, <1>8, <1>9, FloodTyped

LEMMA TypedNext == TrafficFaithful /\ Typed /\ [Next]_vars => Typed'
<1> SUFFICES ASSUME TrafficFaithful, Typed, [Next]_vars PROVE Typed'
  OBVIOUS
<1>1. UNCHANGED net
  BY Zenon DEF Next, vars
<1>2. /\ Links' = Links /\ Handlers' = Handlers /\ Messages' = Messages
      /\ \A x, t : Task(x, t)' <=> Task(x, t)
  BY <1>1, SameNet
<1>3. CASE UNCHANGED vars
  <2>1. /\ UNCHANGED <<net, queue, lost, store, nackers, seen>>
        /\ UNCHANGED <<pit, failed, hand>> /\ UNCHANGED <<edition, revoked, now>>
    BY <1>3 DEF vars, tables, origin
  <2> QED BY <1>2, <2>1 DEF Typed
<1>4. ASSUME NEW l \in Links, Pump(l) PROVE Typed'
  BY <1>1, <1>4, PumpTyped
<1>5. ASSUME NEW h \in Handlers, Resume(h) \/ Timeout(h) \/ GiveUp(h) PROVE Typed'
  <2>1. queue \in Queues
    BY DEF Typed, Queues
  <2> QED BY <1>1, <1>5, <2>1, GoesOnWorks, WorksTyped
<1>6. ASSUME NEW a \in net.asks, Ask(a) PROVE Typed'
  <2>1. queue \in Queues
    BY DEF Typed, Queues
  <2> QED BY <1>1, <1>6, <2>1, AskWorks, WorksTyped
<1>7. ASSUME (\E n \in Names : Publish(n)) \/ Tick PROVE Typed'
  <2>1. UNCHANGED <<queue, lost, nackers, seen, tables, revoked>>
    BY <1>7, Zenon DEF Publish, Tick
  <2>2. hand' = hand /\ pit' = pit /\ failed' = failed
    BY <2>1 DEF tables
  <2>3. /\ store' \in [Nodes -> [Names -> 0..net.editions]]
        /\ edition' \in [Names -> 0..net.editions] /\ now' \in 1..Horizon
    BY <1>7, OwnDoes
  <2> QED BY <1>1, <1>2, <2>1, <2>2, <2>3 DEF Typed
<1>8. ASSUME NEW p \in Purges, Invalidate(p) PROVE Typed'
  BY <1>1, <1>8, InvalidateTyped
<1> QED BY <1>3, <1>4, <1>5, <1>6, <1>7, <1>8, Zenon DEF Next, Runs

-----------------------------------------------------------------------------
(* Steps that send no invalidation and take none off.                       *)

(* A packet that may be put on link l.                                      *)
Allowed(l, p) ==
  /\ p.kind # "Invalidate"
  /\ p.kind = "Data" /\ l[1] = Producer =>
       p.metadata.sequence > revoked[p.name.components]
  /\ \A s \in Servers : \A S \in SUBSET Servers : Apart(s, S) =>
       /\ l[1] = s /\ l[2] # Producer => p.kind # "Interest"
       /\ l[2] = s /\ l[1] # Producer => p.kind # "Data"

(* The link from the producer to such a neighbour.                          *)
Direct(l) == \E s \in Servers : \E S \in SUBSET Servers : Apart(s, S) /\ l = <<Producer, s>>

(* What link l has when nothing or its next packet is taken off, which on a *)
(* direct link is no invalidation.                                          *)
Left(l, r) ==
  \/ r = queue[l]
  \/ /\ queue[l] # <<>> /\ r = Tail(queue[l])
     /\ Direct(l) => Head(queue[l]).kind # "Invalidate"

Quiet(l) ==
  \E r \in Seq(Messages) :
    /\ Left(l, r)
    /\ queue'[l] = r \/ \E p \in Messages : Allowed(l, p) /\ queue'[l] = Append(r, p)

LEMMA LeftFacts ==
  ASSUME Typed, NEW l \in Links, NEW r, Left(l, r)
  PROVE  /\ r \in Seq(Messages) /\ On(r) \subseteq On(queue[l])
         /\ InOrder(queue[l]) => InOrder(r)
         /\ \A s : NewTo(s, queue[l]) => NewTo(s, r)
         /\ DataFollowed(queue[l]) => DataFollowed(r)
         /\ Direct(l) => \A n : RevokedAfter(queue[l], 0, n) => RevokedAfter(r, 0, n)
<1>1. queue[l] \in Seq(Messages)
  BY DEF Typed
<1>2. CASE r = queue[l]
  BY <1>1, <1>2
<1>3. CASE /\ queue[l] # <<>> /\ r = Tail(queue[l])
           /\ Direct(l) => Head(queue[l]).kind # "Invalidate"
  <2> DEFINE q == queue[l]
  <2>1. /\ Head(q) = q[1] /\ r \in Seq(Messages) /\ On(r) \subseteq On(q)
        /\ \A i \in DOMAIN r : r[i] = q[i + 1] /\ i + 1 \in DOMAIN q /\ i \in Nat
        /\ \A i \in DOMAIN q : i \in Nat /\ (i = 1 \/ (i - 1 \in DOMAIN r /\ r[i - 1] = q[i]))
        /\ DOMAIN q = 1..Len(q)
    BY <1>1, <1>3, TailOf
  <2>2. DataFollowed(q) => DataFollowed(r)
    BY <1>1, <1>3, FollowedKept
  <2>3. Direct(l) => q[1].kind # "Invalidate"
    BY <1>3, <2>1
  <2> HIDE DEF q
  <2>4. InOrder(q) => InOrder(r)
    <3> SUFFICES ASSUME InOrder(q), NEW i \in DOMAIN r, NEW j \in DOMAIN r, i < j,
                        r[i].kind = "Invalidate", r[j].kind = "Invalidate",
                        r[i].name.components = r[j].name.components
                 PROVE  r[i].epoch < r[j].epoch
      BY DEF InOrder
    <3>1. i + 1 \in DOMAIN q /\ j + 1 \in DOMAIN q /\ i + 1 < j + 1
      BY <2>1
    <3> QED BY <2>1, <3>1 DEF InOrder
  <2>5. ASSUME NEW s PROVE NewTo(s, q) => NewTo(s, r)
    BY <2>1 DEF NewTo
  <2>6. ASSUME Direct(l), NEW n, RevokedAfter(q, 0, n) PROVE RevokedAfter(r, 0, n)
    <3>1. PICK j \in DOMAIN q : /\ j > 0 /\ q[j].kind = "Invalidate"
                                /\ Covers(q[j].name.components, q[j].is_prefix, n)
      BY <2>6 DEF RevokedAfter
    <3>2. j # 1 /\ j \in Nat
      BY <2>1, <2>3, <2>6, <3>1
    <3>3. j - 1 \in DOMAIN r /\ r[j - 1] = q[j] /\ j - 1 > 0
      BY <2>1, <3>2, <3>1
    <3> QED BY <3>1, <3>3 DEF RevokedAfter
  <2> QED BY <2>1, <2>2, <2>4, <2>5, <2>6 DEF q
<1> QED BY <1>2, <1>3 DEF Left

LEMMA QuietFacts ==
  ASSUME Typed, NEW l \in Links, Quiet(l)
  PROVE  /\ queue'[l] \in Seq(Messages)
         /\ \A p \in On(queue'[l]) : p \in On(queue[l]) \/ Allowed(l, p)
         /\ InOrder(queue[l]) => InOrder(queue'[l])
         /\ \A s : NewTo(s, queue[l]) => NewTo(s, queue'[l])
         /\ l[1] = Producer /\ DataFollowed(queue[l]) => DataFollowed(queue'[l])
         /\ Direct(l) =>
              \A n : RevokedAfter(queue[l], 0, n) => RevokedAfter(queue'[l], 0, n)
<1>1. PICK r \in Seq(Messages) :
         /\ Left(l, r)
         /\ queue'[l] = r \/ \E p \in Messages : Allowed(l, p) /\ queue'[l] = Append(r, p)
  BY DEF Quiet
<1>2. /\ On(r) \subseteq On(queue[l])
      /\ InOrder(queue[l]) => InOrder(r)
      /\ \A s : NewTo(s, queue[l]) => NewTo(s, r)
      /\ DataFollowed(queue[l]) => DataFollowed(r)
      /\ Direct(l) => \A n : RevokedAfter(queue[l], 0, n) => RevokedAfter(r, 0, n)
  BY <1>1, LeftFacts
<1>3. CASE queue'[l] = r
  BY <1>2, <1>3
<1>4. ASSUME NEW p \in Messages, Allowed(l, p), queue'[l] = Append(r, p)
      PROVE  /\ queue'[l] \in Seq(Messages)
             /\ \A x \in On(queue'[l]) : x \in On(r) \/ Allowed(l, x)
             /\ InOrder(r) => InOrder(queue'[l])
             /\ \A s : NewTo(s, r) => NewTo(s, queue'[l])
             /\ l[1] = Producer /\ DataFollowed(r) => DataFollowed(queue'[l])
             /\ \A n : RevokedAfter(r, 0, n) => RevokedAfter(queue'[l], 0, n)
  <2> DEFINE z == queue'[l]
  <2>1. p.kind # "Invalidate"
    BY <1>4 DEF Allowed
  <2>2. /\ z \in Seq(Messages) /\ On(z) = On(r) \cup {p}
        /\ DOMAIN z = 1..(Len(r) + 1) /\ Len(r) \in Nat /\ DOMAIN r = 1..Len(r)
        /\ \A i \in DOMAIN r : i \in DOMAIN z /\ z[i] = r[i] /\ i # Len(r) + 1
        /\ z[Len(r) + 1] = p
        /\ \A i \in DOMAIN z : i \in DOMAIN r \/ i = Len(r) + 1
    BY <1>4, AppendTo
  <2>3. \A n : RevokedAfter(r, 0, n) => RevokedAfter(z, 0, n)
    BY <2>2 DEF RevokedAfter
  <2>4. l[1] = Producer /\ DataFollowed(r) => DataFollowed(z)
    <3> SUFFICES ASSUME l[1] = Producer, DataFollowed(r) PROVE DataFollowed(z)
      OBVIOUS
    <3>1. p.kind = "Data" => p.metadata.sequence > revoked[p.name.components]
      BY <1>4 DEF Allowed
    <3>2. p.kind = "Data" => p.metadata.sequence \in Nat /\ revoked[p.name.components] \in Nat
      BY PacketFacts, AnswerFacts, NetFacts DEF Typed
    <3> QED BY <1>4, <3>1, <3>2, FollowedKept
  <2> HIDE DEF z
  <2>5. InOrder(r) => InOrder(z)
    BY <2>1, <2>2 DEF InOrder
  <2>6. \A s : NewTo(s, r) => NewTo(s, z)
    BY <2>1, <2>2 DEF NewTo
  <2>7. \A x \in On(z) : x \in On(r) \/ Allowed(l, x)
    BY <1>4, <2>2
  <2> QED BY <2>2, <2>3, <2>4, <2>5, <2>6, <2>7 DEF z
<1> QED BY <1>1, <1>2, <1>3, <1>4

LEMMA ApartFacts ==
  ASSUME net \in Meshes, NEW s \in Servers, NEW S \in SUBSET Servers, Apart(s, S)
  PROVE  /\ <<Producer, s>> \in Links /\ <<s, Producer>> \in Links /\ s # Producer
         /\ \A l \in Links : l[1] \in S /\ l[2] = s => l = <<Producer, s>>
         /\ \A l \in Links : l[1] \in S /\ l[2] \in Servers \ S => l = <<Producer, s>>
         /\ Told(net.routes[s]) = {Producer}
<1>1. net.routes[s] = <<Producer>> /\ Producer \in S /\ s \notin S
      /\ Closed(S, {<<Producer, s>>})
  BY DEF Apart
<1>2. 1 \in DOMAIN net.routes[s] /\ net.routes[s][1] = Producer /\ DOMAIN net.routes[s] = {1}
  BY <1>1
<1>3. <<s, Producer>> \in Links
  BY <1>2, NetFacts
<1>4. <<Producer, s>> \in Links
  BY <1>3, NetFacts
<1>5. \A l \in Links : l[1] \in S /\ l[2] \in Servers /\ l # <<Producer, s>> => l[2] \in S
  BY <1>1 DEF Closed
<1>6. Told(net.routes[s]) = {Producer}
  BY <1>2 DEF Told
<1> QED BY <1>1, <1>3, <1>4, <1>5, <1>6

(* What a quiet step leaves the neighbour s of the producer with.           *)
Settled(s) ==
  /\ \A l \in Links : l[2] = s /\ l[1] # Producer => hand'[l] = None
  /\ \A h \in Handlers : h[1] = s /\ hand'[h] # None =>
       \A i \in DOMAIN hand'[h].rest : hand'[h].rest[i] = Producer
  /\ \A n \in Names : store'[s][n] # 0 /\ store'[s][n] <= revoked[n] =>
       \/ <<Producer, s>> \in lost
       \/ RevokedAfter(queue'[<<Producer, s>>], 0, n)

LEMMA QuietKeeps ==
  ASSUME MInv, Typed', Origin', UNCHANGED net, \A l \in Links : Quiet(l),
         UNCHANGED <<lost, seen, revoked>>, now <= now', issued \subseteq issued',
         \A s \in Servers : \A S \in SUBSET Servers : Apart(s, S) => Settled(s)
  PROVE  MInv'
<1> DEFINE P == Producer
<1>1. /\ Links' = Links /\ Handlers' = Handlers
      /\ \A s, S : Apart(s, S)' <=> Apart(s, S)
  BY SameNet
<1>2. Typed /\ Clock /\ \A s \in Servers : \A S \in SUBSET Servers : Apart(s, S) => Neighbour(s, S)
  BY DEF MInv
<1>3. \A l \in Links :
        /\ \A p \in On(queue'[l]) : p \in On(queue[l]) \/ Allowed(l, p)
        /\ InOrder(queue[l]) => InOrder(queue'[l])
        /\ \A s : NewTo(s, queue[l]) => NewTo(s, queue'[l])
        /\ l[1] = Producer /\ DataFollowed(queue[l]) => DataFollowed(queue'[l])
  BY <1>2, QuietFacts
<1>4. now \in Nat /\ now' \in Nat /\ seen \in [Servers -> [Revocables -> Nat]] /\ P \in Servers
  BY MeshAssumption DEF Typed, MInv
<1>5. Clock'
  <2>1. /\ \A n \in Revocables :
             /\ seen[P][n] <= now
             /\ seen[P][n] # 0 => \E x \in issued : x[1] = n /\ x[2] = seen[P][n]
             /\ \A m \in Servers : seen[m][n] <= seen[P][n]
        /\ \A l \in Links : \A p \in On(queue[l]) :
             p.kind = "Invalidate" => p.epoch <= seen[P][p.name.components]
    BY <1>2 DEF Clock
  <2>2. ASSUME NEW n \in Revocables
        PROVE  /\ seen[P][n] <= now'
               /\ seen[P][n] # 0 => \E x \in issued' : x[1] = n /\ x[2] = seen[P][n]
               /\ \A m \in Servers : seen[m][n] <= seen[P][n]
    BY <1>4, <2>1
  <2>3. ASSUME NEW l \in Links, NEW p \in On(queue'[l]), p.kind = "Invalidate"
        PROVE  p.epoch <= seen[P][p.name.components]
    BY <1>3, <2>1, <2>3 DEF Allowed
  <2>4. seen' = seen
    OBVIOUS
  <2> QED BY <1>1, <2>2, <2>3, <2>4 DEF Clock, On
<1>6. ASSUME NEW s \in Servers, NEW S \in SUBSET Servers, Apart(s, S)
      PROVE  Neighbour(s, S)'
  <2> DEFINE L == <<P, s>>
  <2>1. /\ AsksProducer(s) /\ HeardFirst(s, S) /\ InOrder(queue[L]) /\ NewTo(s, queue[L])
        /\ L \notin lost => DataFollowed(queue[L]) /\ StoreFollowed(s, queue[L])
        /\ Settled(s) /\ L \in Links /\ s # P
    BY <1>2, <1>6, ApartFacts DEF Neighbour, WillBePurged, Typed
  <2>2. AsksProducer(s)'
    <3>1. ASSUME NEW l \in Links, NEW p \in On(queue'[l])
          PROVE  /\ l[1] = s /\ l[2] # Producer => p.kind # "Interest"
                 /\ l[2] = s /\ l[1] # Producer => p.kind # "Data"
      <4>1. CASE p \in On(queue[l])
        BY <2>1, <4>1 DEF AsksProducer
      <4>2. CASE Allowed(l, p)
        BY <1>6, <4>2 DEF Allowed
      <4> QED BY <1>3, <4>1, <4>2
    <3>2. /\ \A l \in Links : l[2] = s /\ l[1] # Producer => hand'[l] = None
          /\ \A h \in Handlers : h[1] = s /\ hand'[h] # None =>
               \A i \in DOMAIN hand'[h].rest : hand'[h].rest[i] = Producer
      BY <2>1 DEF Settled
    <3> QED BY <1>1, <3>1, <3>2 DEF AsksProducer, On
  <2>3. HeardFirst(s, S)'
    <3>1. ASSUME NEW l \in Links, l[1] \notin S, NEW p \in On(queue'[l]), p.kind = "Invalidate"
          PROVE  p.epoch <= seen[s][p.name.components]
      BY <1>3, <2>1, <3>1 DEF HeardFirst, Allowed
    <3>2. \A m \in Servers \ S : \A n \in Revocables : seen[m][n] <= seen[s][n]
      BY <2>1 DEF HeardFirst
    <3>3. seen' = seen
      OBVIOUS
    <3> QED BY <1>1, <3>1, <3>2, <3>3 DEF HeardFirst, On
  <2>4. InOrder(queue'[L]) /\ NewTo(s, queue'[L])
    BY <1>3, <2>1
  <2>5. NewTo(s, queue[L])'
    BY <2>4 DEF NewTo
  <2>6. ASSUME L \notin lost
        PROVE  DataFollowed(queue'[L]) /\ \A n \in Names :
                 store'[s][n] # 0 /\ store'[s][n] <= revoked[n] => RevokedAfter(queue'[L], 0, n)
    <3>1. DataFollowed(queue'[L])
      BY <1>3, <2>1, <2>6
    <3> QED BY <2>1, <2>6, <3>1 DEF Settled
  <2>7. WillBePurged(s)'
    BY <2>6 DEF WillBePurged, DataFollowed, StoreFollowed
  <2> QED BY <2>2, <2>3, <2>4, <2>5, <2>7 DEF Neighbour
<1> QED BY <1>1, <1>5, <1>6 DEF MInv

(* A handler that goes about its work disturbs nothing, as long as the      *)
(* producer asks nobody and its neighbour asks only the producer.           *)
LEMMA WorksKeeps ==
  ASSUME MInv, Typed', UNCHANGED net,
         NEW h \in Handlers, NEW q \in Queues, \A l \in Links : Left(l, q[l]),
         NEW n \in Names, NEW E, NEW M, Works(h, q, n, E, M),
         UNCHANGED <<lost, store, seen, origin>>,
         h[1] = Producer => M = {} /\ \A e \in E : e > revoked[n],
         \A s \in Servers : \A S \in SUBSET Servers : Apart(s, S) =>
           (h[2] = s => h[1] = Producer) /\ (h[1] = s => M \subseteq {Producer})
  PROVE  MInv'
<1>1. Links' = Links /\ Handlers' = Handlers
  BY SameNet
<1>2. Typed /\ Origin /\ \A s \in Servers : \A S \in SUBSET Servers : Apart(s, S) => Neighbour(s, S)
  BY DEF MInv
<1>3. /\ net \in Meshes /\ h[1] \in Nodes /\ h = <<h[1], h[2]>> /\ Links \subseteq Handlers
      /\ Producer \in Servers /\ Servers \subseteq Nodes
  BY <1>2, NetFacts DEF Typed
<1>4. pit[Producer] = {} /\ \A x \in Handlers : x[1] = Producer => hand[x] = None
  BY <1>2 DEF Origin
<1>5. Speaks(h, q, n, E, M)
  BY Zenon DEF Works
<1>6. \A l \in Links : Quiet(l)
  <2>1. \A l \in Links : q[l] \in Seq(Messages)
    BY DEF Queues
  <2>2. CASE queue' = q
    BY <2>1, <2>2 DEF Quiet
  <2>3. CASE queue' # q
    <3>1. PICK k \in Links, p \in Messages :
            /\ queue' = [q EXCEPT ![k] = Append(@, p)]
            /\ \/ k = h /\ p \in Refusals
               \/ /\ k = h /\ p \in Answers
                  /\ p.name.components = n /\ p.metadata.sequence \in E
               \/ k[1] = h[1] /\ k[2] \in M /\ p \in Requests
      BY <1>5, <2>3 DEF Speaks
    <3>2. queue'[k] = Append(q[k], p) /\ \A l \in Links : l # k => queue'[l] = q[l]
      BY <3>1 DEF Queues
    <3>4. Allowed(k, p)
      <4>1. /\ p.kind = "Interest" <=> p \in Requests
            /\ p.kind = "Data" <=> p \in Answers
            /\ p.kind = "Nack" <=> p \in Refusals
            /\ p.kind = "Invalidate" <=> p \in Revoking
        BY <1>3, PacketFacts
      <4>2. p.kind # "Invalidate"
        BY <3>1, <4>1
      <4>3. ASSUME p.kind = "Data"
            PROVE  k = h /\ p.name.components = n /\ p.metadata.sequence \in E
        BY <3>1, <4>1, <4>3
      <4>4. ASSUME p.kind = "Interest"
            PROVE  k[1] = h[1] /\ k[2] \in M
        BY <3>1, <4>1, <4>4
      <4> QED BY <4>2, <4>3, <4>4 DEF Allowed
    <3>5. ASSUME NEW l \in Links PROVE Quiet(l)
      <4>1. CASE l = k
        BY <2>1, <3>2, <3>4, <4>1 DEF Quiet
      <4>2. CASE l # k
        BY <2>1, <3>2, <4>2 DEF Quiet
      <4> QED BY <4>1, <4>2
    <3> QED BY <3>5
  <2> QED BY <2>2, <2>3
<1>8. \A x \in Handlers : hand'[x] = hand[x] \/
        /\ x = h
        /\ hand'[x] # None =>
             /\ \A i \in DOMAIN hand'[x].rest : hand'[x].rest[i] \in M
             /\ M # {} \/ n \in pit[h[1]]
  BY <1>2, WorksFacts
<1>9. pit'[Producer] = {}
  BY <1>2, <1>3, <1>4, WorksFacts
<1>10. \A x \in Handlers : x[1] = Producer => hand'[x] = None
  BY <1>4, <1>8
<1>12. Origin'
  BY <1>1, <1>2, <1>9, <1>10 DEF Origin, origin
<1>13. ASSUME NEW s \in Servers, NEW S \in SUBSET Servers, Apart(s, S) PROVE Settled(s)
  <2>1. AsksProducer(s) /\ WillBePurged(s) /\ <<Producer, s>> \in Links
    BY <1>2, <1>3, <1>13, ApartFacts DEF Neighbour
  <2>2. (h[2] = s => h[1] = Producer) /\ (h[1] = s => M \subseteq {Producer})
    BY <1>13
  <2>3. \A l \in Links : l[2] = s /\ l[1] # Producer => hand'[l] = None
    BY <1>3, <1>8, <2>1, <2>2 DEF AsksProducer
  <2>4. \A x \in Handlers : x[1] = s /\ hand'[x] # None =>
          \A i \in DOMAIN hand'[x].rest : hand'[x].rest[i] = Producer
    BY <1>8, <2>1, <2>2 DEF AsksProducer
  <2>5. ASSUME NEW m \in Names, store[s][m] # 0, store[s][m] <= revoked[m], <<Producer, s>> \notin lost
        PROVE  RevokedAfter(queue'[<<Producer, s>>], 0, m)
    <3>1. RevokedAfter(queue[<<Producer, s>>], 0, m)
      BY <2>1, <2>5 DEF WillBePurged, StoreFollowed
    <3> QED BY <1>2, <1>6, <1>13, <2>1, <3>1, QuietFacts DEF Direct
  <2> QED BY <2>3, <2>4, <2>5 DEF Settled
<1>14. now \in Nat /\ now' = now /\ issued' = issued /\ revoked' = revoked
  BY <1>2, MeshAssumption DEF Typed, origin
<1> QED BY <1>6, <1>12, <1>13, <1>14, QuietKeeps

-----------------------------------------------------------------------------
(* The steps of the nodes, but for a new invalidation.                      *)

LEMMA RestLeft ==
  ASSUME Typed, NEW l \in Links, queue[l] # <<>>,
         Direct(l) => Head(queue[l]).kind # "Invalidate"
  PROVE  \A k \in Links : Left(k, Rest(l)[k])
BY RestFacts DEF Left

LEMMA QueueLeft ==
  ASSUME NEW l, NEW r, Left(l, r), r \in Seq(Messages), queue'[l] = r
  PROVE  Quiet(l)
BY DEF Quiet

LEMMA HandleInterestKeeps ==
  ASSUME TrafficFaithful, ProducerIsOrigin, MInv, Typed', UNCHANGED net, NEW l \in Links,
         queue[l] # <<>>, HandleInterest(l, Head(queue[l]))
  PROVE  MInv'
<1> DEFINE p == Head(queue[l])
           n == p.name.components
           h == <<l[2], l[1]>>
           node == l[2]
           E == {store[node][n]} \ {0}
           M == Told(net.routes[node])
<1>1. Typed /\ Origin /\ \A s \in Servers : \A S \in SUBSET Servers : Apart(s, S) => Neighbour(s, S)
  BY DEF MInv
<1>2. /\ p.kind = "Interest" /\ n \in Names /\ h \in Handlers /\ h[1] = node /\ h[2] = l[1]
      /\ Works(h, Rest(l), n, E, M)
      /\ UNCHANGED <<lost, store, nackers, seen, origin>>
  BY <1>1, HandleInterestWorks
<1>3. /\ p \in On(queue[l]) /\ Rest(l) \in Queues /\ \A k \in Links : Left(k, Rest(l)[k])
  BY <1>1, <1>2, RestFacts, RestLeft
<1>4. net \in Meshes /\ node \in Nodes
  BY <1>1, NetFacts DEF Typed
<1>5. store[node][n] \in 0..net.editions
  BY <1>1, <1>2, <1>4 DEF Typed
<1>8. node = Producer => M = {} /\ \A e \in E : e > revoked[n]
  <2> SUFFICES ASSUME node = Producer PROVE M = {} /\ \A e \in E : e > revoked[n]
    OBVIOUS
  <2> HIDE DEF n
  <2>1. net.routes[node] = <<>>
    BY <1>4 DEF ProducerIsOrigin
  <2>2. M = {}
    BY <2>1 DEF Told
  <2>3. store[node][n] # 0 => revoked[n] < store[node][n]
    BY <1>1, <1>2 DEF Origin
  <2>4. revoked[n] \in Nat
    BY <1>1, <1>2 DEF Typed
  <2> QED BY <1>4, <1>5, <2>2, <2>3, <2>4, NetFacts
<1>9. ASSUME NEW s \in Servers, NEW S \in SUBSET Servers, Apart(s, S)
      PROVE  (h[2] = s => h[1] = Producer) /\ (h[1] = s => M \subseteq {Producer})
  <2>1. Neighbour(s, S)
    BY <1>1, <1>9
  <2>2. l[1] = s => l[2] = Producer
    BY <1>2, <1>3, <2>1 DEF Neighbour, AsksProducer
  <2>3. node = s => M = {Producer}
    BY <1>4, <1>9, ApartFacts
  <2> QED BY <1>2, <2>2, <2>3
<1> HIDE DEF p, n, h, node, E, M
<1> QED BY <1>2, <1>3, <1>8, <1>9, WorksKeeps

LEMMA GoesOnKeeps ==
  ASSUME TrafficFaithful, MInv, Typed', UNCHANGED net, NEW h \in Handlers,
         Resume(h) \/ Timeout(h) \/ GiveUp(h)
  PROVE  MInv'
<1> DEFINE M == Told(hand[h].rest)
           E == {hand[h].fut}
<1>1. Typed /\ Origin /\ \A s \in Servers : \A S \in SUBSET Servers : Apart(s, S) => Neighbour(s, S)
  BY DEF MInv
<1>2. /\ hand[h] # None
      /\ UNCHANGED <<lost, store, nackers, seen, origin>>
      /\ \E n \in Names : Works(h, queue, n, E, M)
  BY <1>1, GoesOnWorks
<1>3. PICK n \in Names : Works(h, queue, n, E, M)
  BY <1>2
<1>4. h[1] # Producer
  BY <1>1, <1>2 DEF Origin
<1>5. queue \in Queues /\ \A k \in Links : Left(k, queue[k])
  BY <1>1 DEF Typed, Queues, Left
<1>6. ASSUME NEW s \in Servers, NEW S \in SUBSET Servers, Apart(s, S)
      PROVE  (h[2] = s => h[1] = Producer) /\ (h[1] = s => M \subseteq {Producer})
  <2>1. AsksProducer(s)
    BY <1>1, <1>6 DEF Neighbour
  <2>2. h[2] = s => h \in Links
    BY <1>1, NetFacts, MeshAssumption DEF Typed, Nodes
  <2>3. h[2] # s
    BY <1>2, <1>4, <2>1, <2>2 DEF AsksProducer
  <2>4. h[1] = s => M \subseteq {Producer}
    BY <1>2, <2>1 DEF AsksProducer, Told
  <2> QED BY <2>3, <2>4
<1> HIDE DEF M, E
<1> QED BY <1>2, <1>3, <1>4, <1>5, <1>6, WorksKeeps

LEMMA AskKeeps ==
  ASSUME TrafficFaithful, MInv, Typed', UNCHANGED net, NEW a \in net.asks, Ask(a)
  PROVE  MInv'
<1> DEFINE h == <<a.client, App>>
           n == InterestFor(a, Hops).name.components
           E == {store[h[1]][n]} \ {0}
           M == Told(net.routes[h[1]])
<1>1. Typed /\ Producer \in Servers
  BY MeshAssumption DEF MInv
<1>2. /\ h \in Handlers /\ h[1] \notin Servers /\ h[2] \notin Servers /\ n \in Names
      /\ Works(h, queue, n, E, M)
      /\ UNCHANGED <<lost, store, nackers, seen, origin>>
  BY <1>1, AskWorks
<1>3. queue \in Queues /\ \A k \in Links : Left(k, queue[k])
  BY <1>1 DEF Typed, Queues, Left
<1> HIDE DEF h, n, E, M
<1> QED BY <1>1, <1>2, <1>3, WorksKeeps

(* A packet is taken off and nothing is sent: futures may be resolved, and  *)
(* what is stored is still followed by what revokes it.                     *)
LEMMA TakenKeeps ==
  ASSUME MInv, Typed', UNCHANGED net, NEW l \in Links, queue[l] # <<>>, queue' = Rest(l),
         Direct(l) => Head(queue[l]).kind # "Invalidate",
         UNCHANGED <<lost, seen, origin>>, pit'[Producer] = {},
         \A h \in Handlers : hand'[h] # None =>
           hand[h] # None /\ hand'[h].rest = hand[h].rest,
         store'[Producer] = store[Producer],
         \A s \in Servers : \A S \in SUBSET Servers : Apart(s, S) =>
           \A n \in Names : store'[s][n] # 0 /\ store'[s][n] <= revoked[n] =>
             \/ <<Producer, s>> \in lost
             \/ RevokedAfter(queue'[<<Producer, s>>], 0, n)
  PROVE  MInv'
<1>1. Links' = Links /\ Handlers' = Handlers
  BY SameNet
<1>2. Typed /\ Origin /\ \A s \in Servers : \A S \in SUBSET Servers : Apart(s, S) => Neighbour(s, S)
  BY DEF MInv
<1>3. /\ Rest(l) \in Queues /\ \A k \in Links : Left(k, Rest(l)[k])
  BY <1>2, RestFacts, RestLeft
<1>4. \A k \in Links : Quiet(k)
  BY <1>3, QueueLeft DEF Queues
<1>6. Origin'
  BY <1>1, <1>2 DEF Origin, origin
<1>7. ASSUME NEW s \in Servers, NEW S \in SUBSET Servers, Apart(s, S) PROVE Settled(s)
  <2>1. AsksProducer(s) /\ Links \subseteq Handlers
    BY <1>2, <1>7, NetFacts DEF Neighbour, Typed
  <2>2. \A k \in Links : k[2] = s /\ k[1] # Producer => hand'[k] = None
    BY <2>1 DEF AsksProducer
  <2>3. \A x \in Handlers : x[1] = s /\ hand'[x] # None =>
          \A i \in DOMAIN hand'[x].rest : hand'[x].rest[i] = Producer
    <3> SUFFICES ASSUME NEW x \in Handlers, x[1] = s, hand'[x] # None
                 PROVE  \A i \in DOMAIN hand'[x].rest : hand'[x].rest[i] = Producer
      OBVIOUS
    <3>1. hand[x] # None /\ hand'[x].rest = hand[x].rest
      OBVIOUS
    <3>2. \A i \in DOMAIN hand[x].rest : hand[x].rest[i] = Producer
      BY <2>1, <3>1 DEF AsksProducer
    <3> QED BY <3>1, <3>2, Zenon
  <2> QED BY <1>7, <2>2, <2>3 DEF Settled
<1>8. now \in Nat /\ now' = now /\ issued' = issued /\ revoked' = revoked
  BY <1>2, MeshAssumption DEF Typed, origin
<1> QED BY <1>4, <1>6, <1>7, <1>8, QuietKeeps

(* The same where the store does not change either.                         *)
LEMMA DroppedKeeps ==
  ASSUME MInv, Typed', UNCHANGED net, NEW l \in Links, queue[l] # <<>>, queue' = Rest(l),
         Direct(l) => Head(queue[l]).kind # "Invalidate",
         UNCHANGED <<lost, store, pit, seen, origin>>,
         \A h \in Handlers : hand'[h] # None =>
           hand[h] # None /\ hand'[h].rest = hand[h].rest
  PROVE  MInv'
<1>1. Typed /\ Origin /\ \A s \in Servers : \A S \in SUBSET Servers : Apart(s, S) => Neighbour(s, S)
  BY DEF MInv
<1>2. \A k \in Links : Left(k, Rest(l)[k])
  BY <1>1, RestLeft
<1>3. ASSUME NEW s \in Servers, NEW S \in SUBSET Servers, Apart(s, S), NEW n \in Names,
             store'[s][n] # 0, store'[s][n] <= revoked[n]
      PROVE  <<Producer, s>> \in lost \/ RevokedAfter(queue'[<<Producer, s>>], 0, n)
  <2>1. WillBePurged(s) /\ <<Producer, s>> \in Links /\ Direct(<<Producer, s>>)
    BY <1>1, <1>3, ApartFacts DEF Neighbour, Direct, Typed
  <2>2. <<Producer, s>> \in lost \/ RevokedAfter(queue[<<Producer, s>>], 0, n)
    BY <1>3, <2>1 DEF WillBePurged, StoreFollowed
  <2> QED BY <1>1, <1>2, <2>1, <2>2, LeftFacts
<1>4. pit'[Producer] = {} /\ store'[Producer] = store[Producer]
  BY <1>1 DEF Origin
<1> QED BY <1>3, <1>4, TakenKeeps

LEMMA HandleDataKeeps ==
  ASSUME MInv, Typed', UNCHANGED net, NEW l \in Links,
         queue[l] # <<>>, HandleData(l, Head(queue[l]))
  PROVE  MInv'
<1> DEFINE p == Head(queue[l])
           n == p.name.components
           m == l[2]
           v == p.metadata.sequence
<1>1. /\ Typed /\ Origin
      /\ \A s \in Servers : \A S \in SUBSET Servers : Apart(s, S) => Neighbour(s, S)
  BY DEF MInv
<1>2. /\ p.kind = "Data" /\ n \in Names /\ v \in 1..net.editions
      /\ queue' = Rest(l) /\ UNCHANGED <<lost, failed, nackers, seen, origin>>
      /\ \A h \in Handlers : hand'[h] # None => hand[h] # None /\ hand'[h].rest = hand[h].rest
      /\ \A x \in Nodes : \A y \in Names :
           store'[x][y] = IF x = m /\ y = n /\ n \in pit[m] THEN v ELSE store[x][y]
      /\ store' \in [Nodes -> [Names -> 0..net.editions]]
      /\ \A x \in Nodes : pit'[x] \subseteq pit[x]
  BY <1>1, HandleDataDoes
<1>3. p \in On(queue[l]) /\ \A k \in Links : Left(k, Rest(l)[k])
  BY <1>1, <1>2, RestFacts, RestLeft
<1>4. /\ m \in Nodes /\ Producer \in Servers /\ Servers \subseteq Nodes /\ net.editions \in Nat
      /\ net \in Meshes
  BY <1>1, NetFacts DEF Typed
<1> HIDE DEF p, n, m, v
<1>5. store'[Producer] = store[Producer] /\ pit'[Producer] = {}
  <2>1. n \notin pit[Producer] /\ pit[Producer] = {}
    BY <1>1 DEF Origin
  <2>2. \A y \in Names : store'[Producer][y] = store[Producer][y]
    BY <1>2, <1>4, <2>1
  <2>3. store[Producer] \in [Names -> 0..net.editions] /\ store'[Producer] \in [Names -> 0..net.editions]
    BY <1>1, <1>2, <1>4 DEF Typed
  <2>4. store'[Producer] = store[Producer]
    BY <2>2, <2>3
  <2>5. pit'[Producer] \subseteq {}
    BY <1>2, <1>4, <2>1
  <2> QED BY <2>4, <2>5
<1>6. ASSUME NEW s \in Servers, NEW S \in SUBSET Servers, Apart(s, S), NEW y \in Names,
             store'[s][y] # 0, store'[s][y] <= revoked[y], <<Producer, s>> \notin lost
      PROVE  RevokedAfter(queue'[<<Producer, s>>], 0, y)
  <2> DEFINE L == <<Producer, s>>
  <2>1. /\ AsksProducer(s) /\ DataFollowed(queue[L]) /\ StoreFollowed(s, queue[L])
        /\ L \in Links /\ Direct(L)
    BY <1>1, <1>4, <1>6, ApartFacts DEF Neighbour, WillBePurged, Direct
  <2>2. CASE s = m /\ y = n /\ n \in pit[m]
    <3>1. l[1] = Producer
      BY <1>2, <1>3, <2>1, <2>2 DEF AsksProducer, m
    <3>2. l = L
      BY <1>4, <2>2, <3>1, NetFacts DEF m
    <3>3. v <= revoked[n]
      BY <1>2, <1>4, <1>6, <2>2
    <3>4. queue[l] \in Seq(Messages) /\ p = queue[l][1] /\ 1 \in DOMAIN queue[l]
      BY <1>1, TailOf DEF Typed, p
    <3>5. RevokedAfter(queue[l], 1, n)
      BY <1>2, <2>1, <3>2, <3>3, <3>4 DEF DataFollowed, n, v
    <3>6. RevokedAfter(queue[l], 0 + 1, n)
      BY <3>5
    <3>7. RevokedAfter(Tail(queue[l]), 0, n)
      BY <3>4, <3>6, RevokedAfterTail
    <3>8. queue'[l] = Tail(queue[l])
      BY <1>1, <1>2, RestFacts
    <3> QED BY <2>2, <3>2, <3>7, <3>8
  <2>3. CASE ~(s = m /\ y = n /\ n \in pit[m])
    <3>1. RevokedAfter(queue[L], 0, y)
      BY <1>2, <1>4, <1>6, <2>1, <2>3 DEF StoreFollowed
    <3>2. Left(L, queue'[L])
      BY <1>2, <1>3, <2>1
    <3> QED BY <1>1, <2>1, <3>1, <3>2, LeftFacts
  <2> QED BY <2>2, <2>3
<1>7. Head(queue[l]).kind # "Invalidate"
  BY <1>2 DEF p
<1> QED BY <1>2, <1>5, <1>6, <1>7, TakenKeeps

-----------------------------------------------------------------------------
(* A new invalidation.                                                      *)

(* Server x hears of an invalidation for the first time: it came from a     *)
(* server closer to the producer, and behind x nobody knows more.           *)
LEMMA HearsKeeps ==
  ASSUME TrafficFaithful, MInv, Typed', UNCHANGED net, NEW l \in Links, queue[l] # <<>>,
         HandleInvalidate(l, Head(queue[l])),
         Verified(l[2], Head(queue[l])), InvalidationIsFresh(l[2], Head(queue[l]))
  PROVE  MInv'
<1> DEFINE p == Head(queue[l])
           name == p.name.components
           x == l[2]
           P == Producer
           ls == Onward(l)
<1>1. /\ Typed /\ Origin /\ Clock
      /\ \A s \in Servers : \A S \in SUBSET Servers : Apart(s, S) => Neighbour(s, S)
  BY DEF MInv
<1>2. p.kind = "Invalidate" /\ x \in Servers /\ net \in Meshes
  BY <1>1 DEF HandleInvalidate, Typed
<1>3. /\ p \in Messages /\ p \in On(queue[l]) /\ Rest(l) \in Queues
      /\ Rest(l)[l] = Tail(queue[l]) /\ \A k \in Links : k # l => Rest(l)[k] = queue[k]
  BY <1>1, RestFacts
<1>4. p \in Revoking /\ name \in Revocables /\ p.epoch \in 1..Horizon
  BY <1>2, <1>3, PacketFacts, RevokingFacts
<1>5. /\ seen' = [seen EXCEPT ![x][name] = p.epoch]
      /\ store' = Purged(x, name, p.is_prefix)
      /\ queue' = SendAll(Rest(l), ls, p)
      /\ lost' = lost \cup Full(Rest(l), ls)
  BY <1>4, Zenon DEF HandleInvalidate
<1>6. UNCHANGED <<nackers, asked, tables, origin>>
  BY Zenon DEF HandleInvalidate
<1>7. p.epoch > seen[x][name]
  BY DEF InvalidationIsFresh
<1>8. /\ ls \in SUBSET Links /\ \A k \in ls : k[1] = x
      /\ l \notin ls
  BY <1>1, NetFacts DEF Onward
<1> HIDE DEF p, name, x, ls
<1>9. /\ queue' \in Queues /\ lost' \subseteq Links /\ lost \subseteq lost'
      /\ \A k \in Links : queue'[k] = IF k \in ls /\ k \notin Full(Rest(l), ls)
                                        THEN Append(Rest(l)[k], p) ELSE Rest(l)[k]
  <2>1. /\ SendAll(Rest(l), ls, p) \in Queues
        /\ Full(Rest(l), ls) \subseteq ls
        /\ \A k \in Links :
             SendAll(Rest(l), ls, p)[k] =
               IF k \in ls /\ k \notin Full(Rest(l), ls) THEN Append(Rest(l)[k], p)
                                                        ELSE Rest(l)[k]
    <3>1. net \in Meshes /\ Rest(l) \in Queues /\ ls \in SUBSET Links /\ p \in Messages
      BY <1>2, <1>3, <1>8
    <3> DEFINE rest == Rest(l)
    <3>2. rest \in Queues
      BY <3>1
    <3> HIDE DEF rest
    <3>3. SendAll(rest, ls, p) \in Queues /\ Full(rest, ls) \subseteq ls
      BY <3>1, <3>2, SendAllDoes
    <3>4. Spread(SendAll(rest, ls, p), rest, ls, p)
      BY <3>1, <3>2, SendAllSpreads
    <3>5. \A k \in Links :
            SendAll(rest, ls, p)[k] = IF k \in ls /\ k \notin Full(rest, ls)
                                        THEN Append(rest[k], p) ELSE rest[k]
      BY <3>4, Zenon DEF Spread
    <3> QED BY <3>3, <3>5 DEF rest
  <2>2. lost \subseteq Links
    BY <1>1 DEF Typed
  <2>3. lost' \subseteq Links /\ lost \subseteq lost'
    BY <1>5, <1>8, <2>1, <2>2
  <2> QED BY <1>5, <2>1, <2>3
<1>10. /\ Links' = Links /\ Handlers' = Handlers
       /\ \A s, S : Apart(s, S)' <=> Apart(s, S)
  BY SameNet
<1>11. /\ P \in Servers /\ Servers \subseteq Nodes /\ Horizon \in Nat
       /\ seen \in [Servers -> [Revocables -> 0..Horizon]]
       /\ \A m \in Servers : \A n \in Revocables : seen[m][n] \in Nat
       /\ \A k \in Links : queue[k] \in Seq(Messages)
  BY <1>1, <1>2, NetFacts, MeshAssumption DEF Typed
<1>12. /\ seen' \in [Servers -> [Revocables -> 0..Horizon]]
       /\ \A m \in Servers : \A n \in Revocables :
            /\ seen'[m][n] = IF m = x /\ n = name THEN p.epoch ELSE seen[m][n]
            /\ seen[m][n] <= seen'[m][n]
  BY <1>2, <1>4, <1>5, <1>7, <1>11
<1>13. p.epoch <= seen[P][name]
  BY <1>1, <1>2, <1>3 DEF Clock, name
<1>14. x # P
  BY <1>4, <1>7, <1>11, <1>13
<1>15. /\ store' \in [Nodes -> [Names -> 0..net.editions]]
       /\ \A m \in Nodes : m # x => store'[m] = store[m]
       /\ \A n \in Names : store'[x][n] = IF Covers(name, p.is_prefix, n) THEN 0 ELSE store[x][n]
  BY <1>1, <1>2, <1>5, PurgedFacts
(* What is on a link was there before or is p, sent on by x.                *)
<1>16. \A k \in Links : \A y \in On(queue'[k]) : y \in On(queue[k]) \/ (y = p /\ k[1] = x)
  <2>1. ASSUME NEW k \in Links
        PROVE  On(Rest(l)[k]) \subseteq On(queue[k]) /\ Rest(l)[k] \in Seq(Messages)
    BY <1>3, <1>11, TailOf DEF Queues
  <2>2. ASSUME NEW k \in Links, NEW y \in On(queue'[k])
        PROVE  y \in On(queue[k]) \/ (y = p /\ k[1] = x)
    <3>1. CASE queue'[k] = Rest(l)[k]
      BY <2>1, <2>2, <3>1
    <3>2. CASE queue'[k] = Append(Rest(l)[k], p) /\ k \in ls
      <4>1. On(queue'[k]) = On(Rest(l)[k]) \cup {p}
        BY <1>3, <2>1, <3>2, AppendTo
      <4> QED BY <1>8, <2>1, <2>2, <3>2, <4>1
    <3> QED BY <1>9, <3>1, <3>2
  <2> QED BY <2>2
<1>18. Origin'
  BY <1>1, <1>6, <1>10, <1>11, <1>14, <1>15 DEF Origin, tables, origin
<1>19. Clock'
  <2>1. /\ \A n \in Revocables :
             /\ seen'[P][n] <= now
             /\ seen'[P][n] # 0 => \E z \in issued : z[1] = n /\ z[2] = seen'[P][n]
             /\ \A m \in Servers : seen'[m][n] <= seen'[P][n]
    <3> SUFFICES ASSUME NEW n \in Revocables
                 PROVE  /\ seen'[P][n] <= now
                        /\ seen'[P][n] # 0 => \E z \in issued : z[1] = n /\ z[2] = seen'[P][n]
                        /\ \A m \in Servers : seen'[m][n] <= seen'[P][n]
      OBVIOUS
    <3>1. seen'[P][n] = seen[P][n]
      BY <1>11, <1>12, <1>14
    <3>2. \A m \in Servers : seen'[m][n] <= seen[P][n]
      BY <1>1, <1>4, <1>12, <1>13 DEF Clock
    <3> QED BY <1>1, <3>1, <3>2 DEF Clock
  <2>2. ASSUME NEW k \in Links, NEW y \in On(queue'[k]), y.kind = "Invalidate"
        PROVE  y.epoch <= seen'[P][y.name.components]
    <3>1. y.epoch <= seen[P][y.name.components]
      BY <1>1, <1>13, <1>16, <2>2 DEF Clock, name
    <3>2. y.name.components \in Revocables
      <4>1. y \in Messages
        BY <1>9, <2>2 DEF Queues, On
      <4> QED BY <1>2, <2>2, <4>1, PacketFacts, RevokingFacts
    <3> QED BY <1>11, <1>12, <1>14, <3>1, <3>2
  <2> QED BY <1>6, <1>10, <2>1, <2>2 DEF Clock, On, origin
<1>20. ASSUME NEW s \in Servers, NEW S \in SUBSET Servers, Apart(s, S)
       PROVE  Neighbour(s, S)'
  <2> DEFINE L == <<P, s>>
  <2>1. /\ AsksProducer(s) /\ HeardFirst(s, S) /\ InOrder(queue[L]) /\ NewTo(s, queue[L])
        /\ L \notin lost => DataFollowed(queue[L]) /\ StoreFollowed(s, queue[L])
        /\ L \in Links /\ s # P /\ P \in S /\ s \notin S
        /\ \A k \in Links : k[1] \in S /\ k[2] \in Servers \ S => k = L
    BY <1>1, <1>2, <1>20, ApartFacts DEF Neighbour, WillBePurged, Apart
  <2>2. x \notin S /\ x # s => p.epoch <= seen[s][name]
    <3>1. x \notin S /\ x # s => l[1] \notin S
      BY <1>2, <2>1 DEF x
    <3> QED BY <1>2, <1>3, <2>1, <3>1 DEF HeardFirst, name
  <2>3. x = s => l = L
    <3> SUFFICES ASSUME x = s, l # L PROVE FALSE
      OBVIOUS
    <3>1. l[1] \notin S
      BY <1>2, <2>1 DEF x
    <3>2. p.epoch <= seen[s][name]
      BY <1>2, <1>3, <2>1, <3>1 DEF HeardFirst, name
    <3> QED BY <1>4, <1>7, <1>11, <3>2
  <2>4. AsksProducer(s)'
    <3>1. ASSUME NEW k \in Links, NEW y \in On(queue'[k])
          PROVE  /\ k[1] = s /\ k[2] # Producer => y.kind # "Interest"
                 /\ k[2] = s /\ k[1] # Producer => y.kind # "Data"
      BY <1>2, <1>16, <2>1, <3>1 DEF AsksProducer
    <3>2. hand' = hand
      BY <1>6 DEF tables
    <3> QED BY <1>10, <2>1, <3>1, <3>2 DEF AsksProducer, On
  <2>5. HeardFirst(s, S)'
    <3>1. ASSUME NEW k \in Links, k[1] \notin S, NEW y \in On(queue'[k]), y.kind = "Invalidate"
          PROVE  y.epoch <= seen'[s][y.name.components]
      <4>1. CASE y \in On(queue[k])
        <5>1. y.epoch <= seen[s][y.name.components]
          BY <2>1, <3>1, <4>1 DEF HeardFirst
        <5>2. y \in Revoking
          BY <1>2, <1>11, <3>1, <4>1, PacketFacts DEF On
        <5>3. y.name.components \in Revocables /\ y.epoch \in Nat
          BY <5>2, <1>11, RevokingFacts
        <5> QED BY <1>11, <1>12, <5>1, <5>3
      <4>2. CASE y = p /\ k[1] = x /\ x = s
        BY <1>4, <1>12, <4>2 DEF name
      <4>3. CASE y = p /\ k[1] = x /\ x # s
        BY <1>4, <1>12, <2>2, <3>1, <4>3 DEF name
      <4> QED BY <1>16, <3>1, <4>1, <4>2, <4>3
    <3>2. ASSUME NEW m \in Servers \ S, NEW n \in Revocables
          PROVE  seen'[m][n] <= seen'[s][n]
      <4>1. seen[m][n] <= seen[s][n] /\ seen[s][n] <= seen'[s][n]
        BY <1>12, <2>1 DEF HeardFirst
      <4>2. CASE m = x /\ n = name /\ m # s
        BY <1>4, <1>11, <1>12, <2>2, <4>1, <4>2
      <4>3. CASE m = s
        BY <1>11, <1>12, <4>3
      <4>4. CASE ~(m = x /\ n = name)
        BY <1>11, <1>12, <4>1, <4>4
      <4> QED BY <4>2, <4>3, <4>4
    <3> QED BY <1>10, <3>1, <3>2 DEF HeardFirst, On
  <2>6. queue'[L] = Rest(l)[L]
    BY <1>8, <1>9, <1>14, <2>1
  <2>7. InOrder(queue'[L]) /\ (L \notin lost => DataFollowed(queue'[L]))
    <3>1. CASE l = L
      BY <1>3, <1>11, <2>1, <2>6, <3>1, OrderKept, FollowedKept
    <3>2. CASE l # L
      BY <1>3, <2>1, <2>6, <3>2
    <3> QED BY <3>1, <3>2
  <2>8. \A i \in DOMAIN queue'[L] : queue'[L][i].kind = "Invalidate" =>
          queue'[L][i].epoch > seen'[s][queue'[L][i].name.components]
    <3> SUFFICES ASSUME NEW i \in DOMAIN queue'[L], queue'[L][i].kind = "Invalidate"
                 PROVE  queue'[L][i].epoch > seen'[s][queue'[L][i].name.components]
      OBVIOUS
    <3> DEFINE y == queue'[L][i]
    <3>1. y \in Revoking
      BY <1>2, <1>9, <2>1, PacketFacts DEF Queues
    <3>2. y.name.components \in Revocables
      BY <3>1, RevokingFacts
    <3>3. CASE l = L
      <4>1. /\ queue'[L] = Tail(queue[L]) /\ queue[L] \in Seq(Messages) /\ queue[L] # <<>>
        BY <1>3, <1>11, <2>6, <3>3
      <4>2. /\ y = queue[L][i + 1] /\ i + 1 \in DOMAIN queue[L] /\ i \in Nat /\ i \in DOMAIN Tail(queue[L])
            /\ p = queue[L][1] /\ 1 \in DOMAIN queue[L]
        BY <3>3, <4>1, TailOf DEF p
      <4>3. y.epoch > seen[s][y.name.components]
        BY <2>1, <4>2 DEF NewTo
      <4>4. y.name.components = name => p.epoch < y.epoch
        <5>1. 1 < i + 1
          BY <4>1, <4>2
        <5> QED BY <1>2, <2>1, <4>2, <5>1 DEF InOrder, name
      <4> QED BY <1>12, <3>2, <4>3, <4>4
    <3>4. CASE l # L
      <4>1. queue'[L] = queue[L]
        BY <1>3, <2>1, <2>6, <3>4
      <4>2. y.epoch > seen[s][y.name.components]
        BY <2>1, <4>1 DEF NewTo
      <4>3. seen'[s][y.name.components] = seen[s][y.name.components]
        BY <1>12, <2>3, <3>2, <3>4
      <4> QED BY <4>2, <4>3
    <3> QED BY <3>3, <3>4
  <2>9. ASSUME L \notin lost, NEW n \in Names, store'[s][n] # 0, store'[s][n] <= revoked[n]
        PROVE  RevokedAfter(queue'[L], 0, n)
    <3>1. store[s][n] # 0 /\ store[s][n] <= revoked[n]
      BY <1>11, <1>15, <2>9
    <3>2. RevokedAfter(queue[L], 0, n)
      BY <2>1, <2>9, <3>1 DEF StoreFollowed
    <3>3. CASE l # L
      BY <1>3, <2>1, <2>6, <3>2, <3>3
    <3>4. CASE l = L
      <4>1. ~Covers(name, p.is_prefix, n)
        BY <1>11, <1>15, <2>9, <3>4 DEF x
      <4>2. queue[L] \in Seq(Messages) /\ queue[L] # <<>> /\ p = queue[L][1]
        BY <1>11, <2>1, <3>4, TailOf DEF p
      <4>3. RevokedAfter(queue[L], 0 + 1, n)
        <5>1. PICK j \in DOMAIN queue[L] :
                /\ j > 0 /\ queue[L][j].kind = "Invalidate"
                /\ Covers(queue[L][j].name.components, queue[L][j].is_prefix, n)
          BY <3>2 DEF RevokedAfter
        <5>2. j # 1 /\ j \in Nat
          BY <4>1, <4>2, <5>1 DEF name
        <5>3. j > 0 + 1
          BY <5>1, <5>2
        <5> QED BY <5>1, <5>3 DEF RevokedAfter
      <4>4. RevokedAfter(Tail(queue[L]), 0, n)
        BY <4>2, <4>3, RevokedAfterTail
      <4> QED BY <1>3, <2>6, <3>4, <4>4
    <3> QED BY <3>3, <3>4
  <2>10. revoked' = revoked
    BY <1>6 DEF origin
  <2>11. WillBePurged(s)'
    BY <1>9, <2>7, <2>9, <2>10 DEF WillBePurged, DataFollowed, StoreFollowed
  <2>12. NewTo(s, queue[L])'
    BY <2>8 DEF NewTo
  <2> QED BY <2>4, <2>5, <2>7, <2>11, <2>12 DEF Neighbour
<1> QED BY <1>10, <1>18, <1>19, <1>20 DEF MInv

(* The producer issues one: it is newer than any that is under way, and     *)
(* every Data sent before is ahead of it.                                   *)
LEMMA InvalidateKeeps ==
  ASSUME TrafficFaithful, ~Hasty, MInv, Typed', UNCHANGED net, NEW p \in Purges, Invalidate(p)
  PROVE  MInv'
<1> DEFINE P == Producer
           faces == {l \in Links : l[1] = P}
           inv == InvalidateFor(p, now)
           name == p.name
<1>1. /\ Typed /\ Origin /\ Clock
      /\ \A s \in Servers : \A S \in SUBSET Servers : Apart(s, S) => Neighbour(s, S)
  BY DEF MInv
<1>2. /\ now \in 1..Horizon /\ Horizon \in Nat /\ net \in Meshes /\ queue \in Queues
      /\ seen \in [Servers -> [Revocables -> 0..Horizon]]
      /\ \A k \in Links : queue[k] \in Seq(Messages)
  BY <1>1, MeshAssumption DEF Typed, Queues
<1>3. /\ inv \in Revoking /\ inv.name.components = name /\ inv.epoch = now
      /\ inv.is_prefix = p.prefix /\ inv.kind = "Invalidate" /\ name \in Revocables
  BY <1>2, RevokingFacts
<1>4. inv \in Messages
  BY <1>3 DEF Messages
<1>5. /\ P \in Servers /\ Servers \subseteq Nodes /\ P \in Nodes
      /\ \A m \in Servers : \A n \in Revocables : seen[m][n] \in Nat
  BY <1>2, NetFacts
<1>6. now > seen[P][name]
  <2>1. /\ seen[P][name] <= now
        /\ seen[P][name] # 0 => \E x \in issued : x[1] = name /\ x[2] = seen[P][name]
    BY <1>1, <1>3 DEF Clock
  <2>2. <<name, now>> \notin {<<x[1], x[2]>> : x \in issued}
    BY DEF Invalidate
  <2>3. seen[P][name] # now
    <3> SUFFICES ASSUME seen[P][name] = now PROVE FALSE
      OBVIOUS
    <3>1. PICK x \in issued : x[1] = name /\ x[2] = now
      BY <1>2, <2>1
    <3>2. <<x[1], x[2]>> = <<name, now>>
      BY <3>1
    <3> QED BY <2>2, <3>1, <3>2
  <2> QED BY <1>2, <1>3, <1>5, <2>1, <2>3
<1>7. InvalidationIsFresh(P, inv)
  BY <1>3, <1>6 DEF InvalidationIsFresh
<1>8. /\ issued' = issued \cup {<<name, now, Cardinality(issued)>>}
      /\ seen' = [seen EXCEPT ![P][name] = now]
      /\ store' = Purged(P, name, p.prefix)
      /\ revoked' = [n \in Names |-> IF Covers(name, p.prefix, n) THEN edition[n] ELSE revoked[n]]
      /\ queue' = SendAll(queue, faces, inv)
      /\ lost' = lost \cup Full(queue, faces)
      /\ UNCHANGED <<nackers, asked, tables, edition, now>>
  <2>1. seen' = [seen EXCEPT ![P][name] = IF InvalidationIsFresh(P, inv) THEN now ELSE @]
    BY Zenon DEF Invalidate
  <2>2. seen' = [seen EXCEPT ![P][name] = now]
    BY <1>7, <2>1
  <2> QED BY <2>2, Zenon DEF Invalidate
<1> HIDE DEF inv, name
<1>9. faces \in SUBSET Links
  OBVIOUS
<1>10. /\ queue' \in Queues /\ lost' \subseteq Links /\ lost \subseteq lost'
       /\ \A k \in Links : queue'[k] = IF k[1] = P /\ k \notin Full(queue, faces)
                                         THEN Append(queue[k], inv) ELSE queue[k]
       /\ Full(queue, faces) \subseteq lost'
  <2>1. /\ SendAll(queue, faces, inv) \in Queues
        /\ Full(queue, faces) \subseteq faces
        /\ \A k \in Links :
             SendAll(queue, faces, inv)[k] =
               IF k \in faces /\ k \notin Full(queue, faces) THEN Append(queue[k], inv) ELSE queue[k]
    BY <1>2, <1>4, <1>9, SendAllDoes
  <2>2. lost \subseteq Links
    BY <1>1 DEF Typed
  <2> QED BY <1>8, <2>1, <2>2
<1>11. /\ Links' = Links /\ Handlers' = Handlers
       /\ \A s, S : Apart(s, S)' <=> Apart(s, S)
  BY SameNet
<1>12. /\ seen' \in [Servers -> [Revocables -> 0..Horizon]]
       /\ \A m \in Servers : \A n \in Revocables :
            /\ seen'[m][n] = IF m = P /\ n = name THEN now ELSE seen[m][n]
            /\ seen[m][n] <= seen'[m][n]
  BY <1>2, <1>3, <1>5, <1>6, <1>8
<1>13. /\ store' \in [Nodes -> [Names -> 0..net.editions]]
       /\ \A m \in Nodes : m # P => store'[m] = store[m]
       /\ \A n \in Names : store'[P][n] = IF Covers(name, p.prefix, n) THEN 0 ELSE store[P][n]
  BY <1>1, <1>5, <1>8, PurgedFacts
<1>14. /\ revoked' \in [Names -> Nat]
       /\ \A n \in Names : revoked'[n] = IF Covers(name, p.prefix, n) THEN edition[n] ELSE revoked[n]
       /\ \A n \in Names : edition[n] \in Nat /\ revoked[n] \in Nat /\ store[P][n] \in Nat
  <2>1. \A n \in Names : edition[n] \in Nat /\ revoked[n] \in Nat /\ store[P][n] \in Nat
    BY <1>1, <1>2, <1>5, NetFacts DEF Typed
  <2> QED BY <1>8, <2>1
(* What is on a link was there before or is the new one, of the producer.   *)
<1>15. \A k \in Links : \A y \in On(queue'[k]) : y \in On(queue[k]) \/ (y = inv /\ k[1] = P)
  <2>1. ASSUME NEW k \in Links, NEW y \in On(queue'[k])
        PROVE  y \in On(queue[k]) \/ (y = inv /\ k[1] = P)
    <3>1. CASE queue'[k] = queue[k]
      BY <2>1, <3>1
    <3>2. CASE queue'[k] = Append(queue[k], inv) /\ k[1] = P
      <4>1. On(queue'[k]) = On(queue[k]) \cup {inv}
        BY <1>2, <1>4, <3>2, AppendTo
      <4> QED BY <2>1, <3>2, <4>1
    <3> QED BY <1>10, <3>1, <3>2
  <2> QED BY <2>1
<1>17. Origin'
  <2>1. ASSUME NEW n \in Names
        PROVE  /\ revoked'[n] <= edition[n]
               /\ store'[P][n] # 0 => revoked'[n] < store'[P][n]
    BY <1>1, <1>13, <1>14 DEF Origin
  <2>2. pit' = pit /\ hand' = hand /\ edition' = edition
    BY <1>8 DEF tables
  <2> QED BY <1>1, <1>11, <2>1, <2>2 DEF Origin
<1>18. Clock'
  <2>1. ASSUME NEW n \in Revocables
        PROVE  /\ seen'[P][n] <= now
               /\ seen'[P][n] # 0 => \E z \in issued' : z[1] = n /\ z[2] = seen'[P][n]
               /\ \A m \in Servers : seen'[m][n] <= seen'[P][n]
    <3>1. CASE n = name
      <4>1. seen'[P][n] = now
        BY <1>5, <1>12, <3>1
      <4>2. /\ <<name, now, Cardinality(issued)>> \in issued'
            /\ <<name, now, Cardinality(issued)>>[1] = name /\ <<name, now, Cardinality(issued)>>[2] = now
        BY <1>8
      <4>3. ASSUME NEW m \in Servers PROVE seen'[m][n] <= now
        <5>1. seen[m][n] <= seen[P][n] /\ seen[P][n] <= now
          BY <1>1 DEF Clock
        <5>2. seen[m][n] <= now
          BY <1>2, <1>5, <5>1
        <5>3. seen'[m][n] = now \/ seen'[m][n] = seen[m][n]
          BY <1>12
        <5> QED BY <1>2, <5>2, <5>3
      <4> QED BY <1>2, <3>1, <4>1, <4>2, <4>3
    <3>2. CASE n # name
      BY <1>1, <1>5, <1>8, <1>12, <3>2 DEF Clock
    <3> QED BY <3>1, <3>2
  <2>2. ASSUME NEW k \in Links, NEW y \in On(queue'[k]), y.kind = "Invalidate"
        PROVE  y.epoch <= seen'[P][y.name.components]
    <3>1. CASE y \in On(queue[k])
      <4>1. y.epoch <= seen[P][y.name.components]
        BY <1>1, <2>2, <3>1 DEF Clock
      <4>2. y \in Revoking
        BY <1>2, <2>2, <3>1, PacketFacts DEF On
      <4>3. y.name.components \in Revocables /\ y.epoch \in Nat
        BY <1>2, <4>2, RevokingFacts
      <4> QED BY <1>2, <1>5, <1>12, <4>1, <4>3
    <3>2. CASE y = inv
      BY <1>2, <1>3, <1>5, <1>12, <3>2
    <3> QED BY <1>15, <2>2, <3>1, <3>2
  <2>3. now' = now
    BY <1>8
  <2> QED BY <1>11, <2>1, <2>2, <2>3 DEF Clock, On
<1>19. ASSUME NEW s \in Servers, NEW S \in SUBSET Servers, Apart(s, S)
       PROVE  Neighbour(s, S)'
  <2> DEFINE L == <<P, s>>
             q == queue[L]
  <2>1. /\ AsksProducer(s) /\ HeardFirst(s, S) /\ InOrder(q) /\ NewTo(s, q)
        /\ L \notin lost => DataFollowed(q) /\ StoreFollowed(s, q)
        /\ L \in Links /\ L[1] = P /\ s # P /\ P \in S /\ s \notin S /\ q \in Seq(Messages)
    BY <1>1, <1>2, <1>19, ApartFacts DEF Neighbour, WillBePurged, Apart
  <2>2. \A m \in Servers : m # P => \A n \in Revocables : seen'[m][n] = seen[m][n]
    BY <1>12
  <2>3. AsksProducer(s)'
    <3>1. ASSUME NEW k \in Links, NEW y \in On(queue'[k])
          PROVE  /\ k[1] = s /\ k[2] # Producer => y.kind # "Interest"
                 /\ k[2] = s /\ k[1] # Producer => y.kind # "Data"
      BY <1>3, <1>15, <2>1, <3>1 DEF AsksProducer
    <3>2. hand' = hand
      BY <1>8 DEF tables
    <3> QED BY <1>11, <2>1, <3>1, <3>2 DEF AsksProducer, On
  <2>4. HeardFirst(s, S)'
    <3>1. ASSUME NEW k \in Links, k[1] \notin S, NEW y \in On(queue'[k]), y.kind = "Invalidate"
          PROVE  y.epoch <= seen'[s][y.name.components]
      <4>1. y \in On(queue[k])
        BY <1>15, <2>1, <3>1
      <4>2. y.epoch <= seen[s][y.name.components]
        BY <2>1, <3>1, <4>1 DEF HeardFirst
      <4>3. y \in Revoking
        BY <1>2, <3>1, <4>1, PacketFacts DEF On
      <4>4. y.name.components \in Revocables
        BY <4>3, RevokingFacts
      <4> QED BY <2>1, <2>2, <4>2, <4>4
    <3>2. ASSUME NEW m \in Servers \ S, NEW n \in Revocables
          PROVE  seen'[m][n] <= seen'[s][n]
      <4>1. m # P /\ seen[m][n] <= seen[s][n]
        BY <2>1 DEF HeardFirst
      <4> QED BY <2>1, <2>2, <4>1
    <3> QED BY <1>11, <3>1, <3>2 DEF HeardFirst, On
  <2>5. queue'[L] = q \/ queue'[L] = Append(q, inv)
    BY <1>10, <2>1
  <2>6. InOrder(queue'[L]) /\ NewTo(s, queue'[L])
    <3>1. \A x \in On(q) : x.kind = "Invalidate" /\ x.name.components = name => x.epoch < now
      <4> SUFFICES ASSUME NEW x \in On(q), x.kind = "Invalidate", x.name.components = name
                   PROVE  x.epoch < now
        OBVIOUS
      <4>1. x.epoch <= seen[P][name]
        BY <1>1, <2>1 DEF Clock
      <4>2. x \in Revoking
        BY <1>2, <2>1, PacketFacts DEF On
      <4>3. x.epoch \in Nat
        BY <1>2, <4>2, RevokingFacts
      <4> QED BY <1>2, <1>3, <1>5, <1>6, <4>1, <4>3
    <3>2. now > seen[s][name]
      <4>1. seen[s][name] <= seen[P][name]
        BY <1>1, <1>3 DEF Clock
      <4> QED BY <1>2, <1>3, <1>5, <1>6, <4>1
    <3>3. InOrder(Append(q, inv)) /\ NewTo(s, Append(q, inv))
      <4> HIDE DEF q
      <4> QED BY <1>3, <1>4, <2>1, <3>1, <3>2, OrderKept
    <3> QED BY <2>1, <2>5, <3>3
  <2>7. \A i \in DOMAIN queue'[L] : queue'[L][i].kind = "Invalidate" =>
          queue'[L][i].epoch > seen'[s][queue'[L][i].name.components]
    <3> SUFFICES ASSUME NEW i \in DOMAIN queue'[L], queue'[L][i].kind = "Invalidate"
                 PROVE  queue'[L][i].epoch > seen'[s][queue'[L][i].name.components]
      OBVIOUS
    <3> DEFINE y == queue'[L][i]
    <3>1. y \in Revoking
      BY <1>2, <1>10, <2>1, PacketFacts DEF Queues
    <3>2. y.name.components \in Revocables
      BY <3>1, RevokingFacts
    <3>3. y.epoch > seen[s][y.name.components]
      BY <2>6 DEF NewTo
    <3>4. seen'[s][y.name.components] = seen[s][y.name.components]
      BY <2>1, <2>2, <3>2
    <3> QED BY <3>3, <3>4
  <2>8. NewTo(s, queue[L])'
    BY <2>7 DEF NewTo
  <2>9. ASSUME L \notin lost'
        PROVE  /\ queue'[L] = Append(q, inv)
               /\ DataFollowed(q) /\ StoreFollowed(s, q)
    BY <1>10, <2>1, <2>9
  <2>10. ASSUME L \notin lost', NEW i \in DOMAIN queue'[L], queue'[L][i].kind = "Data",
                queue'[L][i].metadata.sequence <= revoked'[queue'[L][i].name.components]
         PROVE  RevokedAfter(queue'[L], i, queue'[L][i].name.components)
    <3> DEFINE r == queue'[L]
               n == r[i].name.components
    <3>1. /\ \A j \in DOMAIN q : r[j] = q[j] /\ j \in Nat
          /\ r[Len(q) + 1] = inv /\ Len(q) \in Nat /\ DOMAIN q = 1..Len(q)
          /\ i \in DOMAIN q \/ i = Len(q) + 1
      <4>1. queue'[L] = Append(q, inv) /\ q \in Seq(Messages)
        BY <2>1, <2>9, <2>10
      <4> HIDE DEF q, L
      <4>2. \A j \in DOMAIN q : j \in Nat
        BY <4>1
      <4> QED BY <1>4, <4>1, <4>2, AppendTo
    <3>2. i \in DOMAIN q /\ i \in 0..Len(q) /\ i \in Nat /\ r[i] = q[i]
      <4> HIDE DEF q, L
      <4> QED BY <1>3, <2>10, <3>1
    <3>3. n \in Names
      <4>1. r[i] \in Messages
        BY <1>10, <2>1, <2>10 DEF Queues
      <4> QED BY <1>2, <2>10, <4>1, PacketFacts, AnswerFacts
    <3>4. RevokedAfter(q, i, n) \/ Covers(name, p.prefix, n)
      BY <1>14, <2>9, <2>10, <3>2, <3>3 DEF DataFollowed
    <3>5. RevokedAfter(Append(q, inv), i, n)
      <4> HIDE DEF q, r, n
      <4> QED BY <1>3, <1>4, <2>1, <3>2, <3>4, RevokedAfterAppend
    <3> QED BY <2>9, <2>10, <3>5
  <2>11. ASSUME L \notin lost', NEW n \in Names, store'[s][n] # 0, store'[s][n] <= revoked'[n]
         PROVE  RevokedAfter(queue'[L], 0, n)
    <3>1. store'[s] = store[s]
      BY <1>5, <1>13, <2>1
    <3>2. RevokedAfter(q, 0, n) \/ Covers(name, p.prefix, n)
      BY <1>14, <2>9, <2>11, <3>1 DEF StoreFollowed
    <3>3. 0 \in 0..Len(q) /\ 0 \in Nat
      BY <2>1
    <3>4. RevokedAfter(Append(q, inv), 0, n)
      <4> HIDE DEF q
      <4> QED BY <1>3, <1>4, <2>1, <3>2, <3>3, RevokedAfterAppend
    <3> QED BY <2>9, <2>11, <3>4
  <2>12. WillBePurged(s)'
    BY <2>10, <2>11 DEF WillBePurged, DataFollowed, StoreFollowed
  <2> QED BY <2>3, <2>4, <2>6, <2>8, <2>12 DEF Neighbour
<1> QED BY <1>11, <1>17, <1>18, <1>19 DEF MInv

-----------------------------------------------------------------------------
(* The invariant.                                                           *)

LEMMA PumpKeeps ==
  ASSUME TrafficFaithful, ProducerIsOrigin, MInv, Typed', UNCHANGED net, NEW l \in Links, Pump(l)
  PROVE  MInv'
<1> DEFINE p == Head(queue[l])
<1>1. Typed /\ \A s \in Servers : \A S \in SUBSET Servers : Apart(s, S) => Neighbour(s, S)
  BY DEF MInv
<1>2. /\ queue[l] # <<>>
      /\ \/ HandleInterest(l, p) \/ HandleData(l, p) \/ HandleNack(l, p)
         \/ HandleInvalidate(l, p) \/ HandleCapPeer(l, p) \/ Ignore(l, p)
  BY Zenon DEF Pump
<1>3. /\ p \in Messages /\ p \in On(queue[l]) /\ net \in Meshes
      /\ queue[l] \in Seq(Messages) /\ p = queue[l][1] /\ 1 \in DOMAIN queue[l]
  BY <1>1, <1>2, RestFacts, TailOf DEF Typed
<1>4. CASE HandleInterest(l, p)
  BY <1>2, <1>4, HandleInterestKeeps
<1>5. CASE HandleData(l, p)
  BY <1>2, <1>5, HandleDataKeeps
<1>6. CASE HandleNack(l, p)
  <2>1. /\ p.kind = "Nack" /\ queue' = Rest(l) /\ Resolve(l[2], p.name.components, -1)
        /\ UNCHANGED <<lost, store, pit, seen, origin>>
    BY <1>6, Zenon DEF HandleNack
  <2>2. \A h \in Handlers : hand'[h] # None => hand[h] # None /\ hand'[h].rest = hand[h].rest
    <3>1. -1 \in {-1} \cup 0..net.editions
      OBVIOUS
    <3> QED BY <1>1, <2>1, <3>1, ResolveFacts
  <2>3. p.kind # "Invalidate"
    BY <2>1
  <2> QED BY <1>2, <2>1, <2>2, <2>3, DroppedKeeps
<1>7. ASSUME queue' = Rest(l), UNCHANGED <<lost, store, seen, tables, origin>>,
             Direct(l) => p.kind # "Invalidate"
      PROVE  MInv'
  <2>1. hand' = hand /\ pit' = pit
    BY <1>7 DEF tables
  <2> QED BY <1>2, <1>7, <2>1, DroppedKeeps
<1>8. CASE HandleCapPeer(l, p)
  <2>1. /\ p.kind = "CapPeer" /\ queue' = Rest(l) /\ UNCHANGED <<lost, store, seen, tables, origin>>
    BY <1>8, Zenon DEF HandleCapPeer
  <2>2. p.kind # "Invalidate"
    BY <2>1
  <2> QED BY <1>7, <2>1, <2>2
<1>9. CASE Ignore(l, p)
  <2>1. /\ queue' = Rest(l) /\ UNCHANGED <<lost, store, seen, tables, origin>>
        /\ p = Refused \/ l[2] \in Clients
    BY <1>9, Zenon DEF Ignore
  <2>2. p # Refused
    BY <1>3, PacketFacts DEF TrafficFaithful
  <2>3. ~Direct(l)
    <3>1. l[2] \notin Servers
      BY <2>1, <2>2, MeshAssumption
    <3> QED BY <3>1 DEF Direct
  <2> QED BY <1>7, <2>1, <2>3
<1>10. CASE HandleInvalidate(l, p) /\ ~(Verified(l[2], p) /\ InvalidationIsFresh(l[2], p))
  <2>1. /\ queue' = Rest(l) /\ p.kind = "Invalidate"
        /\ UNCHANGED <<lost, store, seen, tables, origin>>
    BY <1>10, Zenon DEF HandleInvalidate
  <2>2. ~Direct(l)
    <3> SUFFICES ASSUME NEW s \in Servers, NEW S \in SUBSET Servers, Apart(s, S),
                        l = <<Producer, s>>
                 PROVE  FALSE
      BY DEF Direct
    <3>1. NewTo(s, queue[l]) /\ l[2] = s
      BY <1>1 DEF Neighbour
    <3>2. Verified(s, p)
      <4>1. s \in net.recalls /\ p \in Revoking
        BY <1>3, <2>1, PacketFacts DEF Apart
      <4> QED BY <4>1, RevokingFacts DEF Verified
    <3> HIDE DEF p
    <3> QED BY <1>3, <1>10, <2>1, <3>1, <3>2 DEF NewTo, InvalidationIsFresh
  <2> QED BY <1>7, <2>1, <2>2
<1>11. CASE HandleInvalidate(l, p) /\ Verified(l[2], p) /\ InvalidationIsFresh(l[2], p)
  BY <1>2, <1>11, HearsKeeps
<1> QED BY <1>2, <1>4, <1>5, <1>6, <1>8, <1>9, <1>10, <1>11

(* A new edition, or the time: no queue changes.                            *)
LEMMA OwnKeeps ==
  ASSUME MInv, Typed', UNCHANGED net, (\E n \in Names : Publish(n)) \/ Tick
  PROVE  MInv'
<1>1. /\ Typed /\ Origin
      /\ \A s \in Servers : \A S \in SUBSET Servers : Apart(s, S) => Neighbour(s, S)
  BY DEF MInv
<1>2. /\ net \in Meshes /\ Producer \in Servers /\ Servers \subseteq Nodes /\ net.editions \in Nat
      /\ Horizon \in Nat /\ Links \subseteq Handlers
  BY <1>1, NetFacts, MeshAssumption DEF Typed
<1>3. UNCHANGED <<queue, lost, nackers, seen, asked, tables, revoked, issued>>
  BY Zenon DEF Publish, Tick
<1>4. hand' = hand /\ pit' = pit /\ failed' = failed
  BY <1>3 DEF tables
<1>5. Links' = Links /\ Handlers' = Handlers
  BY SameNet
<1>6. \A k \in Links : Quiet(k)
  <2>1. \A k \in Links : queue[k] \in Seq(Messages) /\ Left(k, queue[k]) /\ queue'[k] = queue[k]
    BY <1>1, <1>3 DEF Typed, Left
  <2> QED BY <2>1, QueueLeft
<1>7. /\ now <= now'
      /\ \A m \in Nodes : m # Producer => store'[m] = store[m]
      /\ \A n \in Names :
           /\ edition[n] <= edition'[n]
           /\ store'[Producer][n] = store[Producer][n] \/ store'[Producer][n] > edition[n]
  BY <1>1, OwnDoes
<1>9. Origin'
  <2>1. ASSUME NEW n \in Names
        PROVE  /\ revoked[n] <= edition'[n]
               /\ store'[Producer][n] # 0 => revoked[n] < store'[Producer][n]
    <3>1. revoked[n] <= edition[n] /\ (store[Producer][n] # 0 => revoked[n] < store[Producer][n])
      BY <1>1 DEF Origin
    <3>2. revoked[n] \in Nat /\ edition[n] \in Nat /\ edition'[n] \in Nat /\ store'[Producer][n] \in Nat
      BY <1>1, <1>2 DEF Typed
    <3> QED BY <1>7, <3>1, <3>2
  <2>2. revoked' = revoked
    BY <1>3
  <2> QED BY <1>1, <1>4, <1>5, <2>1, <2>2 DEF Origin
<1>10. ASSUME NEW s \in Servers, NEW S \in SUBSET Servers, Apart(s, S) PROVE Settled(s)
  <2>1. AsksProducer(s) /\ WillBePurged(s) /\ s # Producer
    BY <1>1, <1>2, <1>10, ApartFacts DEF Neighbour
  <2>2. store'[s] = store[s] /\ queue' = queue
    BY <1>2, <1>3, <1>7, <2>1
  <2> QED BY <1>4, <2>1, <2>2 DEF Settled, AsksProducer, WillBePurged, StoreFollowed
<1> QED BY <1>3, <1>6, <1>7, <1>9, <1>10, QuietKeeps

LEMMA MInvInit == TrafficFaithful /\ Init => MInv
<1> SUFFICES ASSUME TrafficFaithful, Init PROVE MInv
  OBVIOUS
<1>1. net \in Meshes
  BY DEF Init
<1>2. /\ Producer \in Servers /\ Servers \subseteq Nodes /\ net.editions \in Nat
      /\ Horizon \in Nat /\ Horizon >= 1 /\ Links \subseteq Handlers
  BY <1>1, NetFacts, MeshAssumption
<1>5. Typed /\ \A l \in Links : \A p \in On(queue[l]) : p.kind = "CapPeer"
  BY TypedInit
<1>6. \A l \in Links : \A i \in DOMAIN queue[l] : queue[l][i].kind = "CapPeer"
  BY <1>5 DEF On
<1>7. /\ \A n \in Nodes : \A m \in Names : store[n][m] = 0
      /\ \A s \in Servers : \A n \in Revocables : seen[s][n] = 0
      /\ \A n \in Names : edition[n] = 0 /\ revoked[n] = 0
      /\ \A h \in Handlers : hand[h] = None
      /\ pit[Producer] = {} /\ now = 1
  BY <1>2 DEF Init
<1>9. Origin
  BY <1>2, <1>7 DEF Origin
<1>10. Clock
  BY <1>2, <1>5, <1>7 DEF Clock
<1>11. ASSUME NEW s \in Servers, NEW S \in SUBSET Servers, Apart(s, S)
       PROVE  Neighbour(s, S)
  <2>1. <<Producer, s>> \in Links
    BY <1>1, <1>11, ApartFacts
  <2>2. AsksProducer(s)
    BY <1>2, <1>5, <1>7 DEF AsksProducer
  <2>3. HeardFirst(s, S)
    BY <1>5, <1>7 DEF HeardFirst
  <2>4. InOrder(queue[<<Producer, s>>]) /\ NewTo(s, queue[<<Producer, s>>])
    BY <1>6, <2>1 DEF InOrder, NewTo
  <2>5. WillBePurged(s)
    BY <1>2, <1>6, <1>7, <2>1 DEF WillBePurged, DataFollowed, StoreFollowed
  <2> QED BY <2>2, <2>3, <2>4, <2>5 DEF Neighbour
<1> QED BY <1>5, <1>9, <1>10, <1>11 DEF MInv

LEMMA MInvNext == TrafficFaithful /\ ~Hasty /\ ProducerIsOrigin /\ MInv /\ [Next]_vars => MInv'
<1> SUFFICES ASSUME TrafficFaithful, ~Hasty, ProducerIsOrigin, MInv, [Next]_vars PROVE MInv'
  OBVIOUS
<1>0. Typed'
  BY TypedNext DEF MInv
<1>1. CASE UNCHANGED vars
  <2>1. /\ UNCHANGED <<net, queue, lost, store, nackers, seen, asked>>
        /\ UNCHANGED <<pit, nonces, failed, hand>> /\ UNCHANGED <<edition, revoked, issued, now>>
    BY <1>1 DEF vars, tables, origin
  <2>2. Typed /\ Origin /\ \A s \in Servers : \A S \in SUBSET Servers : Apart(s, S) => Neighbour(s, S)
    BY DEF MInv
  <2>3. Links' = Links /\ Handlers' = Handlers
    BY <2>1, SameNet
  <2>5. Origin'
    BY <2>1, <2>2, <2>3 DEF Origin
  <2>6. \A l \in Links : Quiet(l)
    <3>1. \A l \in Links : queue[l] \in Seq(Messages) /\ Left(l, queue[l]) /\ queue'[l] = queue[l]
      BY <2>1, <2>2 DEF Typed, Left
    <3> QED BY <3>1, QueueLeft
  <2>7. ASSUME NEW s \in Servers, NEW S \in SUBSET Servers, Apart(s, S) PROVE Settled(s)
    <3>1. AsksProducer(s) /\ WillBePurged(s) /\ Links \subseteq Handlers
      BY <2>2, <2>7, NetFacts DEF Neighbour, Typed
    <3> QED BY <2>1, <3>1 DEF Settled, AsksProducer, WillBePurged, StoreFollowed
  <2>8. now <= now'
    BY <2>1, <2>2, MeshAssumption DEF Typed
  <2> QED BY <1>0, <2>1, <2>5, <2>6, <2>7, <2>8, QuietKeeps
<1>2. CASE Next
  <2>1. UNCHANGED net
    BY <1>2, Zenon DEF Next
  <2>2. ASSUME NEW l \in Links, Pump(l) PROVE MInv'
    BY <1>0, <2>1, <2>2, PumpKeeps
  <2>3. ASSUME NEW h \in Handlers, Resume(h) \/ Timeout(h) \/ GiveUp(h) PROVE MInv'
    BY <1>0, <2>1, <2>3, GoesOnKeeps
  <2>4. ASSUME NEW a \in net.asks, Ask(a) PROVE MInv'
    BY <1>0, <2>1, <2>4, AskKeeps
  <2>5. ASSUME (\E n \in Names : Publish(n)) \/ Tick PROVE MInv'
    BY <1>0, <2>1, <2>5, OwnKeeps
  <2>6. ASSUME NEW p \in Purges, Invalidate(p) PROVE MInv'
    BY <1>0, <2>1, <2>6, InvalidateKeeps
  <2> QED BY <1>2, <2>2, <2>3, <2>4, <2>5, <2>6, Zenon DEF Next, Runs
<1> QED BY <1>1, <1>2

(* The theorem's formula at work: a server in Sole is apart from some set.  *)
LEMMA SoleIsApart ==
  ASSUME Typed, NEW s \in Sole
  PROVE  s \in Servers /\ \E S \in SUBSET Servers : Apart(s, S)
<1>1. /\ s \in net.recalls /\ net.routes[s] = <<Producer>>
      /\ s \notin Reached({<<Producer, s>>})
  BY DEF Sole
<1>2. s \in Servers
  BY <1>1, NetFacts DEF Typed
<1>3. PICK S \in SUBSET Servers : Producer \in S /\ Closed(S, {<<Producer, s>>}) /\ s \notin S
  BY <1>1, <1>2 DEF Reached
<1> QED BY <1>1, <1>2, <1>3 DEF Apart

LEMMA MInvHolds == TrafficFaithful /\ MInv => NeighbourHoldsNothingRevoked
<1> SUFFICES ASSUME TrafficFaithful, MInv, NEW s \in Sole, NEW n \in Names,
                    store[s][n] # 0, store[s][n] <= revoked[n], <<Producer, s>> \notin lost
             PROVE  \E p \in InFlight(<<Producer, s>>, "Invalidate") :
                      Covers(p.name.components, p.is_prefix, n)
  BY DEF NeighbourHoldsNothingRevoked
<1> DEFINE L == <<Producer, s>>
<1>1. Typed /\ s \in Servers
  BY SoleIsApart DEF MInv
<1>2. PICK S \in SUBSET Servers : Apart(s, S)
  BY <1>1, SoleIsApart
<1>3. Neighbour(s, S)
  BY <1>1, <1>2 DEF MInv
<1>4. RevokedAfter(queue[L], 0, n)
  BY <1>3 DEF Neighbour, WillBePurged, StoreFollowed
<1>5. PICK j \in DOMAIN queue[L] :
        /\ queue[L][j].kind = "Invalidate"
        /\ Covers(queue[L][j].name.components, queue[L][j].is_prefix, n)
  BY <1>4 DEF RevokedAfter
<1>6. queue[L][j] \in Messages
  <2>1. L \in Links /\ queue \in [Links -> Seq(Messages)]
    BY <1>1, <1>2, ApartFacts DEF Typed
  <2>2. queue[L] \in Seq(Messages)
    BY <2>1
  <2> HIDE DEF L
  <2> QED BY <1>5, <2>2
<1>7. queue[L][j] # Refused
  BY <1>1, <1>6, PacketFacts DEF TrafficFaithful, Typed
<1> HIDE DEF L
<1>8. queue[L][j] \in InFlight(L, "Invalidate")
  BY <1>5, <1>7 DEF InFlight
<1> QED BY <1>5, <1>8, Zenon DEF L

LEMMA TypedIsOK == Typed => TypeOK
<1> SUFFICES ASSUME Typed PROVE TypeOK
  OBVIOUS
<1>1. net \in Meshes /\ net.editions \in Nat
  BY NetFacts DEF Typed
<1>2. \A l \in Links : \A i \in DOMAIN queue[l] : queue[l][i] \in Traffic
  <2>1. \A l \in Links : \A i \in DOMAIN queue[l] : queue[l][i] \in Messages
    BY DEF Typed
  <2> QED BY <1>1, <2>1, PacketFacts
<1>3. store \in [Nodes -> [Names -> Nat]]
  BY <1>1 DEF Typed
<1> QED BY <1>2, <1>3 DEF Typed, TypeOK

(* Whatever the nodes do, with Hasty or without and whoever routes what, the*)
(* packets on the links are those the nodes write, and the tables are of    *)
(* their types (server.py, client.py, forwarder.py).                        *)
THEOREM MeshTyped == Spec => []TypeOK
<1>1. Init => Typed
  BY TrafficArrives, TypedInit
<1>2. Typed /\ [Next]_vars => Typed'
  BY TrafficArrives, TypedNext
<1>3. Typed => TypeOK
  BY TypedIsOK
<1> QED BY <1>1, <1>2, <1>3, PTL DEF Spec

(* The wire format (packet.py, name.py, access.py) loses nothing: not of    *)
(* the samples, not of what the nodes send, and every packet on a link is   *)
(* one of those that were sent.                                             *)
THEOREM MeshFaithful == Spec => []WireFaithful
<1>1. Init => Typed
  BY TrafficArrives, TypedInit
<1>2. Typed /\ [Next]_vars => Typed'
  BY TrafficArrives, TypedNext
<1>3. Typed => WireFaithful
  BY SamplesAreFaithful, TrafficArrives, TypedIsOK DEF WireFaithful, TypeOK
<1> QED BY <1>1, <1>2, <1>3, PTL DEF Spec

(* A neighbour of the producer that hears from it over their own link only  *)
(* holds a revoked edition no longer than the invalidation is on that link: *)
(* the Data that could bring one back is ahead of the invalidation (server  *)
(* .py invalidate, handle_invalidate, _invalidation_is_fresh; the receive   *)
(* loop of a face).                                                         *)
THEOREM NeighbourPurged ==
  ASSUME ~Hasty, ProducerIsOrigin
  PROVE  Spec => []NeighbourHoldsNothingRevoked
<1>1. Init => MInv
  BY TrafficArrives, MInvInit
<1>2. MInv /\ [Next]_vars => MInv'
  BY TrafficArrives, MInvNext
<1>3. MInv => NeighbourHoldsNothingRevoked
  BY TrafficArrives, MInvHolds
<1> QED BY <1>1, <1>2, <1>3, PTL DEF Spec
=============================================================================
