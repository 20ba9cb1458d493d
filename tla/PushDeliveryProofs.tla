------------------------- MODULE PushDeliveryProofs -------------------------
(***************************************************************************)
(* What push delivery promises, for every set of names, clients, faces and  *)
(* posts and every time to live: what is published while a subscriber is    *)
(* away is held for it and handed over when it subscribes again, provided   *)
(* no other client is subscribed to the same stream (the queue of a stream  *)
(* has one copy for all and goes to the first who asks); and a consumer     *)
(* that rejects rollbacks never goes back.                                  *)
(***************************************************************************)
EXTENDS PushDelivery, FiniteSetTheorems, TLAPS

(* No two clients subscribe to one stream.                                  *)
AloneOnStreams == \A c, d \in Clients : Wants[c] \cap Wants[d] # {} => c = d

(* Only wanted streams are asked for and subscribed to, over links that have*)
(* been up.                                                                 *)
Asking ==
  \A f \in Faces :
    /\ \A i \in DOMAIN asked[f] : asked[f][i].stream \in Wants[Owner[f]]
    /\ link[f] = "new" => asked[f] = <<>>

Subscribing ==
  \A s \in Streams : \A f \in subs[s] : s \in Wants[Owner[f]] /\ link[f] # "new"

Missing == \A x \in missed : x[2] \in Wants[x[1]]

(* The inductive invariant of what was missed.                              *)
PInv ==
  /\ TypeOK
  /\ Asking
  /\ Subscribing
  /\ Missing
  /\ MissedIsHeld
  /\ ResubscribeDeliversMissed

(* The newest edition accepted of a name is no older than any handed over.  *)
Newest ==
  \A c \in Clients : \A i \in DOMAIN got[c] :
    LET e == got[c][i]
    IN seen[c][e.name] # None /\ ~OlderThan(seen[c][e.name], e)

(* The inductive invariant of a consumer that rejects rollbacks.            *)
SInv == TypeOK /\ Newest /\ EditionsNeverGoBack
-----------------------------------------------------------------------------
(* The lists of the queue and of the store.                                 *)

(* Where an item stands among the young ones of its list (Pruned) is a      *)
(* one-to-one numbering of them.                                            *)
LEMMA Ranking ==
  ASSUME NEW n \in Nat, NEW keep \in SUBSET (1..n)
  PROVE  LET Rank(i) == Cardinality({j \in keep : j <= i})
             N == Cardinality(keep)
         IN /\ N \in Nat
            /\ \A i \in keep : Rank(i) \in 1..N
            /\ \A i, j \in keep : Rank(i) = Rank(j) => i = j
            /\ \A k \in 1..N : \E i \in keep : Rank(i) = k
<1> DEFINE Upto(i) == {j \in keep : j <= i}
           N == Cardinality(keep)
<1>1. IsFiniteSet(keep) /\ N \in Nat
  <2>1. IsFiniteSet(1..n)
    BY FS_Interval
  <2> QED BY <2>1, FS_Subset, FS_CardinalityType
<1>2. \A i \in keep : IsFiniteSet(Upto(i)) /\ Cardinality(Upto(i)) \in 1..N
  <2> TAKE i \in keep
  <2>1. IsFiniteSet(Upto(i)) /\ Cardinality(Upto(i)) <= N
    BY <1>1, FS_Subset
  <2>2. Upto(i) # {} /\ Cardinality(Upto(i)) \in Nat
    BY <2>1, FS_CardinalityType
  <2>3. Cardinality(Upto(i)) # 0
    BY <2>1, <2>2, FS_EmptySet
  <2> HIDE DEF Upto
  <2> QED BY <1>1, <2>1, <2>2, <2>3
<1>3. \A i, j \in keep : Cardinality(Upto(i)) = Cardinality(Upto(j)) => i = j
  <2>1. ASSUME NEW i \in keep, NEW j \in keep, i < j,
               Cardinality(Upto(i)) = Cardinality(Upto(j))
        PROVE  FALSE
    <3>1. Upto(i) \in SUBSET Upto(j)
      <4>1. \A x \in keep : x \in Int
        OBVIOUS
      <4>2. \A x \in keep : x <= i => x <= j
        BY <2>1, <4>1
      <4> QED BY <4>2
    <3>2. Upto(i) = Upto(j)
      BY <1>2, <2>1, <3>1, FS_Subset
    <3>3. j \in Upto(j) /\ j \notin Upto(i)
      BY <2>1
    <3> QED BY <3>2, <3>3
  <2> QED BY <2>1
<1> DEFINE rank == [i \in keep |-> Cardinality(Upto(i))]
<1>4. \A k \in 1..N : \E i \in keep : Cardinality(Upto(i)) = k
  <2> HIDE DEF Upto
  <2>1. rank \in Injection(keep, 1..N)
    BY <1>2, <1>3 DEF Injection, IsInjective
  <2>2. IsFiniteSet(1..N) /\ Cardinality(1..N) = N
    BY <1>1, FS_Interval
  <2>3. rank \in Surjection(keep, 1..N)
    BY <2>1, <2>2, FS_Injection
  <2> QED BY <2>3 DEF Surjection
<1> HIDE DEF N
<1> QED BY <1>1, <1>2, <1>3, <1>4 DEF N

(* A pruned list holds the young items of the list and no others.           *)
LEMMA PrunedHolds ==
  ASSUME NEW q \in Seq(Edition)
  PROVE  /\ Pruned(q) \in Seq(Edition)
         /\ \A i \in DOMAIN q : Young(q[i]) =>
              \E k \in DOMAIN Pruned(q) : Pruned(q)[k] = q[i]
<1> DEFINE keep == {i \in DOMAIN q : Young(q[i])}
           Rank(i) == Cardinality({j \in keep : j <= i})
           N == Cardinality(keep)
           At(k) == CHOOSE i \in keep : Rank(i) = k
<1>1. Pruned(q) = [k \in 1..N |-> q[At(k)]]
  BY DEF Pruned
<1>2. Len(q) \in Nat /\ DOMAIN q = 1..Len(q) /\ keep \in SUBSET (1..Len(q))
  OBVIOUS
<1>3. /\ N \in Nat
      /\ \A i \in keep : Rank(i) \in 1..N
      /\ \A i, j \in keep : Rank(i) = Rank(j) => i = j
      /\ \A k \in 1..N : \E i \in keep : Rank(i) = k
  BY <1>2, Ranking
<1>4. \A i \in DOMAIN q : Young(q[i]) => i \in keep
  OBVIOUS
<1>5. keep \subseteq DOMAIN q
  OBVIOUS
<1> HIDE DEF keep, Rank, N
<1>6. \A k \in 1..N : At(k) \in keep /\ Rank(At(k)) = k
  BY <1>3
<1>7. \A i \in keep : At(Rank(i)) = i
  BY <1>3, <1>6
<1> HIDE DEF At
<1>8. \A k \in 1..N : q[At(k)] \in Edition
  BY <1>2, <1>5, <1>6
<1>9. Pruned(q) \in Seq(Edition)
  BY <1>1, <1>3, <1>8
<1>10. \A i \in keep : Pruned(q)[Rank(i)] = q[i] /\ Rank(i) \in DOMAIN Pruned(q)
  BY <1>1, <1>3, <1>7
<1> QED BY <1>4, <1>9, <1>10

(* Every order of the backlog of a stream is a list of editions.            *)
LEMMA BacklogLists ==
  ASSUME TypeOK, NEW s \in Streams, NEW sub, NEW q
  PROVE  q \in Arrangements(IF sub THEN {} ELSE Backlog(s)) => q \in Seq(Edition)
<1> USE PushAssumption
<1> DEFINE held == {m \in Names : cs[m] # None /\ StartsWith(m, s)}
           f == [m \in held |-> cs[m]]
<1>1. Backlog(s) \subseteq Edition /\ f \in Surjection(held, Backlog(s))
  BY DEF TypeOK, Backlog, Surjection
<1>2. IsFiniteSet(held)
  BY FS_Subset
<1>3. IsFiniteSet(Backlog(s)) /\ IsFiniteSet({})
  BY <1>1, <1>2, FS_Surjection, FS_EmptySet
<1> DEFINE S == IF sub THEN {} ELSE Backlog(s)
<1>4. Cardinality(S) \in Nat /\ S \subseteq Edition
  BY <1>1, <1>3, FS_CardinalityType
<1> HIDE DEF S
<1>5. q \in Arrangements(S) => q \in [1..Cardinality(S) -> S]
  BY DEF Arrangements
<1> QED BY <1>4, <1>5 DEF S
-----------------------------------------------------------------------------
(* Type correctness.                                                        *)

LEMMA SentTyped ==
  ASSUME TypeOK, NEW f \in Faces, NEW list \in Seq(Edition)
  PROVE  Sent(f, list) \in Seq(Edition)
<1> DEFINE all == wire[f] \o list
<1>1. wire[f] \in Seq(Edition) /\ all \in Seq(Edition)
  BY DEF TypeOK
<1>2. Len(all) \in Nat /\ Window \in Nat
  BY <1>1, PushAssumption
<1> HIDE DEF all
<1>3. ASSUME NEW n \in Nat, n <= Len(all)
      PROVE  SubSeq(all, 1, n) \in Seq(Edition)
  <2>1. \A i \in 1..n : all[i] \in Edition
    BY <1>1, <1>3
  <2> QED BY <1>1, <1>3, <2>1
<1>4. SubSeq(all, 1, IF Len(all) <= Window THEN Len(all) ELSE Window) \in Seq(Edition)
  BY <1>2, <1>3
<1> QED BY <1>1, <1>4 DEF Sent, all

(* A publication queues one copy for every subscribed face that is gone.    *)
LEMMA QueuedHolds ==
  ASSUME TypeOK, NEW s \in Streams, NEW d \in Edition
  PROVE  /\ Queued(s, d) \in Seq(Edition)
         /\ \A i \in DOMAIN queue[s] : i \in DOMAIN Queued(s, d) /\ Queued(s, d)[i] = queue[s][i]
         /\ Covers(s, d.name) /\ GoneFaces(s) # {} =>
              \E i \in DOMAIN Queued(s, d) : Queued(s, d)[i] = d
<1> DEFINE k == Cardinality(GoneFaces(s))
<1>1. queue[s] \in Seq(Edition) /\ GoneFaces(s) \in SUBSET Faces
  BY DEF TypeOK, GoneFaces
<1>2. IsFiniteSet(GoneFaces(s)) /\ k \in Nat
  BY <1>1, PushAssumption, FS_Subset, FS_CardinalityType
<1>3. GoneFaces(s) # {} => k # 0
  BY <1>2, FS_EmptySet
<1> HIDE DEF k
<1>4. Times(k, d) \in Seq(Edition) /\ Len(Times(k, d)) = k /\ \A i \in 1..k : Times(k, d)[i] = d
  BY <1>2 DEF Times
<1>5. Queued(s, d) = IF Covers(s, d.name) THEN queue[s] \o Times(k, d) ELSE queue[s]
  BY DEF Queued, k
<1> DEFINE all == queue[s] \o Times(k, d)
<1>6. /\ all \in Seq(Edition)
      /\ \A i \in DOMAIN queue[s] : i \in DOMAIN all /\ all[i] = queue[s][i]
  BY <1>1, <1>2, <1>4
<1>7. k # 0 => Len(queue[s]) + 1 \in DOMAIN all /\ all[Len(queue[s]) + 1] = d
  BY <1>1, <1>2, <1>4
<1> HIDE DEF all
<1>8. Queued(s, d) = IF Covers(s, d.name) THEN all ELSE queue[s]
  BY <1>5 DEF all
<1> QED BY <1>1, <1>3, <1>6, <1>7, <1>8

(* The edition a publication makes.                                         *)
Signed(p) == [name |-> p.name, seq |-> p.seq, at |-> now]

LEMMA SignedTyped ==
  ASSUME TypeOK, NEW p \in Posts
  PROVE  Signed(p) \in Edition /\ Signed(p).name = p.name /\ p.name \in Names
BY PushAssumption DEF TypeOK, Edition, Signed

LEMMA PublishTyped ==
  ASSUME TypeOK, NEW p \in Posts, Publish(p)
  PROVE  TypeOK'
<1> DEFINE d == Signed(p)
           push == {f \in SubscriberFaces(p.name) : Registered(f)}
<1>1. d \in Edition /\ d.name = p.name /\ p.name \in Names
  BY SignedTyped
<1>2. \A f \in Faces : Sent(f, <<d>>) \in Seq(Edition)
  BY <1>1, SentTyped
<1>3. \A s \in Streams : Queued(s, d) \in Seq(Edition)
  BY <1>1, QueuedHolds
<1>4. push \subseteq Faces
  BY DEF SubscriberFaces, TypeOK
<1>5. /\ published' = published \cup {p}
      /\ cs' = [cs EXCEPT ![p.name] = d]
      /\ wire' = [f \in Faces |-> IF f \in push THEN Sent(f, <<d>>) ELSE wire[f]]
      /\ queue' = [s \in Streams |-> Queued(s, d)]
      /\ missed' = missed \cup
           {x \in Clients \X Streams \X {d} : Covers(x[2], p.name) /\ Absent(x[1], x[2])}
      /\ handed' = handed \cup {<<Owner[f], d>> : f \in push}
      /\ UNCHANGED <<now, link, asked, subs, regs, seen, got>>
  BY DEF Publish, Signed, client
<1> HIDE DEF d, push
<1>6. wire' \in [Faces -> Seq(Edition)]
  BY <1>2, <1>5 DEF TypeOK
<1>7. missed' \subseteq Clients \X Streams \X Edition
  BY <1>1, <1>5 DEF TypeOK
<1>8. handed' \subseteq Clients \X Edition
  BY <1>1, <1>4, <1>5, PushAssumption DEF TypeOK
<1>9. queue' \in [Streams -> Seq(Edition)] /\ cs' \in [Names -> Edition \cup {None}]
  BY <1>1, <1>3, <1>5 DEF TypeOK
<1> QED BY <1>5, <1>6, <1>7, <1>8, <1>9 DEF TypeOK

(* The packet in hand when a request is handled.                            *)
Request == [stream : Streams, fromNow : BOOLEAN]

LEMMA RequestTyped ==
  ASSUME TypeOK, NEW f \in Faces, asked[f] # <<>>
  PROVE  /\ Head(asked[f]).stream \in Streams
         /\ Tail(asked[f]) \in Seq([stream : Streams, fromNow : BOOLEAN])
         /\ 1 \in DOMAIN asked[f] /\ Head(asked[f]) = asked[f][1]
         /\ \A i \in DOMAIN Tail(asked[f]) :
              i + 1 \in DOMAIN asked[f] /\ Tail(asked[f])[i] = asked[f][i + 1]
<1> DEFINE q == asked[f]
<1>1. q \in Seq(Request) /\ q # <<>>
  BY DEF TypeOK, Request
<1> HIDE DEF q
<1>2. 1 \in DOMAIN q /\ Head(q) = q[1]
  BY <1>1
<1>3. q[1] \in Request
  BY <1>1, <1>2
<1>4. q[1].stream \in Streams
  BY <1>3 DEF Request
<1>5. Tail(q) \in Seq(Request)
  BY <1>1
<1>6. \A i \in DOMAIN Tail(q) : i + 1 \in DOMAIN q /\ Tail(q)[i] = q[i + 1]
  BY <1>1
<1> QED BY <1>2, <1>4, <1>5, <1>6 DEF q, Request

(* One list after the other: where the elements of the second are.          *)
LEMMA Joined ==
  ASSUME NEW S, NEW a \in Seq(S), NEW b \in Seq(S)
  PROVE  /\ a \o b \in Seq(S)
         /\ \A i \in DOMAIN b : Len(a) + i \in DOMAIN (a \o b) /\ (a \o b)[Len(a) + i] = b[i]
         /\ \A i \in DOMAIN (a \o b) : (a \o b)[i] \in S
<1>1. a \o b \in Seq(S)
  OBVIOUS
<1>2. \A i \in DOMAIN b : Len(a) + i \in DOMAIN (a \o b) /\ (a \o b)[Len(a) + i] = b[i]
  OBVIOUS
<1>3. \A i \in DOMAIN (a \o b) : (a \o b)[i] \in S
  BY <1>1
<1> QED BY <1>1, <1>2, <1>3

(* What handling a request does: all that is queued for the stream is in    *)
(* what is handed over, and is dropped if the face is registered.           *)
LEMMA HandleSubscribeDoes ==
  ASSUME TypeOK, NEW f \in Faces, HandleSubscribe(f)
  PROVE  /\ asked[f] # <<>>
         /\ asked' \in {[asked EXCEPT ![f] = Tail(asked[f])], [asked EXCEPT ![f] = <<>>]}
         /\ UNCHANGED <<now, link, cs, published, regs, seen, got, missed>>
         /\ wire' \in [Faces -> Seq(Edition)]
         /\ handed \subseteq handed' /\ handed' \subseteq Clients \X Edition
         /\ \E s \in Streams :
              /\ s = Head(asked[f]).stream
              /\ subs' = [subs EXCEPT ![s] = subs[s] \cup {f}]
              /\ queue' = [queue EXCEPT ![s] = IF Registered(f) THEN <<>> ELSE queue[s]]
              /\ Registered(f) =>
                   \A i \in DOMAIN queue[s] : <<Owner[f], queue[s][i]>> \in handed'
<1> DEFINE sub == Head(asked[f])
           s == sub.stream
<1>1. asked[f] # <<>> /\ s \in Streams
  BY RequestTyped DEF HandleSubscribe
<1>2. /\ asked' = [asked EXCEPT ![f] = IF link[f] = "up" THEN Tail(@) ELSE <<>>]
      /\ subs' = Subscribed(f, s)
      /\ queue' = [queue EXCEPT ![s] = Kept(f, s)]
      /\ UNCHANGED <<now, link, cs, published, regs, seen, got, missed>>
  BY DEF HandleSubscribe, client
<1>3. asked' \in {[asked EXCEPT ![f] = Tail(asked[f])], [asked EXCEPT ![f] = <<>>]}
  <2>1. CASE link[f] = "up"
    BY <1>2, <2>1 DEF TypeOK
  <2>2. CASE link[f] # "up"
    BY <1>2, <2>2 DEF TypeOK
  <2> QED BY <2>1, <2>2
<1>4. PICK backlog \in Arrangements(IF sub.fromNow THEN {} ELSE Backlog(s)) :
        LET list == backlog \o queue[s]
        IN /\ wire' = [wire EXCEPT ![f] = Sent(f, list)]
           /\ handed' = IF Registered(f)
                          THEN handed \cup {<<Owner[f], list[i]>> : i \in DOMAIN list}
                          ELSE handed
  BY DEF HandleSubscribe, Drained
<1> DEFINE list == backlog \o queue[s]
<1>5. backlog \in Seq(Edition) /\ queue[s] \in Seq(Edition)
  BY <1>1, <1>4, BacklogLists DEF TypeOK
<1>6. /\ list \in Seq(Edition)
      /\ \A i \in DOMAIN queue[s] :
           Len(backlog) + i \in DOMAIN list /\ list[Len(backlog) + i] = queue[s][i]
      /\ \A i \in DOMAIN list : list[i] \in Edition
  BY <1>5, Joined
<1>7. /\ wire' = [wire EXCEPT ![f] = Sent(f, list)]
      /\ handed' = IF Registered(f)
                     THEN handed \cup {<<Owner[f], list[i]>> : i \in DOMAIN list}
                     ELSE handed
  BY <1>4
<1> HIDE DEF list, s
<1>8. wire' \in [Faces -> Seq(Edition)]
  BY <1>6, <1>7, SentTyped DEF TypeOK
<1>9. handed \subseteq handed' /\ handed' \subseteq Clients \X Edition
  <2>1. Owner[f] \in Clients /\ handed \subseteq Clients \X Edition
    BY PushAssumption DEF TypeOK
  <2>2. {<<Owner[f], list[i]>> : i \in DOMAIN list} \subseteq Clients \X Edition
    BY <1>6, <2>1
  <2> QED BY <1>7, <2>1, <2>2
<1>10. Registered(f) => \A i \in DOMAIN queue[s] : <<Owner[f], queue[s][i]>> \in handed'
  BY <1>6, <1>7
<1>11. subs' = [subs EXCEPT ![s] = subs[s] \cup {f}]
  BY <1>2 DEF Subscribed
<1>12. queue' = [queue EXCEPT ![s] = IF Registered(f) THEN <<>> ELSE queue[s]]
  BY <1>2 DEF Kept
<1> QED BY <1>1, <1>2, <1>3, <1>8, <1>9, <1>10, <1>11, <1>12 DEF s

LEMMA HandleSubscribeTyped ==
  ASSUME TypeOK, NEW f \in Faces, HandleSubscribe(f)
  PROVE  TypeOK'
<1>1. PICK s \in Streams :
        /\ subs' = [subs EXCEPT ![s] = subs[s] \cup {f}]
        /\ queue' = [queue EXCEPT ![s] = IF Registered(f) THEN <<>> ELSE queue[s]]
  BY HandleSubscribeDoes
<1>2. asked' \in [Faces -> Seq(Request)]
  <2>1. asked \in [Faces -> Seq(Request)] /\ Tail(asked[f]) \in Seq(Request)
    BY HandleSubscribeDoes, RequestTyped DEF TypeOK, Request
  <2>2. \A x \in Seq(Request) : [asked EXCEPT ![f] = x] \in [Faces -> Seq(Request)]
    BY <2>1
  <2>3. <<>> \in Seq(Request)
    OBVIOUS
  <2> QED BY <2>1, <2>2, <2>3, HandleSubscribeDoes
<1>3. subs' \in [Streams -> SUBSET Faces] /\ queue' \in [Streams -> Seq(Edition)]
  BY <1>1 DEF TypeOK
<1> QED BY <1>2, <1>3, HandleSubscribeDoes DEF TypeOK, Request

LEMMA PruneTyped ==
  ASSUME TypeOK, Prune
  PROVE  TypeOK'
<1>1. \A s \in Streams : Pruned(queue[s]) \in Seq(Edition)
  BY PrunedHolds DEF TypeOK
<1> QED BY <1>1 DEF Prune, TypeOK, net, client, history

LEMMA SubscribeTyped ==
  ASSUME TypeOK, NEW f \in Faces, NEW s \in Streams, NEW fromNow \in FromNow,
         Subscribe(f, s, fromNow)
  PROVE  TypeOK'
<1> DEFINE r == [stream |-> s, fromNow |-> fromNow]
<1>1. r \in [stream : Streams, fromNow : BOOLEAN] /\ Owner[f] \in Clients
  BY PushAssumption
<1>2. asked' = [asked EXCEPT ![f] = Append(@, r)] /\ regs' = [regs EXCEPT ![Owner[f]] = @ \cup {s}]
  BY DEF Subscribe
<1> HIDE DEF r
<1>3. asked[f] \in Seq([stream : Streams, fromNow : BOOLEAN])
  BY DEF TypeOK
<1>4. Append(asked[f], r) \in Seq([stream : Streams, fromNow : BOOLEAN])
  BY <1>1, <1>3
<1>5. asked' \in [Faces -> Seq([stream : Streams, fromNow : BOOLEAN])]
  BY <1>2, <1>4 DEF TypeOK
<1>6. regs' \in [Clients -> SUBSET Streams]
  BY <1>1, <1>2 DEF TypeOK
<1>7. UNCHANGED <<now, link, wire, subs, queue, cs, published, seen, got, missed, handed>>
  BY DEF Subscribe, server, history
<1> QED BY <1>5, <1>6, <1>7 DEF TypeOK

LEMMA DispatchTyped ==
  ASSUME TypeOK, NEW f \in Faces, Dispatch(f)
  PROVE  TypeOK'
<1> DEFINE c == Owner[f]
           d == Head(wire[f])
<1>1. wire[f] \in Seq(Edition) /\ wire[f] # <<>> /\ c \in Clients
  BY PushAssumption DEF TypeOK, Dispatch
<1>2. d \in Edition /\ Tail(wire[f]) \in Seq(Edition)
  BY <1>1
<1>3. d.name \in Names
  BY <1>2 DEF Edition
<1>4. /\ wire' = [wire EXCEPT ![f] = Tail(@)]
      /\ seen' \in {seen, [seen EXCEPT ![c][d.name] = d]}
      /\ got' \in {got, [got EXCEPT ![c] = Append(@, d)]}
      /\ UNCHANGED <<now, link, asked, subs, queue, cs, published, regs, missed, handed>>
  BY DEF Dispatch, server, history
<1> HIDE DEF c, d
<1>5. seen' \in [Clients -> [Names -> Edition \cup {None}]]
  <2>1. seen \in [Clients -> [Names -> Edition \cup {None}]] /\ d \in Edition \cup {None}
    BY <1>2 DEF TypeOK
  <2>2. [seen EXCEPT ![c][d.name] = d] \in [Clients -> [Names -> Edition \cup {None}]]
    BY <1>1, <1>3, <2>1
  <2> QED BY <1>4, <2>1, <2>2
<1>6. got' \in [Clients -> Seq(Edition)]
  <2>1. got \in [Clients -> Seq(Edition)] /\ Append(got[c], d) \in Seq(Edition)
    BY <1>1, <1>2 DEF TypeOK
  <2>2. [got EXCEPT ![c] = Append(@, d)] \in [Clients -> Seq(Edition)]
    BY <1>1, <2>1
  <2> QED BY <1>4, <2>1, <2>2
<1>7. wire' \in [Faces -> Seq(Edition)]
  BY <1>2, <1>4 DEF TypeOK
<1> QED BY <1>4, <1>5, <1>6, <1>7 DEF TypeOK

LEMMA LinksTyped ==
  ASSUME TypeOK, NEW f \in Faces, Connect(f) \/ Close(f) \/ Cleanup(f)
  PROVE  TypeOK'
<1>1. UNCHANGED <<now, subs, queue, cs, published, regs, seen, got, missed, handed>>
  BY DEF Connect, Close, Cleanup, server, client, history
<1>2. link' \in [Faces -> {"new", "up", "closed", "down"}]
  BY DEF Connect, Close, Cleanup, TypeOK
<1>3. <<>> \in Seq(Edition) /\ <<>> \in Seq([stream : Streams, fromNow : BOOLEAN])
  OBVIOUS
<1>4. wire' \in [Faces -> Seq(Edition)]
  BY <1>3 DEF Connect, Close, Cleanup, TypeOK
<1>5. asked' \in [Faces -> Seq([stream : Streams, fromNow : BOOLEAN])]
  BY <1>3 DEF Connect, Close, Cleanup, TypeOK
<1> QED BY <1>1, <1>2, <1>4, <1>5 DEF TypeOK

LEMMA TickTyped ==
  ASSUME TypeOK, Tick
  PROVE  TypeOK'
<1>1. now' \in Nat
  BY DEF TypeOK, Tick
<1>2. UNCHANGED <<link, subs, queue, cs, published, asked, wire, regs, seen, got, missed, handed>>
  BY DEF Tick, net, server, client, history
<1> QED BY <1>1, <1>2 DEF TypeOK

LEMMA TypedInit == Init => TypeOK
BY PushAssumption DEF Init, TypeOK

LEMMA TypedNext == TypeOK /\ [Next]_vars => TypeOK'
<1> SUFFICES ASSUME TypeOK, [Next]_vars
             PROVE  TypeOK'
  OBVIOUS
<1>1. CASE UNCHANGED vars
  BY <1>1 DEF TypeOK, vars, net, server, client, history
<1> QED
  BY <1>1, PublishTyped, HandleSubscribeTyped, DispatchTyped, LinksTyped, SubscribeTyped,
     PruneTyped, TickTyped DEF Next

(* Every table, link and history keeps its type.                            *)
THEOREM PushTyped == Spec => []TypeOK
BY TypedInit, TypedNext, PTL DEF Spec
-----------------------------------------------------------------------------
(* What was missed is held and handed over.                                 *)

(* A publication queues what it makes somebody miss, and keeps the rest.    *)
LEMMA PublishDoes ==
  ASSUME TypeOK, NEW p \in Posts, Publish(p)
  PROVE  /\ UNCHANGED <<now, link, asked, subs, regs, seen, got>>
         /\ handed \subseteq handed'
         /\ \A s \in Streams : \A i \in DOMAIN queue[s] :
              i \in DOMAIN queue'[s] /\ queue'[s][i] = queue[s][i]
         /\ \A x \in missed' : x \in missed \/
              /\ x[1] \in Clients /\ x[2] \in Streams
              /\ Absent(x[1], x[2])
              /\ \E i \in DOMAIN queue'[x[2]] : queue'[x[2]][i] = x[3]
<1> DEFINE d == Signed(p)
           push == {f \in SubscriberFaces(p.name) : Registered(f)}
<1>1. d \in Edition /\ d.name = p.name
  BY SignedTyped
<1>2. /\ queue' = [s \in Streams |-> Queued(s, d)]
      /\ missed' = missed \cup
           {x \in Clients \X Streams \X {d} : Covers(x[2], p.name) /\ Absent(x[1], x[2])}
      /\ handed' = handed \cup {<<Owner[f], d>> : f \in push}
      /\ UNCHANGED <<now, link, asked, subs, regs, seen, got>>
  BY DEF Publish, Signed, client
<1> HIDE DEF d, push
<1>3. \A s \in Streams : \A i \in DOMAIN queue[s] :
        i \in DOMAIN queue'[s] /\ queue'[s][i] = queue[s][i]
  BY <1>1, <1>2, QueuedHolds
<1>4. ASSUME NEW x \in missed', x \notin missed
      PROVE  /\ x[1] \in Clients /\ x[2] \in Streams
             /\ Absent(x[1], x[2])
             /\ \E i \in DOMAIN queue'[x[2]] : queue'[x[2]][i] = x[3]
  <2>1. x[1] \in Clients /\ x[2] \in Streams /\ x[3] = d
    BY <1>2, <1>4
  <2>2. Covers(x[2], d.name) /\ Absent(x[1], x[2])
    BY <1>1, <1>2, <1>4
  <2>3. GoneFaces(x[2]) # {}
    BY <2>2 DEF Absent, GoneFaces
  <2>4. \E i \in DOMAIN Queued(x[2], d) : Queued(x[2], d)[i] = d
    BY <1>1, <2>1, <2>2, <2>3, QueuedHolds
  <2> QED BY <1>2, <2>1, <2>2, <2>4
<1> QED BY <1>2, <1>3, <1>4

(* Prune keeps what is young.                                               *)
LEMMA PruneDoes ==
  ASSUME TypeOK, Prune
  PROVE  /\ UNCHANGED <<now, link, asked, subs, missed, handed>>
         /\ \A s \in Streams : \A i \in DOMAIN queue[s] : Young(queue[s][i]) =>
              \E k \in DOMAIN queue'[s] : queue'[s][k] = queue[s][i]
<1>1. \A s \in Streams : \A i \in DOMAIN queue[s] : Young(queue[s][i]) =>
        \E k \in DOMAIN Pruned(queue[s]) : Pruned(queue[s])[k] = queue[s][i]
  BY PrunedHolds DEF TypeOK
<1>2. queue' = [s \in Streams |-> Pruned(queue[s])]
  BY DEF Prune
<1> QED BY <1>1, <1>2 DEF Prune, net, history

LEMMA MissedTyped ==
  ASSUME TypeOK, NEW x \in missed
  PROVE  x[1] \in Clients /\ x[2] \in Streams /\ x[3] \in Edition
BY DEF TypeOK

LEMMA PublishKeepsMissed ==
  ASSUME PInv, NEW p \in Posts, Publish(p)
  PROVE  PInv'
<1> USE DEF PInv
<1>1. TypeOK'
  BY PublishTyped
<1>2. Asking' /\ Subscribing'
  BY PublishDoes DEF Asking, Subscribing
<1>3. Missing'
  <2>1. ASSUME NEW c \in Clients, NEW s \in Streams, Absent(c, s)
        PROVE  s \in Wants[c]
    BY <2>1 DEF Absent, Subscribing
  <2> QED BY <2>1, PublishDoes DEF Missing
<1>4. MissedIsHeld'
  <2>1. ASSUME NEW x \in missed, Young(x[3])
        PROVE  <<x[1], x[3]>> \in handed' \/ \E i \in DOMAIN queue'[x[2]] : queue'[x[2]][i] = x[3]
    BY <2>1, PublishDoes, MissedTyped DEF MissedIsHeld
  <2> QED BY <2>1, PublishDoes DEF MissedIsHeld, Young
<1>5. ResubscribeDeliversMissed'
  <2>1. ASSUME NEW x \in missed', x \notin missed, NEW f \in subs[x[2]], Owner[f] = x[1]
        PROVE  ~Registered(f)
    BY <2>1, PublishDoes DEF Absent
  <2>2. \A f : Registered(f)' <=> Registered(f)
    BY PublishDoes DEF Registered
  <2> QED BY <2>1, <2>2, PublishDoes DEF ResubscribeDeliversMissed, Young
<1> QED BY <1>1, <1>2, <1>3, <1>4, <1>5

LEMMA HandleSubscribeKeepsMissed ==
  ASSUME AloneOnStreams, PInv, NEW f \in Faces, HandleSubscribe(f)
  PROVE  PInv'
<1> USE DEF PInv
<1>1. TypeOK'
  BY HandleSubscribeTyped
<1>2. PICK s \in Streams :
        /\ s = Head(asked[f]).stream
        /\ subs' = [subs EXCEPT ![s] = subs[s] \cup {f}]
        /\ queue' = [queue EXCEPT ![s] = IF Registered(f) THEN <<>> ELSE queue[s]]
        /\ Registered(f) => \A i \in DOMAIN queue[s] : <<Owner[f], queue[s][i]>> \in handed'
  BY HandleSubscribeDoes
<1>3. /\ asked[f] # <<>>
      /\ asked' \in {[asked EXCEPT ![f] = Tail(asked[f])], [asked EXCEPT ![f] = <<>>]}
      /\ UNCHANGED <<now, link, missed>>
      /\ handed \subseteq handed'
  BY HandleSubscribeDoes
<1>4. s \in Wants[Owner[f]] /\ link[f] # "new"
  BY <1>2, <1>3, RequestTyped DEF Asking
<1>5. subs[s] \in SUBSET Faces /\ \A t \in Streams : subs'[t] = IF t = s THEN subs[s] \cup {f} ELSE subs[t]
  BY <1>2 DEF TypeOK
<1>6. \A t \in Streams : queue'[t] = IF t = s /\ Registered(f) THEN <<>> ELSE queue[t]
  BY <1>2 DEF TypeOK
<1>7. Asking'
  <2>1. \A g \in Faces :
          asked'[g] = asked[g] \/ (g = f /\ (asked'[f] = Tail(asked[f]) \/ asked'[f] = <<>>))
    <3> DEFINE rest == Tail(asked[f])
    <3>1. asked \in [Faces -> Seq(Request)]
      BY DEF TypeOK, Request
    <3>2. asked' = [asked EXCEPT ![f] = rest] \/ asked' = [asked EXCEPT ![f] = <<>>]
      BY <1>3
    <3> HIDE DEF rest
    <3>3. CASE asked' = [asked EXCEPT ![f] = rest]
      <4>1. asked'[f] = rest /\ \A g \in Faces \ {f} : asked'[g] = asked[g]
        BY <3>1, <3>3
      <4> QED BY <4>1 DEF rest
    <3>4. CASE asked' = [asked EXCEPT ![f] = <<>>]
      <4>1. asked'[f] = <<>> /\ \A g \in Faces \ {f} : asked'[g] = asked[g]
        BY <3>1, <3>4
      <4> QED BY <4>1
    <3> QED BY <3>2, <3>3, <3>4
  <2>2. \A i \in DOMAIN Tail(asked[f]) : Tail(asked[f])[i].stream \in Wants[Owner[f]]
    BY <1>3, RequestTyped DEF Asking
  <2>3. DOMAIN <<>> = {}
    OBVIOUS
  <2>4. \A g \in Faces : \A i \in DOMAIN asked'[g] : asked'[g][i].stream \in Wants[Owner[g]]
    BY <2>1, <2>2, <2>3 DEF Asking
  <2>5. \A g \in Faces : link[g] = "new" => asked'[g] = <<>>
    BY <1>4, <2>1 DEF Asking
  <2> QED BY <1>3, <2>4, <2>5 DEF Asking
<1>8. Subscribing' /\ Missing'
  BY <1>3, <1>4, <1>5 DEF Subscribing, Missing
<1>9. ASSUME NEW x \in missed, Young(x[3]), x[2] = s, Registered(f)
      PROVE  <<x[1], x[3]>> \in handed'
  <2>1. x[1] = Owner[f]
    BY <1>4, <1>9, MissedTyped, PushAssumption DEF AloneOnStreams, Missing
  <2>2. <<x[1], x[3]>> \in handed \/ \E i \in DOMAIN queue[s] : queue[s][i] = x[3]
    BY <1>9 DEF MissedIsHeld
  <2> QED BY <1>2, <1>3, <1>9, <2>1, <2>2
<1>10. MissedIsHeld'
  <2>1. ASSUME NEW x \in missed, Young(x[3])
        PROVE  <<x[1], x[3]>> \in handed' \/ \E i \in DOMAIN queue'[x[2]] : queue'[x[2]][i] = x[3]
    <3>1. CASE x[2] = s /\ Registered(f)
      BY <1>9, <2>1, <3>1
    <3>2. CASE ~(x[2] = s /\ Registered(f))
      BY <1>3, <1>6, <2>1, <3>2, MissedTyped DEF MissedIsHeld
    <3> QED BY <3>1, <3>2
  <2> QED BY <1>3, <2>1 DEF MissedIsHeld, Young
<1>11. ResubscribeDeliversMissed'
  <2>1. ASSUME NEW x \in missed, Young(x[3]), NEW g \in subs'[x[2]], Owner[g] = x[1], Registered(g)
        PROVE  <<x[1], x[3]>> \in handed'
    <3>1. CASE g \in subs[x[2]]
      BY <1>3, <2>1, <3>1 DEF ResubscribeDeliversMissed
    <3>2. CASE g \notin subs[x[2]]
      <4>1. x[2] = s /\ g = f
        BY <1>5, <2>1, <3>2, MissedTyped
      <4> QED BY <1>9, <2>1, <4>1
    <3> QED BY <3>1, <3>2
  <2>2. \A g : Registered(g)' <=> Registered(g)
    BY <1>3 DEF Registered
  <2> QED BY <1>3, <2>1, <2>2 DEF ResubscribeDeliversMissed, Young
<1> QED BY <1>1, <1>7, <1>8, <1>10, <1>11

(* Everything else leaves the subscriptions and what was missed alone, and  *)
(* registers no face that is subscribed.                                    *)
LEMMA OthersKeepMissed ==
  ASSUME PInv, TypeOK', Asking',
         UNCHANGED <<subs, missed, handed>>, now' >= now,
         \A s \in Streams : \A f \in subs[s] : link[f] # "new" /\ (Registered(f)' => Registered(f)),
         \A f \in Faces : link'[f] = "new" => link[f] = "new",
         \A s \in Streams : \A i \in DOMAIN queue[s] : Young(queue[s][i]) =>
           \E k \in DOMAIN queue'[s] : queue'[s][k] = queue[s][i]
  PROVE  PInv'
<1> USE DEF PInv
<1>1. \A d \in Edition : Young(d)' => Young(d)
  BY PushAssumption DEF Young, TypeOK, Edition
<1>2. Subscribing' /\ Missing'
  BY DEF Subscribing, Missing, TypeOK
<1>3. MissedIsHeld'
  BY <1>1, MissedTyped DEF MissedIsHeld
<1>4. ResubscribeDeliversMissed'
  BY <1>1, MissedTyped DEF ResubscribeDeliversMissed
<1> QED BY <1>2, <1>3, <1>4
LEMMA SubscribeKeepsMissed ==
  ASSUME PInv, NEW f \in Faces, NEW s \in Streams, NEW fromNow \in FromNow,
         Subscribe(f, s, fromNow)
  PROVE  PInv'
<1> DEFINE r == [stream |-> s, fromNow |-> fromNow]
<1>1. TypeOK'
  BY SubscribeTyped DEF PInv
<1>2. UNCHANGED <<now, link, subs, queue, missed, handed>>
  BY DEF Subscribe, server, history
<1>3. link[f] = "up" /\ r.stream \in Wants[Owner[f]]
  BY DEF Subscribe
<1>4. asked \in [Faces -> Seq(Request)] /\ r \in Request
  BY PushAssumption DEF PInv, TypeOK, Request
<1>5. asked' = [asked EXCEPT ![f] = Append(@, r)]
  BY DEF Subscribe
<1> HIDE DEF r
<1>6. /\ \A g \in Faces : g # f => asked'[g] = asked[g]
      /\ \A i \in DOMAIN asked'[f] :
           (i \in DOMAIN asked[f] /\ asked'[f][i] = asked[f][i]) \/ asked'[f][i] = r
  BY <1>4, <1>5
<1>7. Asking'
  BY <1>2, <1>3, <1>6 DEF PInv, Asking
<1>8. \A g : Registered(g)' <=> Registered(g)
  BY <1>2 DEF Registered
<1>9. now' >= now
  BY <1>2 DEF PInv, TypeOK
<1>10. \A t \in Streams : \A g \in subs[t] : link[g] # "new"
  BY DEF PInv, Subscribing
<1> QED BY <1>1, <1>2, <1>7, <1>8, <1>9, <1>10, OthersKeepMissed

LEMMA DispatchKeepsMissed ==
  ASSUME PInv, NEW f \in Faces, Dispatch(f)
  PROVE  PInv'
<1>1. TypeOK'
  BY DispatchTyped DEF PInv
<1>2. UNCHANGED <<now, link, subs, queue, asked, missed, handed>>
  BY DEF Dispatch, server, history
<1>3. Asking' /\ \A g : Registered(g)' <=> Registered(g)
  BY <1>2 DEF PInv, Asking, Registered
<1>4. now' >= now /\ \A t \in Streams : \A g \in subs[t] : link[g] # "new"
  BY <1>2 DEF PInv, TypeOK, Subscribing
<1> QED BY <1>1, <1>2, <1>3, <1>4, OthersKeepMissed

LEMMA LinksKeepMissed ==
  ASSUME PInv, NEW f \in Faces, Connect(f) \/ Close(f) \/ Cleanup(f)
  PROVE  PInv'
<1>1. TypeOK'
  BY LinksTyped DEF PInv
<1>2. UNCHANGED <<now, subs, queue, missed, handed>>
  BY DEF Connect, Close, Cleanup, server, client, history
<1>3. \A g \in Faces :
        \/ link'[g] = link[g]
        \/ g = f /\ link[f] = "new" /\ link'[f] = "up"
        \/ g = f /\ link[f] = "up" /\ link'[f] = "closed"
        \/ g = f /\ link[f] = "closed" /\ link'[f] = "down"
  BY DEF Connect, Close, Cleanup, PInv, TypeOK
<1>4. \A g \in Faces : asked'[g] = asked[g] \/ asked'[g] = <<>>
  BY DEF Connect, Close, Cleanup, PInv, TypeOK
<1>5. Asking'
  <2>1. DOMAIN <<>> = {}
    OBVIOUS
  <2> QED BY <1>3, <1>4, <2>1 DEF PInv, Asking
<1>6. \A t \in Streams : \A g \in subs[t] : g \in Faces /\ link[g] # "new"
  BY DEF PInv, TypeOK, Subscribing
<1>7. \A t \in Streams : \A g \in subs[t] : Registered(g)' => Registered(g)
  BY <1>3, <1>6 DEF Registered
<1>8. \A g \in Faces : link'[g] = "new" => link[g] = "new"
  BY <1>3
<1>9. now' >= now
  BY <1>2 DEF PInv, TypeOK
<1> QED BY <1>1, <1>2, <1>5, <1>6, <1>7, <1>8, <1>9, OthersKeepMissed

LEMMA PruneKeepsMissed ==
  ASSUME PInv, Prune
  PROVE  PInv'
<1>1. TypeOK'
  BY PruneTyped DEF PInv
<1> UNCHANGED <<now, link, asked, subs, missed, handed>>
  BY PruneDoes DEF PInv
<1>2. Asking' /\ \A g : Registered(g)' <=> Registered(g)
  BY DEF PInv, Asking, Registered
<1>3. now' >= now /\ \A t \in Streams : \A g \in subs[t] : link[g] # "new"
  BY DEF PInv, TypeOK, Subscribing
<1> QED BY <1>1, <1>2, <1>3, PruneDoes, OthersKeepMissed DEF PInv

LEMMA TickKeepsMissed ==
  ASSUME PInv, Tick
  PROVE  PInv'
<1>1. TypeOK'
  BY TickTyped DEF PInv
<1>2. UNCHANGED <<link, subs, queue, asked, missed, handed>>
  BY DEF Tick, net, server, history
<1>3. Asking' /\ \A g : Registered(g)' <=> Registered(g)
  BY <1>2 DEF PInv, Asking, Registered
<1>4. now' >= now /\ \A t \in Streams : \A g \in subs[t] : link[g] # "new"
  BY DEF Tick, PInv, TypeOK, Subscribing
<1> QED BY <1>1, <1>2, <1>3, <1>4, OthersKeepMissed

LEMMA PInvInit == Init => PInv
<1> SUFFICES ASSUME Init PROVE PInv
  OBVIOUS
<1>1. TypeOK
  BY TypedInit
<1>2. Asking /\ Subscribing /\ Missing /\ MissedIsHeld /\ ResubscribeDeliversMissed
  BY DEF Init, Asking, Subscribing, Missing, MissedIsHeld, ResubscribeDeliversMissed
<1> QED BY <1>1, <1>2 DEF PInv

LEMMA PInvNext ==
  ASSUME AloneOnStreams
  PROVE  PInv /\ [Next]_vars => PInv'
<1> SUFFICES ASSUME PInv, [Next]_vars
             PROVE  PInv'
  OBVIOUS
<1>1. CASE UNCHANGED vars
  <2>1. UNCHANGED <<now, link, subs, queue, asked, missed, handed>>
    BY <1>1 DEF vars, net, server, client, history
  <2>2. TypeOK'
    BY <1>1, TypedNext DEF PInv
  <2>3. Asking' /\ Subscribing' /\ Missing'
    BY <2>1 DEF PInv, Asking, Subscribing, Missing
  <2>4. MissedIsHeld'
    BY <2>1 DEF PInv, MissedIsHeld, Young
  <2>5. ResubscribeDeliversMissed'
    BY <2>1 DEF PInv, ResubscribeDeliversMissed, Young, Registered
  <2> QED BY <2>2, <2>3, <2>4, <2>5 DEF PInv
<1> QED
  BY <1>1, PublishKeepsMissed, HandleSubscribeKeepsMissed, DispatchKeepsMissed, LinksKeepMissed,
     SubscribeKeepsMissed, PruneKeepsMissed, TickKeepsMissed DEF Next

(* Where no other client subscribes to the same stream, what is published   *)
(* while a subscriber is away and is young enough is queued for it or has   *)
(* been handed to a face of its (OfflineQueue.put, drain and prune).        *)
THEOREM MissedStaysHeld ==
  ASSUME AloneOnStreams
  PROVE  Spec => []MissedIsHeld
<1>1. PInv /\ [Next]_vars => PInv'
  BY PInvNext
<1>2. PInv => MissedIsHeld
  BY DEF PInv
<1> QED BY PInvInit, <1>1, <1>2, PTL DEF Spec

(* And once a face of the subscriber is subscribed again and is registered, *)
(* it has all been handed over (ICNServer.handle_subscribe).                *)
THEOREM ResubscriptionDelivers ==
  ASSUME AloneOnStreams
  PROVE  Spec => []ResubscribeDeliversMissed
<1>1. PInv /\ [Next]_vars => PInv'
  BY PInvNext
<1>2. PInv => ResubscribeDeliversMissed
  BY DEF PInv
<1> QED BY PInvInit, <1>1, <1>2, PTL DEF Spec
-----------------------------------------------------------------------------
(* A consumer that rejects rollbacks never goes back.                       *)

(* The order of editions is total up to its key.                            *)
LEMMA OlderOrder ==
  ASSUME NEW d \in Edition, NEW e \in Edition, NEW g \in Edition
  PROVE  /\ ~OlderThan(d, d)
         /\ ~OlderThan(d, e) /\ ~OlderThan(e, g) => ~OlderThan(d, g)
<1>1. /\ d.at \in Nat /\ d.seq \in Nat /\ e.at \in Nat /\ e.seq \in Nat
      /\ g.at \in Nat /\ g.seq \in Nat
  BY DEF Edition
<1> QED BY <1>1 DEF OlderThan

(* What the dispatcher may do to what a consumer has seen and been handed.  *)
LEMMA DispatchDoes ==
  ASSUME RejectRollback, TypeOK, NEW f \in Faces, Dispatch(f)
  PROVE  \/ UNCHANGED <<seen, got>>
         \/ \E d \in Edition : \E c \in Clients :
              /\ d.name \in Names
              /\ seen[c][d.name] # None => ~OlderThan(d, seen[c][d.name])
              /\ seen' = [seen EXCEPT ![c] = [seen[c] EXCEPT ![d.name] = d]]
              /\ got' = [got EXCEPT ![c] = Append(got[c], d)]
<1> DEFINE c == Owner[f]
           d == Head(wire[f])
<1>1. wire[f] \in Seq(Edition) /\ wire[f] # <<>> /\ c \in Clients
  BY PushAssumption DEF TypeOK, Dispatch
<1>2. d \in Edition
  BY <1>1
<1>3. d.name \in Names
  BY <1>2 DEF Edition
<1>4. CASE Matches(c, d) /\ Accepts(c, d)
  <2>1. /\ seen' = [seen EXCEPT ![c][d.name] = d]
        /\ got' = [got EXCEPT ![c] = Append(@, d)]
    BY <1>4 DEF Dispatch
  <2>2. seen[c][d.name] # None => ~OlderThan(d, seen[c][d.name])
    BY <1>4 DEF Accepts
  <2>3. seen' = [seen EXCEPT ![c] = [seen[c] EXCEPT ![d.name] = d]]
    BY <1>1, <2>1 DEF TypeOK
  <2>4. got' = [got EXCEPT ![c] = Append(got[c], d)]
    BY <1>1, <2>1 DEF TypeOK
  <2> QED BY <1>1, <1>2, <1>3, <2>2, <2>3, <2>4
<1>5. CASE ~(Matches(c, d) /\ Accepts(c, d))
  BY <1>5 DEF Dispatch
<1> QED BY <1>4, <1>5

LEMMA DispatchNeverGoesBack ==
  ASSUME RejectRollback, SInv, NEW f \in Faces, Dispatch(f)
  PROVE  Newest' /\ EditionsNeverGoBack'
<1> USE DEF SInv
<1>1. CASE UNCHANGED <<seen, got>>
  BY <1>1 DEF Newest, EditionsNeverGoBack
<1>2. ASSUME NEW d \in Edition, NEW c \in Clients, d.name \in Names,
             seen[c][d.name] # None => ~OlderThan(d, seen[c][d.name]),
             seen' = [seen EXCEPT ![c] = [seen[c] EXCEPT ![d.name] = d]],
             got' = [got EXCEPT ![c] = Append(got[c], d)]
      PROVE  Newest' /\ EditionsNeverGoBack'
  <2>1. /\ got[c] \in Seq(Edition) /\ got' \in [Clients -> Seq(Edition)]
        /\ seen[c] \in [Names -> Edition \cup {None}]
        /\ d # None
    BY <1>2, PushAssumption, DispatchTyped DEF TypeOK
  <2>2. /\ \A b \in Clients \ {c} : got'[b] = got[b] /\ seen'[b] = seen[b]
        /\ got'[c] = Append(got[c], d)
        /\ seen'[c] = [seen[c] EXCEPT ![d.name] = d]
    BY <1>2 DEF TypeOK
  <2>3. /\ seen'[c][d.name] = d
        /\ \A n \in Names \ {d.name} : seen'[c][n] = seen[c][n]
    BY <1>2, <2>1, <2>2
  <2>4. \A i \in DOMAIN got'[c] :
          \/ i \in DOMAIN got[c] /\ got'[c][i] = got[c][i]
          \/ i = Len(got[c]) + 1 /\ got'[c][i] = d
    <3> DEFINE q == got[c]
    <3>1. q \in Seq(Edition)
      BY <2>1
    <3> HIDE DEF q
    <3>2. \A i \in DOMAIN Append(q, d) :
            \/ i \in DOMAIN q /\ Append(q, d)[i] = q[i]
            \/ i = Len(q) + 1 /\ Append(q, d)[i] = d
      BY <3>1
    <3> QED BY <2>2, <3>2 DEF q
  <2>5. \A i \in DOMAIN got[c] : i < Len(got[c]) + 1
    BY <2>1
  <2>6. \A e \in Edition : e.name \in Names
    BY DEF Edition
  <2>7. \A i \in DOMAIN got[c] :
          /\ got[c][i] \in Edition
          /\ seen[c][got[c][i].name] \in Edition
          /\ ~OlderThan(seen[c][got[c][i].name], got[c][i])
    BY <2>1, <2>6 DEF Newest
  (* What was handed over of that name is no newer than the new one.        *)
  <2>8. \A i \in DOMAIN got[c] : got[c][i].name = d.name => ~OlderThan(d, got[c][i])
    <3> TAKE i \in DOMAIN got[c]
    <3>1. HAVE got[c][i].name = d.name
    <3>2. seen[c][d.name] \in Edition /\ ~OlderThan(seen[c][d.name], got[c][i])
      BY <2>7, <3>1
    <3>3. ~OlderThan(d, seen[c][d.name])
      BY <1>2, <3>2, PushAssumption
    <3> QED BY <2>7, <3>2, <3>3, OlderOrder
  <2>9. Newest'
    <3>1. ASSUME NEW b \in Clients, NEW i \in DOMAIN got'[b]
          PROVE  /\ seen'[b][got'[b][i].name] # None
                 /\ ~OlderThan(seen'[b][got'[b][i].name], got'[b][i])
      <4>1. CASE b # c
        BY <2>2, <3>1, <4>1 DEF Newest
      <4>2. CASE b = c /\ i = Len(got[c]) + 1 /\ got'[c][i] = d
        BY <2>1, <2>3, <4>2, OlderOrder
      <4>3. CASE b = c /\ i \in DOMAIN got[c] /\ got'[c][i] = got[c][i]
        <5>1. got[c][i].name \in Names
          BY <2>6, <2>7, <4>3
        <5>2. CASE got[c][i].name = d.name
          BY <2>1, <2>3, <2>8, <4>3, <5>2
        <5>3. CASE got[c][i].name # d.name
          BY <2>3, <2>7, <4>3, <5>1, <5>3, PushAssumption
        <5> QED BY <5>2, <5>3
      <4> QED BY <2>4, <3>1, <4>1, <4>2, <4>3
    <3> QED BY <3>1 DEF Newest, OlderThan
  <2>10. EditionsNeverGoBack'
    <3>1. ASSUME NEW b \in Clients, NEW i \in DOMAIN got'[b], NEW j \in DOMAIN got'[b],
                 i < j, got'[b][i].name = got'[b][j].name
          PROVE  ~OlderThan(got'[b][j], got'[b][i])
      <4>1. CASE b # c
        BY <2>2, <3>1, <4>1 DEF EditionsNeverGoBack
      <4>2. CASE b = c /\ j \in DOMAIN got[c] /\ got'[c][j] = got[c][j]
        <5>1. i \in DOMAIN got[c] /\ got'[c][i] = got[c][i]
          BY <2>1, <2>2, <3>1, <4>2
        <5> QED BY <3>1, <4>2, <5>1 DEF EditionsNeverGoBack
      <4>3. CASE b = c /\ j = Len(got[c]) + 1 /\ got'[c][j] = d
        <5>1. i \in DOMAIN got[c] /\ got'[c][i] = got[c][i]
          BY <2>1, <2>4, <3>1, <4>3
        <5> QED BY <2>8, <3>1, <4>3, <5>1
      <4> QED BY <2>4, <3>1, <4>1, <4>2, <4>3
    <3> QED BY <3>1 DEF EditionsNeverGoBack, OlderThan
  <2> QED BY <2>9, <2>10
<1> QED BY <1>1, <1>2, DispatchDoes

LEMMA SInvInit == Init => SInv
<1> SUFFICES ASSUME Init PROVE SInv
  OBVIOUS
<1>1. TypeOK
  BY TypedInit
<1>2. Newest /\ EditionsNeverGoBack
  BY DEF Init, Newest, EditionsNeverGoBack
<1> QED BY <1>1, <1>2 DEF SInv

LEMMA SInvNext ==
  ASSUME RejectRollback
  PROVE  SInv /\ [Next]_vars => SInv'
<1> SUFFICES ASSUME SInv, [Next]_vars
             PROVE  SInv'
  OBVIOUS
<1>1. TypeOK'
  BY TypedNext DEF SInv
<1>2. CASE UNCHANGED <<seen, got>>
  BY <1>1, <1>2 DEF SInv, Newest, EditionsNeverGoBack
<1>3. (\E f \in Faces : Dispatch(f)) \/ UNCHANGED <<seen, got>>
  <2>1. ASSUME NEW p \in Posts, Publish(p)
        PROVE  UNCHANGED <<seen, got>>
    BY <2>1 DEF Publish, client
  <2>2. ASSUME NEW f \in Faces, HandleSubscribe(f) \/ Connect(f) \/ Close(f) \/ Cleanup(f)
        PROVE  UNCHANGED <<seen, got>>
    BY <2>2 DEF HandleSubscribe, Connect, Close, Cleanup, client
  <2>3. ASSUME NEW f \in Faces, NEW s \in Streams, NEW fromNow \in FromNow,
               Subscribe(f, s, fromNow)
        PROVE  UNCHANGED <<seen, got>>
    BY <2>3 DEF Subscribe
  <2>4. Prune \/ Tick \/ UNCHANGED vars => UNCHANGED <<seen, got>>
    BY DEF Prune, Tick, vars, client
  <2> QED BY <2>1, <2>2, <2>3, <2>4 DEF Next
<1> QED BY <1>1, <1>2, <1>3, DispatchNeverGoesBack DEF SInv

(* A consumer that rejects rollbacks is not handed an older edition of a    *)
(* name after a newer one, whatever is pushed, drained, lost or repeated    *)
(* (_dispatch_push and _check_rollback).                                    *)
THEOREM NeverGoesBack ==
  ASSUME RejectRollback
  PROVE  Spec => []EditionsNeverGoBack
<1>1. SInv /\ [Next]_vars => SInv'
  BY SInvNext
<1>2. SInv => EditionsNeverGoBack
  BY DEF SInv
<1> QED BY SInvInit, <1>1, <1>2, PTL DEF Spec
=============================================================================
