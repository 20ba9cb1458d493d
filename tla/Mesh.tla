-------------------------------- MODULE Mesh --------------------------------
(***************************************************************************)
(* Servers and clients joined by links: the receive loop of every face,     *)
(* the packet handlers of the server (rns_icn/server.py, rns_server.py),    *)
(* the client's pump (client.py), and the forwarder as far as it links one  *)
(* node's steps to another's.  What arrives is what Wire makes of a packet. *)
(*                                                                          *)
(* A handler <<n, src>> is node n at work on the Interest that came from    *)
(* neighbour src, or, at a client, on a call of its own (src = App).  A     *)
(* server awaits the handling of one packet before it takes the next one    *)
(* of the same face, so while handler <<n, src>> waits for an answer        *)
(* nothing that src sends is read.  A client's pump hands Data and NACKs to *)
(* its forwarder and never waits.                                           *)
(*                                                                          *)
(* Links neither close nor reorder; a packet that finds the channel's       *)
(* window full is dropped without a word.  Forwarder.tla has prefix         *)
(* Interests, selectors, freshness, refreshes, closing faces, bounded       *)
(* tables and the sweep of the PIT;                                         *)
(* PushDelivery and Propagation have subscriptions and peering.             *)
(***************************************************************************)
EXTENDS Wire, NameOps, FiniteSets

CONSTANTS
  Servers, Clients, App,
  Producer,       \* the server whose names are fetched and invalidated
  Names,          \* content names, sequences of components
  Purges,         \* [name, prefix]: the invalidations, each may be repeated
  Meshes,         \* the meshes to look at, see Mesh
  Hasty,          \* a name may be invalidated twice within one second
  Window,         \* packets a channel holds unread
  Hops,           \* hop limit of the clients' Interests
  Nonces,
  Horizon         \* bound: the clock stops here, in seconds

Nodes      == Servers \cup Clients
Revocables == {p.name : p \in Purges}

(* Who is linked to whom, <<from, to>> in both directions; the next hops of *)
(* each node, cheapest first; the links whose CapPeer was handled before    *)
(* the start; the servers that can recall the producer's identity (they     *)
(* heard an announce of it); the fetches, each made once; and how many      *)
(* editions and invalidations there are at most.                            *)
Mesh ==
  [links : SUBSET (Nodes \X Nodes), routes : [Nodes -> Seq(Nodes)],
   greeted : SUBSET (Nodes \X Nodes), recalls : SUBSET Servers,
   asks : SUBSET [client : Clients, name : Names, nonce : Nonces],
   editions : Nat, purges : Nat]

ASSUME MeshAssumption ==
  /\ Servers \cap Clients = {} /\ App \notin Nodes /\ Producer \in Servers
  /\ Meshes \subseteq Mesh
  /\ \A m \in Meshes :
       /\ \A l \in m.links : <<l[2], l[1]>> \in m.links
       /\ \A n \in Nodes : \A i \in DOMAIN m.routes[n] : <<n, m.routes[n][i]>> \in m.links
  /\ Purges \subseteq [name : Revocables, prefix : BOOLEAN]
  /\ Hasty \in BOOLEAN
  /\ {Window, Hops, Horizon} \subseteq Nat /\ Horizon >= 1

VARIABLES
  net,      \* the mesh at hand; it does not change
  queue,    \* Links -> packets not yet read, as the receiver will parse them
  lost,     \* Links on which an Invalidate found the window full (history)
  store,    \* Nodes -> Names -> edition held, 0 for none
  pit,      \* Nodes -> names pending
  nonces,   \* Nodes -> {<<source, nonce>>}
  failed,   \* Nodes -> next hops whose last attempt failed
  nackers,  \* Servers -> neighbours that advertised FEATURE_NACK
  seen,     \* Servers -> Revocables -> epoch of the last invalidation, or 0
  hand,     \* Handlers -> the Interest being worked on, or None
  asked,    \* the Asks made
  edition,  \* Names -> the last edition published
  revoked,  \* Names -> the last edition an invalidation covered (history)
  issued,   \* the number of invalidations issued, and <<name, second>> of each
  now       \* the producer's clock

Links    == net.links
Handlers == Links \cup {<<c, App>> : c \in Clients}

tables == <<pit, nonces, failed, hand>>
origin == <<edition, revoked, issued, now>>
vars   == <<net, queue, lost, store, nackers, seen, asked, tables, origin>>

-----------------------------------------------------------------------------
(* The packets in use.                                                      *)

WireName(n) == [components |-> n, hash |-> None]

InterestFor(a, hops) ==
  [kind |-> "Interest", name |-> WireName(a.name), nonce |-> a.nonce,
   lifetime_ms |-> 4, can_be_prefix |-> FALSE, must_be_fresh |-> FALSE,
   selector |-> None, hop_limit |-> hops]

(* Content, hash, stamp and signature all tell the edition.                 *)
DataFor(n, e) ==
  [kind |-> "Data", name |-> WireName(n), content |-> <<e>>,
   metadata |-> [content_hash |-> [i \in 1..HashBytes |-> e], sequence |-> e,
                 stale_age |-> None, freshness_period |-> None,
                 signed_at |-> e, encrypted |-> FALSE],
   signature |-> [i \in 1..SignatureBytes |-> e]]

NackFor(n) == [kind |-> "Nack", name |-> WireName(n), reason |-> 1]

InvalidateFor(p, epoch) ==
  [kind |-> "Invalidate", name |-> WireName(p.name), epoch |-> epoch,
   is_prefix |-> p.prefix, signature |-> [i \in 1..SignatureBytes |-> 1]]

Capabilities == [kind |-> "CapPeer", role |-> 0, features |-> 63]

Traffic ==
  {InterestFor(a, k) : a \in (UNION {m.asks : m \in Meshes}), k \in 0..Hops}
  \cup (UNION {{DataFor(n, e) : n \in Names, e \in 1..m.editions} : m \in Meshes})
  \cup {NackFor(n) : n \in Names} \cup {Capabilities}
  \cup {InvalidateFor(p, e) : p \in Purges, e \in 1..Horizon}

(* The constructors make these packets and to_bytes can write them: names,  *)
(* lengths and times fit their fields.  An edition fits a byte, and a hop   *)
(* limit is not cut to one.                                                 *)
ASSUME TrafficAssumption ==
  /\ \A n \in Names \cup Revocables : WireName(n) \in WireNames /\ Len(n) <= MaxComponents
  /\ Nonces \subseteq Bytes(NonceBytes)
  /\ Hops < Base
  /\ \A m \in Meshes : m.editions < Base
  /\ \A p \in Traffic : Clean(ToBytes(p))

(* What the receiver makes of the bytes of a packet.                        *)
Received == [p \in Traffic |-> ParsePacket(ToBytes(p))]

Covers(name, prefix, n) == IF prefix THEN StartsWith(n, name) ELSE n = name

-----------------------------------------------------------------------------
(* Sending.  LinkFace._send: a full window swallows the packet.             *)

Send(q, l, p) == IF Len(q[l]) < Window THEN [q EXCEPT ![l] = Append(@, Received[p])] ELSE q

SendAll(q, ls, p) ==
  [l \in Links |-> IF l \in ls /\ Len(q[l]) < Window THEN Append(q[l], Received[p]) ELSE q[l]]

Full(q, ls) == {l \in ls : Len(q[l]) >= Window}

(* What a handler does with its answer, and when there is none.             *)
Answered(h, q, n, e) == IF h[2] = App THEN q ELSE Send(q, h, DataFor(n, e))

MaybeNack(h, q, n) ==
  IF h[1] \in Servers /\ h[2] \in nackers[h[1]] THEN Send(q, h, NackFor(n)) ELSE q

-----------------------------------------------------------------------------
(* Forwarder.express and _forward at handler h for Interest i, the rest of  *)
(* the face's queue being q.                                                *)

Returns(h, q, p) ==
  /\ hand' = [hand EXCEPT ![h] = None]
  /\ queue' = q
  /\ pit' = [pit EXCEPT ![h[1]] = p]

(* The loop over the next hops: the first gets the Interest, the others are *)
(* kept for later; when none is left the call returns nothing.              *)
TryHops(h, i, hops, q, p) ==
  LET n == i.name.components
  IN IF hops = <<>> THEN Returns(h, MaybeNack(h, q, n), p)
     ELSE /\ hand' = [hand EXCEPT ![h] = [interest |-> i, out |-> Head(hops),
                                          rest |-> Tail(hops), fut |-> 0]]
          /\ queue' = Send(q, <<h[1], Head(hops)>>, i)
          /\ pit' = [pit EXCEPT ![h[1]] = p \cup {n}]

(* A hop that failed is skipped while its backoff lasts: what remains of    *)
(* the next hops is picked in their order and has all that did not fail.    *)
Picks(hops, skippable) ==
  {f \in UNION {[1..k -> DOMAIN hops] : k \in 0..Len(hops)} :
     /\ \A i, j \in DOMAIN f : i < j => f[i] < f[j]
     /\ \A i \in DOMAIN hops : hops[i] \notin skippable => \E j \in DOMAIN f : f[j] = i}

Usable(n) ==
  {[k \in DOMAIN f |-> net.routes[n][f[k]]] : f \in Picks(net.routes[n], failed[n])}

Express(h, i, q) ==
  LET n    == i.name.components
      node == h[1]
      loop == <<h[2], i.nonce>> \in nonces[node]
  IN /\ nonces' = [nonces EXCEPT ![node] = @ \cup {<<h[2], i.nonce>>}]
     /\ \/ loop /\ Returns(h, MaybeNack(h, q, n), pit[node])
        \/ ~loop /\ store[node][n] # 0 /\ Returns(h, Answered(h, q, n, store[node][n]), pit[node])
        \/ /\ ~loop /\ store[node][n] = 0 /\ n \in pit[node]
           /\ hand' = [hand EXCEPT ![h] = [interest |-> i, out |-> None,
                                           rest |-> <<>>, fut |-> 0]]
           /\ queue' = q
           /\ UNCHANGED pit
        \/ /\ ~loop /\ store[node][n] = 0 /\ n \notin pit[node]
           /\ IF i.hop_limit = 0 THEN Returns(h, MaybeNack(h, q, n), pit[node])
              ELSE \E hops \in Usable(node) :
                     TryHops(h, [i EXCEPT !.hop_limit = @ - 1], hops, q, pit[node])
     /\ UNCHANGED failed

-----------------------------------------------------------------------------
(* A packet p is taken off the queue of link l and handled.                 *)

Rest(l) == [queue EXCEPT ![l] = Tail(@)]

(* ICNServer.handle_interest: the store is looked at before the forwarder.  *)
HandleInterest(l, p) ==
  /\ p.kind = "Interest"
  /\ l[2] \in Servers
  /\ LET h == <<l[2], l[1]>>
         n == p.name.components
     IN IF store[l[2]][n] # 0
          THEN /\ queue' = Answered(h, Rest(l), n, store[l[2]][n])
               /\ UNCHANGED tables
          ELSE Express(h, p, Rest(l))
  /\ UNCHANGED <<lost, store, nackers, seen, asked, origin>>

(* The handlers of node n that wait for a future under name m.              *)
Waiting(n, m) ==
  {h \in Handlers : h[1] = n /\ hand[h] # None /\ hand[h].fut = 0
                    /\ hand[h].interest.name.components = m}

Resolve(n, m, v) ==
  hand' = [h \in Handlers |-> IF h \in Waiting(n, m) THEN [hand[h] EXCEPT !.fut = v]
                                                     ELSE hand[h]]

(* receive_data: Data that nothing is pending for is neither kept nor passed*)
(* on; otherwise every waiter's future has it and it is cached.             *)
HandleData(l, p) ==
  /\ p.kind = "Data"
  /\ LET n == p.name.components
         m == l[2]
     IN IF n \in pit[m]
          THEN /\ Resolve(m, n, p.metadata.sequence)
               /\ store' = [store EXCEPT ![m][n] = p.metadata.sequence]
               /\ pit' = [pit EXCEPT ![m] = @ \ {n}]
          ELSE UNCHANGED <<hand, store, pit>>
  /\ queue' = Rest(l)
  /\ UNCHANGED <<lost, nonces, failed, nackers, seen, asked, origin>>

(* The future of a refused waiter holds -1.                                 *)
HandleNack(l, p) ==
  /\ p.kind = "Nack"
  /\ Resolve(l[2], p.name.components, -1)
  /\ queue' = Rest(l)
  /\ UNCHANGED <<lost, store, pit, nonces, failed, nackers, seen, asked, origin>>

FreshAlways(s, inv) == TRUE                                \* faulty: nothing is remembered

(* _invalidation_is_fresh: the guard knows the name, not whether the purge  *)
(* was of the name or of everything under it.                               *)
InvalidationIsFresh(s, inv) == inv.epoch > seen[s][inv.name.components]

PurgedExactly(s, name, prefix) ==      \* faulty: a prefix is taken for a name
  [store EXCEPT ![s] = [n \in Names |-> IF n = name THEN 0 ELSE @[n]]]

Purged(s, name, prefix) ==
  [store EXCEPT ![s] = [n \in Names |-> IF Covers(name, prefix, n) THEN 0 ELSE @[n]]]

OnwardNone(l) == {}                    \* faulty: applied and not passed on

(* Every face but the one it came from, clients' faces too.                 *)
Onward(l) == {k \in Links : k[1] = l[2] /\ k[2] # l[1]}

(* _verify_invalidation at server s: what has no signature, or a producer   *)
(* that s cannot recall, is dropped, neither applied nor passed on.  Nobody *)
(* forges here: the signature of an invalidation that has one is good.      *)
Verified(s, inv) == inv.signature # None /\ s \in net.recalls

HandleInvalidate(l, p) ==
  /\ p.kind = "Invalidate"
  /\ l[2] \in Servers
  /\ LET name == p.name.components
         s    == l[2]
     IN IF Verified(s, p) /\ InvalidationIsFresh(s, p)
          THEN /\ seen' = [seen EXCEPT ![s][name] = p.epoch]
               /\ store' = Purged(s, name, p.is_prefix)
               /\ queue' = SendAll(Rest(l), Onward(l), p)
               /\ lost' = lost \cup Full(Rest(l), Onward(l))
          ELSE queue' = Rest(l) /\ UNCHANGED <<seen, store, lost>>
  /\ UNCHANGED <<nackers, asked, tables, origin>>

HandleCapPeer(l, p) ==
  /\ p.kind = "CapPeer"
  /\ l[2] \in Servers
  /\ nackers' = [nackers EXCEPT ![l[2]] =
       IF Bit(p.features, 6) THEN @ \cup {l[1]} ELSE @ \ {l[1]}]
  /\ queue' = Rest(l)
  /\ UNCHANGED <<lost, store, seen, asked, tables, origin>>

(* What a client has no use for, and what cannot be parsed.                 *)
Ignore(l, p) ==
  /\ p = Refused \/ (l[2] \in Clients /\ p.kind \notin {"Data", "Nack"})
  /\ queue' = Rest(l)
  /\ UNCHANGED <<lost, store, nackers, seen, asked, tables, origin>>

(* _process_link and _pump_face: the next packet, once the previous one is  *)
(* done with.                                                               *)
Pump(l) ==
  /\ queue[l] # <<>>
  /\ hand[<<l[2], l[1]>>] = None
  /\ LET p == Head(queue[l])
     IN \/ /\ p # Refused
           /\ \/ HandleInterest(l, p)
              \/ HandleData(l, p)
              \/ HandleNack(l, p)
              \/ HandleInvalidate(l, p)
              \/ HandleCapPeer(l, p)
        \/ Ignore(l, p)

-----------------------------------------------------------------------------
(* A waiting handler goes on.                                               *)

Credited(h) == [failed EXCEPT ![h[1]] = @ \ {hand[h].out}]
Blamed(h)   == [failed EXCEPT ![h[1]] = @ \cup {hand[h].out}]

(* Faulty: the hop that failed is tried again.                              *)
NextHopsAgain(h) == IF hand[h].out = None THEN <<>> ELSE <<hand[h].out>> \o hand[h].rest

NextHops(h) == hand[h].rest

(* A NACK or a timeout: a forward withdraws the PIT entry of the name and   *)
(* moves on to its next hop, an aggregated waiter returns nothing.          *)
FailsOver(h) ==
  LET i == hand[h].interest
      n == h[1]
  IN IF hand[h].out = None
       THEN /\ Returns(h, MaybeNack(h, queue, i.name.components), pit[n])
            /\ UNCHANGED failed
       ELSE /\ TryHops(h, i, NextHops(h), queue, pit[n] \ {i.name.components})
            /\ failed' = Blamed(h)

Resume(h) ==
  /\ hand[h] # None
  /\ hand[h].fut # 0
  /\ LET name == hand[h].interest.name.components
         n    == h[1]
     IN IF hand[h].fut = -1 THEN FailsOver(h)
        ELSE /\ Returns(h, Answered(h, queue, name, hand[h].fut),
                        IF hand[h].out = None THEN pit[n] ELSE pit[n] \ {name})
             /\ failed' = IF hand[h].out = None THEN failed ELSE Credited(h)
  /\ UNCHANGED <<nonces, lost, store, nackers, seen, asked, origin>>

Timeout(h) ==
  /\ hand[h] # None
  /\ hand[h].fut = 0
  /\ FailsOver(h)
  /\ UNCHANGED <<nonces, lost, store, nackers, seen, asked, origin>>

(* The client's own timer ends express from outside: its PIT entry stays.   *)
GiveUp(h) ==
  /\ h[2] = App
  /\ hand[h] # None
  /\ hand[h].fut = 0
  /\ Returns(h, queue, pit[h[1]])
  /\ UNCHANGED <<failed, nonces, lost, store, nackers, seen, asked, origin>>

-----------------------------------------------------------------------------
(* The application's side: a client fetches, the producer publishes and     *)
(* invalidates, its clock moves on.                                         *)

Ask(a) ==
  /\ a \notin asked
  /\ hand[<<a.client, App>>] = None
  /\ asked' = asked \cup {a}
  /\ Express(<<a.client, App>>, InterestFor(a, Hops), queue)
  /\ UNCHANGED <<lost, store, nackers, seen, origin>>

Publish(n) ==
  /\ edition[n] < net.editions
  /\ edition' = [edition EXCEPT ![n] = @ + 1]
  /\ store' = [store EXCEPT ![Producer][n] = edition[n] + 1]
  /\ UNCHANGED <<queue, lost, nackers, seen, asked, tables, revoked, issued, now>>

(* The producer purges its own store whatever its own guard says.           *)
Invalidate(p) ==
  LET faces == {l \in Links : l[1] = Producer}
      inv   == InvalidateFor(p, now)
  IN /\ Cardinality(issued) < net.purges
     /\ Hasty \/ <<p.name, now>> \notin {<<x[1], x[2]>> : x \in issued}
     /\ issued' = issued \cup {<<p.name, now, Cardinality(issued)>>}
     /\ seen' = [seen EXCEPT ![Producer][p.name] = IF InvalidationIsFresh(Producer, inv)
                                                     THEN now ELSE @]
     /\ store' = Purged(Producer, p.name, p.prefix)
     /\ revoked' = [n \in Names |-> IF Covers(p.name, p.prefix, n) THEN edition[n]
                                                                   ELSE revoked[n]]
     /\ queue' = SendAll(queue, faces, inv)
     /\ lost' = lost \cup Full(queue, faces)
     /\ UNCHANGED <<nackers, asked, tables, edition, now>>

Tick ==
  /\ now < Horizon
  /\ now' = now + 1
  /\ UNCHANGED <<queue, lost, store, nackers, seen, asked, tables, edition, revoked, issued>>

-----------------------------------------------------------------------------
Init ==
  /\ net \in Meshes
  /\ queue = [l \in Links |-> IF l[1] \in Servers /\ l \notin net.greeted
                                THEN <<Received[Capabilities]>> ELSE <<>>]
  /\ lost = {}
  /\ store = [n \in Nodes |-> [m \in Names |-> 0]]
  /\ pit = [n \in Nodes |-> {}]
  /\ nonces = [n \in Nodes |-> {}]
  /\ failed = [n \in Nodes |-> {}]
  /\ nackers = [s \in Servers |-> {m \in Servers : <<m, s>> \in net.greeted}]
  /\ seen = [s \in Servers |-> [n \in Revocables |-> 0]]
  /\ hand = [h \in Handlers |-> None]
  /\ asked = {}
  /\ edition = [n \in Names |-> 0]
  /\ revoked = [n \in Names |-> 0]
  /\ issued = {}
  /\ now = 1

(* What the nodes do of themselves.                                         *)
Runs ==
  \/ \E l \in Links : Pump(l)
  \/ \E h \in Handlers : Resume(h) \/ Timeout(h) \/ GiveUp(h)

Next ==
  /\ \/ Runs
     \/ \E a \in net.asks : Ask(a)
     \/ \E n \in Names : Publish(n)
     \/ \E p \in Purges : Invalidate(p)
     \/ Tick
  /\ UNCHANGED net

(* As long as a packet can be read, a future is resolved or a timer runs,   *)
(* one of these things happens.  The event loops guarantee each of them;    *)
(* that little is enough for what follows.  Nobody has to ask, publish or   *)
(* invalidate.                                                              *)
Fairness == WF_vars(Runs /\ UNCHANGED net)

Spec == Init /\ [][Next]_vars /\ Fairness

-----------------------------------------------------------------------------
InFlight(l, kind) ==
  {p \in {queue[l][i] : i \in DOMAIN queue[l]} : p # Refused /\ p.kind = kind}

(* Types of the queues and tables.                                          *)
TypeOK ==
  /\ \A l \in Links : \A i \in DOMAIN queue[l] : queue[l][i] \in Traffic
  /\ lost \subseteq Links
  /\ store \in [Nodes -> [Names -> Nat]]
  /\ pit \in [Nodes -> SUBSET Names]
  /\ failed \in [Nodes -> SUBSET Nodes]
  /\ nackers \in [Servers -> SUBSET Nodes]
  /\ seen \in [Servers -> [Revocables -> 0..Horizon]]
  /\ DOMAIN hand = Handlers
  /\ now \in 1..Horizon

(* What the nodes send one another arrives as it was.                       *)
TrafficFaithful == \A p \in Traffic : Received[p] = p /\ p # Refused

(* The wire format (packet.py to_bytes, from_bytes, parse_packet) loses     *)
(* nothing: every sample packet, and every packet on a link of the mesh, is *)
(* read as the one that was written, and no packet that was cut short is    *)
(* taken for another one.                                                   *)
WireFaithful ==
  /\ SamplesFaithful
  /\ TrafficFaithful
  /\ \A l \in Links : \A i \in DOMAIN queue[l] : queue[l][i] \in Traffic

(* S is a set of servers from which no link that is left leads to another.  *)
Closed(S, cut) ==
  \A l \in Links \ cut : l[1] \in S /\ l[2] \in Servers => l[2] \in S

(* The servers an invalidation can get to without the links cut: those that *)
(* every closed set with the producer in it has.                            *)
Reached(cut) ==
  {s \in Servers : \A S \in SUBSET Servers : Producer \in S /\ Closed(S, cut) => s \in S}

(* The servers that can verify the producer's invalidations, whose only     *)
(* next hop it is and that hear from it by no other way than their own link *)
(* with it.                                                                 *)
Sole ==
  {s \in net.recalls : net.routes[s] = <<Producer>> /\ s \notin Reached({<<Producer, s>>})}

(* Such a server holds a revoked edition only while the invalidation is     *)
(* still on that link (ICNServer.invalidate, handle_invalidate): Data sent  *)
(* before it arrives before it.  Excepted are an invalidation the full      *)
(* window swallowed and, under Hasty, a second one of the same name within  *)
(* a second.  Elsewhere the invalidation can overtake the Data.             *)
NeighbourHoldsNothingRevoked ==
  \A s \in Sole : \A n \in Names :
    (store[s][n] # 0 /\ store[s][n] <= revoked[n])
    => \/ <<Producer, s>> \in lost
       \/ \E p \in InFlight(<<Producer, s>>, "Invalidate") :
            Covers(p.name.components, p.is_prefix, n)

(* The links to where an invalidation is dropped unread.                    *)
Deaf == {l \in Links : l[2] \notin net.recalls}

(* What the producer invalidated gets to every server that can be reached   *)
(* by way of servers that recall the producer, whatever their receive loops *)
(* are waiting for, as long as no full window swallowed one on the way      *)
(* (handle_invalidate drops what it cannot verify before it forwards;       *)
(* LinkFace._send drops without a word).                                    *)
EveryVerifierHears ==
  <>[](\A s \in Reached(lost \cup Deaf) : seen[s] = seen[Producer])

(* What the code calls 1-hop propagation: a server that is not linked with  *)
(* the producer learns of no invalidation (handle_invalidate's comment).    *)
GoesOneHop ==
  \A s \in Servers \ {Producer} : <<Producer, s>> \notin Links =>
    \A n \in Revocables : seen[s][n] = 0

(* Around a cycle of servers an invalidation is passed on only a finite     *)
(* number of times (_invalidation_is_fresh is the only thing that stops it).*)
FloodEnds == <>[](\A l \in Links : InFlight(l, "Invalidate") = {})

(* Every Interest ends at every node it reached: no receive loop waits for  *)
(* ever, even where routes form a cycle or two servers' loops each wait for *)
(* an answer that is queued behind the other's Interest.                    *)
InterestsDieOut ==
  <>[](/\ \A h \in Handlers : hand[h] = None
       /\ \A l \in Links : InFlight(l, "Interest") = {})
=============================================================================
