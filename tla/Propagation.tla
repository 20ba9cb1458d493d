---------------------------- MODULE Propagation ----------------------------
(***************************************************************************)
(* Replication between peered servers: PropagationManager (propagation.py), *)
(* the server's dispatch of incoming packets (server.py) and the manifest   *)
(* fetch of LinkFace (face.py).                                             *)
(*                                                                          *)
(* A face is named by the server at its other end.  Each face has one pump, *)
(* which handles a packet to its end before it takes the next; the only     *)
(* handler that suspends is the one of a handshake, which reads the face's  *)
(* receive queue itself until it meets a Data packet or times out.          *)
(***************************************************************************)
EXTENDS Naturals, Sequences, FiniteSets

LOCAL INSTANCE SequencesExt

CONSTANTS
  Nodes,
  Links,       \* ordered pairs <<sender, receiver>>, in both directions
  Posts,       \* names [origin, label, item] of what is published, each once
  Peered,      \* Nodes -> the peers it has at the start
  Handshakes,  \* <<sender, receiver>>: the PropPeer packets to be sent
  WantsSync,   \* the values of wants_sync in use
  MaxLost      \* bound: how many packets a channel refuses

ManifestName(n) == [origin |-> n, label |-> "manifest", item |-> 0]
Names == Posts \cup {ManifestName(n) : n \in Nodes}

(* A manifest lists names.  Other Data does not parse as one.               *)
Data == [name : Names, lists : SUBSET Names]
Post(p) == [name |-> p, lists |-> {}]

Message ==
  [type : {"data"}, data : Data] \cup [type : {"subscribe"}, name : Names]
    \cup [type : {"peer"}, sync : BOOLEAN] \cup [type : {"interest"}]

ASSUME PropagationAssumption ==
  /\ Links \subseteq Nodes \X Nodes /\ \A l \in Links : <<l[2], l[1]>> \in Links
  /\ \A p \in Posts : p.origin \in Nodes /\ p.label # "manifest"
  /\ Peered \in [Nodes -> SUBSET Nodes]
  /\ \A n \in Nodes : \A m \in Peered[n] : <<n, m>> \in Links
  /\ Handshakes \subseteq Links /\ WantsSync \subseteq BOOLEAN
  /\ MaxLost \in Nat

VARIABLES
  chan,       \* Links -> packets sent and not yet taken by the receiver
  peers,      \* Nodes -> faces of its peers (PropagationManager._peers)
  subs,       \* Nodes -> Names -> subscribed faces (APSManager)
  store,      \* Nodes -> Data in its Content Store
  pump,       \* Links -> "idle" | "syncing": what the receiver's pump does
  greeted,    \* handshakes sent so far
  published,  \* posts published so far
  lost,       \* (history) <<link, packet>> that the channel refused
  owed,       \* (history) <<node, post>> that existed when the node peered
  due         \* (history) <<node, post>> published to a peer

history == <<owed, due>>
vars    == <<chan, lost, peers, subs, store, pump, greeted, published, history>>

-----------------------------------------------------------------------------
Packet(d) == [type |-> "data", data |-> d]

(* Of the packets out, by receiver, those whose place is not in cut.        *)
Accepted(out, cut) ==
  [m \in Nodes |->
     LET kept == SelectSeq([i \in DOMAIN out[m] |-> <<m, i>>], LAMBDA x : x \notin cut)
     IN [k \in DOMAIN kept |-> out[m][kept[k][2]]]]

(* n sends out[m] to each m after ch is what the channels hold.  A channel  *)
(* may refuse any packet (its window is full, the link is not ready), and   *)
(* LinkFace._send drops what it refuses: nobody sends it again.             *)
Sends(ch, n, out) ==
  \E cut \in SUBSET (UNION {{m} \X DOMAIN out[m] : m \in Nodes}) :
    LET got == Accepted(out, cut)
    IN /\ chan' = [l \in Links |-> IF l[1] = n THEN ch[l] \o got[l[2]] ELSE ch[l]]
       /\ lost' = lost \cup UNION {{<<n, m>>} \X (ToSet(out[m]) \ ToSet(got[m])) : m \in Nodes}
       /\ Cardinality(lost') <= MaxLost

Nothing == [m \in Nodes |-> <<>>]

PropagateBack(n, d, from) ==   \* faulty: the test is inverted
  [m \in Nodes |-> IF m \in peers[n] /\ m = from THEN <<Packet(d)>> ELSE <<>>]

PropagateOwn(n, d, from) ==   \* faulty: what a peer sent is not passed on
  [m \in Nodes |-> IF m \in peers[n] /\ from = n THEN <<Packet(d)>> ELSE <<>>]

(* propagate: to every peer but the one it came from.                       *)
Propagate(n, d, from) ==
  [m \in Nodes |-> IF m \in peers[n] /\ m # from THEN <<Packet(d)>> ELSE <<>>]

Insert(S, d) == {e \in S : e.name # d.name} \cup {d}

OwnNames(n) == {d.name : d \in {e \in store[n] : e.name.origin = n}}

(* _build_manifest_entries: a name for each label of the server's own       *)
(* content, the one its Content Store happens to list first.                *)
Listings(n) ==
  {L \in SUBSET OwnNames(n) :
     \A x \in OwnNames(n) : Cardinality({y \in L : y.label = x.label}) = 1}

(* Subscribe packets for a set of names.                                    *)
Subscribes(L) ==
  LET q == SetToSeq(L) IN [i \in DOMAIN q |-> [type |-> "subscribe", name |-> q[i]]]

-----------------------------------------------------------------------------
(* ICNServer.publish_pushed: store it, push it to subscribers, propagate it.*)
Publish(p) ==
  LET n == p.origin
      d == Post(p)
      push == [m \in Nodes |-> IF m \in subs[n][p] THEN <<Packet(d)>> ELSE <<>>]
      out  == Propagate(n, d, n)
  IN /\ p \notin published
     /\ published' = published \cup {p}
     /\ store' = [store EXCEPT ![n] = Insert(@, d)]
     /\ Sends(chan, n, [m \in Nodes |-> push[m] \o out[m]])
     /\ due' = due \cup {<<m, p>> : m \in {x \in peers[n] : n \in peers[x]}}
     /\ UNCHANGED <<peers, subs, pump, greeted, owed>>

(* The application greets the server at the other end of a link.            *)
Greet(l, sync) ==
  /\ l \notin greeted
  /\ greeted' = greeted \cup {l}
  /\ Sends(chan, l[1], [Nothing EXCEPT ![l[2]] = <<[type |-> "peer", sync |-> sync]>>])
  /\ UNCHANGED <<peers, subs, store, pump, published, history>>

(* The head of the queue of the face of n towards m.                        *)
Arrives(n, m, type) ==
  /\ pump[<<m, n>>] = "idle"
  /\ chan[<<m, n>>] # <<>>
  /\ Head(chan[<<m, n>>]).type = type

Taken(n, m) == [chan EXCEPT ![<<m, n>>] = Tail(@)]

(* Data from a peer is cached and passed on; other Data answers no pending  *)
(* Interest here and is dropped.                                            *)
HandleData(n, m) ==
  LET d == Head(chan[<<m, n>>]).data
  IN /\ Arrives(n, m, "data")
     /\ \/ /\ m \in peers[n]
           /\ store' = [store EXCEPT ![n] = Insert(@, d)]
           /\ Sends(Taken(n, m), n, Propagate(n, d, m))
        \/ /\ m \notin peers[n]
           /\ chan' = Taken(n, m)
           /\ UNCHANGED <<lost, store>>
     /\ UNCHANGED <<peers, subs, pump, greeted, published, history>>

(* What the server holds under a subscribed name.                           *)
Existing(n, name) == {d \in store[n] : d.name = name}

(* handle_subscribe with start_from_now False.                              *)
HandleSubscribe(n, m) ==
  LET name == Head(chan[<<m, n>>]).name
      q    == SetToSeq(Existing(n, name))
  IN /\ Arrives(n, m, "subscribe")
     /\ subs' = [subs EXCEPT ![n][name] = @ \cup {m}]
     /\ Sends(Taken(n, m), n,
              [Nothing EXCEPT ![m] = [i \in DOMAIN q |-> Packet(q[i])]])
     /\ UNCHANGED <<peers, store, pump, greeted, published, history>>

(* handle_interest for the server's manifest: the cached one, or one built  *)
(* and cached now.                                                          *)
HandleInterest(n, m) ==
  LET cached == {d \in store[n] : d.name = ManifestName(n)}
  IN /\ Arrives(n, m, "interest")
     /\ \E d \in IF cached # {} THEN cached
                 ELSE {[name |-> ManifestName(n), lists |-> L] : L \in Listings(n)} :
          /\ store' = [store EXCEPT ![n] = Insert(@, d)]
          /\ Sends(Taken(n, m), n, [Nothing EXCEPT ![m] = <<Packet(d)>>])
     /\ UNCHANGED <<peers, subs, pump, greeted, published, history>>

(* handle_peer_handshake as far as the manifest's Interest: the peer is     *)
(* registered; if it wants to sync, it is sent Subscribe packets for this   *)
(* server's own names (propagate_to_new_peer).                              *)
HandlePeer(n, m) ==
  LET sync == Head(chan[<<m, n>>]).sync
  IN /\ Arrives(n, m, "peer")
     /\ peers' = [peers EXCEPT ![n] = @ \cup {m}]
     /\ pump' = [pump EXCEPT ![<<m, n>>] = "syncing"]
     /\ \E L \in Listings(n) :
          LET push == IF sync /\ L # {} THEN Subscribes(L) \o Subscribes({ManifestName(n)})
                      ELSE <<>>
          IN Sends(Taken(n, m), n, [Nothing EXCEPT ![m] = Append(push, [type |-> "interest"])])
     /\ owed' = owed \cup {<<n, p>> : p \in OwnNames(m) \cap Posts}
     /\ UNCHANGED <<subs, store, greeted, published, due>>

(* sync_from_peer after the fetch: Subscribe packets for all entries, none  *)
(* if the Data is no manifest.                                              *)
SyncRequests(d) == Subscribes(d.lists)

(* LinkFace.express_interest: the first Data packet ends the wait, whatever *)
(* it is; all other packets are thrown away.                                *)
AwaitManifest(n, m) ==
  LET pkt == Head(chan[<<m, n>>])
  IN /\ pump[<<m, n>>] = "syncing"
     /\ chan[<<m, n>>] # <<>>
     /\ \/ /\ pkt.type = "data"
           /\ pump' = [pump EXCEPT ![<<m, n>>] = "idle"]
           /\ Sends(Taken(n, m), n, [Nothing EXCEPT ![m] = SyncRequests(pkt.data)])
        \/ /\ pkt.type # "data"
           /\ chan' = Taken(n, m)
           /\ UNCHANGED <<lost, pump>>
     /\ UNCHANGED <<peers, subs, store, greeted, published, history>>

WaitForever(n, m) == FALSE   \* faulty: the wait has no timeout

(* The wait times out.  Assumed: an Interest that is handled is answered    *)
(* within its lifetime of ten seconds.                                      *)
ManifestTimeout(n, m) ==
  /\ pump[<<m, n>>] = "syncing"
  /\ chan[<<m, n>>] = <<>>
  /\ \A i \in DOMAIN chan[<<n, m>>] : chan[<<n, m>>][i].type # "interest"
  /\ pump' = [pump EXCEPT ![<<m, n>>] = "idle"]
  /\ UNCHANGED <<chan, lost, peers, subs, store, greeted, published, history>>

Pump(n, m) ==
  \/ HandleData(n, m) \/ HandleSubscribe(n, m) \/ HandleInterest(n, m) \/ HandlePeer(n, m)
  \/ AwaitManifest(n, m) \/ ManifestTimeout(n, m)

Init ==
  /\ chan = [l \in Links |-> <<>>]
  /\ lost = {}
  /\ peers = Peered
  /\ subs = [n \in Nodes |-> [x \in Names |-> {}]]
  /\ store = [n \in Nodes |-> {}]
  /\ pump = [l \in Links |-> "idle"]
  /\ greeted = {}
  /\ published = {}
  /\ owed = {}
  /\ due = {}

Next ==
  \/ \E p \in Posts : Publish(p)
  \/ \E l \in Handshakes, sync \in WantsSync : Greet(l, sync)
  \/ \E l \in Links : Pump(l[2], l[1])

Spec == Init /\ [][Next]_vars

(* The pumps run; nothing obliges anyone to publish or to greet.            *)
FairSpec == Spec /\ \A l \in Links : WF_vars(Pump(l[2], l[1]))

-----------------------------------------------------------------------------
(* Types of the channels, the tables and the histories.                     *)
TypeOK ==
  /\ chan \in [Links -> Seq(Message)]
  /\ lost \subseteq Links \X Message
  /\ peers \in [Nodes -> SUBSET Nodes]
  /\ subs \in [Nodes -> [Names -> SUBSET Nodes]]
  /\ \A n \in Nodes : store[n] \subseteq Data
  /\ pump \in [Links -> {"idle", "syncing"}]
  /\ greeted \subseteq Links
  /\ published \subseteq Posts
  /\ owed \subseteq Nodes \X Posts /\ due \subseteq Nodes \X Posts

Has(n, p) == Post(p) \in store[n]

(* Nothing is under way.                                                    *)
AtRest == \A l \in Links : chan[l] = <<>> /\ pump[l] = "idle"

(* "This ensures content from any peer replicates to all other peers": what *)
(* a server publishes to a server it is mutually peered with is in that     *)
(* server's store once nothing is under way.                                *)
PeersReplicate == AtRest => \A x \in due : Has(x[1], x[2])

(* "new peers get existing content": what a server held of its own when a   *)
(* peer took its handshake is in the peer's store once nothing is under way.*)
NewPeersCatchUp == AtRest => \A x \in owed : Has(x[1], x[2])

(* "On peering, each side fetches the other's manifest and subscribes to    *)
(* all discovered streams".                                                 *)
PeersSubscribe ==
  AtRest => \A x \in owed : \E s \in Posts :
    s.origin = x[2].origin /\ s.label = x[2].label /\ x[1] \in subs[s.origin][s]

(* Those that are in the mesh from the start.                               *)
Members == {n \in Nodes : Peered[n] # {}}

(* The servers a post can get to over standing peerings: those that every   *)
(* set has that holds its origin and that no link leaves on which the post  *)
(* was not refused.                                                         *)
Standing == {l \in Links : l[2] \in Peered[l[1]] /\ l[1] \in Peered[l[2]]}

Reached(p) ==
  LET open == {l \in Standing : <<l, Packet(Post(p))>> \notin lost}
  IN {n \in Nodes : \A S \in SUBSET Nodes :
        p.origin \in S /\ (\A l \in open : l[1] \in S => l[2] \in S) => n \in S}

(* Every publication of a server of the mesh reaches every other one, over  *)
(* as many hops as it takes, while newcomers greet and sync, unless a       *)
(* channel refused it on the way: nothing is sent twice (propagate, face.py *)
(* _send).                                                                  *)
ReachesAll ==
  \A n \in Members : \A p \in {x \in Posts : x.origin \in Members} :
    p \in published ~> (Has(n, p) \/ n \notin Reached(p))

(* A handshake's wait for a manifest ends, also when both servers wait for  *)
(* each other, so that the face is served again.                            *)
SyncsEnd == \A l \in Links : pump[l] = "syncing" ~> pump[l] = "idle"

(* "which in turn forward to their peers (preventing loops ...)": forwarding*)
(* comes to an end.                                                         *)
ForwardingEnds == <>[]AtRest
=============================================================================
