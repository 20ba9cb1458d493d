---------------------------- MODULE PushDelivery ----------------------------
(***************************************************************************)
(* Push delivery of one producer to its subscribers: APSManager (aps.py),   *)
(* OfflineQueue (offline_queue.py), the server's handlers (server.py) and   *)
(* the consumer's dispatcher (client.py).                                   *)
(*                                                                          *)
(* Every handler runs without suspending (LinkFace never waits for a send), *)
(* so a publication and a subscription are one step each.  A link closes on *)
(* RNS's thread and the event loop learns of it later: in between the face  *)
(* is still registered and what is sent on it is dropped without an error.  *)
(***************************************************************************)
EXTENDS NameOps, FiniteSets

CONSTANTS
  Components,      \* name components
  Names,           \* names of streams and of posts
  Streams,         \* the names subscribed to
  Posts,           \* [name, seq] to publish, each once
  Clients,
  Faces,           \* the producer's side of the links, in order of use
  Owner,           \* Faces -> the client at the other end
  Wants,           \* Clients -> the streams it subscribes to
  Unstable,        \* faces whose link may close
  FromNow,         \* the values of start_from_now in use
  Window,          \* how many messages a channel takes before it is acknowledged
  RejectRollback,  \* the consumer's configuration
  Prunes,          \* the application calls OfflineQueue.prune
  MaxAge,          \* the time to live of a queued item
  Horizon,         \* bound: the clock stops here
  None

(* An edition on its way: a signed post with the second of its signature.   *)
Edition == [name : Names, seq : Nat, at : Nat]

ASSUME PushAssumption ==
  /\ Names \subseteq Seq(Components) /\ Streams \subseteq Names
  /\ IsFiniteSet(Names) /\ IsFiniteSet(Faces)
  /\ Posts \subseteq [name : Names, seq : Nat]
  /\ Owner \in [Faces -> Clients] /\ Wants \in [Clients -> SUBSET Streams]
  /\ Unstable \subseteq Faces
  /\ FromNow \subseteq BOOLEAN /\ RejectRollback \in BOOLEAN /\ Prunes \in BOOLEAN
  /\ Window \in Nat \ {0} /\ MaxAge \in Nat /\ Horizon \in Nat
  /\ None \notin Edition

VARIABLES
  now,        \* the clock, in seconds
  link,       \* Faces -> "new" | "up" | "closed" (cleanup scheduled) | "down"
  subs,       \* Streams -> faces (APSManager._subscriptions)
  queue,      \* Streams -> list of editions (OfflineQueue._queue)
  cs,         \* Names -> the edition in the Content Store, or None
  published,  \* posts published so far
  asked,      \* Faces -> APS Subscribe packets the server has not handled yet
  wire,       \* Faces -> editions sent and not yet acknowledged
  regs,       \* Clients -> prefixes it has registered a callback for
  seen,       \* Clients -> Names -> the newest edition accepted, or None
  got,        \* (history) Clients -> list of the editions handed to a callback
  missed,     \* (history) <<client, stream, edition>> published in its absence
  handed      \* (history) <<client, edition>> given to a registered face of its

net     == <<link, asked, wire>>
server  == <<subs, queue, cs, published>>
client  == <<regs, seen, got>>
history == <<missed, handed>>
vars    == <<now, net, server, client, history>>

-----------------------------------------------------------------------------
(* A stream concerns a name at or under it, and also one above it.          *)
Covers(s, n) == StartsWith(n, s) \/ StartsWith(s, n)

(* APSManager.get_subscriber_faces.                                         *)
SubscriberFaces(n) == UNION {subs[s] : s \in {x \in Streams : Covers(x, n)}}

(* The face is in ICNServer._faces.                                         *)
Registered(f) == link[f] \in {"up", "closed"}

(* What a channel holds after a list is sent on it: messages beyond the     *)
(* window are refused and LinkFace._send swallows the refusal, as it does   *)
(* when the link is closed.                                                 *)
Sent(f, list) ==
  LET all == wire[f] \o list
  IN IF link[f] = "up"
       THEN SubSeq(all, 1, IF Len(all) <= Window THEN Len(all) ELSE Window)
       ELSE wire[f]

Times(k, d) == [i \in 1..k |-> d]

(* The subscribed faces of a stream that are gone.                          *)
GoneFaces(s) == {f \in subs[s] : ~Registered(f)}

(* APSManager._enqueue_for_face, once for every such face.                  *)
Queued(s, d) ==
  IF Covers(s, d.name) THEN queue[s] \o Times(Cardinality(GoneFaces(s)), d) ELSE queue[s]

(* The client is subscribed to the stream and no face of its is registered. *)
Absent(c, s) ==
  /\ \E f \in subs[s] : Owner[f] = c
  /\ \A f \in subs[s] : Owner[f] = c => ~Registered(f)

(* ICNServer.publish_pushed: sign, store, push, queue.  What it sends on to *)
(* peer servers is outside this module.                                     *)
Publish(p) ==
  LET d    == [name |-> p.name, seq |-> p.seq, at |-> now]
      push == {f \in SubscriberFaces(p.name) : Registered(f)}
  IN /\ p \notin published
     /\ published' = published \cup {p}
     /\ cs' = [cs EXCEPT ![p.name] = d]
     /\ wire' = [f \in Faces |-> IF f \in push THEN Sent(f, <<d>>) ELSE wire[f]]
     /\ queue' = [s \in Streams |-> Queued(s, d)]
     /\ missed' = missed \cup
          {x \in Clients \X Streams \X {d} : Covers(x[2], p.name) /\ Absent(x[1], x[2])}
     /\ handed' = handed \cup {<<Owner[f], d>> : f \in push}
     /\ UNCHANGED <<now, link, asked, subs, client>>

(* Existing content under a stream, in any order the store lists it.        *)
Backlog(s) == {cs[n] : n \in {m \in Names : cs[m] # None /\ StartsWith(m, s)}}

(* The lists that hold every member of a set once.                          *)
Arrangements(S) ==
  {q \in [1..Cardinality(S) -> S] : \A i, j \in DOMAIN q : i # j => q[i] # q[j]}

(* Faulty: the popped items are forgotten when the face has gone.           *)
KeptNothing(f, s) == <<>>

(* What OfflineQueue.drain leaves in the queue of the stream: everything if *)
(* the face has gone, else nothing, whatever became of the sends.           *)
Kept(f, s) == IF Registered(f) THEN <<>> ELSE queue[s]

DrainsWithBacklog(sub) == IF sub.fromNow THEN <<>> ELSE queue[sub.stream]   \* faulty

(* What is drained to the face: the queue of exactly that stream.           *)
Drained(sub) == queue[sub.stream]

(* APSManager.subscribe.                                                    *)
Subscribed(f, s) == [subs EXCEPT ![s] = @ \cup {f}]

(* ICNServer.handle_subscribe, run by the pump of the face, which ends with *)
(* the packet in hand once the link is closed.                              *)
HandleSubscribe(f) ==
  LET sub == Head(asked[f])
      s   == sub.stream
  IN /\ asked[f] # <<>>
     /\ asked' = [asked EXCEPT ![f] = IF link[f] = "up" THEN Tail(@) ELSE <<>>]
     /\ subs' = Subscribed(f, s)
     /\ queue' = [queue EXCEPT ![s] = Kept(f, s)]
     /\ \E backlog \in Arrangements(IF sub.fromNow THEN {} ELSE Backlog(s)) :
          LET list == backlog \o Drained(sub)
          IN /\ wire' = [wire EXCEPT ![f] = Sent(f, list)]
             /\ handed' = IF Registered(f)
                            THEN handed \cup {<<Owner[f], list[i]>> : i \in DOMAIN list}
                            ELSE handed
     /\ UNCHANGED <<now, link, cs, published, client, missed>>

(* An item is within the queue's time to live.                              *)
Young(d) == now - d.at < MaxAge

(* The young items of a list, in its order.                                 *)
Pruned(q) ==
  LET keep    == {i \in DOMAIN q : Young(q[i])}
      Rank(i) == Cardinality({j \in keep : j <= i})
  IN [k \in 1..Cardinality(keep) |-> q[CHOOSE i \in keep : Rank(i) = k]]

(* OfflineQueue.prune.                                                      *)
Prune ==
  /\ Prunes
  /\ queue' = [s \in Streams |-> Pruned(queue[s])]
  /\ UNCHANGED <<now, net, subs, cs, published, client, history>>

-----------------------------------------------------------------------------
(* The consumer.                                                            *)

(* ICNClient.subscribe over the link of the pool, at most once per link and *)
(* stream.  A resubscription appends a second callback for the prefix, which*)
(* is called with the same Data, so a set of prefixes is enough.            *)
Subscribe(f, s, fromNow) ==
  LET c == Owner[f]
  IN /\ link[f] = "up"
     /\ s \in Wants[c]
     /\ f \notin subs[s]
     /\ \A i \in DOMAIN asked[f] : asked[f][i].stream # s
     /\ regs' = [regs EXCEPT ![c] = @ \cup {s}]
     /\ asked' = [asked EXCEPT ![f] = Append(@, [stream |-> s, fromNow |-> fromNow])]
     /\ UNCHANGED <<now, link, wire, server, seen, got, history>>

(* The order of freshness keys (signed_at, sequence).                       *)
OlderThan(d, e) == d.at < e.at \/ (d.at = e.at /\ d.seq < e.seq)

AcceptsAll(c, d) == TRUE   \* faulty: no rollback check

(* _check_rollback.                                                         *)
Accepts(c, d) ==
  RejectRollback /\ seen[c][d.name] # None => ~OlderThan(d, seen[c][d.name])

Matches(c, d) == \E s \in regs[c] : StartsWith(d.name, s)

(* _pump_face, receive_data's observer and _dispatch_push.                  *)
Dispatch(f) ==
  LET c == Owner[f]
      d == Head(wire[f])
  IN /\ wire[f] # <<>>
     /\ wire' = [wire EXCEPT ![f] = Tail(@)]
     /\ \/ /\ Matches(c, d) /\ Accepts(c, d)
           /\ seen' = IF RejectRollback THEN [seen EXCEPT ![c][d.name] = d] ELSE seen
           /\ got' = [got EXCEPT ![c] = Append(@, d)]
        \/ /\ ~(Matches(c, d) /\ Accepts(c, d))
           /\ UNCHANGED <<seen, got>>
     /\ UNCHANGED <<now, link, asked, server, regs, history>>

-----------------------------------------------------------------------------
(* Links and time.                                                          *)

(* The pool makes a new link once the client's last one is closed, whether  *)
(* or not the producer has cleaned up after that one.                       *)
Connect(f) ==
  /\ link[f] = "new"
  /\ \A g \in Faces : Owner[g] = Owner[f] => link[g] # "up"
  /\ link' = [link EXCEPT ![f] = "up"]
  /\ UNCHANGED <<now, asked, wire, server, client, history>>

(* The link dies, and with it what it had not delivered.                    *)
Close(f) ==
  /\ f \in Unstable
  /\ link[f] = "up"
  /\ link' = [link EXCEPT ![f] = "closed"]
  /\ wire' = [wire EXCEPT ![f] = <<>>]
  /\ UNCHANGED <<now, asked, server, client, history>>

(* _cleanup_closed_face: the face is dropped, its subscriptions stay.  The  *)
(* pump ends at once, or after a packet it was already woken for.           *)
Cleanup(f) ==
  /\ link[f] = "closed"
  /\ link' = [link EXCEPT ![f] = "down"]
  /\ asked' \in {asked, [asked EXCEPT ![f] = <<>>]}
  /\ UNCHANGED <<now, wire, server, client, history>>

Tick ==
  /\ now < Horizon
  /\ now' = now + 1
  /\ UNCHANGED <<net, server, client, history>>

Init ==
  /\ now = 0
  /\ link = [f \in Faces |-> "new"]
  /\ subs = [s \in Streams |-> {}]
  /\ queue = [s \in Streams |-> <<>>]
  /\ cs = [n \in Names |-> None]
  /\ published = {}
  /\ asked = [f \in Faces |-> <<>>]
  /\ wire = [f \in Faces |-> <<>>]
  /\ regs = [c \in Clients |-> {}]
  /\ seen = [c \in Clients |-> [n \in Names |-> None]]
  /\ got = [c \in Clients |-> <<>>]
  /\ missed = {}
  /\ handed = {}

Next ==
  \/ \E p \in Posts : Publish(p)
  \/ \E f \in Faces : HandleSubscribe(f) \/ Dispatch(f) \/ Connect(f) \/ Close(f) \/ Cleanup(f)
  \/ \E f \in Faces, s \in Streams, fromNow \in FromNow : Subscribe(f, s, fromNow)
  \/ Prune
  \/ Tick

Spec == Init /\ [][Next]_vars

(* The pumps run; nothing obliges clients to connect or links to stay up.   *)
FairSpec ==
  /\ Spec
  /\ \A f \in Faces : WF_vars(HandleSubscribe(f)) /\ WF_vars(Dispatch(f)) /\ WF_vars(Cleanup(f))

-----------------------------------------------------------------------------
(* Types of the tables, the links and the histories.                        *)
TypeOK ==
  /\ now \in Nat
  /\ link \in [Faces -> {"new", "up", "closed", "down"}]
  /\ subs \in [Streams -> SUBSET Faces]
  /\ queue \in [Streams -> Seq(Edition)]
  /\ cs \in [Names -> Edition \cup {None}]
  /\ published \subseteq Posts
  /\ asked \in [Faces -> Seq([stream : Streams, fromNow : BOOLEAN])]
  /\ wire \in [Faces -> Seq(Edition)]
  /\ regs \in [Clients -> SUBSET Streams]
  /\ seen \in [Clients -> [Names -> Edition \cup {None}]]
  /\ got \in [Clients -> Seq(Edition)]
  /\ missed \subseteq Clients \X Streams \X Edition
  /\ handed \subseteq Clients \X Edition

(* What is published while a subscriber is away, and is younger than the    *)
(* queue's time to live, stays queued under its stream until it has been    *)
(* handed to a face of the subscriber (put, drain, prune), also when the    *)
(* face of a resubscription is gone by the time it is handled.              *)
MissedIsHeld ==
  \A x \in missed : Young(x[3]) =>
    \/ <<x[1], x[3]>> \in handed
    \/ \E i \in DOMAIN queue[x[2]] : queue[x[2]][i] = x[3]

(* "either way it drains anything offline-queued for it, so a resubscribe   *)
(* after a disconnect delivers what was missed" (ICNClient.subscribe): once *)
(* a face of the subscriber is subscribed again, what it missed has been    *)
(* handed to it.                                                            *)
ResubscribeDeliversMissed ==
  \A x \in missed :
    Young(x[3]) /\ (\E f \in subs[x[2]] : Owner[f] = x[1] /\ Registered(f)) =>
      <<x[1], x[3]>> \in handed

(* Whatever order backlog, queue and live pushes arrive in, a consumer that *)
(* rejects rollbacks is not handed an older edition of a name after a newer.*)
EditionsNeverGoBack ==
  \A c \in Clients : \A i, j \in DOMAIN got[c] :
    i < j /\ got[c][i].name = got[c][j].name => ~OlderThan(got[c][j], got[c][i])

Current(c, d) == (\E i \in DOMAIN got[c] : got[c][i] = d) \/ (seen[c][d.name] # None /\ OlderThan(d, seen[c][d.name]))

Editions == [name : {p.name : p \in Posts}, seq : {p.seq : p \in Posts}, at : 0..Horizon]

(* Once a subscriber that stays connected has asked again for a stream, and *)
(* no request of an earlier connection is still to be handled, it           *)
(* is eventually handed what waits for it there, or something newer, unless *)
(* it outlives its time in the queue first (drain, channel, pump and        *)
(* dispatcher).                                                             *)
MissedArrives ==
  \A g \in Faces \ Unstable, s \in Streams, d \in Editions :
    /\ StartsWith(d.name, s)
    /\ \E i \in DOMAIN queue[s] : queue[s][i] = d
    /\ \E i \in DOMAIN asked[g] : asked[g][i].stream = s
    /\ \A f \in Faces \ {g} : asked[f] = <<>>
    ~> Current(Owner[g], d) \/ ~Young(d)

(* "Faces that are unreachable have their data queued in the OfflineQueue   *)
(* for delivery on reconnect" (publish_pushed).                             *)
UnreachableIsQueued ==
  [][\A s \in Streams, f \in Faces, p \in published' \ published :
       f \in subs[s] /\ Covers(s, p.name) /\ link[f] \in {"closed", "down"} =>
         Len(queue'[s]) > Len(queue[s])]_vars

(* "Default queued-push lifetime (seconds)": nothing older is drained.      *)
NothingStaleDrained ==
  [][\A f \in Faces : HandleSubscribe(f) /\ Registered(f) =>
       \A s \in Streams : queue'[s] # queue[s] =>
         \A i \in DOMAIN queue[s] : Young(queue[s][i])]_vars
=============================================================================
