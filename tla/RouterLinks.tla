---------------------------- MODULE RouterLinks ----------------------------
(***************************************************************************)
(* The links, faces and upstream routes of a router: LinkPool               *)
(* (link_pool.py), the link lifecycle of the RNS server (rns_server.py,     *)
(* face.py), PeerDiscoveryManager (peer_discovery.py) and the route         *)
(* installation of icn-router (cli.py).                                     *)
(*                                                                          *)
(* Connect calls run on the event loop and are suspended only while a link  *)
(* is being made; announces, incoming links and closing links come from     *)
(* threads of RNS.  From the moment a call has its link until its face is   *)
(* made the loop runs nothing else, but a thread of RNS may come in between *)
(* if Preempts is TRUE.                                                     *)
(***************************************************************************)
EXTENDS Naturals, Sequences, FiniteSets

CONSTANTS
  Peers,      \* config.known_peers
  LinkIds,    \* bound: the RNS links there can be
  MaxFace,    \* bound: the faces there can be
  Slots,      \* bound: connect calls at a time, besides the one of the start
  Incoming,   \* incoming links are accepted too
  Preempts,
  None

Main == "main"   \* the call made by router_main
Rns  == "rns"    \* the thread that accepts incoming links
Loop == Slots \cup {Main}
FaceIds == 1..MaxFace

ASSUME RouterAssumption ==
  /\ IsFiniteSet(Peers) /\ MaxFace \in Nat
  /\ Incoming \in BOOLEAN /\ Preempts \in BOOLEAN
  /\ None \notin LinkIds \cup FaceIds \cup Peers /\ {Main, Rns} \cap Slots = {}

VARIABLES
  link,    \* LinkIds -> "unused" | "up" | "closed"
  ends,    \* LinkIds -> the peer it was made to, None if it came in
  hook,    \* LinkIds -> the face its one closed-callback belongs to, or None
  pool,    \* Peers -> LinkPool._links
  idle,    \* peers whose entry in LinkPool._health is older than 120 s
  nextId,  \* ICNServer._next_face_id
  faces,   \* FaceIds -> its link, or None: ICNServer._faces, Forwarder.faces
  dead,    \* faces whose cleanup is scheduled on the loop
  fib,     \* <<peer, face>>: the route to the peer's content
  heard,   \* PeerDiscoveryManager._peers
  info,    \* Peers -> PeerInfo.face_id
  boot,    \* peers router_main has still to connect to
  call     \* Loop and Rns -> the connect call or accepted link in progress

vars == <<link, ends, hook, pool, idle, nextId, faces, dead, fib, heard, info, boot, call>>

NoCall == [pc |-> "idle", peer |-> None, link |-> None, id |-> None]

-----------------------------------------------------------------------------
(* Who is between getting a link and making its face.                       *)
Busy == {s \in Loop \cup {Rns} : call[s].pc \in {"linked", "numbered"}}

(* s may take a step: a call, the loop itself (Main) or RNS.                *)
MayRun(s) ==
  /\ s \in Loop => Busy \cap Loop \subseteq {s}
  /\ Preempts \/ Busy \subseteq {s}

(* The loop is free for anything that is not a call.                        *)
LoopFree == Busy \cap Loop = {} /\ (Preempts \/ Busy = {})
RnsFree  == Preempts \/ Busy = {}

(* icn-router has connected to all peers and wired the discovery callback.  *)
Wired == boot = <<>> /\ call[Main].pc = "idle"

(* _install_peer_routes: one peer after the other.                          *)
Boot ==
  /\ LoopFree
  /\ boot # <<>> /\ call[Main].pc = "idle"
  /\ boot' = Tail(boot)
  /\ call' = [call EXCEPT ![Main] = [NoCall EXCEPT !.pc = "get", !.peer = Head(boot)]]
  /\ UNCHANGED <<link, ends, hook, pool, idle, nextId, faces, dead, fib, heard, info>>

(* _on_announce: a new peer, and a known one that has no face, are reported *)
(* to the callback, which schedules a connect call (_wire_route_reinstall), *)
(* also when one to the peer is under way.                                  *)
Announce(p) ==
  /\ RnsFree
  /\ p \notin heard \/ info[p] = None
  /\ heard' = heard \cup {p}
  /\ \/ /\ Wired
        /\ \E s \in Slots :
             /\ call[s].pc = "idle"
             /\ call' = [call EXCEPT ![s] = [NoCall EXCEPT !.pc = "get", !.peer = p]]
     \/ /\ ~Wired
        /\ UNCHANGED call
  /\ UNCHANGED <<link, ends, hook, pool, idle, nextId, faces, dead, fib, info, boot>>

(* LinkPool.get_link: an active link is used again, a dead one forgotten.   *)
GetLink(s) ==
  LET p == call[s].peer
      l == pool[p]
  IN /\ MayRun(s)
     /\ call[s].pc = "get"
     /\ \/ /\ l # None /\ link[l] = "up"
           /\ call' = [call EXCEPT ![s].pc = "linked", ![s].link = l]
           /\ idle' = idle \ {p}
           /\ UNCHANGED pool
        \/ /\ l # None => link[l] # "up"
           /\ call' = [call EXCEPT ![s].pc = "creating"]
           /\ pool' = [pool EXCEPT ![p] = None]
           /\ idle' = idle \ {p}
     /\ UNCHANGED <<link, ends, hook, nextId, faces, dead, fib, heard, info, boot>>

(* The links not made yet; which of them is made next does not matter.      *)
Unused  == {l \in LinkIds : link[l] = "unused"}
NewLink == CHOOSE l \in LinkIds : link[l] = "unused"

(* _create_link finds its link active: it goes into the pool.               *)
Created(s) ==
  LET p == call[s].peer
  IN /\ MayRun(s)
     /\ call[s].pc = "creating"
     /\ Unused # {}
     /\ link' = [link EXCEPT ![NewLink] = "up"]
     /\ ends' = [ends EXCEPT ![NewLink] = p]
     /\ pool' = [pool EXCEPT ![p] = NewLink]
     /\ call' = [call EXCEPT ![s].pc = "linked", ![s].link = NewLink]
     /\ idle' = idle \ {p}
     /\ UNCHANGED <<hook, nextId, faces, dead, fib, heard, info, boot>>

(* No identity, no path, a link that closes or does not come up in time:    *)
(* connect returns None and no route is installed.                          *)
NotCreated(s) ==
  /\ MayRun(s)
  /\ call[s].pc = "creating"
  /\ call' = [call EXCEPT ![s] = NoCall]
  /\ UNCHANGED <<link, ends, hook, pool, idle, nextId, faces, dead, fib, heard, info, boot>>

(* _on_incoming_link, called by RNS.                                        *)
Accept ==
  /\ Incoming
  /\ RnsFree
  /\ call[Rns].pc = "idle"
  /\ Unused # {}
  /\ link' = [link EXCEPT ![NewLink] = "up"]
  /\ call' = [call EXCEPT ![Rns] = [NoCall EXCEPT !.pc = "linked", !.link = NewLink]]
  /\ UNCHANGED <<ends, hook, pool, idle, nextId, faces, dead, fib, heard, info, boot>>

(* _new_face reads the counter ...                                          *)
TakeId(s) ==
  /\ MayRun(s)
  /\ call[s].pc = "linked"
  /\ nextId \in FaceIds
  /\ call' = [call EXCEPT ![s].pc = "numbered", ![s].id = nextId]
  /\ UNCHANGED <<link, ends, hook, pool, idle, nextId, faces, dead, fib, heard, info, boot>>

NotBumped(n) == n       \* faulty
(* ... and increments it.                                                   *)
Bumped(n) == n + 1

(* update_peer_face: a peer that has not been heard of has no entry.  The   *)
(* hash of an incoming link is the link's own and finds no peer.            *)
Attached(p, f) == IF p \in heard THEN [info EXCEPT ![p] = f] ELSE info

(* _install_peer_route, once connect has returned a face.                   *)
Installed(p, f) == IF p = None THEN fib ELSE fib \cup {<<p, f>>}

(* _make_link_face: the face replaces the placeholder of its number and     *)
(* takes over the link's closed-callback, which a link already closed will  *)
(* not call.  The discovery entry and the route follow without suspension.  *)
MakeFace(s) ==
  LET c == call[s]
  IN /\ MayRun(s)
     /\ c.pc = "numbered"
     /\ nextId' = Bumped(nextId)
     /\ faces' = [faces EXCEPT ![c.id] = c.link]
     /\ hook' = [hook EXCEPT ![c.link] = c.id]
     /\ info' = Attached(c.peer, c.id)
     /\ fib' = Installed(c.peer, c.id)
     /\ call' = [call EXCEPT ![s] = NoCall]
     /\ UNCHANGED <<link, ends, pool, idle, dead, heard, boot>>

-----------------------------------------------------------------------------
(* What a closing link schedules: the cleanup of the face that has its      *)
(* callback (_on_face_closed), once (LinkFace._closed).                     *)
Scheduled(l) ==
  IF hook[l] # None /\ link[l] = "up" THEN dead \cup {hook[l]} ELSE dead

Close(l) ==
  /\ RnsFree
  /\ link[l] = "up"
  /\ link' = [link EXCEPT ![l] = "closed"]
  /\ dead' = Scheduled(l)
  /\ UNCHANGED <<ends, hook, pool, idle, nextId, faces, fib, heard, info, boot, call>>

(* 120 seconds without a get_link for the peer.                             *)
Age(p) ==
  /\ pool[p] # None /\ p \notin idle
  /\ idle' = idle \cup {p}
  /\ UNCHANGED <<link, ends, hook, pool, nextId, faces, dead, fib, heard, info, boot, call>>

(* _monitor_links.                                                          *)
Monitor(p) ==
  LET l == pool[p]
  IN /\ LoopFree
     /\ p \in idle /\ l # None
     /\ link' = [link EXCEPT ![l] = "closed"]
     /\ dead' = Scheduled(l)
     /\ pool' = [pool EXCEPT ![p] = None]
     /\ idle' = idle \ {p}
     /\ UNCHANGED <<ends, hook, nextId, faces, fib, heard, info, boot, call>>

RoutesKept(f) == fib   \* faulty
(* Forwarder.withdraw_face.                                                 *)
Withdrawn(f) == {r \in fib : r[2] # f}

FaceKept(f) == info    \* faulty
(* PeerDiscoveryManager.clear_face.                                         *)
Cleared(f) == [p \in Peers |-> IF info[p] = f THEN None ELSE info[p]]

(* _cleanup_closed_face, on the loop.                                       *)
Cleanup(f) ==
  /\ LoopFree
  /\ f \in dead
  /\ dead' = dead \ {f}
  /\ faces' = [faces EXCEPT ![f] = None]
  /\ fib' = Withdrawn(f)
  /\ info' = Cleared(f)
  /\ UNCHANGED <<link, ends, hook, pool, idle, nextId, heard, boot, call>>

Init ==
  /\ link = [l \in LinkIds |-> "unused"]
  /\ ends = [l \in LinkIds |-> None]
  /\ hook = [l \in LinkIds |-> None]
  /\ pool = [p \in Peers |-> None]
  /\ idle = {}
  /\ nextId = 1
  /\ faces = [f \in FaceIds |-> None]
  /\ dead = {}
  /\ fib = {}
  /\ heard \in SUBSET Peers
  /\ info = [p \in Peers |-> None]
  /\ \E q \in [1..Cardinality(Peers) -> Peers] :
       /\ \A i, j \in DOMAIN q : i # j => q[i] # q[j]
       /\ boot = q
  /\ call = [s \in Loop \cup {Rns} |-> NoCall]

Calls(s) == GetLink(s) \/ Created(s) \/ NotCreated(s) \/ TakeId(s) \/ MakeFace(s)

Next ==
  \/ Boot
  \/ \E s \in Loop : GetLink(s) \/ Created(s) \/ NotCreated(s)
  \/ \E s \in Loop \cup {Rns} : TakeId(s) \/ MakeFace(s)
  \/ \E p \in Peers : Announce(p) \/ Age(p) \/ Monitor(p)
  \/ Accept
  \/ \E l \in LinkIds : Close(l)
  \/ \E f \in FaceIds : Cleanup(f)

Spec == Init /\ [][Next]_vars

(* The loop runs what is scheduled, a peer keeps announcing itself, and not *)
(* every attempt to make a link fails.                                      *)
FairSpec ==
  /\ Spec
  /\ WF_vars(Boot \/ \E s \in Loop \cup {Rns} : Calls(s))
  /\ SF_vars(\E s \in Loop : Created(s))
  /\ WF_vars(\E f \in FaceIds : Cleanup(f))
  /\ \A p \in Peers : SF_vars(Announce(p))

-----------------------------------------------------------------------------
(* Types of the tables and of the calls.                                    *)
TypeOK ==
  /\ link \in [LinkIds -> {"unused", "up", "closed"}]
  /\ ends \in [LinkIds -> Peers \cup {None}]
  /\ hook \in [LinkIds -> FaceIds \cup {None}]
  /\ pool \in [Peers -> LinkIds \cup {None}]
  /\ idle \subseteq Peers /\ heard \subseteq Peers
  /\ nextId \in 1..(MaxFace + 1)
  /\ faces \in [FaceIds -> LinkIds \cup {None}]
  /\ dead \subseteq FaceIds
  /\ fib \subseteq Peers \X FaceIds
  /\ info \in [Peers -> FaceIds \cup {None}]
  /\ call \in [Loop \cup {Rns} ->
                 [pc : {"idle", "get", "creating", "linked", "numbered"},
                  peer : Peers \cup {None}, link : LinkIds \cup {None},
                  id : FaceIds \cup {None}]]

(* Content of a peer is asked for on a link to that peer: "the route is     *)
(* keyed by the peer's identity hash pointing at the Link face".            *)
RoutesLeadToPeer == \A r \in fib : faces[r[2]] # None => ends[faces[r[2]]] = r[1]

(* "Schedules FIB/face cleanup onto the event loop so a dropped link stops  *)
(* being a black-hole route": every route over a face that is gone or whose *)
(* link has closed is about to be withdrawn.                                *)
NoBlackHole ==
  \A r \in fib : faces[r[2]] = None \/ link[faces[r[2]]] = "closed" => r[2] \in dead

(* What the closed-callback does ensure (_make_link_face, _on_face_closed,  *)
(* _cleanup_closed_face): a route outlives its link, once the loop has had  *)
(* its turn, only if a later face of the same link took the callback over.  *)
OnlySupersededOutlives ==
  \A r \in fib :
    LET l == faces[r[2]]
    IN l # None /\ (link[l] = "closed" => r[2] \in dead \/ hook[l] > r[2])

(* "A re-announce from a peer we are not currently linked to is the         *)
(* reconnect signal" (_on_announce): a peer that discovery takes for linked *)
(* is linked, by that face, or its closing is about to be noticed.          *)
AttachedIsLinked ==
  \A p \in Peers : info[p] # None =>
    LET l == faces[info[p]]
    IN l # None /\ ends[l] = p /\ (link[l] = "up" \/ info[p] \in dead)

(* There are no more links or faces to be had.                              *)
Exhausted == Unused = {} \/ nextId \notin FaceIds

(* However links close and are given up as idle, in the end there is a live *)
(* route to every peer again (_wire_route_reinstall), if links stop closing *)
(* before the bounds are reached.                                           *)
RouteRecovers ==
  \A p \in Peers :
    <>[](\/ Exhausted
         \/ \E r \in fib : r[1] = p /\ faces[r[2]] # None /\ link[faces[r[2]]] = "up")
=============================================================================
