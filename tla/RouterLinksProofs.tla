-------------------------- MODULE RouterLinksProofs --------------------------
(***************************************************************************)
(* The routes of a router, for every set of peers, links, faces and calls,  *)
(* whoever is heard of first.  When threads of RNS do not come in between   *)
(* getting a link and making its face, a route leads to its peer, outlives  *)
(* its link only if another face took the closed-callback over, and a peer  *)
(* that is taken for linked is linked.                                      *)
(***************************************************************************)
EXTENDS RouterLinks, FiniteSetTheorems, TLAPS

Callers == Loop \cup {Rns}

Call == [pc : {"idle", "get", "creating", "linked", "numbered"},
         peer : Peers \cup {None}, link : LinkIds \cup {None}, id : FaceIds \cup {None}]

Between(s) == call[s].pc \in {"linked", "numbered"}

(* One caller at a time is between its link and its face, and nobody else   *)
(* moves: its link is up and leads to the peer it calls, its number is the  *)
(* counter's.                                                               *)
Alone == \A s, u \in Callers : Between(s) /\ Between(u) => s = u

Holds ==
  \A s \in Callers : Between(s) =>
    /\ call[s].link \in LinkIds
    /\ link[call[s].link] = "up"
    /\ ends[call[s].link] = call[s].peer
    /\ call[s].pc = "numbered" => call[s].id = nextId /\ nextId \in FaceIds

(* Calls are made to peers, incoming links come from nobody known.          *)
Calling ==
  /\ \A s \in Loop : call[s].pc = "idle" \/ call[s].peer \in Peers
  /\ \A s \in Callers : call[s].pc = "idle" => call[s].peer = None
  /\ call[Rns].peer = None /\ call[Rns].pc \notin {"get", "creating"}

Pooled == \A p \in Peers : pool[p] # None => ends[pool[p]] = p /\ link[pool[p]] # "unused"

Unmade == \A l \in LinkIds : link[l] = "unused" => ends[l] = None

Faced ==
  \A f \in FaceIds :
    /\ faces[f] # None => link[faces[f]] # "unused"
    /\ f >= nextId => faces[f] = None /\ \A r \in fib : r[2] # f

Booting == boot \in Seq(Peers)

(* The inductive invariant of routes that lead to their peers, with Booting.*)
LInv == TypeOK /\ Alone /\ Holds /\ Calling /\ Pooled /\ Unmade /\ Faced /\ RoutesLeadToPeer

(* The callback of a link is with the last face made on it.                 *)
Hooked ==
  /\ \A l \in LinkIds : hook[l] # None => hook[l] < nextId
  /\ \A r \in fib : faces[r[2]] # None /\ hook[faces[r[2]]] # None /\ hook[faces[r[2]]] >= r[2]
  /\ \A p \in Peers : info[p] # None => p \in heard /\ hook[faces[info[p]]] = info[p]

(* The inductive invariant of faces whose closing is noticed.               *)
WInv == LInv /\ Booting /\ Hooked /\ OnlySupersededOutlives /\ AttachedIsLinked

-----------------------------------------------------------------------------
(* Types of what the actions choose and test.                               *)

LEMMA NewLinkUnused ==
  ASSUME Unused # {}
  PROVE  NewLink \in LinkIds /\ link[NewLink] = "unused"
BY DEF Unused, NewLink

(* Whoever may move finds nobody else between its link and its face.        *)
LEMMA NobodyBetween ==
  ASSUME ~Preempts
  PROVE  /\ RnsFree \/ LoopFree => \A s \in Callers : ~Between(s)
         /\ \A u : MayRun(u) => \A s \in Callers : Between(s) => s = u
BY DEF RnsFree, LoopFree, MayRun, Busy, Between, Callers

LEMMA CallersDistinct ==
  /\ Main \in Loop /\ Main \notin Slots /\ Rns \notin Loop
  /\ Loop \subseteq Callers /\ Rns \in Callers /\ Slots \subseteq Loop
BY RouterAssumption DEF Loop, Callers, Main, Rns

-----------------------------------------------------------------------------
(* The steps of a connect call and of an accepted link.                     *)

(* The first conjunct TypeOK asks of the calls, by its name here.           *)
LEMMA CallsTyped == TypeOK => call \in [Callers -> Call]
BY DEF TypeOK, Callers, Call

LEMMA GetLinkKeeps ==
  ASSUME ~Preempts, LInv, NEW s \in Loop, GetLink(s)
  PROVE  LInv'
<1> DEFINE p == call[s].peer
           l == pool[p]
<1>1. /\ call \in [Callers -> Call] /\ s \in Callers /\ s # Rns
      /\ p \in Peers /\ call[s].pc = "get"
  BY CallsTyped, CallersDistinct DEF LInv, Calling, GetLink
<1>2. UNCHANGED <<link, ends, hook, nextId, faces, dead, fib, heard, info>> /\ idle' \subseteq idle
  BY DEF GetLink
<1>3. \A u \in Callers : Between(u) => u = s
  BY NobodyBetween DEF GetLink
<1>4. CASE /\ l # None /\ link[l] = "up" /\ UNCHANGED pool
           /\ call' = [call EXCEPT ![s].pc = "linked", ![s].link = l]
  <2>1. l \in LinkIds /\ ends[l] = p
    BY <1>1, <1>4 DEF LInv, TypeOK, Pooled
  <2>2. /\ call' \in [Callers -> Call]
        /\ call'[s].pc = "linked" /\ call'[s].link = l /\ call'[s].peer = p
        /\ \A u \in Callers : u # s => call'[u] = call[u]
    BY <1>1, <1>4, <2>1 DEF Call
  <2> HIDE DEF p, l
  <2>3. TypeOK'
    BY <1>2, <1>4, <2>2 DEF LInv, TypeOK, Callers, Call
  <2>4. Alone' /\ Holds'
    BY <1>2, <1>3, <1>4, <2>1, <2>2 DEF LInv, Alone, Holds, Between
  <2>5. Calling'
    BY <1>1, <2>2, CallersDistinct DEF LInv, Calling
  <2>6. Pooled' /\ Unmade' /\ Faced' /\ RoutesLeadToPeer'
    BY <1>2, <1>4 DEF LInv, Pooled, Unmade, Faced, RoutesLeadToPeer
  <2> QED BY <2>3, <2>4, <2>5, <2>6 DEF LInv
<1>5. CASE /\ call' = [call EXCEPT ![s].pc = "creating"]
           /\ pool' = [pool EXCEPT ![p] = None]
  <2>1. /\ call' \in [Callers -> Call]
        /\ call'[s].pc = "creating" /\ call'[s].peer = p
        /\ \A u \in Callers : u # s => call'[u] = call[u]
    BY <1>1, <1>5 DEF Call
  <2>2. pool' \in [Peers -> LinkIds \cup {None}] /\ \A q \in Peers : pool'[q] = pool[q] \/ pool'[q] = None
    BY <1>1, <1>5 DEF LInv, TypeOK
  <2> HIDE DEF p, l
  <2>3. TypeOK'
    BY <1>2, <2>1, <2>2 DEF LInv, TypeOK, Callers, Call
  <2>4. Alone' /\ Holds'
    BY <1>2, <1>3, <2>1 DEF LInv, Alone, Holds, Between
  <2>5. Calling'
    BY <1>1, <2>1, CallersDistinct DEF LInv, Calling
  <2>6. Pooled' /\ Unmade' /\ Faced' /\ RoutesLeadToPeer'
    BY <1>2, <2>2 DEF LInv, Pooled, Unmade, Faced, RoutesLeadToPeer
  <2> QED BY <2>3, <2>4, <2>5, <2>6 DEF LInv
<1> QED BY <1>4, <1>5 DEF GetLink

LEMMA CreatedKeeps ==
  ASSUME ~Preempts, LInv, NEW s \in Loop, Created(s)
  PROVE  LInv'
<1> DEFINE p == call[s].peer
           l == NewLink
<1>1. /\ call \in [Callers -> Call] /\ s \in Callers /\ s # Rns
      /\ p \in Peers /\ call[s].pc = "creating"
  BY CallsTyped, CallersDistinct DEF LInv, Calling, Created
<1>2. l \in LinkIds /\ link[l] = "unused"
  BY NewLinkUnused DEF Created
<1>3. /\ UNCHANGED <<hook, nextId, faces, dead, fib, heard, info>> /\ idle' \subseteq idle
      /\ link' = [link EXCEPT ![l] = "up"] /\ ends' = [ends EXCEPT ![l] = p]
      /\ pool' = [pool EXCEPT ![p] = l]
      /\ call' = [call EXCEPT ![s].pc = "linked", ![s].link = l]
  BY DEF Created
<1>4. \A u \in Callers : Between(u) => u = s
  BY NobodyBetween DEF Created
<1> HIDE DEF l
<1>5. /\ call' \in [Callers -> Call]
      /\ call'[s].pc = "linked" /\ call'[s].link = l /\ call'[s].peer = p
      /\ \A u \in Callers : u # s => call'[u] = call[u]
  BY <1>1, <1>2, <1>3 DEF Call
<1> HIDE DEF p
<1>6. /\ link' \in [LinkIds -> {"unused", "up", "closed"}] /\ link'[l] = "up"
      /\ \A k \in LinkIds : k # l => link'[k] = link[k]
      /\ ends' \in [LinkIds -> Peers \cup {None}] /\ ends'[l] = p
      /\ \A k \in LinkIds : k # l => ends'[k] = ends[k]
      /\ pool' \in [Peers -> LinkIds \cup {None}] /\ pool'[p] = l
      /\ \A q \in Peers : q # p => pool'[q] = pool[q]
  BY <1>1, <1>2, <1>3 DEF LInv, TypeOK
<1>7. TypeOK'
  BY <1>3, <1>5, <1>6 DEF LInv, TypeOK, Callers, Call
<1>8. Alone' /\ Holds'
  BY <1>2, <1>3, <1>4, <1>5, <1>6 DEF LInv, Alone, Holds, Between
<1>9. Calling'
  BY <1>1, <1>5, CallersDistinct DEF LInv, Calling
<1>10. Pooled' /\ Unmade'
  BY <1>1, <1>2, <1>6 DEF LInv, TypeOK, Pooled, Unmade
<1>11. \A f \in FaceIds : faces[f] # None => faces[f] \in LinkIds /\ faces[f] # l
  BY <1>2 DEF LInv, TypeOK, Faced
<1>12. Faced'
  BY <1>3, <1>6, <1>11 DEF LInv, Faced
<1>13. \A r \in fib : r[2] \in FaceIds
  BY DEF LInv, TypeOK
<1>14. RoutesLeadToPeer'
  BY <1>3, <1>6, <1>11, <1>13 DEF LInv, RoutesLeadToPeer
<1> QED BY <1>7, <1>8, <1>9, <1>10, <1>12, <1>14 DEF LInv

LEMMA NotCreatedKeeps ==
  ASSUME ~Preempts, LInv, NEW s \in Loop, NotCreated(s)
  PROVE  LInv'
<1>1. /\ call \in [Callers -> Call] /\ s \in Callers /\ s # Rns
      /\ call' = [call EXCEPT ![s] = NoCall] /\ NoCall \in Call
  BY CallsTyped, CallersDistinct DEF LInv, NotCreated, NoCall, Call
<1>2. UNCHANGED <<link, ends, hook, pool, idle, nextId, faces, dead, fib, heard, info>>
  BY DEF NotCreated
<1>3. /\ call' \in [Callers -> Call] /\ call'[s].pc = "idle" /\ call'[s].peer = None
      /\ \A u \in Callers : u # s => call'[u] = call[u]
  BY <1>1 DEF NoCall
<1>4. TypeOK'
  BY <1>2, <1>3 DEF LInv, TypeOK, Callers, Call
<1>5. Alone' /\ Holds' /\ Calling'
  BY <1>1, <1>2, <1>3, CallersDistinct DEF LInv, Alone, Holds, Between, Calling
<1>6. Pooled' /\ Unmade' /\ Faced' /\ RoutesLeadToPeer'
  BY <1>2 DEF LInv, Pooled, Unmade, Faced, RoutesLeadToPeer
<1> QED BY <1>4, <1>5, <1>6 DEF LInv

LEMMA AcceptKeeps ==
  ASSUME ~Preempts, LInv, Accept
  PROVE  LInv'
<1> DEFINE l == NewLink
<1>1. /\ call \in [Callers -> Call] /\ Rns \in Callers /\ Rns \notin Loop
      /\ call' = [call EXCEPT ![Rns] = [NoCall EXCEPT !.pc = "linked", !.link = l]]
      /\ link' = [link EXCEPT ![l] = "up"]
      /\ UNCHANGED <<ends, hook, pool, idle, nextId, faces, dead, fib, heard, info>>
  BY CallsTyped, CallersDistinct DEF LInv, Accept
<1>2. l \in LinkIds /\ link[l] = "unused"
  BY NewLinkUnused DEF Accept
<1>3. \A u \in Callers : ~Between(u)
  BY NobodyBetween DEF Accept
<1> HIDE DEF l
<1>4. /\ call' \in [Callers -> Call]
      /\ call'[Rns].pc = "linked" /\ call'[Rns].link = l /\ call'[Rns].peer = None
      /\ \A u \in Callers : u # Rns => call'[u] = call[u]
  BY <1>1, <1>2 DEF Call, NoCall
<1>5. /\ link' \in [LinkIds -> {"unused", "up", "closed"}] /\ link'[l] = "up"
      /\ \A k \in LinkIds : k # l => link'[k] = link[k]
  BY <1>1, <1>2 DEF LInv, TypeOK
<1>6. TypeOK'
  BY <1>1, <1>4, <1>5 DEF LInv, TypeOK, Callers, Call
<1>7. Alone' /\ Holds'
  BY <1>1, <1>2, <1>3, <1>4, <1>5 DEF LInv, Alone, Holds, Between, Unmade
<1>8. Calling'
  BY <1>1, <1>4, CallersDistinct DEF LInv, Calling
<1>9. Pooled' /\ Unmade'
  BY <1>1, <1>2, <1>5 DEF LInv, TypeOK, Pooled, Unmade
<1>10. Faced' /\ RoutesLeadToPeer'
  BY <1>1, <1>2, <1>5 DEF LInv, TypeOK, Faced, RoutesLeadToPeer
<1> QED BY <1>6, <1>7, <1>8, <1>9, <1>10 DEF LInv

LEMMA TakeIdKeeps ==
  ASSUME ~Preempts, LInv, NEW s \in Callers, TakeId(s)
  PROVE  LInv'
<1>1. /\ call \in [Callers -> Call] /\ call[s].pc = "linked" /\ nextId \in FaceIds
      /\ call' = [call EXCEPT ![s].pc = "numbered", ![s].id = nextId]
      /\ UNCHANGED <<link, ends, hook, pool, idle, nextId, faces, dead, fib, heard, info>>
  BY CallsTyped DEF LInv, TakeId
<1>2. \A u \in Callers : Between(u) => u = s
  BY NobodyBetween DEF TakeId
<1>3. /\ call' \in [Callers -> Call]
      /\ call'[s].pc = "numbered" /\ call'[s].id = nextId
      /\ call'[s].link = call[s].link /\ call'[s].peer = call[s].peer
      /\ \A u \in Callers : u # s => call'[u] = call[u]
  BY <1>1 DEF Call
<1>4. TypeOK'
  BY <1>1, <1>3 DEF LInv, TypeOK, Callers, Call
<1>5. Alone' /\ Holds'
  BY <1>1, <1>2, <1>3 DEF LInv, Alone, Holds, Between
<1>6. Calling'
  BY <1>1, <1>3, CallersDistinct DEF LInv, Calling
<1>7. Pooled' /\ Unmade' /\ Faced' /\ RoutesLeadToPeer'
  BY <1>1 DEF LInv, Pooled, Unmade, Faced, RoutesLeadToPeer
<1> QED BY <1>4, <1>5, <1>6, <1>7 DEF LInv

(* What making a face changes.                                              *)
LEMMA FaceMade ==
  ASSUME ~Preempts, LInv, NEW s \in Callers, MakeFace(s)
  PROVE  LET c == call[s]
         IN /\ c.link \in LinkIds /\ link[c.link] = "up" /\ ends[c.link] = c.peer
            /\ c.id = nextId /\ nextId \in FaceIds /\ nextId' = nextId + 1
            /\ c.peer \in Peers \cup {None}
            /\ faces' \in [FaceIds -> LinkIds \cup {None}] /\ faces'[nextId] = c.link
            /\ \A f \in FaceIds : f # nextId => faces'[f] = faces[f]
            /\ hook' \in [LinkIds -> FaceIds \cup {None}] /\ hook'[c.link] = nextId
            /\ \A l \in LinkIds : l # c.link => hook'[l] = hook[l]
            /\ info' = Attached(c.peer, nextId) /\ fib' = Installed(c.peer, nextId)
            /\ call' \in [Callers -> Call] /\ call'[s] = NoCall
            /\ \A u \in Callers : u # s => call'[u] = call[u]
            /\ \A u \in Callers : u # s => ~Between(u)
            /\ UNCHANGED <<link, ends, pool, idle, dead, heard, boot>>
<1>1. /\ call \in [Callers -> Call] /\ call[s].pc = "numbered" /\ NoCall \in Call
      /\ call' = [call EXCEPT ![s] = NoCall] /\ nextId' = nextId + 1
      /\ faces' = [faces EXCEPT ![call[s].id] = call[s].link]
      /\ hook' = [hook EXCEPT ![call[s].link] = call[s].id]
      /\ info' = Attached(call[s].peer, call[s].id) /\ fib' = Installed(call[s].peer, call[s].id)
      /\ UNCHANGED <<link, ends, pool, idle, dead, heard, boot>>
  BY CallsTyped DEF LInv, MakeFace, Bumped, NoCall, Call
<1>2. /\ call[s].link \in LinkIds /\ link[call[s].link] = "up"
      /\ ends[call[s].link] = call[s].peer /\ call[s].id = nextId /\ nextId \in FaceIds
  BY <1>1 DEF LInv, Holds, Between
<1>3. \A u \in Callers : u # s => ~Between(u)
  BY NobodyBetween DEF MakeFace
<1>4. faces \in [FaceIds -> LinkIds \cup {None}] /\ hook \in [LinkIds -> FaceIds \cup {None}]
  BY DEF LInv, TypeOK
<1>5. call[s].peer \in Peers \cup {None}
  BY <1>1 DEF Call
<1>6. /\ faces' \in [FaceIds -> LinkIds \cup {None}] /\ faces'[nextId] = call[s].link
      /\ \A f \in FaceIds : f # nextId => faces'[f] = faces[f]
  BY <1>1, <1>2, <1>4
<1>7. /\ hook' \in [LinkIds -> FaceIds \cup {None}] /\ hook'[call[s].link] = nextId
      /\ \A l \in LinkIds : l # call[s].link => hook'[l] = hook[l]
  BY <1>1, <1>2, <1>4
<1>8. /\ call' \in [Callers -> Call] /\ call'[s] = NoCall
      /\ \A u \in Callers : u # s => call'[u] = call[u]
  BY <1>1
<1> QED BY <1>1, <1>2, <1>3, <1>5, <1>6, <1>7, <1>8

LEMMA MakeFaceKeeps ==
  ASSUME ~Preempts, LInv, NEW s \in Callers, MakeFace(s)
  PROVE  LInv'
<1> DEFINE p == call[s].peer
           l == call[s].link
<1>1. /\ l \in LinkIds /\ link[l] = "up" /\ ends[l] = p /\ p \in Peers \cup {None}
      /\ nextId \in FaceIds /\ nextId' = nextId + 1
      /\ faces' \in [FaceIds -> LinkIds \cup {None}] /\ faces'[nextId] = l
      /\ \A f \in FaceIds : f # nextId => faces'[f] = faces[f]
      /\ hook' \in [LinkIds -> FaceIds \cup {None}]
      /\ info' = Attached(p, nextId) /\ fib' = Installed(p, nextId)
      /\ call' \in [Callers -> Call] /\ call'[s] = NoCall
      /\ \A u \in Callers : u # s => call'[u] = call[u]
      /\ \A u \in Callers : u # s => ~Between(u)
      /\ UNCHANGED <<link, ends, pool, idle, dead, heard>>
  BY FaceMade
<1>2. MaxFace \in Nat /\ nextId \in Nat /\ \A f \in FaceIds : f \in Nat
  BY <1>1, RouterAssumption DEF FaceIds
<1>3. nextId' \in 1..(MaxFace + 1)
  BY <1>1, <1>2 DEF FaceIds
<1>4. fib' \subseteq fib \cup ({p} \X {nextId}) /\ fib' \subseteq Peers \X FaceIds
  BY <1>1 DEF Installed, LInv, TypeOK
<1>5. info' \in [Peers -> FaceIds \cup {None}]
  BY <1>1 DEF Attached, LInv, TypeOK
<1> HIDE DEF p, l
<1>6. TypeOK'
  BY <1>1, <1>3, <1>4, <1>5 DEF LInv, TypeOK, Callers, Call
<1>7. Alone' /\ Holds'
  BY <1>1 DEF LInv, Alone, Holds, Between, NoCall
<1>8. Calling'
  BY <1>1, CallersDistinct DEF LInv, Calling, NoCall
<1>9. Pooled' /\ Unmade'
  BY <1>1 DEF LInv, Pooled, Unmade
<1>10. \A r \in fib' : r \in fib \/ (r[1] = p /\ r[2] = nextId)
  BY <1>4
<1>11. Faced'
  <2> SUFFICES ASSUME NEW f \in FaceIds
               PROVE  /\ faces'[f] # None => link[faces'[f]] # "unused"
                      /\ f >= nextId' => faces'[f] = None /\ \A r \in fib' : r[2] # f
    BY <1>1 DEF Faced
  <2>1. faces'[f] # None => link[faces'[f]] # "unused"
    BY <1>1 DEF LInv, Faced
  <2>2. ASSUME f >= nextId' PROVE faces'[f] = None /\ \A r \in fib' : r[2] # f
    <3>1. f >= nextId /\ f # nextId
      BY <1>1, <1>2, <2>2
    <3> QED BY <1>1, <1>10, <3>1 DEF LInv, Faced
  <2> QED BY <2>1, <2>2
<1>12. RoutesLeadToPeer'
  <2> SUFFICES ASSUME NEW r \in fib', faces'[r[2]] # None PROVE ends[faces'[r[2]]] = r[1]
    BY <1>1 DEF RoutesLeadToPeer
  <2>1. r[2] \in FaceIds
    BY <1>4
  <2>2. CASE r[2] = nextId
    <3>1. nextId >= nextId /\ \A x \in fib : x[2] # nextId
      BY <1>1, <1>2 DEF LInv, Faced
    <3> QED BY <1>1, <1>10, <2>2, <3>1
  <2>3. CASE r[2] # nextId
    BY <1>1, <1>10, <2>1, <2>3 DEF LInv, RoutesLeadToPeer
  <2> QED BY <2>2, <2>3
<1> QED BY <1>6, <1>7, <1>8, <1>9, <1>11, <1>12 DEF LInv

-----------------------------------------------------------------------------
(* Links that close, and what else happens.                                 *)

(* A link that is in use goes down: by itself, or because it is idle.       *)
LEMMA LinkDown ==
  ASSUME ~Preempts, LInv, NEW l \in LinkIds, link[l] # "unused",
         link' = [link EXCEPT ![l] = "closed"], dead' = Scheduled(l),
         \A s \in Callers : ~Between(s),
         pool' \in [Peers -> LinkIds \cup {None}],
         \A p \in Peers : pool'[p] = pool[p] \/ pool'[p] = None, idle' \subseteq Peers,
         UNCHANGED <<ends, hook, nextId, faces, fib, heard, info, call>>
  PROVE  LInv'
<1>1. /\ link' \in [LinkIds -> {"unused", "up", "closed"}] /\ link'[l] = "closed"
      /\ \A k \in LinkIds : k # l => link'[k] = link[k]
  BY DEF LInv, TypeOK
<1>2. dead' \subseteq FaceIds
  BY DEF Scheduled, LInv, TypeOK
<1>3. TypeOK'
  BY <1>1, <1>2 DEF LInv, TypeOK
<1>4. Alone' /\ Holds' /\ Calling'
  BY DEF LInv, Alone, Holds, Between, Calling
<1>5. Pooled' /\ Unmade' /\ RoutesLeadToPeer'
  BY <1>1 DEF LInv, TypeOK, Pooled, Unmade, RoutesLeadToPeer
<1>6. Faced'
  BY <1>1 DEF LInv, TypeOK, Faced
<1> QED BY <1>3, <1>4, <1>5, <1>6 DEF LInv

LEMMA DownKeeps ==
  ASSUME ~Preempts, LInv,
         (\E l \in LinkIds : Close(l)) \/ (\E p \in Peers : Monitor(p))
  PROVE  LInv'
<1>1. ASSUME NEW l \in LinkIds, Close(l) PROVE LInv'
  <2>1. \A s \in Callers : ~Between(s)
    BY <1>1, NobodyBetween DEF Close
  <2> QED BY <1>1, <2>1, LinkDown DEF Close, LInv, TypeOK
<1>2. ASSUME NEW p \in Peers, Monitor(p) PROVE LInv'
  <2>1. \A s \in Callers : ~Between(s)
    BY <1>2, NobodyBetween DEF Monitor
  <2>2. pool[p] \in LinkIds /\ link[pool[p]] # "unused"
    BY <1>2 DEF Monitor, LInv, TypeOK, Pooled
  <2>3. /\ pool' \in [Peers -> LinkIds \cup {None}]
        /\ \A q \in Peers : pool'[q] = pool[q] \/ pool'[q] = None
        /\ idle' \subseteq Peers
    BY <1>2 DEF Monitor, LInv, TypeOK
  <2> QED BY <1>2, <2>1, <2>2, <2>3, LinkDown DEF Monitor
<1> QED BY <1>1, <1>2

LEMMA CleanupKeeps ==
  ASSUME ~Preempts, LInv, NEW f \in FaceIds, Cleanup(f)
  PROVE  LInv'
<1>1. /\ dead' \subseteq dead /\ faces' = [faces EXCEPT ![f] = None]
      /\ fib' = {r \in fib : r[2] # f} /\ info' = [p \in Peers |-> IF info[p] = f THEN None ELSE info[p]]
      /\ UNCHANGED <<link, ends, hook, pool, idle, nextId, heard, call>>
  BY DEF Cleanup, Withdrawn, Cleared
<1>2. /\ faces' \in [FaceIds -> LinkIds \cup {None}] /\ faces'[f] = None
      /\ \A g \in FaceIds : g # f => faces'[g] = faces[g]
  BY <1>1 DEF LInv, TypeOK
<1>3. TypeOK'
  BY <1>1, <1>2 DEF LInv, TypeOK
<1>4. Alone' /\ Holds' /\ Calling' /\ Pooled' /\ Unmade'
  BY <1>1 DEF LInv, Alone, Holds, Between, Calling, Pooled, Unmade
<1>5. Faced'
  BY <1>1, <1>2 DEF LInv, Faced
<1>6. RoutesLeadToPeer'
  <2>1. \A r \in fib : r[2] \in FaceIds
    BY DEF LInv, TypeOK
  <2> QED BY <1>1, <1>2, <2>1 DEF LInv, RoutesLeadToPeer
<1> QED BY <1>3, <1>4, <1>5, <1>6 DEF LInv

(* A call that begins, for a peer.                                          *)
LEMMA BeginKeeps ==
  ASSUME ~Preempts, LInv, NEW s \in Loop, NEW p \in Peers, call[s].pc = "idle",
         call' = [call EXCEPT ![s] = [NoCall EXCEPT !.pc = "get", !.peer = p]],
         heard' \subseteq Peers,
         UNCHANGED <<link, ends, hook, pool, idle, nextId, faces, dead, fib, info>>
  PROVE  LInv'
<1>1. call \in [Callers -> Call] /\ s \in Callers /\ s # Rns
  BY CallsTyped, CallersDistinct DEF LInv
<1>2. /\ call' \in [Callers -> Call] /\ call'[s].pc = "get" /\ call'[s].peer = p
      /\ \A u \in Callers : u # s => call'[u] = call[u]
  BY <1>1 DEF NoCall, Call
<1>3. TypeOK'
  BY <1>2 DEF LInv, TypeOK, Callers, Call
<1>4. Alone' /\ Holds'
  BY <1>2 DEF LInv, Alone, Holds, Between
<1>5. Calling'
  BY <1>1, <1>2, CallersDistinct DEF LInv, Calling
<1>6. Pooled' /\ Unmade' /\ Faced' /\ RoutesLeadToPeer'
  BY DEF LInv, Pooled, Unmade, Faced, RoutesLeadToPeer
<1> QED BY <1>3, <1>4, <1>5, <1>6 DEF LInv

(* Nothing that matters to links and faces happens.                         *)
LEMMA IdleKeeps ==
  ASSUME LInv, idle' \subseteq Peers, heard' \subseteq Peers,
         UNCHANGED <<link, ends, hook, pool, nextId, faces, dead, fib, info, call>>
  PROVE  LInv'
BY DEF LInv, TypeOK, Alone, Holds, Between, Calling, Pooled, Unmade, Faced, RoutesLeadToPeer

LEMMA LinksInit == Init => LInv
<1> SUFFICES ASSUME Init PROVE LInv
  OBVIOUS
<1>1. 1 \in 1..(MaxFace + 1)
  BY RouterAssumption
<1>2. call = [s \in Callers |-> NoCall] /\ NoCall \in Call
  BY DEF Init, NoCall, Call, Callers
<1>3. TypeOK
  BY <1>1, <1>2, RouterAssumption DEF Init, TypeOK, Callers, Call
<1>4. Alone /\ Holds /\ Calling
  BY <1>2, CallersDistinct DEF Alone, Holds, Between, Calling, NoCall
<1>5. Pooled /\ Unmade /\ Faced /\ RoutesLeadToPeer
  BY DEF Init, Pooled, Unmade, Faced, RoutesLeadToPeer
<1> QED BY <1>3, <1>4, <1>5 DEF LInv

LEMMA BootingInit == Init => Booting
<1> SUFFICES ASSUME Init PROVE boot \in Seq(Peers)
  BY DEF Booting
<1>1. Cardinality(Peers) \in Nat
  BY RouterAssumption, FS_CardinalityType
<1> QED BY <1>1 DEF Init

(* Only Boot touches the list of peers to connect to, and takes its head.   *)
LEMMA BootList ==
  ASSUME [Next]_vars
  PROVE  UNCHANGED boot \/ (Boot /\ boot # <<>> /\ boot' = Tail(boot))
<1>1. ASSUME NEW s, GetLink(s) \/ Created(s) \/ NotCreated(s) \/ TakeId(s) \/ MakeFace(s)
      PROVE  UNCHANGED boot
  BY <1>1 DEF GetLink, Created, NotCreated, TakeId, MakeFace
<1>2. ASSUME NEW p, Announce(p) \/ Age(p) \/ Monitor(p) PROVE UNCHANGED boot
  BY <1>2 DEF Announce, Age, Monitor
<1>3. ASSUME NEW x, Accept \/ Close(x) \/ Cleanup(x) PROVE UNCHANGED boot
  BY <1>3 DEF Accept, Close, Cleanup
<1>4. CASE Boot
  BY <1>4 DEF Boot
<1>5. CASE UNCHANGED vars
  BY <1>5 DEF vars
<1> QED BY <1>1, <1>2, <1>3, <1>4, <1>5 DEF Next

LEMMA LinksNext == ~Preempts /\ LInv /\ Booting /\ [Next]_vars => LInv' /\ Booting'
<1> SUFFICES ASSUME ~Preempts, LInv, Booting, [Next]_vars PROVE LInv' /\ Booting'
  OBVIOUS
<1>0. Booting'
  BY BootList DEF Booting
<1> SUFFICES LInv'
  BY <1>0
<1>1. heard \subseteq Peers /\ idle \subseteq Peers
  BY DEF LInv, TypeOK
<1>2. CASE Boot
  <2>1. Head(boot) \in Peers
    BY <1>2 DEF Boot, Booting
  <2> QED BY <1>1, <1>2, <2>1, CallersDistinct, BeginKeeps DEF Boot
<1>3. ASSUME NEW s \in Loop, GetLink(s) \/ Created(s) \/ NotCreated(s) PROVE LInv'
  BY <1>3, GetLinkKeeps, CreatedKeeps, NotCreatedKeeps
<1>4. ASSUME NEW s \in Callers, TakeId(s) \/ MakeFace(s) PROVE LInv'
  BY <1>4, TakeIdKeeps, MakeFaceKeeps
<1>5. ASSUME NEW p \in Peers, Announce(p) PROVE LInv'
  <2>1. heard' \subseteq Peers /\ UNCHANGED <<link, ends, hook, pool, idle, nextId, faces, dead, fib, info>>
    BY <1>1, <1>5 DEF Announce
  <2>2. CASE UNCHANGED call
    BY <1>1, <2>1, <2>2, IdleKeeps
  <2>3. ASSUME NEW s \in Slots, call[s].pc = "idle",
               call' = [call EXCEPT ![s] = [NoCall EXCEPT !.pc = "get", !.peer = p]]
        PROVE  LInv'
    BY <2>1, <2>3, CallersDistinct, BeginKeeps
  <2> QED BY <1>5, <2>2, <2>3 DEF Announce
<1>6. ASSUME NEW p \in Peers, Age(p) PROVE LInv'
  BY <1>1, <1>6, IdleKeeps DEF Age
<1>7. CASE UNCHANGED vars
  BY <1>1, <1>7, IdleKeeps DEF vars
<1> QED BY <1>2, <1>3, <1>4, <1>5, <1>6, <1>7, AcceptKeeps, DownKeeps, CleanupKeeps DEF Next, Callers

(* A route leads to its peer as long as no thread of RNS comes in between a *)
(* link and its face (_new_face, _make_link_face, _install_peer_route).     *)
THEOREM RoutesFitPeers ==
  ASSUME ~Preempts
  PROVE  Spec => []RoutesLeadToPeer
<1>1. LInv => RoutesLeadToPeer
  BY DEF LInv
<1>2. LInv /\ Booting /\ [Next]_vars => LInv' /\ Booting'
  BY LinksNext
<1> QED BY <1>1, <1>2, LinksInit, BootingInit, PTL DEF Spec

-----------------------------------------------------------------------------
(* Links that are gone.  What the steps that are not about faces leave      *)
(* alone.                                                                   *)

Watched == Hooked /\ OnlySupersededOutlives /\ AttachedIsLinked

LEMMA StaysWatched ==
  ASSUME WInv, UNCHANGED <<fib, info, faces, hook, dead, nextId>>, heard \subseteq heard',
         \A l \in LinkIds : link[l] # "unused" => link'[l] = link[l] /\ ends'[l] = ends[l]
  PROVE  Watched'
<1>1. /\ faces \in [FaceIds -> LinkIds \cup {None}] /\ info \in [Peers -> FaceIds \cup {None}]
      /\ \A r \in fib : r[2] \in FaceIds
  BY DEF WInv, LInv, TypeOK
<1>2. \A f \in FaceIds : faces[f] # None =>
        link'[faces[f]] = link[faces[f]] /\ ends'[faces[f]] = ends[faces[f]]
  BY <1>1 DEF WInv, LInv, Faced
<1>3. Hooked'
  BY DEF WInv, Hooked
<1>4. OnlySupersededOutlives'
  BY <1>1, <1>2 DEF WInv, OnlySupersededOutlives
<1>5. AttachedIsLinked'
  BY <1>1, <1>2 DEF WInv, AttachedIsLinked
<1> QED BY <1>3, <1>4, <1>5 DEF Watched

(* A call begins, makes progress without its face or ends, a link is made,  *)
(* a peer is heard of, time passes.                                         *)
LEMMA ProgressWatched ==
  ASSUME ~Preempts, WInv,
         \/ Boot \/ Accept \/ UNCHANGED vars
         \/ \E s \in Loop : GetLink(s) \/ Created(s) \/ NotCreated(s)
         \/ \E s \in Callers : TakeId(s)
         \/ \E p \in Peers : Age(p) \/ Announce(p)
  PROVE  Watched'
<1>1. UNCHANGED <<fib, info, faces, hook, dead, nextId>> /\ heard \subseteq heard'
  BY DEF Boot, GetLink, Created, NotCreated, TakeId, Age, Announce, Accept, vars
<1>2. \A l \in LinkIds : link[l] # "unused" => link'[l] = link[l] /\ ends'[l] = ends[l]
  <2>1. /\ link \in [LinkIds -> {"unused", "up", "closed"}]
        /\ ends \in [LinkIds -> Peers \cup {None}]
    BY DEF WInv, LInv, TypeOK
  <2>2. CASE Accept
    <3>1. /\ NewLink \in LinkIds /\ link[NewLink] = "unused"
          /\ link' = [link EXCEPT ![NewLink] = "up"] /\ UNCHANGED ends
      BY <2>2, NewLinkUnused DEF Accept
    <3> HIDE DEF NewLink
    <3> QED BY <2>1, <3>1
  <2>3. ASSUME NEW s \in Loop, Created(s)
        PROVE  \A l \in LinkIds : link[l] # "unused" => link'[l] = link[l] /\ ends'[l] = ends[l]
    <3>1. /\ NewLink \in LinkIds /\ link[NewLink] = "unused"
          /\ link' = [link EXCEPT ![NewLink] = "up"]
          /\ ends' = [ends EXCEPT ![NewLink] = call[s].peer]
      BY <2>3, NewLinkUnused DEF Created
    <3> HIDE DEF NewLink
    <3> QED BY <2>1, <3>1
  <2>4. UNCHANGED <<link, ends>> \/ Accept \/ \E s \in Loop : Created(s)
    BY DEF Boot, GetLink, NotCreated, TakeId, Age, Announce, vars
  <2> QED BY <2>2, <2>3, <2>4
<1> QED BY <1>1, <1>2, StaysWatched

(* A face is made on a link that is up, and takes its callback over: every  *)
(* other face of the link is an older one, and of the same peer.            *)
LEMMA FaceWatched ==
  ASSUME ~Preempts, WInv, NEW s \in Callers, MakeFace(s)
  PROVE  Watched'
<1> DEFINE p == call[s].peer
           l == call[s].link
<1>1. /\ l \in LinkIds /\ link[l] = "up" /\ ends[l] = p /\ p \in Peers \cup {None}
      /\ nextId \in FaceIds /\ nextId' = nextId + 1
      /\ faces'[nextId] = l
      /\ \A f \in FaceIds : f # nextId => faces'[f] = faces[f]
      /\ hook'[l] = nextId /\ \A k \in LinkIds : k # l => hook'[k] = hook[k]
      /\ info' = Attached(p, nextId) /\ fib' = Installed(p, nextId)
      /\ UNCHANGED <<link, ends, dead, heard, boot>>
  BY FaceMade DEF WInv
<1>2. None \notin Peers /\ None \notin LinkIds /\ None \notin FaceIds
  BY RouterAssumption
<1>3. /\ info \in [Peers -> FaceIds \cup {None}] /\ faces \in [FaceIds -> LinkIds \cup {None}]
      /\ fib \subseteq Peers \X FaceIds /\ hook \in [LinkIds -> FaceIds \cup {None}]
  BY DEF WInv, LInv, TypeOK
<1>4. MaxFace \in Nat /\ nextId \in Nat /\ \A f \in FaceIds : f \in Nat
  BY <1>1, RouterAssumption DEF FaceIds
<1> HIDE DEF p, l
<1>5. \A q \in Peers : info'[q] = info[q] \/ (q = p /\ info'[q] = nextId /\ q \in heard)
  BY <1>1, <1>3 DEF Attached
<1>6. p \in heard /\ p \in Peers => info'[p] = nextId
  BY <1>1, <1>3 DEF Attached
<1>7. \A r \in fib' : r \in fib \/ r[2] = nextId
  BY <1>1 DEF Installed
<1>8. ASSUME NEW f \in FaceIds, faces[f] # None \/ \E r \in fib : r[2] = f
      PROVE  f < nextId /\ f # nextId /\ faces'[f] = faces[f]
  <2>1. ~(f >= nextId)
    BY <1>8 DEF WInv, LInv, Faced
  <2> QED BY <1>1, <1>4, <2>1
<1>9. ASSUME NEW r \in fib
      PROVE  /\ r[2] \in FaceIds /\ r[2] < nextId /\ faces'[r[2]] = faces[r[2]]
             /\ faces[r[2]] \in LinkIds /\ hook[faces[r[2]]] \in FaceIds
             /\ hook[faces[r[2]]] >= r[2]
  BY <1>3, <1>8 DEF WInv, Hooked
<1>10. ASSUME NEW q \in Peers, info[q] # None
       PROVE  /\ info[q] \in FaceIds /\ q \in heard
              /\ faces[info[q]] \in LinkIds /\ ends[faces[info[q]]] = q
              /\ hook[faces[info[q]]] = info[q]
              /\ link[faces[info[q]]] = "up" \/ info[q] \in dead
              /\ faces'[info[q]] = faces[info[q]]
  BY <1>3, <1>8, <1>10 DEF WInv, Hooked, AttachedIsLinked
<1>11. ASSUME NEW q \in Peers, info'[q] # None
       PROVE  /\ q \in heard /\ hook'[faces'[info'[q]]] = info'[q]
              /\ faces'[info'[q]] # None /\ ends[faces'[info'[q]]] = q
              /\ link[faces'[info'[q]]] = "up" \/ info'[q] \in dead
  <2>1. CASE q = p /\ q \in heard
    BY <1>1, <1>2, <1>6, <2>1
  <2>2. CASE ~(q = p /\ q \in heard)
    <3>1. info'[q] = info[q] /\ info[q] # None
      BY <1>5, <1>11, <2>2
    <3>2. q # p /\ faces[info[q]] # l
      BY <1>1, <1>10, <2>2, <3>1
    <3> QED BY <1>1, <1>2, <1>10, <3>1, <3>2
  <2> QED BY <2>1, <2>2
<1>12. AttachedIsLinked'
  BY <1>1, <1>11 DEF AttachedIsLinked
<1>13. Hooked'
  <2>1. \A k \in LinkIds : hook'[k] # None => hook'[k] < nextId'
    <3> SUFFICES ASSUME NEW k \in LinkIds, hook'[k] # None PROVE hook'[k] < nextId'
      OBVIOUS
    <3>1. CASE k = l
      BY <1>1, <1>4, <3>1
    <3>2. CASE k # l
      <4>1. hook'[k] = hook[k] /\ hook[k] \in FaceIds /\ hook[k] < nextId
        BY <1>1, <1>3, <3>2 DEF WInv, Hooked
      <4>2. hook[k] \in Nat /\ nextId' = nextId + 1
        BY <1>1, <1>4, <4>1
      <4> QED BY <1>4, <4>1, <4>2
    <3> QED BY <3>1, <3>2
  <2>2. ASSUME NEW r \in fib'
        PROVE  /\ faces'[r[2]] # None /\ hook'[faces'[r[2]]] # None
               /\ hook'[faces'[r[2]]] >= r[2]
    <3>1. CASE r[2] = nextId
      BY <1>1, <1>2, <1>4, <3>1
    <3>2. CASE r \in fib /\ faces[r[2]] = l
      <4>1. faces'[r[2]] = l /\ hook'[l] = nextId /\ r[2] < nextId /\ r[2] \in FaceIds
        BY <1>1, <1>9, <3>2
      <4>2. r[2] \in Nat /\ nextId # None /\ l # None
        BY <1>1, <1>2, <1>4, <4>1
      <4> QED BY <1>4, <4>1, <4>2
    <3>3. CASE r \in fib /\ faces[r[2]] # l
      BY <1>1, <1>2, <1>9, <3>3
    <3> QED BY <1>7, <3>1, <3>2, <3>3
  <2> QED BY <1>1, <1>11, <2>1, <2>2 DEF Hooked
<1>14. OnlySupersededOutlives'
  <2> SUFFICES ASSUME NEW r \in fib'
               PROVE  /\ faces'[r[2]] # None
                      /\ link[faces'[r[2]]] = "closed" =>
                           r[2] \in dead \/ hook'[faces'[r[2]]] > r[2]
    BY <1>1 DEF OnlySupersededOutlives
  <2>1. CASE r[2] = nextId
    BY <1>1, <1>2, <2>1
  <2>2. CASE r \in fib
    <3>1. link[faces[r[2]]] = "closed" => r[2] \in dead \/ hook[faces[r[2]]] > r[2]
      BY <2>2 DEF WInv, OnlySupersededOutlives
    <3> QED BY <1>1, <1>2, <1>9, <2>2, <3>1
  <2> QED BY <1>7, <2>1, <2>2
<1> QED BY <1>12, <1>13, <1>14 DEF Watched

(* A link goes down, and the last face made on it is scheduled.             *)
LEMMA DownWatched ==
  ASSUME WInv, NEW l \in LinkIds, link[l] # "unused",
         link' = [link EXCEPT ![l] = "closed"], dead' = Scheduled(l),
         UNCHANGED <<ends, hook, nextId, faces, fib, heard, info>>
  PROVE  Watched'
<1>1. /\ link'[l] = "closed" /\ \A k \in LinkIds : k # l => link'[k] = link[k]
      /\ link[l] \in {"up", "closed"}
      /\ info \in [Peers -> FaceIds \cup {None}] /\ faces \in [FaceIds -> LinkIds \cup {None}]
      /\ hook \in [LinkIds -> FaceIds \cup {None}]
      /\ \A r \in fib : r[2] \in FaceIds
      /\ dead \subseteq dead'
  BY DEF WInv, LInv, TypeOK, Scheduled
<1>2. Hooked'
  BY DEF WInv, Hooked
<1>3. link[l] = "up" /\ hook[l] # None => hook[l] \in dead'
  BY DEF Scheduled
<1>4. OnlySupersededOutlives'
  <2> SUFFICES ASSUME NEW r \in fib
               PROVE  /\ faces[r[2]] # None
                      /\ link'[faces[r[2]]] = "closed" =>
                           r[2] \in dead' \/ hook[faces[r[2]]] > r[2]
    BY DEF OnlySupersededOutlives
  <2>1. /\ faces[r[2]] # None /\ faces[r[2]] \in LinkIds /\ r[2] \in FaceIds
        /\ hook[faces[r[2]]] # None /\ hook[faces[r[2]]] \in FaceIds
        /\ hook[faces[r[2]]] >= r[2]
    BY <1>1 DEF WInv, Hooked
  <2>2. link[faces[r[2]]] = "closed" => r[2] \in dead \/ hook[faces[r[2]]] > r[2]
    BY DEF WInv, OnlySupersededOutlives
  <2>3. CASE faces[r[2]] = l /\ link[l] = "up"
    <3>1. hook[l] = r[2] \/ hook[l] > r[2]
      BY <2>1, <2>3 DEF FaceIds
    <3> QED BY <1>3, <2>1, <2>3, <3>1
  <2>4. CASE ~(faces[r[2]] = l /\ link[l] = "up")
    BY <1>1, <2>1, <2>2, <2>4
  <2> QED BY <2>3, <2>4
<1>5. AttachedIsLinked'
  <2> SUFFICES ASSUME NEW p \in Peers, info[p] # None
               PROVE  /\ faces[info[p]] # None /\ ends[faces[info[p]]] = p
                      /\ link'[faces[info[p]]] = "up" \/ info[p] \in dead'
    BY DEF AttachedIsLinked
  <2>1. /\ faces[info[p]] # None /\ ends[faces[info[p]]] = p
        /\ link[faces[info[p]]] = "up" \/ info[p] \in dead
        /\ hook[faces[info[p]]] = info[p] /\ faces[info[p]] \in LinkIds
    BY <1>1 DEF WInv, AttachedIsLinked, Hooked
  <2> QED BY <1>1, <1>3, <2>1
<1> QED BY <1>2, <1>4, <1>5 DEF Watched

LEMMA DownsWatched ==
  ASSUME WInv, (\E l \in LinkIds : Close(l)) \/ (\E p \in Peers : Monitor(p))
  PROVE  Watched'
<1>1. ASSUME NEW l \in LinkIds, Close(l) PROVE Watched'
  BY <1>1, DownWatched DEF Close
<1>2. ASSUME NEW p \in Peers, Monitor(p) PROVE Watched'
  <2>1. pool[p] \in LinkIds /\ link[pool[p]] # "unused"
    BY <1>2 DEF Monitor, WInv, LInv, TypeOK, Pooled
  <2> QED BY <1>2, <2>1, DownWatched DEF Monitor
<1> QED BY <1>1, <1>2

LEMMA CleanupWatched ==
  ASSUME WInv, NEW f \in FaceIds, Cleanup(f)
  PROVE  Watched'
<1>1. /\ dead' = dead \ {f} /\ faces' = [faces EXCEPT ![f] = None]
      /\ fib' = {r \in fib : r[2] # f} /\ info' = [p \in Peers |-> IF info[p] = f THEN None ELSE info[p]]
      /\ UNCHANGED <<link, ends, hook, nextId, heard>>
  BY DEF Cleanup, Withdrawn, Cleared
<1>2. \A g \in FaceIds : g # f => faces'[g] = faces[g]
  BY <1>1 DEF WInv, LInv, TypeOK
<1>3. /\ \A r \in fib : r[2] \in FaceIds
      /\ info \in [Peers -> FaceIds \cup {None}]
  BY DEF WInv, LInv, TypeOK
<1>4. \A p \in Peers : info'[p] # None => info'[p] = info[p] /\ info[p] # f /\ info[p] \in FaceIds
  BY <1>1, <1>3
<1>5. Hooked'
  <2>1. \A r \in fib' : r \in fib /\ faces'[r[2]] = faces[r[2]]
    BY <1>1, <1>2, <1>3
  <2>2. \A p \in Peers : info'[p] # None => p \in heard /\ hook[faces'[info'[p]]] = info'[p]
    BY <1>2, <1>4 DEF WInv, Hooked
  <2>3. /\ \A l \in LinkIds : hook[l] # None => hook[l] < nextId
        /\ \A r \in fib : faces[r[2]] # None /\ hook[faces[r[2]]] # None /\ hook[faces[r[2]]] >= r[2]
    BY DEF WInv, Hooked
  <2> QED BY <1>1, <2>1, <2>2, <2>3 DEF Hooked
<1>6. OnlySupersededOutlives'
  BY <1>1, <1>2, <1>3 DEF WInv, OnlySupersededOutlives
<1>7. AttachedIsLinked'
  BY <1>1, <1>2, <1>4 DEF WInv, AttachedIsLinked
<1> QED BY <1>5, <1>6, <1>7 DEF Watched

LEMMA WatchedInit == Init => WInv
<1> SUFFICES ASSUME Init PROVE WInv
  OBVIOUS
<1>1. LInv /\ Booting
  BY LinksInit, BootingInit
<1>2. hook = [l \in LinkIds |-> None] /\ info = [p \in Peers |-> None] /\ fib = {}
  BY DEF Init
<1> QED BY <1>1, <1>2 DEF WInv, Hooked, OnlySupersededOutlives, AttachedIsLinked

LEMMA WatchedNext == ~Preempts /\ WInv /\ [Next]_vars => WInv'
<1> SUFFICES ASSUME ~Preempts, WInv, [Next]_vars PROVE WInv'
  OBVIOUS
<1>1. LInv' /\ Booting'
  BY LinksNext DEF WInv
<1>2. Watched'
  BY ProgressWatched, FaceWatched, DownsWatched, CleanupWatched DEF Next, Callers
<1> QED BY <1>1, <1>2 DEF WInv, Watched

(* A route outlives its link, once the loop has run what the closing        *)
(* scheduled, only if a later face of the same link took its closed-callback*)
(* over (_make_link_face, _on_face_closed, _cleanup_closed_face), whoever   *)
(* was heard of when and however connect calls overlap, as long as no       *)
(* thread of RNS comes in between a link and its face.                      *)
THEOREM DeadRoutesWithdrawn ==
  ASSUME ~Preempts
  PROVE  Spec => []OnlySupersededOutlives
<1>1. WInv => OnlySupersededOutlives
  BY DEF WInv
<1>2. WInv /\ [Next]_vars => WInv'
  BY WatchedNext
<1> QED BY <1>1, <1>2, WatchedInit, PTL DEF Spec

(* A peer that discovery takes for linked (update_peer_face, clear_face) is *)
(* linked, or the closing of that link is about to be noticed, so that its  *)
(* next announce is the signal to reconnect; under the same condition.      *)
THEOREM AttachedPeersLinked ==
  ASSUME ~Preempts
  PROVE  Spec => []AttachedIsLinked
<1>1. WInv => AttachedIsLinked
  BY DEF WInv
<1>2. WInv /\ [Next]_vars => WInv'
  BY WatchedNext
<1> QED BY <1>1, <1>2, WatchedInit, PTL DEF Spec

=============================================================================
