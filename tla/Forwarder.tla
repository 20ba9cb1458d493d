----------------------------- MODULE Forwarder -----------------------------
(***************************************************************************)
(* The forwarding engine of one node (rns_icn/forwarder.py with pit.py,     *)
(* fib.py and strategy.py).  A thread is one call of Forwarder.express, or  *)
(* the background refresh of a stale name.  An action is what the asyncio   *)
(* loop runs between two suspensions: a thread runs until it parks on a     *)
(* future, and resumes in a later step, so other threads and incoming       *)
(* packets come between a future's resolution and its thread's resumption.  *)
(*                                                                          *)
(* The Content Store is abstracted to one slot per name (ContentStore.tla   *)
(* has the detail): a slot ages from fresh to stale (inside the             *)
(* stale-while-revalidate window) to old, and may be forgotten at any time  *)
(* by expiry, eviction or invalidation.  Upstream nodes are the environment:*)
(* they answer an Interest they were sent at most once, with Data or a      *)
(* NACK, at any time or never.                                              *)
(***************************************************************************)
EXTENDS Fib, PitOps

CONSTANTS
  InFaces,      \* where Interests come from
  Nonces,       \* Interest nonces
  Seqs,         \* sequence numbers of Data; None stands for "unsequenced"
  Tasks,        \* calls of express
  Requests,     \* the Interests that may be expressed
  Contents,     \* the [name, seq] that upstream nodes may send
  Pushed,       \* the Contents that arrive unsolicited on a trusted flow
  Stray,        \* the Contents that arrive unsolicited and untrusted
  Routes,       \* [prefix, face, cost] that may be installed
  Unstable,     \* faces whose link may close
  Perishable,   \* names whose copies go stale, expire or are evicted in time
  Cancellable,  \* tasks whose caller may give up (ICNClient's outer wait_for)
  Sweeps,       \* the node runs the periodic PIT sweep (servers do)
  Swr,          \* stale-while-revalidate is configured
  PitMax, NonceMax, NonceTtl,
  BackoffBase, MaxBackoff,
  LastStart,    \* bound: no Interest is expressed later
  Horizon,      \* bound: the clock stops here
  None

Pins     == Seqs \cup {None}
Selector == {"none", "latest", "oldest"}

(* An Interest: "pin" is the content-hash suffix (the edition's number),    *)
(* "floor" the selector's min_sequence, None when absent.                   *)
Interest ==
  [name : Names, pin : Pins, prefix : BOOLEAN, fresh : BOOLEAN,
   child : Selector, floor : Nat \cup {None}, nonce : Nonces, inface : InFaces,
   hops : Nat, life : Nat]

(* Data as it is handed to a consumer.                                      *)
Packet == [name : Names, seq : Seqs \cup {None}, fresh : BOOLEAN]

(* The background refreshes, at most one per Interest name (pin included).  *)
Refreshers == IF Swr THEN {<<r.name, r.pin>> : r \in Requests} ELSE {}
Threads    == Tasks \cup Refreshers

ASSUME ForwarderAssumption ==
  /\ Seqs \subseteq Nat
  /\ Requests \subseteq Interest
  /\ Contents \subseteq [name : Names, seq : Seqs \cup {None}]
  /\ Pushed \subseteq Contents /\ Stray \subseteq Contents
  /\ Routes \subseteq [prefix : Names, face : Faces, cost : Costs]
  /\ Unstable \subseteq Faces /\ Perishable \subseteq Names /\ Cancellable \subseteq Tasks
  /\ Sweeps \in BOOLEAN /\ Swr \in BOOLEAN
  /\ PitMax \in Nat \ {0} /\ NonceMax \in Nat \ {0} /\ NonceTtl \in Nat
  /\ BackoffBase \in Nat /\ MaxBackoff \in Nat
  /\ LastStart \in Nat /\ Horizon \in Nat
  /\ None \notin Packet \cup Faces \cup Interest
  /\ Tasks \cap Refreshers = {}

VARIABLES
  now,      \* the clock, in ticks
  link,     \* Faces -> "new" | "up" | "down" (Forwarder._faces holds the up)
  pit,      \* set of PIT entries
  nonces,   \* set of [face, nonce, expires]
  cs,       \* Names -> [seq, age]
  fails,    \* Faces -> [count, at] (BestRoute._failures)
  notif,    \* Names -> threads whose pending future is in _pit_notifiers
  net,      \* [face, name, prefix] sent upstream and not yet answered
  pc,       \* Threads -> "idle" | "scheduled" | "waiting" | "forwarding" | "done"
  req,      \* Threads -> the Interest, or None
  plan,     \* Threads -> the hop list found at decision time
  left,     \* Threads -> candidates of the plan not tried yet
  out,      \* Threads -> the face the thread waits for, or None
  dl,       \* Threads -> when its wait_for expires
  fut,      \* Threads -> "pending" | "data" | "nack", its future
  got       \* Threads -> the Data of its future or its answer, or None

tables  == <<fib, link, nonces, cs, fails>>
threads == <<pc, req, plan, left, out, dl, fut, got>>
vars    == <<now, tables, pit, notif, net, threads>>

-----------------------------------------------------------------------------
(* Strategy (rns_icn/strategy.py, BestRoute).                               *)

Least(a, b) == IF a <= b THEN a ELSE b

Backoff(count) == Least(BackoffBase * 2^count, MaxBackoff)

(* consecutive_failures beyond 6 count as 6, so the model stops there.      *)
InBackoff(f) ==
  fails[f].count > 0 /\ now - fails[f].at < Backoff(fails[f].count)

RecordFailure(f) ==
  fails' = [fails EXCEPT ![f] = [count |-> Least(@.count + 1, 6), at |-> now]]

RecordSuccess(f) == fails' = [fails EXCEPT ![f] = [count |-> 0, at |-> 0]]

HopFaces(hops) == {hops[i].face : i \in DOMAIN hops}
UsableFaces(hops) == {f \in HopFaces(hops) : ~InBackoff(f)}

(* The member of S that comes first in the cost order of the list.          *)
FirstOf(hops, S) ==
  CHOOSE f \in S : \A g \in S : Position(hops, f) <= Position(hops, g)

SequenceSatisfied(r, p) == r.floor # None => p.seq # None /\ p.seq >= r.floor

SelectorSatisfied(r, p) == (r.fresh => p.fresh) /\ SequenceSatisfied(r, p)

-----------------------------------------------------------------------------
(* The Content Store as express sees it.                                    *)

Stored == {n \in Names : cs[n].age # "none"}

CachedPacket(n) == [name |-> n, seq |-> cs[n].seq, fresh |-> cs[n].age = "fresh"]

GetExactUnpinned(r) == {n \in Stored : n = r.name}   \* faulty: the pin is ignored

GetExact(r) ==
  {n \in Stored : n = r.name /\ (r.pin = None \/ r.pin = cs[n].seq)}

(* Without a child selector the newest row wins and min_sequence is not     *)
(* looked at; with one only sequenced rows at or above the floor compete.   *)
GetPrefix(r) ==
  LET under == {n \in Stored : r.pin = None /\ StartsWith(n, r.name)}
      ranked == {n \in under : cs[n].seq # None /\ (r.floor # None => cs[n].seq >= r.floor)}
  IN CASE r.child = "none"   -> under
       [] r.child = "latest" -> {n \in ranked : \A m \in ranked : cs[m].seq <= cs[n].seq}
       [] r.child = "oldest" -> {n \in ranked : \A m \in ranked : cs[n].seq <= cs[m].seq}

(* The sequence-walk rule: an OLDEST hit above the floor may hide older     *)
(* editions held elsewhere and is not used.                                 *)
WalkGap(r, n) == r.child = "oldest" /\ r.floor # None /\ cs[n].seq # r.floor

CsHits(r) == IF r.prefix THEN {n \in GetPrefix(r) : ~WalkGap(r, n)} ELSE GetExact(r)

CsMiss(r) ==
  CsHits(r) = {} \/ \E n \in CsHits(r) : ~SelectorSatisfied(r, CachedPacket(n))

-----------------------------------------------------------------------------
(* How a call of express or of _forward ends, parks, or moves on.           *)

(* The thread returns: a task keeps its answer, a refresher ignores it and  *)
(* may be scheduled again.                                                  *)
Ends(t, r, answer) ==
  /\ pc'   = [pc EXCEPT ![t] = IF t \in Tasks THEN "done" ELSE "idle"]
  /\ req'  = [req EXCEPT ![t] = IF t \in Tasks THEN r ELSE None]
  /\ got'  = [got EXCEPT ![t] = IF t \in Tasks THEN answer ELSE None]
  /\ plan' = [plan EXCEPT ![t] = <<>>]
  /\ left' = [left EXCEPT ![t] = {}]
  /\ out'  = [out EXCEPT ![t] = None]
  /\ dl'   = [dl EXCEPT ![t] = 0]
  /\ fut'  = [fut EXCEPT ![t] = "pending"]

(* A new future for the thread is appended to the notifiers of its name and *)
(* the thread waits for it no longer than the Interest's lifetime.          *)
Parks(t, r, state, hops, rest, face) ==
  /\ pc'    = [pc EXCEPT ![t] = state]
  /\ req'   = [req EXCEPT ![t] = r]
  /\ got'   = [got EXCEPT ![t] = None]
  /\ plan'  = [plan EXCEPT ![t] = hops]
  /\ left'  = [left EXCEPT ![t] = rest]
  /\ out'   = [out EXCEPT ![t] = face]
  /\ dl'    = [dl EXCEPT ![t] = now + r.life]
  /\ fut'   = [fut EXCEPT ![t] = "pending"]

PitEntry(t, r) ==
  [name |-> r.name, prefix |-> r.prefix, expires |-> now + r.life, owner |-> t]

(* The candidates that are registered faces when they are tried.            *)
UpFaces(S) == {f \in S : link[f] = "up"}

(* _forward's loop over the candidates S, entered with PIT p and notifiers  *)
(* w: a candidate whose face is gone makes _forward_one insert and remove   *)
(* the PIT entry of the name (once is as good as many times), the first     *)
(* one whose face is registered is sent the Interest.                       *)
TryFaces(t, r, hops, S, p, w) ==
  LET up    == UpFaces(S)
      first == FirstOf(hops, up)
      gone  == {f \in S \ up : up = {} \/ FirstOf(hops, {f, first}) = f}
      after == IF gone = {}
                 THEN {p}
                 ELSE {PitRemove(q, r.name) : q \in InsertOrAggregate(p, PitEntry(t, r), PitMax)}
  IN \/ /\ up = {}
        /\ pit' \in after
        /\ notif' = w
        /\ Ends(t, r, None)
        /\ UNCHANGED net
     \/ /\ up # {}
        /\ \E q \in after : pit' \in InsertOrAggregate(q, PitEntry(t, r), PitMax)
        /\ notif' = [w EXCEPT ![r.name] = @ \cup {t}]
        /\ net' = net \cup {[face |-> first, name |-> r.name, prefix |-> r.prefix]}
        /\ Parks(t, r, "forwarding", hops, {f \in S : f # first /\ f \notin gone}, first)

-----------------------------------------------------------------------------
(* Forwarder.express, one action per outcome.                               *)

(* An Interest is taken by an idle task and has not been seen before.       *)
Arrives(t, r) ==
  /\ pc[t] = "idle"
  /\ now <= LastStart
  /\ ~CheckLoop(nonces, r.inface, r.nonce)
  /\ nonces' \in RecordNonce(nonces,
                   [face |-> r.inface, nonce |-> r.nonce, expires |-> now + NonceTtl],
                   NonceMax)
  /\ UNCHANGED <<now, link, fib, cs, fails>>

DropLoop(t, r) ==
  /\ pc[t] = "idle"
  /\ now <= LastStart
  /\ CheckLoop(nonces, r.inface, r.nonce)
  /\ Ends(t, r, None)
  /\ UNCHANGED <<now, tables, pit, notif, net>>

Revalidates(r, n) == Swr /\ cs[n].age = "stale" /\ UsableFaces(FibLookup(fib, r.name)) # {}

ServeFromCache(t, r) ==
  /\ Arrives(t, r)
  /\ \E n \in CsHits(r) :
       /\ SelectorSatisfied(r, CachedPacket(n))
       /\ ~Revalidates(r, n)
       /\ Ends(t, r, CachedPacket(n))
  /\ UNCHANGED <<pit, notif, net>>

(* The stale copy is served and, unless one is under way for this name, a   *)
(* background refresh towards the first usable face is scheduled.           *)
ServeStaleRevalidate(t, r) ==
  /\ Arrives(t, r)
  /\ \E n \in CsHits(r) :
       /\ SelectorSatisfied(r, CachedPacket(n))
       /\ Revalidates(r, n)
       /\ LET hops  == FibLookup(fib, r.name)
              face  == FirstOf(hops, UsableFaces(hops))
              b     == <<r.name, r.pin>>
              again == pc[b] = "idle"
          IN /\ pc' = [pc EXCEPT ![t] = "done", ![b] = IF again THEN "scheduled" ELSE @]
             /\ req' = [req EXCEPT ![t] = r,
                                   ![b] = IF again THEN [r EXCEPT !.fresh = TRUE] ELSE @]
             /\ plan' = [plan EXCEPT ![b] = IF again THEN hops ELSE @]
             /\ left' = [left EXCEPT ![b] = IF again THEN {face} ELSE @]
             /\ got' = [got EXCEPT ![t] = CachedPacket(n)]
  /\ UNCHANGED <<pit, notif, net, out, dl, fut>>

(* A pinned Interest is looked up with its pin, so it never aggregates.     *)
PitHit(r) == r.pin = None /\ Pending(pit, r.name)

SuppressAggregate(t, r) ==
  /\ Arrives(t, r)
  /\ CsMiss(r)
  /\ PitHit(r)
  /\ Parks(t, r, "waiting", <<>>, {}, None)
  /\ notif' = [notif EXCEPT ![r.name] = @ \cup {t}]
  /\ UNCHANGED <<pit, net>>

ForwardTo(t, r) ==
  /\ Arrives(t, r)
  /\ CsMiss(r)
  /\ ~PitHit(r)
  /\ r.hops > 0
  /\ LET hops == FibLookup(fib, r.name)
     IN /\ UsableFaces(hops) # {}
        /\ TryFaces(t, r, hops, UsableFaces(hops), pit, notif)

(* No usable next hop, or the hop limit is exhausted.                       *)
NoRoute(t, r) ==
  /\ Arrives(t, r)
  /\ CsMiss(r)
  /\ ~PitHit(r)
  /\ r.hops = 0 \/ UsableFaces(FibLookup(fib, r.name)) = {}
  /\ Ends(t, r, None)
  /\ UNCHANGED <<pit, notif, net>>

Express(t, r) ==
  \/ DropLoop(t, r)
  \/ ServeFromCache(t, r)
  \/ ServeStaleRevalidate(t, r)
  \/ SuppressAggregate(t, r)
  \/ ForwardTo(t, r)
  \/ NoRoute(t, r)

(* The scheduled background task starts: _forward to its one face.          *)
StartRefresh(b) ==
  /\ pc[b] = "scheduled"
  /\ IF req[b].hops = 0
       THEN Ends(b, req[b], None) /\ UNCHANGED <<pit, notif, net>>
       ELSE TryFaces(b, req[b], plan[b], left[b], pit, notif)
  /\ UNCHANGED <<now, tables>>

-----------------------------------------------------------------------------
(* A parked thread resumes.                                                 *)

Forget(t) == [notif EXCEPT ![req[t].name] = @ \ {t}]

(* Data was delivered: an aggregated waiter returns it; a forward credits   *)
(* its face and removes the PIT entry of the name.                          *)
ResumeData(t) ==
  /\ pc[t] \in {"waiting", "forwarding"}
  /\ fut[t] = "data"
  /\ IF pc[t] = "forwarding"
       THEN RecordSuccess(out[t]) /\ pit' = PitRemove(pit, req[t].name)
       ELSE UNCHANGED <<fails, pit>>
  /\ Ends(t, req[t], got[t])
  /\ UNCHANGED <<now, fib, link, nonces, cs, notif, net>>

(* Faulty: the failure is recorded and the PIT entry left behind.           *)
GivesUpKeepingEntry(t) ==
  /\ RecordFailure(out[t])
  /\ TryFaces(t, req[t], plan[t], left[t], pit, Forget(t))
  /\ UNCHANGED <<now, fib, link, nonces, cs>>

(* The forward gives the face up: the failure is recorded, the PIT entry of *)
(* the name removed, and the next candidate tried in the same step.         *)
GivesUp(t) ==
  /\ RecordFailure(out[t])
  /\ TryFaces(t, req[t], plan[t], left[t], PitRemove(pit, req[t].name), Forget(t))
  /\ UNCHANGED <<now, fib, link, nonces, cs>>

ResumeNack(t) ==
  /\ fut[t] = "nack"
  /\ \/ pc[t] = "forwarding" /\ GivesUp(t)
     \/ /\ pc[t] = "waiting"
        /\ Ends(t, req[t], None)
        /\ UNCHANGED <<now, tables, pit, notif, net>>

(* Faulty: an aggregated waiter waits without a timeout.                    *)
TimeoutForwards(t) ==
  /\ fut[t] = "pending"
  /\ now >= dl[t]
  /\ pc[t] = "forwarding" /\ GivesUp(t)

(* wait_for expires with the future unresolved.                             *)
Timeout(t) ==
  /\ fut[t] = "pending"
  /\ now >= dl[t]
  /\ \/ pc[t] = "forwarding" /\ GivesUp(t)
     \/ /\ pc[t] = "waiting"
        /\ Ends(t, req[t], None)
        /\ notif' = Forget(t)
        /\ UNCHANGED <<now, tables, pit, net>>

(* The caller gives up while the thread is parked: CancelledError passes    *)
(* through express, whose clean-up only handles TimeoutError.               *)
Cancel(t) ==
  /\ t \in Cancellable
  /\ pc[t] \in {"waiting", "forwarding"}
  /\ fut[t] = "pending"
  /\ Ends(t, req[t], None)
  /\ notif' = Forget(t)
  /\ UNCHANGED <<now, tables, pit, net>>

-----------------------------------------------------------------------------
(* Packets from upstream.                                                   *)

(* Faulty: a pending name below the Data's name is taken for one above it.  *)
SatisfiedBelow(d) ==
  LET exact  == {e \in pit : e.name = d.name}
      below  == {e \in pit : e.name # d.name /\ StartsWith(e.name, d.name)}
  IN IF exact # {} THEN {d.name} ELSE Longest({e.name : e \in below})

(* The PIT names a Data name satisfies: itself, else the nearest ancestor   *)
(* that was asked for with can_be_prefix.                                   *)
Satisfied(d) ==
  LET exact  == {e \in pit : e.name = d.name}
      above  == {e \in pit : e.prefix /\ e.name # d.name /\ StartsWith(d.name, e.name)}
  IN IF exact # {} THEN {d.name} ELSE Longest({e.name : e \in above})

CachesAll(hit, trusted) == TRUE   \* faulty: unsolicited Data too

(* Data is cached when it was asked for or came on a trusted flow.          *)
Caches(hit, trusted) == hit # {} \/ trusted

(* Faulty: of the futures of the name only those of forwards are resolved.  *)
ReceiveDataForwards(d, fresh, trusted) ==
  LET hit  == Satisfied(d)
      wake == {t \in UNION {notif[n] : n \in hit} : pc[t] = "forwarding"}
  IN /\ fut' = [t \in Threads |-> IF t \in wake THEN "data" ELSE fut[t]]
     /\ got' = [t \in Threads |-> IF t \in wake
                  THEN [name |-> d.name, seq |-> d.seq, fresh |-> fresh] ELSE got[t]]
     /\ notif' = [n \in Names |-> IF n \in hit THEN {} ELSE notif[n]]
     /\ pit' = {e \in pit : e.name \notin hit}
     /\ UNCHANGED <<now, tables, pc, req, plan, left, out, dl>>

(* Forwarder.receive_data: every waiter of the satisfied name gets the      *)
(* Data, the entry is removed, and the Data is cached when it was asked for *)
(* or came on a trusted flow.                                               *)
ReceiveData(d, fresh, trusted) ==
  LET p    == [name |-> d.name, seq |-> d.seq, fresh |-> fresh]
      hit  == Satisfied(d)
      wake == UNION {notif[n] : n \in hit}
  IN /\ fut' = [t \in Threads |-> IF t \in wake THEN "data" ELSE fut[t]]
     /\ got' = [t \in Threads |-> IF t \in wake THEN p ELSE got[t]]
     /\ notif' = [n \in Names |-> IF n \in hit THEN {} ELSE notif[n]]
     /\ pit' = {e \in pit : e.name \notin hit}
     /\ cs' = IF Caches(hit, trusted)
                THEN [cs EXCEPT ![d.name] =
                        [seq |-> d.seq, age |-> IF fresh THEN "fresh" ELSE "stale"]]
                ELSE cs
     /\ UNCHANGED <<now, fib, link, nonces, fails, pc, req, plan, left, out, dl>>

(* The upstream node behind a face answers an Interest with Data.           *)
AnswerData(i, d, fresh) ==
  /\ i \in net
  /\ fresh \/ d.name \in Perishable
  /\ d.name = i.name \/ (i.prefix /\ StartsWith(d.name, i.name))
  /\ net' = net \ {i}
  /\ ReceiveData(d, fresh, FALSE)

(* Data nobody was asked for: a push on a trusted flow, or a stray packet.  *)
ArriveUnsolicited(d, trusted) ==
  /\ d \in (IF trusted THEN Pushed ELSE Stray)
  /\ UNCHANGED net
  /\ ReceiveData(d, TRUE, trusted)

(* Forwarder.receive_nack: every waiter of the name is released, whichever  *)
(* face the NACK came from; the PIT entry is left to the forward.           *)
AnswerNack(i) ==
  /\ i \in net
  /\ net' = net \ {i}
  /\ fut' = [t \in Threads |-> IF t \in notif[i.name] THEN "nack" ELSE fut[t]]
  /\ notif' = [notif EXCEPT ![i.name] = {}]
  /\ UNCHANGED <<now, tables, pit, pc, req, plan, left, out, dl, got>>

-----------------------------------------------------------------------------
(* Faces, routes, housekeeping and time.                                    *)

RegisterFace(f) ==
  /\ link[f] = "new"
  /\ link' = [link EXCEPT ![f] = "up"]
  /\ UNCHANGED <<now, fib, nonces, cs, fails, pit, notif, net, threads>>

(* Forwarder.add_route asks nothing of the face: a route may lead to one    *)
(* that is not registered, not yet or no longer.                            *)
AddRoute(x) ==
  /\ fib' = FibInsert(fib, x.prefix, x.face, x.cost)
  /\ UNCHANGED <<now, link, nonces, cs, fails, pit, notif, net, threads>>

WithdrawFace(f) ==
  /\ f \in Unstable
  /\ link[f] = "up"
  /\ link' = [link EXCEPT ![f] = "down"]
  /\ fib' = FibRemoveAllForFace(fib, f)
  /\ net' = {i \in net : i.face # f}
  /\ UNCHANGED <<now, nonces, cs, fails, pit, notif, threads>>

(* Faulty: only the nonces are swept.                                       *)
SweepNonces ==
  /\ Sweeps
  /\ nonces' = PurgeExpired(nonces, now)
  /\ UNCHANGED <<now, fib, link, cs, fails, pit, notif, net, threads>>

(* Pit.purge_expired from the server's age loop.                            *)
SweepPit ==
  /\ Sweeps
  /\ pit' = PurgeExpired(pit, now)
  /\ nonces' = PurgeExpired(nonces, now)
  /\ UNCHANGED <<now, fib, link, cs, fails, notif, net, threads>>

(* A slot passes its freshness period, then the revalidation window.        *)
CsAge(n) ==
  /\ n \in Perishable
  /\ cs[n].age \in {"fresh", "stale"}
  /\ cs' = [cs EXCEPT ![n].age = IF @ = "fresh" THEN "stale" ELSE "old"]
  /\ UNCHANGED <<now, fib, link, nonces, fails, pit, notif, net, threads>>

(* A slot expires, is evicted or is invalidated.                            *)
CsForget(n) ==
  /\ n \in Perishable
  /\ cs[n].age # "none"
  /\ cs' = [cs EXCEPT ![n] = [seq |-> None, age |-> "none"]]
  /\ UNCHANGED <<now, fib, link, nonces, fails, pit, notif, net, threads>>

(* Ticks are long: the loop has run every thread that can run and fired     *)
(* every timer that is due before the clock moves on.                       *)
Busy(t) ==
  \/ pc[t] = "scheduled"
  \/ pc[t] \in {"waiting", "forwarding"} /\ (fut[t] # "pending" \/ now >= dl[t])

Tick ==
  /\ now < Horizon
  /\ \A t \in Threads : ~Busy(t)
  /\ now' = now + 1
  /\ UNCHANGED <<tables, pit, notif, net, threads>>

Init ==
  /\ now = 0
  /\ link = [f \in Faces |-> "new"]
  /\ fib = [n \in Names |-> <<>>]
  /\ pit = {}
  /\ nonces = {}
  /\ cs = [n \in Names |-> [seq |-> None, age |-> "none"]]
  /\ fails = [f \in Faces |-> [count |-> 0, at |-> 0]]
  /\ notif = [n \in Names |-> {}]
  /\ net = {}
  /\ pc = [t \in Threads |-> "idle"]
  /\ req = [t \in Threads |-> None]
  /\ plan = [t \in Threads |-> <<>>]
  /\ left = [t \in Threads |-> {}]
  /\ out = [t \in Threads |-> None]
  /\ dl = [t \in Threads |-> 0]
  /\ fut = [t \in Threads |-> "pending"]
  /\ got = [t \in Threads |-> None]

Resume(t) == ResumeData(t) \/ ResumeNack(t) \/ Timeout(t)

Next ==
  \/ \E t \in Tasks, r \in Requests : Express(t, r)
  \/ \E b \in Refreshers : StartRefresh(b)
  \/ \E t \in Threads : Resume(t) \/ Cancel(t)
  \/ \E i \in net, d \in Contents, fresh \in BOOLEAN : AnswerData(i, d, fresh)
  \/ \E i \in net : AnswerNack(i)
  \/ \E d \in Contents, trusted \in BOOLEAN : ArriveUnsolicited(d, trusted)
  \/ \E f \in Faces : RegisterFace(f) \/ WithdrawFace(f)
  \/ \E x \in Routes : AddRoute(x)
  \/ SweepPit
  \/ \E n \in Names : CsAge(n) \/ CsForget(n)
  \/ Tick

Spec == Init /\ [][Next]_vars

(* The event loop runs every thread that can run, fires due timers and lets *)
(* time pass; nothing obliges peers to answer or links to come up.          *)
FairSpec ==
  /\ Spec
  /\ WF_vars(Tick)
  /\ \A t \in Threads : WF_vars(Resume(t))
  /\ \A b \in Refreshers : WF_vars(StartRefresh(b))
  /\ WF_vars(SweepPit)

-----------------------------------------------------------------------------
Parked(t) == pc[t] \in {"waiting", "forwarding"}

Entry == [name : Names, prefix : BOOLEAN, expires : Nat, owner : Threads]

TablesTyped ==
  /\ now \in Nat
  /\ link \in [Faces -> {"new", "up", "down"}]
  /\ fib \in [Names -> Seq([face : Faces, cost : Nat])]
  /\ pit \subseteq Entry
  /\ nonces \subseteq [face : InFaces, nonce : Nonces, expires : Nat]
  /\ cs \in [Names -> [seq : Seqs \cup {None}, age : {"none", "fresh", "stale", "old"}]]
  /\ fails \in [Faces -> [count : Nat, at : Nat]]
  /\ notif \in [Names -> SUBSET Threads]
  /\ net \subseteq [face : Faces, name : Names, prefix : BOOLEAN]

ThreadsTyped ==
  /\ pc \in [Threads -> {"idle", "scheduled", "waiting", "forwarding", "done"}]
  /\ req \in [Threads -> Interest \cup {None}]
  /\ plan \in [Threads -> Seq([face : Faces, cost : Nat])]
  /\ left \in [Threads -> SUBSET Faces]
  /\ out \in [Threads -> Faces \cup {None}]
  /\ dl \in [Threads -> Nat]
  /\ fut \in [Threads -> {"pending", "data", "nack"}]
  /\ got \in [Threads -> Packet \cup {None}]

(* Types of the engine's tables and of the threads' local state.            *)
TypeOK == TablesTyped /\ ThreadsTyped

Awaits(t, n) == Parked(t) /\ fut[t] = "pending" /\ req[t].name = n

(* A thread parked on an unresolved future is registered under its own name *)
(* and nowhere else (_pit_notifiers against the wait_for calls): a NACK for *)
(* the name releases it, and so does Data as long as the name is pending.   *)
WaitersRegistered ==
  \A t \in Threads, n \in Names : t \in notif[n] <=> Awaits(t, n)

(* A step of _forward, for an Interest of a name in S: it begins, or goes   *)
(* on after Data, a NACK or a timeout.                                      *)
ForwardStep(S) ==
  \/ \E t \in Tasks, r \in Requests : r.name \in S /\ ForwardTo(t, r)
  \/ \E b \in Refreshers : req[b] # None /\ req[b].name \in S /\ StartRefresh(b)
  \/ \E t \in Threads : pc[t] = "forwarding" /\ req[t].name \in S /\ Resume(t)

(* The three ways in which a pending name n loses its PIT entry other than  *)
(* by being answered: eviction by a forward of another name that finds the  *)
(* table full, the sweep once the entry has expired, and the pit.remove by  *)
(* name of any forward of n.                                                *)
Evicted(n) ==
  /\ Cardinality(pit) >= PitMax
  /\ \E e \in NearestExpiry(pit) : e.name = n
  /\ ForwardStep(Names \ {n})

Swept(n) == SweepPit /\ \E e \in pit : e.name = n /\ e.expires <= now

RemovedByName(n) == ForwardStep({n})

(* Data finds the waiters of a name through its PIT entry alone, so a       *)
(* waiter whose entry is gone is deaf to it and times out.  A name that     *)
(* somebody goes on waiting for loses its entry in those three ways only:   *)
(* never by Data (receive_data releases whoever waits before it removes the *)
(* entry), a NACK, a cancelled caller or a link that closes.                *)
WaitersStayFindable ==
  [][\A n \in Names :
       /\ Pending(pit, n) /\ ~Pending(pit', n)
       /\ \E t \in Threads : Awaits(t, n) /\ Awaits(t, n)'
       => Evicted(n) \/ Swept(n) \/ RemovedByName(n)]_vars

(* No PIT leak: every entry was made by a forward that is still under way   *)
(* for that name and will remove it (the pit.remove calls of _forward_one), *)
(* as long as no caller cancels express.                                    *)
EntryHasOwner ==
  \A e \in pit : pc[e.owner] = "forwarding" /\ req[e.owner].name = e.name

(* Every Data handed to a consumer is named at or under the Interest's      *)
(* name, whether it came from the cache, an own forward or an aggregated    *)
(* one (receive_data's ancestor match).                                     *)
AnswersUnderName ==
  \A t \in Threads : got[t] # None => StartsWith(got[t].name, req[t].name)

(* At capacity the tables evict instead of growing (PIT and nonce caps).    *)
TablesBounded == Cardinality(pit) <= PitMax /\ Cardinality(nonces) <= NonceMax

(* One PIT entry per name, whatever is shared, evicted and re-inserted.     *)
OneEntryPerName == \A e, x \in pit : e.name = x.name => e = x

StoredAnew(n) ==
  /\ cs'[n].age # "none"
  /\ \/ cs[n].age = "none"
     \/ cs'[n].seq # cs[n].seq
     \/ cs'[n].age = "fresh" /\ cs[n].age # "fresh"

(* Unsolicited Data is not cached: what enters the Content Store is under   *)
(* the name of a forward in flight, or came on a trusted push flow.         *)
OnlySolicitedCached ==
  [][\A n \in Names : StoredAnew(n) =>
       \/ \E c \in Pushed : c.name = n
       \/ \E t \in Threads : pc[t] = "forwarding" /\ StartsWith(n, req[t].name)]_vars

(* An Interest answered in the step that received it is answered from the   *)
(* cache, and then fresh if it must be, at or above its floor, and with the *)
(* pinned edition if it is pinned.                                          *)
CacheHonoursInterest ==
  [][\A t \in Tasks : pc[t] = "idle" /\ got'[t] # None =>
       LET r == req'[t] p == got'[t]
       IN /\ r.fresh => p.fresh
          /\ r.floor # None => p.seq # None /\ p.seq >= r.floor
          /\ r.pin # None => p.seq = r.pin
          /\ ~r.prefix => p.name = r.name]_vars

(* Every Interest a thread parks on comes back: with Data, or with nothing  *)
(* once the candidates are exhausted (wait_for on every future).  A         *)
(* background refresh ends too, so that its name can be refreshed again     *)
(* (the finally clause of _schedule_revalidation).                          *)
EveryInterestReturns ==
  /\ \A t \in Tasks : Parked(t) ~> pc[t] = "done"
  /\ \A b \in Refreshers : pc[b] # "idle" ~> pc[b] = "idle"

Expired(n) == \E e \in pit : e.name = n /\ e.expires <= now

(* "Any entry that expires without an owner removing it is still reclaimed  *)
(* by the periodic purge_expired sweep" (Pit.remove).                       *)
ExpiredReclaimed == \A n \in Names : Expired(n) ~> ~Expired(n)

(* "The forward path removes exactly the entry it just satisfied or gave up *)
(* on" (Pit.remove): a resuming thread removes no other thread's entry.     *)
RemovesOwnEntry ==
  [][\A t \in Threads : Resume(t) => \A e \in pit \ pit' : e.owner = t]_vars

(* A NACK fails the forward that waits for the face it came from, and so    *)
(* that face is the one recorded as failed (receive_nack, _forward_one).    *)
NackFailsItsFace ==
  [][\A i \in net : AnswerNack(i) =>
       \A t \in Threads : fut'[t] # fut[t] /\ pc[t] = "forwarding" => out[t] = i.face]_vars

(* Aggregation joins equivalent Interests only: what an Interest gets from  *)
(* another one's forward is what it asked for (decide's SUPPRESS_AGGREGATE).*)
AggregatedAnswerFits ==
  \A t \in Tasks : pc[t] = "waiting" /\ fut[t] = "data" =>
    /\ ~req[t].prefix => got[t].name = req[t].name
    /\ SequenceSatisfied(req[t], got[t])
    /\ req[t].fresh => got[t].fresh
=============================================================================
