--------------------------- MODULE ConsumerFetch ---------------------------
(***************************************************************************)
(* The consumer's verified fetches (ICNClient of client.py): the retry loop *)
(* with its checks, the search for the latest version by way of the         *)
(* producer's signed pointer (discovery.py, _publish_latest_pointer of      *)
(* rns_server.py) and the walk through a collection's editions, over the    *)
(* consumer's own forwarder and its Content Store.                          *)
(*                                                                          *)
(* One collection of one producer, whose key is known.  What the network    *)
(* answers is left open: whatever the producer has ever signed may arrive,  *)
(* and where Rogue allows, Data with another seal.  With relays on the way  *)
(* an answer fits the name of an Interest and need not fit the rest of it.  *)
(* A version stands for its content, its content hash and its sequence.     *)
(***************************************************************************)
EXTENDS Naturals, Sequences

CONSTANTS
  Tasks,           \* calls of the client, each made once
  Calls,           \* what the tasks may call for: each [kind, ver, pin], where a
                   \* walk starts at ver
  MaxVersion,      \* bound on publications
  Mutable,         \* versions share one name, instead of one each
  Rogue,           \* seals of Data the producer did not make
  Relayed,         \* relays and other consumers are between client and producer
  RequireSig,      \* config.require_signature
  RejectRollback,  \* config.reject_rollback
  MaxRetries,
  MetaPeriod,      \* freshness period of the pointer
  Horizon,         \* bound: the clock stops here
  None

Versions == 1..MaxVersion
Meta     == <<"meta", 0>>
NameOf(v) == <<"post", IF Mutable THEN 0 ELSE v>>
Names    == {Meta} \cup {NameOf(v) : v \in Versions}

Seals == {"good", "unsigned", "forged", "corrupt"}
Data  == [name : Names, ver : Versions, seal : Seals, at : Nat]

(* What a task may call for: a version, the latest one, or a walk from 0 or *)
(* a version on.                                                            *)
Request ==
  {r \in [kind : {"exact", "latest", "range"}, ver : 0..MaxVersion, pin : BOOLEAN] :
     r.kind = "exact" => r.ver # 0}

(* A row of the client's store.                                             *)
Row == [data : Data, since : Nat]

ASSUME FetchAssumption ==
  /\ Calls \subseteq [Tasks -> Request]
  /\ MaxVersion \in Nat /\ MaxRetries \in Nat /\ MetaPeriod \in Nat /\ Horizon \in Nat
  /\ {Mutable, Relayed, RequireSig, RejectRollback} \subseteq BOOLEAN
  /\ Rogue \subseteq Seals \ {"good"}
  /\ None \notin Data \cup Row

VARIABLES
  now,       \* the clock, in seconds
  cur,       \* the producer's current version, 0 before the first
  was,       \* <<version, second>> it was current in, for what may be cached
  cache,     \* Names -> Data in the client's store with its arrival time, or None
  seen,      \* Names -> newest (signed_at, sequence) accepted, or None
  task       \* Tasks -> the state of the call

vars == <<now, cur, was, cache, seen, task>>

(* A call: "req" is the request, "stage" what it is after, "pin" the version*)
(* it is pinned to or 0, "min" the floor of a walk, "got" what the walk has *)
(* yielded, "failed" whether last_error is set, "asked" (history) the number*)
(* of attempts that turned to the peer, "owed" whether the peer was asked   *)
(* for the pointer and has not sent it, "floor" (history) the newest        *)
(* version an earlier fetch_latest had found by a pointer when this call    *)
(* began.                                                                   *)
Idle(r) ==
  [req |-> r, pc |-> "idle", stage |-> "none", name |-> Meta, pin |-> 0, attempt |-> 0,
   min |-> 0, got |-> <<>>, failed |-> FALSE, data |-> None, asked |-> 0, owed |-> FALSE,
   floor |-> 0]

Task ==
  [req : Request,
   pc : {"idle", "try", "wait", "judge", "backoff", "returned", "none", "raised"},
   stage : {"none", "exact", "meta", "target", "fallback", "range"},
   name : Names, pin : 0..MaxVersion, attempt : 0..MaxRetries, min : 0..(MaxVersion + 1),
   got : Seq(Versions), failed : BOOLEAN, data : Data \cup {None}, asked : Nat,
   owed : BOOLEAN, floor : 0..MaxVersion]

(* The calls whose Interest is for any name under the collection.           *)
ByPrefix(t) == t.stage \in {"fallback", "range"}

Begin(t, stage, name, pin) ==
  [t EXCEPT !.pc = "try", !.stage = stage, !.name = name, !.pin = pin,
            !.attempt = 0, !.failed = FALSE, !.data = None, !.asked = 0]

-----------------------------------------------------------------------------
(* The producer.  publish_content stores a version and its pointer together *)
(* and unsigned; _maybe_sign signs what is served, when it is served.       *)
Publish ==
  /\ cur < MaxVersion
  /\ cur' = cur + 1
  /\ was' = was \cup {<<cur + 1, now>>}
  /\ UNCHANGED <<now, cache, seen, task>>

(* What it may have signed: a name's version at some second.  A version     *)
(* under a name of its own stays available.                                 *)
Signed ==
  {[name |-> Meta, ver |-> w[1], seal |-> "good", at |-> w[2]] : w \in was}
    \cup {[name |-> NameOf(x[1]), ver |-> x[1], seal |-> "good", at |-> x[2][2]] :
             x \in {y \in Versions \X was :
                     IF Mutable THEN y[1] = y[2][1] ELSE y[1] <= y[2][1]}}

(* A producer linked directly answers with what was asked for, or, late,    *)
(* with what the client asked for before: its pointer, or the first edition *)
(* from an older floor.                                                     *)
AskedFor(t, d) ==
  /\ t.pin # 0 => d.ver = t.pin
  /\ t.stage = "range" /\ d.name # Meta => d.ver <= t.min \/ d.ver = 1
  /\ ByPrefix(t) /\ d.name = Meta => \E x \in Tasks : task[x].owed

(* What satisfies the Interest of a call: Data of its name, whatever the    *)
(* pin, for those who want other content ask under the same name; and for a *)
(* prefix whatever is named under it, pushed, late or asked for by somebody *)
(* else whose Interest a relay has joined with this one.                    *)
Fits(t, d) ==
  /\ ~ByPrefix(t) => d.name = t.name
  /\ ~Relayed /\ d.seal = "good" => AskedFor(t, d)

(* What may come back: the producer's answer, an older one from a cache, or *)
(* Data that is not the producer's, under any name.                         *)
Answers(t) ==
  {d \in Signed \cup [name : Names, ver : Versions, seal : Rogue, at : {now}] : Fits(t, d)}

-----------------------------------------------------------------------------
(* The client's own forwarder: every Data that answers an Interest is kept, *)
(* before anyone has checked it.                                            *)

Fresh(n) == n = Meta => now < cache[n].since + MetaPeriod

(* The intact rows of the own store.                                        *)
Held == {n \in Names : cache[n] # None /\ cache[n].data.seal # "corrupt"}

(* A walk is answered only by the edition exactly on its floor: older ones  *)
(* than what is held may exist elsewhere.                                   *)
WalkHits(t) == {n \in Held \ {Meta} : cache[n].data.ver = t.min}

(* The highest sequence answers the selector.                               *)
LatestHits(t) ==
  {n \in Held \ {Meta} : \A x \in Held \ {Meta} : cache[x].data.ver <= cache[n].data.ver}

(* A pin must match, the pointer must be fresh.                             *)
ExactHits(t) ==
  {n \in Held : /\ n = t.name /\ Fresh(n)
                /\ t.pin # 0 => cache[n].data.ver = t.pin}

OwnHits(t) ==
  {cache[n].data : n \in CASE t.stage = "fallback" -> LatestHits(t)
                          [] t.stage = "range" -> WalkHits(t)
                          [] OTHER -> ExactHits(t)}

(* _fetch_verified, an attempt: the link and its face, then express.        *)
Attempt(c) ==
  LET t == task[c]
      hits == OwnHits(t)
  IN /\ t.pc = "try"
     /\ \/ \E d \in hits : task' = [task EXCEPT ![c].pc = "judge", ![c].data = d]
        \/ /\ hits = {}
           /\ task' = [task EXCEPT ![c].pc = "wait", ![c].asked = @ + 1,
                                ![c].owed = @ \/ t.stage = "meta"]
     /\ UNCHANGED <<now, cur, was, cache, seen>>

(* No link to the peer.                                                     *)
NoLink(c) ==
  /\ task[c].pc = "try"
  /\ task' = [task EXCEPT ![c].pc = "backoff", ![c].failed = TRUE, ![c].asked = @ + 1]
  /\ UNCHANGED <<now, cur, was, cache, seen>>

(* Data arrives: it is kept, and all that wait for its name are answered;   *)
(* those that wait for the prefix only if nobody waits for the name.        *)
Arrive(c) ==
  LET t == task[c]
      waits == {x \in Tasks : task[x].pc = "wait"}
  IN /\ t.pc = "wait"
     /\ \E d \in Answers(t) :
          LET exact == {x \in waits : ~ByPrefix(task[x]) /\ task[x].name = d.name}
              woken == IF exact # {} THEN exact
                       ELSE {x \in waits : ByPrefix(task[x])}
          IN /\ cache' = [cache EXCEPT ![d.name] = [data |-> d, since |-> now]]
             /\ task' = [x \in Tasks |->
                           IF x \in woken
                             THEN [task[x] EXCEPT !.pc = "judge", !.data = d,
                                                  !.owed = @ /\ d.name # Meta]
                             ELSE task[x]]
     /\ UNCHANGED <<now, cur, was, seen>>

(* Nothing arrives in time (an error), or express returns None: no route, a *)
(* NACK (no error).                                                         *)
Silence(c, error) ==
  /\ task[c].pc = "wait"
  /\ task' = [task EXCEPT ![c].pc = "backoff", ![c].failed = @ \/ error]
  /\ UNCHANGED <<now, cur, was, cache, seen>>

-----------------------------------------------------------------------------
(* The checks.                                                              *)
Older(d, e) == d.at < e.at \/ (d.at = e.at /\ d.ver < e.ver)

(* _check_signature; the pointer needs a signature in any case.             *)
SignatureOk(t, d) ==
  /\ d.seal # "forged"
  /\ RequireSig \/ t.stage = "meta" => d.seal = "good"

RollbackUnchecked(d) == TRUE   \* faulty

(* _check_rollback: only signed Data is compared.                           *)
RollbackOk(d) ==
  RejectRollback /\ d.seal = "good" /\ seen[d.name] # None => ~Older(d, seen[d.name])

PassesUnpinned(t, d) == d.seal # "corrupt" /\ SignatureOk(t, d) /\ RollbackOk(d)   \* faulty

(* The checks of an attempt: the content hash, the pin, which the network   *)
(* does not look at, the signature, the rollback.                           *)
Passes(t, d) ==
  /\ d.seal # "corrupt"
  /\ t.pin # 0 => d.ver = t.pin
  /\ SignatureOk(t, d)
  /\ RollbackOk(d)

(* A walk goes on above the edition it yields, and ends with an answer from *)
(* below its floor.                                                         *)
Walked(t, d) ==
  IF d.ver < t.min THEN [t EXCEPT !.pc = "none", !.data = None]
  ELSE [Begin(t, "range", Meta, 0) EXCEPT !.min = d.ver + 1, !.got = Append(@, d.ver)]

(* What passing Data leads to: the pointer to the version it names, or, if  *)
(* it cannot be read or leads out of the collection, to the selector; an    *)
(* edition to the next one; anything else is returned.                      *)
Follows(t, d) ==
  CASE t.stage = "meta" -> {Begin(t, "target", NameOf(d.ver), d.ver), Begin(t, "fallback", Meta, 0)}
    [] t.stage = "range" -> {Walked(t, d)}
    [] OTHER -> {[t EXCEPT !.pc = "returned"]}

(* The answer passes the checks.                                            *)
Accept(c) ==
  LET t == task[c]
      d == t.data
  IN /\ t.pc = "judge"
     /\ Passes(t, d)
     /\ seen' = IF RejectRollback /\ d.seal = "good" THEN [seen EXCEPT ![d.name] = d] ELSE seen
     /\ \E u \in Follows(t, d) : task' = [task EXCEPT ![c] = u]
     /\ UNCHANGED <<now, cur, was, cache>>

(* What an exhausted loop comes to: the search for the pointer goes on with *)
(* the selector, the others return None or raise.                           *)
Exhausted(t) ==
  IF t.stage = "meta" THEN Begin(t, "fallback", Meta, 0)
  ELSE [t EXCEPT !.pc = IF t.failed /\ ~ByPrefix(t) THEN "raised" ELSE "none",
                 !.data = None]

RetriesUncounted(t) == [t EXCEPT !.pc = "try"]   \* faulty: never gives up

NextAttempt(t) ==
  IF t.attempt < MaxRetries THEN [t EXCEPT !.pc = "try", !.attempt = @ + 1]
  ELSE Exhausted(t)

(* A check fails: "continue", without the backoff.                          *)
Reject(c) ==
  /\ task[c].pc = "judge"
  /\ ~Passes(task[c], task[c].data)
  /\ task' = [task EXCEPT ![c] = NextAttempt([@ EXCEPT !.failed = TRUE, !.data = None])]
  /\ UNCHANGED <<now, cur, was, cache, seen>>

Backoff(c) ==
  /\ task[c].pc = "backoff"
  /\ task' = [task EXCEPT ![c] = NextAttempt(@)]
  /\ UNCHANGED <<now, cur, was, cache, seen>>

-----------------------------------------------------------------------------
Ended(t) == t.pc \in {"returned", "none", "raised"}
Latest(t) == t.stage \in {"meta", "target", "fallback"}

(* The newest version a finished fetch_latest has found by a pointer.       *)
Known ==
  LET vs == {0} \cup {task[x].data.ver :
                        x \in {y \in Tasks : task[y].pc = "returned" /\ task[y].stage = "target"}}
  IN CHOOSE v \in vs : \A w \in vs : w <= v

(* fetch, fetch_latest and fetch_range.                                     *)
Call(c) ==
  LET r == task[c].req
      begun == CASE r.kind = "latest" -> Begin(task[c], "meta", Meta, 0)
                 [] r.kind = "range"  -> [Begin(task[c], "range", Meta, 0) EXCEPT !.min = r.ver]
                 [] OTHER -> Begin(task[c], "exact", NameOf(r.ver), IF r.pin THEN r.ver ELSE 0)
  IN /\ task[c].pc = "idle"
     /\ task' = [task EXCEPT ![c] = [begun EXCEPT !.floor = Known]]
     /\ UNCHANGED <<now, cur, was, cache, seen>>

(* The own store evicts a row or lets it expire.                            *)
Evict(n) ==
  /\ cache[n] # None
  /\ cache' = [cache EXCEPT ![n] = None]
  /\ UNCHANGED <<now, cur, was, seen, task>>

Tick ==
  /\ now < Horizon
  /\ now' = now + 1
  /\ was' = IF cur > 0 THEN was \cup {<<cur, now + 1>>} ELSE was
  /\ UNCHANGED <<cur, cache, seen, task>>

Init ==
  /\ now = 0
  /\ cur = 0
  /\ was = {}
  /\ cache = [n \in Names |-> None]
  /\ seen = [n \in Names |-> None]
  /\ \E f \in Calls : task = [c \in Tasks |-> Idle(f[c])]

Runs(c) ==
  \/ Attempt(c) \/ NoLink(c) \/ Arrive(c)
  \/ \E error \in BOOLEAN : Silence(c, error)
  \/ Accept(c) \/ Reject(c) \/ Backoff(c)

Next ==
  \/ Publish
  \/ \E c \in Tasks : Call(c) \/ Runs(c)
  \/ \E n \in Names : Evict(n)
  \/ Tick

Spec == Init /\ [][Next]_vars

-----------------------------------------------------------------------------
(* Types of the store, the calls and the history.                           *)
TypeOK ==
  /\ now \in Nat /\ cur \in 0..MaxVersion
  /\ was \subseteq Versions \X Nat
  /\ cache \in [Names -> Row \cup {None}]
  /\ seen \in [Names -> Data \cup {None}]
  /\ task \in [Tasks -> Task]

(* Whatever is forged, damaged, unsigned or meant for somebody else's pin,  *)
(* and whether it comes from the network, out of the own store where it was *)
(* kept unchecked, or with another call's answer, a call returns only what  *)
(* its own policy allows (_fetch_verified, Forwarder.receive_data).         *)
ReturnsVerified ==
  \A c \in Tasks : task[c].pc = "returned" =>
    LET t == task[c] IN
      /\ t.data.seal \in {"good", "unsigned"}
      /\ RequireSig => t.data.seal = "good"
      /\ t.pin # 0 => t.data.ver = t.pin

(* A version found through the pointer is one the producer has published    *)
(* and pointed to, and not older than what an earlier search found.         *)
PointerNeverGoesBack ==
  \A c \in Tasks : task[c].pc = "returned" /\ task[c].stage = "target" =>
    /\ task[c].data.ver <= cur
    /\ RejectRollback => task[c].data.ver >= task[c].floor

(* How far a call has come.                                                 *)
Steps == MaxVersion + 3
Rank(t) ==
  LET attempts == MaxRetries + 1
      stage == CASE t.stage = "none" -> 0 [] t.stage \in {"exact", "meta"} -> 1
                 [] t.stage = "range" -> 1 + t.min [] OTHER -> 2
      pc == CASE t.pc = "wait" -> 1 [] t.pc \in {"judge", "backoff"} -> 2 [] OTHER -> 0
  IN IF Ended(t) THEN 4 * Steps * attempts ELSE 4 * (stage * attempts + t.attempt) + pc

(* Whatever arrives, or does not, every step takes a call closer to its     *)
(* end, so that no answer and no failure can keep a fetch, a search for the *)
(* latest version or a walk retrying for ever.                              *)
EveryFetchEnds ==
  [][\A c \in Tasks : task'[c] # task[c] =>
       /\ Rank(task'[c]) > Rank(task[c])
       /\ Rank(task'[c]) <= 4 * Steps * (MaxRetries + 1)]_vars

(* "A cache could answer a sequence walk with its own oldest and silently   *)
(* skip history held elsewhere (walk-authority rule: only an exact-floor    *)
(* hit, or the producer, may answer)": a walk from the beginning yields one *)
(* edition after the other.                                                 *)
WalkSkipsNothing ==
  \A c \in Tasks : \A i \in DOMAIN task[c].got : task[c].got[i] = i

(* "Express Interest to peer, wait for Data with retry/backoff": a fetch    *)
(* that gives up has turned to the peer on every attempt.                   *)
GivesUpAfterAsking ==
  \A c \in Tasks : task[c].pc = "raised" => task[c].asked > MaxRetries

(* "Falls back to the best-effort latest child selector only when no        *)
(* pointer exists", "engaging rollback protection on the pointer": a search *)
(* for the latest version does not return one older than was found before.  *)
LatestNeverGoesBack ==
  \A c \in Tasks : task[c].pc = "returned" /\ Latest(task[c]) => task[c].data.ver >= task[c].floor

(* "Fetch the authenticated latest version under prefix": a search returns  *)
(* a version, never the pointer to one.                                     *)
LatestIsVersion ==
  \A c \in Tasks : task[c].pc = "returned" /\ Latest(task[c]) => task[c].data.name # Meta

(* "Returns None if nothing satisfies either path": fetch_latest does not   *)
(* raise.                                                                   *)
LatestReturnsNone == \A c \in Tasks : Latest(task[c]) => task[c].pc # "raised"
=============================================================================
