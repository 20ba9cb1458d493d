------------------------ MODULE ConsumerFetchProofs ------------------------
(***************************************************************************)
(* What the consumer's fetches promise, for every set of calls, every number*)
(* of versions and retries, and whatever the network answers: a call returns*)
(* what its policy allows and ends, and a version found by the pointer is   *)
(* the producer's and no older than what was found before.                  *)
(***************************************************************************)
EXTENDS ConsumerFetch, TLAPS, WellFoundedInduction

(* A non-empty set of naturals has a least member.                          *)
LEMMA LeastNatural ==
  ASSUME NEW T \in SUBSET Nat, T # {}
  PROVE  \E x \in T : \A y \in T : x <= y
<1>1. PICK x \in T : \A y \in T : ~(<<y, x>> \in OpToRel(<, Nat))
  BY NatLessThanWellFounded, WFMin
<1>2. ASSUME NEW y \in T PROVE x <= y
  <2>1. x \in Nat /\ y \in Nat
    OBVIOUS
  <2>2. ~(y < x)
    BY <1>1, <2>1 DEF OpToRel
  <2> QED BY <2>1, <2>2
<1> QED BY <1>2

(* Versions only grow with time.                                            *)
Clock ==
  /\ \A w \in was : w[1] <= cur /\ w[2] <= now
  /\ \A w, x \in was : w[2] < x[2] => w[1] <= x[1]

(* A good pointer is one the producer has signed.                           *)
Authentic(d) == d.seal = "good" /\ d.name = Meta => <<d.ver, d.at>> \in was

Stored ==
  \A n \in Names : cache[n] # None => cache[n].data.name = n /\ Authentic(cache[n].data)

(* What is known of the newest pointer.                                     *)
Trusted == seen[Meta] # None => seen[Meta].name = Meta /\ <<seen[Meta].ver, seen[Meta].at>> \in was

NewestSeen == IF seen[Meta] = None THEN 0 ELSE seen[Meta].ver

(* What a call has in hand is what it asked for.                            *)
InHand ==
  \A c \in Tasks :
    LET t == task[c] IN
      /\ t.pc = "idle" <=> t.stage = "none"
      /\ t.stage = "meta" => t.name = Meta
      /\ t.pc \in {"judge", "returned"} =>
           /\ t.data \in Data /\ Authentic(t.data)
           /\ ~ByPrefix(t) => t.data.name = t.name

(* A search is pinned to a version of the producer's, no older than what    *)
(* was known when it began and no newer than what is known.                 *)
Pinned ==
  \A c \in Tasks :
    LET t == task[c] IN
      /\ t.stage = "target" => t.pin # 0 /\ t.pin <= cur
      /\ RejectRollback =>
           /\ t.floor <= NewestSeen
           /\ t.stage = "target" => t.floor <= t.pin /\ t.pin <= NewestSeen

(* The inductive invariant of the searches and of what is returned.         *)
FInv == TypeOK /\ Clock /\ Stored /\ Trusted /\ InHand /\ Pinned /\ ReturnsVerified

-----------------------------------------------------------------------------
(* What a step does to a call.                                              *)

(* The same attempt at the same request.                                    *)
Same(t, u) ==
  /\ u.req = t.req /\ u.stage = t.stage /\ u.name = t.name /\ u.pin = t.pin
  /\ u.attempt = t.attempt /\ u.min = t.min /\ u.got = t.got /\ u.floor = t.floor

(* A loop begins for another request.                                       *)
Begun(t, u, stage, name, pin) ==
  /\ u.req = t.req /\ u.pc = "try" /\ u.stage = stage /\ u.name = name /\ u.pin = pin
  /\ u.attempt = 0

Waits(t, u) ==
  /\ t.pc \in {"try", "wait"} /\ u.pc \in {"wait", "backoff"}
  /\ u.pc = "wait" => t.pc = "try"
  /\ Same(t, u)

Supplied(t, u) ==
  /\ t.pc \in {"try", "wait"} /\ u.pc = "judge" /\ Same(t, u)
  /\ u.data \in Data
  /\ Authentic(u.data)
  /\ ~ByPrefix(t) => u.data.name = t.name

Accepted(t, u) ==
  /\ t.pc = "judge" /\ Passes(t, t.data)
  /\ \/ /\ t.stage = "meta"
        /\ Begun(t, u, "target", NameOf(t.data.ver), t.data.ver)
        /\ u.min = t.min /\ u.got = t.got /\ u.floor = t.floor
     \/ /\ t.stage = "meta"
        /\ Begun(t, u, "fallback", Meta, 0)
        /\ u.min = t.min /\ u.got = t.got /\ u.floor = t.floor
     \/ /\ t.stage = "range" /\ t.data.ver < t.min
        /\ Same(t, u) /\ u.pc = "none"
     \/ /\ t.stage = "range" /\ t.data.ver >= t.min
        /\ Begun(t, u, "range", Meta, 0)
        /\ u.min = t.data.ver + 1 /\ u.got = Append(t.got, t.data.ver) /\ u.floor = t.floor
     \/ /\ t.stage \notin {"meta", "range"}
        /\ Same(t, u) /\ u.pc = "returned" /\ u.data = t.data

GaveUp(t, u) ==
  /\ t.pc \in {"judge", "backoff"}
  /\ \/ /\ t.attempt < MaxRetries
        /\ u.pc = "try" /\ u.attempt = t.attempt + 1
        /\ u.req = t.req /\ u.stage = t.stage /\ u.name = t.name /\ u.pin = t.pin
        /\ u.min = t.min /\ u.got = t.got /\ u.floor = t.floor
     \/ /\ t.stage = "meta"
        /\ Begun(t, u, "fallback", Meta, 0)
        /\ u.min = t.min /\ u.got = t.got /\ u.floor = t.floor
     \/ Same(t, u) /\ u.pc \in {"none", "raised"}

Called(t, u) ==
  /\ t.pc = "idle" /\ u.floor = Known /\ u.got = t.got
  /\ \/ /\ t.req.kind = "latest"
        /\ Begun(t, u, "meta", Meta, 0) /\ u.min = t.min
     \/ /\ t.req.kind = "range"
        /\ Begun(t, u, "range", Meta, 0) /\ u.min = t.req.ver
     \/ \E pin \in 0..MaxVersion :
          Begun(t, u, "exact", NameOf(t.req.ver), pin) /\ u.min = t.min

Moved(t, u) ==
  Waits(t, u) \/ Supplied(t, u) \/ GaveUp(t, u) \/ Called(t, u)

LEMMA Replaced ==
  ASSUME NEW c \in Tasks, NEW u \in Task, task \in [Tasks -> Task],
         task' = [task EXCEPT ![c] = u]
  PROVE  /\ task' \in [Tasks -> Task]
         /\ task'[c] = u
         /\ \A x \in Tasks \ {c} : task'[x] = task[x]
OBVIOUS

LEMMA BeginDoes ==
  ASSUME NEW t \in Task, NEW name \in Names, NEW pin \in 0..MaxVersion,
         NEW stage \in {"exact", "meta", "target", "fallback", "range"}
  PROVE  LET u == Begin(t, stage, name, pin)
         IN /\ u \in Task
            /\ Begun(t, u, stage, name, pin)
            /\ u.min = t.min /\ u.got = t.got /\ u.floor = t.floor
<1> DEFINE u == Begin(t, stage, name, pin)
<1>1. 0 \in 0..MaxRetries /\ 0 \in Nat
  BY FetchAssumption
<1>2. /\ u.pc = "try" /\ u.stage = stage /\ u.name = name /\ u.pin = pin /\ u.attempt = 0
      /\ u.failed = FALSE /\ u.data = None /\ u.asked = 0
      /\ u.req = t.req /\ u.min = t.min /\ u.got = t.got /\ u.owed = t.owed /\ u.floor = t.floor
  BY DEF Begin, Task
<1>3. u \in Task
  BY <1>1 DEF Begin, Task
<1> QED BY <1>2, <1>3 DEF Begun

LEMMA NamesTyped ==
  /\ Meta \in Names
  /\ \A v \in Versions : NameOf(v) \in Names /\ NameOf(v) # Meta
BY DEF Names, NameOf, Meta
(* Every call stands or moves, and none has an answer accepted.             *)
TasksMove ==
  /\ task' \in [Tasks -> Task]
  /\ \A c \in Tasks : task'[c] = task[c] \/ Moved(task[c], task'[c])

LEMMA OneMoves ==
  ASSUME task \in [Tasks -> Task], NEW c \in Tasks, NEW u \in Task,
         task' = [task EXCEPT ![c] = u], Moved(task[c], u)
  PROVE  TasksMove
BY Replaced DEF TasksMove

(* What the own store answers with.                                         *)
LEMMA HitsGood ==
  ASSUME TypeOK, Stored, NEW c \in Tasks, NEW d \in OwnHits(task[c])
  PROVE  /\ d \in Data /\ Authentic(d)
         /\ ~ByPrefix(task[c]) => d.name = task[c].name
<1> DEFINE t == task[c]
           hits == CASE t.stage = "fallback" -> LatestHits(t)
                     [] t.stage = "range" -> WalkHits(t)
                     [] OTHER -> ExactHits(t)
<1>1. PICK n \in hits : d = cache[n].data
  BY DEF OwnHits
<1>2. n \in Held
  BY <1>1 DEF LatestHits, WalkHits, ExactHits
<1>3. n \in Names /\ cache[n] # None
  BY <1>2 DEF Held
<1>4. cache[n].data \in Data /\ cache[n].data.name = n /\ Authentic(cache[n].data)
  BY <1>3 DEF TypeOK, Row, Stored
<1>5. ~ByPrefix(t) => n = t.name
  BY <1>1 DEF ByPrefix, ExactHits
<1> QED BY <1>1, <1>4, <1>5

(* What may arrive.                                                         *)
LEMMA AnswersGood ==
  ASSUME TypeOK, NEW c \in Tasks, NEW d \in Answers(task[c])
  PROVE  /\ d \in Data /\ Authentic(d)
         /\ ~ByPrefix(task[c]) => d.name = task[c].name
<1> DEFINE t == task[c]
<1>1. d \in Signed \/ d \in [name : Names, ver : Versions, seal : Rogue, at : {now}]
  BY DEF Answers
<1>2. now \in Nat /\ was \subseteq Versions \X Nat
  BY DEF TypeOK
<1>3. ASSUME d \in Signed PROVE d \in Data /\ Authentic(d)
  <2>1. CASE d \in {[name |-> Meta, ver |-> w[1], seal |-> "good", at |-> w[2]] : w \in was}
    <3>1. PICK w \in was : d = [name |-> Meta, ver |-> w[1], seal |-> "good", at |-> w[2]]
      BY <2>1
    <3>2. w[1] \in Versions /\ w[2] \in Nat /\ w = <<w[1], w[2]>>
      BY <1>2
    <3>3. d.ver = w[1] /\ d.at = w[2]
      BY <3>1
    <3>4. d \in Data
      BY <3>1, <3>2, NamesTyped DEF Data, Seals
    <3>5. <<d.ver, d.at>> = w
      BY <3>2, <3>3
    <3> QED BY <3>4, <3>5 DEF Authentic
  <2>2. CASE d \notin {[name |-> Meta, ver |-> w[1], seal |-> "good", at |-> w[2]] : w \in was}
    <3>1. PICK x \in Versions \X was :
            d = [name |-> NameOf(x[1]), ver |-> x[1], seal |-> "good", at |-> x[2][2]]
      BY <1>3, <2>2 DEF Signed
    <3>2. x[1] \in Versions /\ x[2][2] \in Nat
      BY <1>2
    <3>3. NameOf(x[1]) \in Names /\ NameOf(x[1]) # Meta
      BY <3>2, NamesTyped
    <3>4. d \in Data
      BY <3>1, <3>2, <3>3 DEF Data, Seals
    <3>5. d.name = NameOf(x[1])
      BY <3>1
    <3> QED BY <3>3, <3>4, <3>5 DEF Authentic
  <2> QED BY <2>1, <2>2
<1>4. ASSUME d \in [name : Names, ver : Versions, seal : Rogue, at : {now}]
      PROVE  d \in Data /\ Authentic(d)
  <2>1. Rogue \subseteq Seals /\ "good" \notin Rogue
    BY FetchAssumption
  <2>2. d \in Data /\ d.seal # "good"
    BY <1>2, <1>4, <2>1 DEF Data
  <2> QED BY <2>2 DEF Authentic
<1>5. Fits(t, d)
  BY DEF Answers
<1>6. ~ByPrefix(t) => d.name = t.name
  BY <1>5 DEF Fits
<1>7. d \in Data /\ Authentic(d)
  BY <1>1, <1>3, <1>4
<1> QED BY <1>6, <1>7

LEMMA AttemptMoves ==
  ASSUME TypeOK, Stored, NEW c \in Tasks, Attempt(c)
  PROVE  TasksMove /\ UNCHANGED <<now, cur, was, cache, seen>>
<1> DEFINE t == task[c]
<1>0. t \in Task /\ task \in [Tasks -> Task]
  BY DEF TypeOK
<1>1. t.pc = "try"
  BY DEF Attempt
<1>2. ASSUME NEW d \in OwnHits(t), task' = [task EXCEPT ![c].pc = "judge", ![c].data = d]
      PROVE  TasksMove
  <2> DEFINE u == [t EXCEPT !.pc = "judge", !.data = d]
  <2>1. d \in Data /\ Authentic(d) /\ (~ByPrefix(t) => d.name = t.name)
    BY <1>2, HitsGood
  <2>2. task' = [task EXCEPT ![c] = u]
    BY <1>0, <1>2
  <2>3. u.pc = "judge" /\ u.data = d /\ Same(t, u)
    BY <1>0 DEF Task, Same
  <2>4. u \in Task
    BY <1>0, <2>1 DEF Task
  <2> HIDE DEF u
  <2>5. Moved(t, u)
    BY <1>1, <2>1, <2>3 DEF Moved, Supplied
  <2> QED BY <1>0, <2>2, <2>4, <2>5, OneMoves
<1>3. ASSUME task' = [task EXCEPT ![c].pc = "wait", ![c].asked = @ + 1,
                                  ![c].owed = @ \/ t.stage = "meta"]
      PROVE  TasksMove
  <2> DEFINE u == [t EXCEPT !.pc = "wait", !.asked = @ + 1, !.owed = @ \/ t.stage = "meta"]
  <2>1. task' = [task EXCEPT ![c] = u]
    BY <1>0, <1>3
  <2>2. u.pc = "wait" /\ Same(t, u)
    BY <1>0 DEF Task, Same
  <2>3. u \in Task
    <3>1. t.asked + 1 \in Nat /\ (t.owed \/ t.stage = "meta") \in BOOLEAN
      BY <1>0 DEF Task
    <3> DEFINE a == t.asked + 1
               o == t.owed \/ t.stage = "meta"
    <3>2. u = [t EXCEPT !.pc = "wait", !.asked = a, !.owed = o]
      BY <1>0 DEF Task
    <3>3. a \in Nat /\ o \in BOOLEAN
      BY <3>1
    <3> HIDE DEF a, o, u
    <3> QED BY <1>0, <3>2, <3>3 DEF Task
  <2> HIDE DEF u
  <2>4. Moved(t, u)
    BY <1>1, <2>2 DEF Moved, Waits
  <2> QED BY <1>0, <2>1, <2>3, <2>4, OneMoves
<1>4. \/ \E d \in OwnHits(t) : task' = [task EXCEPT ![c].pc = "judge", ![c].data = d]
      \/ task' = [task EXCEPT ![c].pc = "wait", ![c].asked = @ + 1,
                              ![c].owed = @ \/ t.stage = "meta"]
  BY DEF Attempt
<1>5. UNCHANGED <<now, cur, was, cache, seen>>
  BY DEF Attempt
<1> QED BY <1>2, <1>3, <1>4, <1>5
LEMMA NoAnswerMoves ==
  ASSUME TypeOK, NEW c \in Tasks, NEW error \in BOOLEAN, NoLink(c) \/ Silence(c, error)
  PROVE  TasksMove /\ UNCHANGED <<now, cur, was, cache, seen>>
<1> DEFINE t == task[c]
<1>1. t \in Task /\ task \in [Tasks -> Task]
  BY DEF TypeOK
<1>2. CASE NoLink(c)
  <2> DEFINE a == t.asked + 1
             u == [t EXCEPT !.pc = "backoff", !.failed = TRUE, !.asked = a]
  <2>1. a \in Nat
    BY <1>1 DEF Task
  <2>2. task' = [task EXCEPT ![c].pc = "backoff", ![c].failed = TRUE, ![c].asked = @ + 1]
        /\ t.pc = "try"
    BY <1>2 DEF NoLink
  <2>3. task' = [task EXCEPT ![c] = u]
    BY <1>1, <2>2
  <2> HIDE DEF a
  <2>4. u.pc = "backoff" /\ Same(t, u) /\ u \in Task
    BY <1>1, <2>1 DEF Task, Same
  <2> HIDE DEF u
  <2>5. Moved(t, u)
    BY <2>2, <2>4 DEF Moved, Waits
  <2> QED BY <1>1, <1>2, <2>3, <2>4, <2>5, OneMoves DEF NoLink
<1>3. CASE Silence(c, error)
  <2> DEFINE f == t.failed \/ error
             u == [t EXCEPT !.pc = "backoff", !.failed = f]
  <2>1. f \in BOOLEAN
    BY <1>1 DEF Task
  <2>2. task' = [task EXCEPT ![c].pc = "backoff", ![c].failed = @ \/ error] /\ t.pc = "wait"
    BY <1>3 DEF Silence
  <2>3. task' = [task EXCEPT ![c] = u]
    BY <1>1, <2>2
  <2> HIDE DEF f
  <2>4. u.pc = "backoff" /\ Same(t, u) /\ u \in Task
    BY <1>1, <2>1 DEF Task, Same
  <2> HIDE DEF u
  <2>5. Moved(t, u)
    BY <2>2, <2>4 DEF Moved, Waits
  <2> QED BY <1>1, <1>3, <2>3, <2>4, <2>5, OneMoves DEF Silence
<1> QED BY <1>2, <1>3

(* A Data that arrives for one call may answer others: those that wait for  *)
(* its name, or if there is none, those that wait for the prefix.           *)
LEMMA ArriveMoves ==
  ASSUME TypeOK, NEW c \in Tasks, Arrive(c)
  PROVE  /\ TasksMove /\ UNCHANGED <<now, cur, was, seen>>
         /\ \E d \in Data : Authentic(d)
              /\ cache' = [cache EXCEPT ![d.name] = [data |-> d, since |-> now]]
<1> DEFINE waits == {x \in Tasks : task[x].pc = "wait"}
           exact(d) == {x \in waits : ~ByPrefix(task[x]) /\ task[x].name = d.name}
           woken(d) == IF exact(d) # {} THEN exact(d)
                       ELSE {x \in waits : ByPrefix(task[x])}
<1>1. PICK d \in Answers(task[c]) :
        /\ cache' = [cache EXCEPT ![d.name] = [data |-> d, since |-> now]]
        /\ task' = [x \in Tasks |-> IF x \in woken(d)
                                      THEN [task[x] EXCEPT !.pc = "judge", !.data = d,
                                                           !.owed = @ /\ d.name # Meta]
                                      ELSE task[x]]
  BY DEF Arrive
<1>2. /\ d \in Data /\ Authentic(d)
      /\ ~ByPrefix(task[c]) => d.name = task[c].name
  BY AnswersGood
<1>3. c \in waits /\ UNCHANGED <<now, cur, was, seen>>
  BY DEF Arrive
<1>4. ASSUME NEW x \in woken(d)
      PROVE  /\ x \in Tasks /\ task[x].pc = "wait"
             /\ ~ByPrefix(task[x]) => task[x].name = d.name
  <2>1. ~ByPrefix(task[c]) => c \in exact(d)
    BY <1>2, <1>3
  <2>2. CASE exact(d) # {}
    BY <1>4, <2>2
  <2>3. CASE exact(d) = {}
    BY <1>4, <2>1, <2>3
  <2> QED BY <2>2, <2>3
<1> HIDE DEF woken, exact, waits
<1>5. ASSUME NEW x \in Tasks, x \in woken(d)
      PROVE  task'[x] \in Task /\ Moved(task[x], task'[x])
  <2> DEFINE t == task[x]
             u == [t EXCEPT !.pc = "judge", !.data = d, !.owed = @ /\ d.name # Meta]
  <2>1. t \in Task /\ task'[x] = u
    BY <1>1, <1>5 DEF TypeOK
  <2>2. u.pc = "judge" /\ u.data = d /\ Same(t, u) /\ u \in Task
    BY <1>2, <2>1 DEF Task, Same
  <2> HIDE DEF u
  <2>4. Moved(t, u)
    BY <1>2, <1>4, <1>5, <2>2 DEF Moved, Supplied
  <2> QED BY <2>1, <2>2, <2>4
<1>6. ASSUME NEW x \in Tasks, x \notin woken(d)
      PROVE  task'[x] = task[x] /\ task[x] \in Task
  BY <1>1, <1>6 DEF TypeOK
<1>7. task' \in [Tasks -> Task]
  <2>1. \A x \in Tasks : task'[x] \in Task
    BY <1>5, <1>6
  <2> QED BY <1>1, <2>1
<1>8. TasksMove
  BY <1>5, <1>6, <1>7 DEF TasksMove
<1> QED BY <1>1, <1>2, <1>3, <1>8

(* An answer that passes.                                                   *)
LEMMA WalkedDoes ==
  ASSUME NEW t \in Task, NEW d \in Data
  PROVE  LET u == Walked(t, d)
         IN /\ u \in Task
            /\ d.ver < t.min => Same(t, u) /\ u.pc = "none"
            /\ d.ver >= t.min =>
                 /\ Begun(t, u, "range", Meta, 0)
                 /\ u.min = d.ver + 1 /\ u.got = Append(t.got, d.ver) /\ u.floor = t.floor
<1>1. d.ver \in Versions /\ d.ver \in Nat /\ t.min \in Nat
  BY FetchAssumption DEF Data, Versions, Task
<1>2. CASE d.ver < t.min
  <2>1. Walked(t, d) = [t EXCEPT !.pc = "none", !.data = None]
    BY <1>2 DEF Walked
  <2> DEFINE u == [t EXCEPT !.pc = "none", !.data = None]
  <2>2. u \in Task /\ Same(t, u) /\ u.pc = "none"
    BY DEF Task, Same
  <2> QED BY <1>1, <1>2, <2>1, <2>2
<1>3. CASE d.ver >= t.min
  <2> DEFINE b == Begin(t, "range", Meta, 0)
             g == Append(b.got, d.ver)
             m == d.ver + 1
             u == [b EXCEPT !.min = m, !.got = g]
  <2>1. Walked(t, d) = u
    BY <1>1, <1>3 DEF Walked
  <2>2. /\ b \in Task /\ Begun(t, b, "range", Meta, 0)
        /\ b.got = t.got /\ b.floor = t.floor
    BY BeginDoes, NamesTyped, FetchAssumption
  <2>3. m \in 0..(MaxVersion + 1)
    BY <1>1, FetchAssumption DEF Versions
  <2>4. g \in Seq(Versions) /\ g = Append(t.got, d.ver)
    BY <1>1, <2>2 DEF Task
  <2> HIDE DEF b, g, m
  <2>5. /\ u \in Task /\ u.min = m /\ u.got = g /\ u.floor = b.floor
        /\ u.req = b.req /\ u.pc = b.pc /\ u.stage = b.stage /\ u.name = b.name
        /\ u.pin = b.pin /\ u.attempt = b.attempt
    BY <2>2, <2>3, <2>4 DEF Task
  <2> HIDE DEF u
  <2>6. Begun(t, u, "range", Meta, 0)
    BY <2>2, <2>5 DEF Begun
  <2> QED BY <1>1, <1>3, <2>1, <2>2, <2>4, <2>5, <2>6 DEF m
<1> QED BY <1>1, <1>2, <1>3
AcceptedBy(c) ==
  /\ task' \in [Tasks -> Task]
  /\ Accepted(task[c], task'[c])
  /\ \A x \in Tasks \ {c} : task'[x] = task[x]
  /\ seen' = IF RejectRollback /\ task[c].data.seal = "good"
               THEN [seen EXCEPT ![task[c].data.name] = task[c].data] ELSE seen

LEMMA AcceptMoves ==
  ASSUME TypeOK, InHand, NEW c \in Tasks, Accept(c)
  PROVE  AcceptedBy(c) /\ UNCHANGED <<now, cur, was, cache>>
<1> DEFINE t == task[c]
           d == t.data
<1>1. t \in Task /\ task \in [Tasks -> Task]
  BY DEF TypeOK
<1>2. t.pc = "judge" /\ Passes(t, d)
  BY DEF Accept
<1> PICK u \in Follows(t, d) : task' = [task EXCEPT ![c] = u]
  BY DEF Accept
<1>3. d \in Data /\ d.ver \in Versions
  BY <1>2 DEF InHand, Data
<1>4. u \in Task /\ Accepted(t, u)
  <2>1. CASE t.stage = "meta"
    <3>1. NameOf(d.ver) \in Names /\ d.ver \in 0..MaxVersion
      BY <1>3, NamesTyped, FetchAssumption DEF Versions
    <3>2. u = Begin(t, "target", NameOf(d.ver), d.ver) \/ u = Begin(t, "fallback", Meta, 0)
      BY <2>1 DEF Follows
    <3>3. CASE u = Begin(t, "target", NameOf(d.ver), d.ver)
      <4>1. /\ u \in Task /\ Begun(t, u, "target", NameOf(d.ver), d.ver)
            /\ u.min = t.min /\ u.got = t.got /\ u.floor = t.floor
        BY <1>1, <3>1, <3>3, BeginDoes
      <4> QED BY <1>2, <2>1, <4>1 DEF Accepted
    <3>4. CASE u = Begin(t, "fallback", Meta, 0)
      <4>1. Meta \in Names /\ 0 \in 0..MaxVersion
        BY NamesTyped, FetchAssumption
      <4>2. /\ u \in Task /\ Begun(t, u, "fallback", Meta, 0)
            /\ u.min = t.min /\ u.got = t.got /\ u.floor = t.floor
        BY <1>1, <3>4, <4>1, BeginDoes
      <4> QED BY <1>2, <2>1, <4>2 DEF Accepted
    <3> QED BY <3>2, <3>3, <3>4
  <2>2. CASE t.stage = "range"
    <3>1. u = Walked(t, d)
      BY <2>2 DEF Follows
    <3>2. /\ u \in Task
          /\ d.ver < t.min => Same(t, u) /\ u.pc = "none"
          /\ d.ver >= t.min =>
               /\ Begun(t, u, "range", Meta, 0)
               /\ u.min = d.ver + 1 /\ u.got = Append(t.got, d.ver) /\ u.floor = t.floor
      BY <1>1, <1>3, <3>1, WalkedDoes
    <3>3. d.ver < t.min \/ d.ver >= t.min
      BY <1>1, <1>3 DEF Task, Versions
    <3> QED BY <1>2, <2>2, <3>2, <3>3 DEF Accepted
  <2>3. CASE t.stage \notin {"meta", "range"}
    <3>1. u = [t EXCEPT !.pc = "returned"]
      BY <2>3 DEF Follows
    <3>2. u \in Task /\ Same(t, u) /\ u.pc = "returned" /\ u.data = d
      BY <1>1, <3>1 DEF Task, Same
    <3> QED BY <1>2, <2>3, <3>2 DEF Accepted
  <2> QED BY <2>1, <2>2, <2>3
<1>5. /\ UNCHANGED <<now, cur, was, cache>>
      /\ seen' = IF RejectRollback /\ d.seal = "good" THEN [seen EXCEPT ![d.name] = d] ELSE seen
  BY DEF Accept
<1>6. /\ task' \in [Tasks -> Task] /\ task'[c] = u
      /\ \A x \in Tasks \ {c} : task'[x] = task[x]
  BY <1>1, <1>4, Replaced
<1> QED BY <1>4, <1>5, <1>6 DEF AcceptedBy

(* An attempt is over.                                                      *)
LEMMA NextAttemptDoes ==
  ASSUME NEW t \in Task, NEW b \in Task, t.pc \in {"judge", "backoff"}, Same(t, b),
         b.pc = t.pc
  PROVE  NextAttempt(b) \in Task /\ GaveUp(t, NextAttempt(b))
<1>1. t.attempt \in 0..MaxRetries /\ MaxRetries \in Nat
  BY FetchAssumption DEF Task
<1>2. CASE t.attempt < MaxRetries
  <2> DEFINE a == b.attempt + 1
             u == [b EXCEPT !.pc = "try", !.attempt = a]
  <2>1. NextAttempt(b) = u
    BY <1>2 DEF NextAttempt, Same
  <2>2. a \in 0..MaxRetries /\ a = t.attempt + 1
    BY <1>1, <1>2 DEF Same
  <2> HIDE DEF a
  <2>3. /\ u \in Task /\ u.pc = "try" /\ u.attempt = a
        /\ u.req = b.req /\ u.stage = b.stage /\ u.name = b.name /\ u.pin = b.pin
        /\ u.min = b.min /\ u.got = b.got /\ u.floor = b.floor
    BY <2>2 DEF Task
  <2> HIDE DEF u
  <2> QED BY <1>2, <2>1, <2>2, <2>3 DEF GaveUp, Same
<1>3. CASE ~(t.attempt < MaxRetries) /\ t.stage = "meta"
  <2> DEFINE u == Begin(b, "fallback", Meta, 0)
  <2>1. NextAttempt(b) = u
    BY <1>3 DEF NextAttempt, Exhausted, Same
  <2>2. /\ u \in Task /\ Begun(b, u, "fallback", Meta, 0)
        /\ u.min = b.min /\ u.got = b.got /\ u.floor = b.floor
    BY BeginDoes, NamesTyped, FetchAssumption
  <2> HIDE DEF u
  <2>3. Begun(t, u, "fallback", Meta, 0)
    BY <2>2 DEF Begun, Same
  <2> QED BY <1>3, <2>1, <2>2, <2>3 DEF GaveUp, Same
<1>4. CASE ~(t.attempt < MaxRetries) /\ t.stage # "meta"
  <2> DEFINE e == IF b.failed /\ ~ByPrefix(b) THEN "raised" ELSE "none"
             u == [b EXCEPT !.pc = e, !.data = None]
  <2>1. NextAttempt(b) = u
    BY <1>4 DEF NextAttempt, Exhausted, Same
  <2>2. e \in {"none", "raised"}
    OBVIOUS
  <2> HIDE DEF e
  <2>3. u \in Task /\ u.pc = e /\ Same(b, u)
    BY <2>2 DEF Task, Same
  <2> HIDE DEF u
  <2> QED BY <2>1, <2>2, <2>3 DEF GaveUp, Same
<1> QED BY <1>2, <1>3, <1>4

LEMMA GivingUpMoves ==
  ASSUME TypeOK, NEW c \in Tasks, Reject(c) \/ Backoff(c)
  PROVE  TasksMove /\ UNCHANGED <<now, cur, was, cache, seen>>
<1> DEFINE t == task[c]
<1>1. t \in Task /\ task \in [Tasks -> Task]
  BY DEF TypeOK
<1>2. \E b \in Task :
        /\ Same(t, b) /\ b.pc = t.pc /\ t.pc \in {"judge", "backoff"}
        /\ task' = [task EXCEPT ![c] = NextAttempt(b)]
  <2>1. CASE Reject(c)
    <3> DEFINE b == [t EXCEPT !.failed = TRUE, !.data = None]
    <3>1. b \in Task /\ Same(t, b) /\ b.pc = t.pc
      BY <1>1 DEF Task, Same
    <3>2. t.pc = "judge" /\ task' = [task EXCEPT ![c] = NextAttempt(b)]
      BY <1>1, <2>1 DEF Reject
    <3> HIDE DEF b
    <3> QED BY <3>1, <3>2
  <2>2. CASE Backoff(c)
    BY <1>1, <2>2 DEF Backoff, Same
  <2> QED BY <2>1, <2>2
<1>3. PICK b \in Task :
        /\ Same(t, b) /\ b.pc = t.pc /\ t.pc \in {"judge", "backoff"}
        /\ task' = [task EXCEPT ![c] = NextAttempt(b)]
  BY <1>2
<1>4. NextAttempt(b) \in Task /\ GaveUp(t, NextAttempt(b))
  BY <1>1, <1>3, NextAttemptDoes
<1>5. TasksMove
  BY <1>1, <1>3, <1>4, OneMoves DEF Moved
<1>6. UNCHANGED <<now, cur, was, cache, seen>>
  BY DEF Reject, Backoff
<1> QED BY <1>5, <1>6
(* The newest version found by a pointer is that of a search, or 0.         *)
Found == {x \in Tasks : task[x].pc = "returned" /\ task[x].stage = "target"}

LEMMA KnownIs ==
  ASSUME TypeOK, InHand
  PROVE  Known \in 0..MaxVersion /\ (Known = 0 \/ \E x \in Found : Known = task[x].data.ver)
<1> DEFINE vs == {0} \cup {task[x].data.ver : x \in Found}
           below == {n \in Nat : \E v \in vs : n = MaxVersion - v}
<1>1. MaxVersion \in Nat
  BY FetchAssumption
<1>2. \A x \in Found : task[x].data.ver \in 1..MaxVersion
  BY DEF Found, InHand, Data, Versions
<1>3. vs \subseteq 0..MaxVersion /\ 0 \in vs
  BY <1>1, <1>2
<1>4. Known = CHOOSE v \in vs : \A w \in vs : w <= v
  BY DEF Known, Found
<1> HIDE DEF vs
<1>5. below \in SUBSET Nat /\ MaxVersion - 0 \in below
  BY <1>1, <1>3
<1>6. PICK n \in below : \A m \in below : n <= m
  <2>1. below # {} /\ below \in SUBSET Nat
    BY <1>5
  <2> HIDE DEF below
  <2> QED BY <2>1, LeastNatural
<1>7. PICK v \in vs : n = MaxVersion - v
  BY <1>6
<1>8. \A w \in vs : MaxVersion - w \in below
  BY <1>1, <1>3
<1>9. \A w \in vs : w <= v
  <2> TAKE w \in vs
  <2>1. n <= MaxVersion - w
    BY <1>6, <1>8
  <2> HIDE DEF below
  <2> QED BY <1>1, <1>3, <1>7, <2>1
<1>10. Known \in vs
  BY <1>4, <1>9
<1>11. Known = 0 \/ \E x \in Found : Known = task[x].data.ver
  BY <1>10 DEF vs
<1> QED BY <1>3, <1>10, <1>11

LEMMA CallMoves ==
  ASSUME TypeOK, InHand, NEW c \in Tasks, Call(c)
  PROVE  TasksMove /\ UNCHANGED <<now, cur, was, cache, seen>>
<1> DEFINE t == task[c]
           r == t.req
           begun == CASE r.kind = "latest" -> Begin(t, "meta", Meta, 0)
                      [] r.kind = "range"  -> [Begin(t, "range", Meta, 0) EXCEPT !.min = r.ver]
                      [] OTHER -> Begin(t, "exact", NameOf(r.ver), IF r.pin THEN r.ver ELSE 0)
           u == [begun EXCEPT !.floor = Known]
<1>1. t \in Task /\ task \in [Tasks -> Task]
  BY DEF TypeOK
<1>2. /\ r \in [kind : {"exact", "latest", "range"}, ver : 0..MaxVersion, pin : BOOLEAN]
      /\ r.kind = "exact" => r.ver # 0
  BY <1>1 DEF Task, Request
<1>3. t.pc = "idle" /\ task' = [task EXCEPT ![c] = u]
  BY DEF Call
<1>4. /\ begun \in Task /\ begun.got = t.got
      /\ \/ r.kind = "latest" /\ Begun(t, begun, "meta", Meta, 0) /\ begun.min = t.min
         \/ r.kind = "range" /\ Begun(t, begun, "range", Meta, 0) /\ begun.min = r.ver
         \/ \E pin \in 0..MaxVersion :
              Begun(t, begun, "exact", NameOf(r.ver), pin) /\ begun.min = t.min
  <2>0. 0 \in 0..MaxVersion /\ MaxVersion \in Nat
    BY FetchAssumption
  <2>1. CASE r.kind = "latest"
    <3>1. begun = Begin(t, "meta", Meta, 0)
      BY <2>1
    <3> HIDE DEF begun
    <3> QED BY <1>1, <2>0, <2>1, <3>1, BeginDoes, NamesTyped
  <2>2. CASE r.kind = "range"
    <3> DEFINE b == Begin(t, "range", Meta, 0)
               v == r.ver
               e == [b EXCEPT !.min = v]
    <3>1. begun = e
      BY <2>2
    <3>2. b \in Task /\ Begun(t, b, "range", Meta, 0) /\ b.got = t.got
      BY <1>1, <2>0, BeginDoes, NamesTyped
    <3>3. v \in 0..(MaxVersion + 1)
      BY <1>2, <2>0
    <3> HIDE DEF b, begun
    <3>4. /\ e \in Task /\ e.min = v /\ e.got = b.got
          /\ e.req = b.req /\ e.pc = b.pc /\ e.stage = b.stage /\ e.name = b.name
          /\ e.pin = b.pin /\ e.attempt = b.attempt
      BY <3>2, <3>3 DEF Task
    <3> HIDE DEF e
    <3> QED BY <2>2, <3>1, <3>2, <3>4 DEF Begun
  <2>3. CASE r.kind \notin {"latest", "range"}
    <3> DEFINE pin == IF r.pin THEN r.ver ELSE 0
    <3>1. begun = Begin(t, "exact", NameOf(r.ver), pin)
      BY <2>3
    <3>2. NameOf(r.ver) \in Names /\ pin \in 0..MaxVersion
      BY <1>2, <2>0, <2>3, NamesTyped DEF Versions
    <3> HIDE DEF begun, pin
    <3> QED BY <1>1, <3>1, <3>2, BeginDoes
  <2> QED BY <2>1, <2>2, <2>3
<1>5. Known \in 0..MaxVersion
  BY KnownIs
<1> HIDE DEF begun
<1>6. /\ u \in Task /\ u.floor = Known /\ u.min = begun.min /\ u.got = begun.got
      /\ u.req = begun.req /\ u.pc = begun.pc /\ u.stage = begun.stage /\ u.name = begun.name
      /\ u.pin = begun.pin /\ u.attempt = begun.attempt
  BY <1>4, <1>5 DEF Task
<1> HIDE DEF u
<1>7. Called(t, u)
  BY <1>3, <1>4, <1>6 DEF Called, Begun
<1>8. TasksMove
  BY <1>1, <1>3, <1>6, <1>7, OneMoves DEF Moved
<1> QED BY <1>8 DEF Call
-----------------------------------------------------------------------------
(* What a step does to the rest: the producer's history only grows, the     *)
(* store takes authentic rows, and what is seen changes by an accepted      *)
(* answer.                                                                  *)

LEMMA WorldMoves ==
  ASSUME TypeOK, Clock, Stored, Publish \/ Tick \/ (\E n \in Names : Evict(n)) \/ UNCHANGED vars
  PROVE  /\ UNCHANGED <<task, seen>>
         /\ now' \in Nat /\ cur' \in 0..MaxVersion /\ was' \subseteq Versions \X Nat
         /\ cur <= cur' /\ was \subseteq was' /\ Clock'
         /\ cache' \in [Names -> Row \cup {None}]
         /\ \A n \in Names : cache'[n] = cache[n] \/ cache'[n] = None
<1>1. /\ now \in Nat /\ cur \in 0..MaxVersion /\ MaxVersion \in Nat
      /\ was \subseteq Versions \X Nat /\ Versions = 1..MaxVersion
  BY FetchAssumption DEF TypeOK, Versions
<1>2. \A w \in was : w[1] \in Nat /\ w[2] \in Nat /\ w[1] <= cur /\ w[2] <= now
  BY <1>1 DEF Clock
<1>3. ASSUME NEW v \in Nat, NEW k \in Nat, cur <= v, now <= k, now' = k, cur' = v,
             was' = was \cup {<<v, k>>}
      PROVE  Clock'
  <2>1. \A w \in was' : w[1] <= v /\ w[2] <= k
    BY <1>1, <1>2, <1>3
  <2>2. ASSUME NEW w \in was', NEW x \in was', w[2] < x[2]
        PROVE  w[1] <= x[1]
    <3>1. CASE w \in was /\ x \in was
      BY <2>2, <3>1 DEF Clock
    <3>2. CASE x = <<v, k>>
      BY <2>1, <3>2
    <3>3. CASE w = <<v, k>> /\ x \in was
      BY <1>1, <1>2, <1>3, <2>2, <3>3
    <3> QED BY <1>3, <3>1, <3>2, <3>3
  <2> QED BY <1>3, <2>1, <2>2 DEF Clock
<1>4. CASE Publish
  <2>1. /\ cur < MaxVersion /\ cur' = cur + 1 /\ was' = was \cup {<<cur + 1, now>>}
        /\ UNCHANGED <<now, cache, seen, task>>
    BY <1>4 DEF Publish
  <2>2. cur' \in 0..MaxVersion /\ cur <= cur' /\ cur + 1 \in Versions /\ cur + 1 \in Nat
    BY <1>1, <2>1
  <2>3. was' \subseteq Versions \X Nat /\ was \subseteq was'
    BY <1>1, <2>1, <2>2
  <2>4. Clock'
    BY <1>1, <1>3, <2>1, <2>2
  <2> QED BY <1>1, <2>1, <2>2, <2>3, <2>4 DEF TypeOK
<1>5. CASE Tick
  <2>1. /\ now' = now + 1 /\ UNCHANGED <<cur, cache, seen, task>>
        /\ was' = IF cur > 0 THEN was \cup {<<cur, now + 1>>} ELSE was
    BY <1>5 DEF Tick
  <2>2. now + 1 \in Nat /\ now <= now + 1 /\ cur \in Nat
    BY <1>1
  <2>3. was \subseteq was' /\ was' \subseteq Versions \X Nat
    BY <1>1, <2>1, <2>2
  <2>4. Clock'
    <3>1. CASE cur > 0
      BY <1>3, <2>1, <2>2, <3>1
    <3>2. CASE ~(cur > 0)
      <4>1. was' = was /\ cur' = cur
        BY <2>1, <3>2
      <4>2. \A w \in was : w[2] <= now + 1
        BY <1>1, <1>2
      <4> QED BY <1>2, <2>1, <4>1, <4>2 DEF Clock
    <3> QED BY <3>1, <3>2
  <2> QED BY <1>1, <2>1, <2>2, <2>3, <2>4 DEF TypeOK
<1>6. CASE \E n \in Names : Evict(n)
  <2>1. PICK n \in Names : Evict(n)
    BY <1>6
  <2>2. cache' = [cache EXCEPT ![n] = None] /\ UNCHANGED <<now, cur, was, seen, task>>
    BY <2>1 DEF Evict
  <2> QED BY <1>1, <2>2 DEF TypeOK, Clock
<1>7. CASE UNCHANGED vars
  BY <1>1, <1>7 DEF vars, TypeOK, Clock
<1> QED BY <1>4, <1>5, <1>6, <1>7

(* The moves of every step.                                                 *)
LEMMA StepMoves ==
  ASSUME TypeOK, Clock, Stored, InHand, [Next]_vars
  PROVE  /\ TypeOK' /\ Clock' /\ Stored' /\ cur <= cur' /\ was \subseteq was'
         /\ \/ TasksMove /\ seen' = seen
            \/ \E c \in Tasks : AcceptedBy(c)
<1>1. /\ now \in Nat /\ cur \in 0..MaxVersion /\ was \subseteq Versions \X Nat
      /\ cache \in [Names -> Row \cup {None}] /\ seen \in [Names -> Data \cup {None}]
      /\ task \in [Tasks -> Task] /\ cur <= cur
  BY FetchAssumption DEF TypeOK
<1> DEFINE Then(d) == d.seal = "good" /\ d.name = Meta => <<d.ver, d.at>> \in was'
<1>2. \A d : Authentic(d) /\ was \subseteq was' => Then(d)
  BY DEF Authentic
<1>3. ASSUME UNCHANGED <<now, cur, was, cache, seen>>, TasksMove
      PROVE  TypeOK' /\ Clock' /\ Stored' /\ cur <= cur' /\ was \subseteq was'
  BY <1>1, <1>3 DEF TypeOK, TasksMove, Clock, Stored, Authentic
<1>4. CASE \E c \in Tasks, error \in BOOLEAN :
             Attempt(c) \/ NoLink(c) \/ Silence(c, error) \/ Reject(c) \/ Backoff(c) \/ Call(c)
  <2>1. UNCHANGED <<now, cur, was, cache, seen>> /\ TasksMove
    BY <1>4, AttemptMoves, NoAnswerMoves, GivingUpMoves, CallMoves
  <2> QED BY <1>3, <2>1
<1>5. ASSUME NEW c \in Tasks, Accept(c)
      PROVE  /\ TypeOK' /\ Clock' /\ Stored' /\ cur <= cur' /\ was \subseteq was'
             /\ AcceptedBy(c)
  <2>1. UNCHANGED <<now, cur, was, cache>> /\ AcceptedBy(c)
    BY <1>5, AcceptMoves
  <2>2. task[c].data \in Data
    BY <1>5 DEF Accept, InHand
  <2>3. seen' \in [Names -> Data \cup {None}]
    <3> DEFINE d == task[c].data
    <3>1. seen' = seen \/ seen' = [seen EXCEPT ![d.name] = d]
      BY <2>1 DEF AcceptedBy
    <3>2. d \in Data
      BY <2>2
    <3> HIDE DEF d
    <3> QED BY <1>1, <3>1, <3>2
  <2>4. TypeOK'
    BY <1>1, <2>1, <2>3 DEF TypeOK, AcceptedBy
  <2>5. Clock' /\ Stored'
    BY <2>1 DEF Clock, Stored, Authentic
  <2> QED BY <1>1, <2>1, <2>4, <2>5
<1>6. ASSUME NEW c \in Tasks, Arrive(c)
      PROVE  /\ TypeOK' /\ Clock' /\ Stored' /\ cur <= cur' /\ was \subseteq was'
             /\ TasksMove /\ seen' = seen
  <2>1. TasksMove /\ UNCHANGED <<now, cur, was, seen>>
    BY <1>6, ArriveMoves
  <2>2. PICK d \in Data : /\ Authentic(d)
                          /\ cache' = [cache EXCEPT ![d.name] = [data |-> d, since |-> now]]
    BY <1>6, ArriveMoves
  <2> DEFINE r == [data |-> d, since |-> now]
  <2>3. r \in Row /\ r.data = d /\ d.name \in Names
    BY <1>1 DEF Row, Data
  <2>4. cache' = [cache EXCEPT ![d.name] = r]
    BY <2>2
  <2> HIDE DEF r
  <2>5. /\ cache' \in [Names -> Row \cup {None}] /\ cache'[d.name] = r
        /\ \A n \in Names \ {d.name} : cache'[n] = cache[n]
    BY <1>1, <2>3, <2>4
  <2>6. TypeOK'
    BY <1>1, <2>1, <2>5 DEF TypeOK, TasksMove
  <2>7. Stored'
    <3> SUFFICES ASSUME NEW n \in Names, cache'[n] # None
                 PROVE  cache'[n].data.name = n /\ Then(cache'[n].data)
      BY DEF Stored, Authentic
    <3>1. CASE n = d.name
      BY <1>2, <2>1, <2>2, <2>3, <2>5, <3>1
    <3>2. CASE n # d.name
      BY <1>2, <2>1, <2>5, <3>2 DEF Stored
    <3> QED BY <3>1, <3>2
  <2>8. Clock'
    BY <2>1 DEF Clock
  <2> QED BY <1>1, <2>1, <2>6, <2>7, <2>8
<1>7. ASSUME Publish \/ Tick \/ (\E n \in Names : Evict(n)) \/ UNCHANGED vars
      PROVE  /\ TypeOK' /\ Clock' /\ Stored' /\ cur <= cur' /\ was \subseteq was'
             /\ TasksMove /\ seen' = seen
  <2>1. /\ UNCHANGED <<task, seen>>
        /\ now' \in Nat /\ cur' \in 0..MaxVersion /\ was' \subseteq Versions \X Nat
        /\ cur <= cur' /\ was \subseteq was' /\ Clock'
        /\ cache' \in [Names -> Row \cup {None}]
        /\ \A n \in Names : cache'[n] = cache[n] \/ cache'[n] = None
    BY <1>7, WorldMoves
  <2>2. TypeOK'
    BY <1>1, <2>1 DEF TypeOK
  <2>3. Stored'
    <3> SUFFICES ASSUME NEW n \in Names, cache'[n] # None
                 PROVE  cache'[n].data.name = n /\ Then(cache'[n].data)
      BY DEF Stored, Authentic
    <3> QED BY <1>2, <2>1 DEF Stored
  <2>4. TasksMove
    BY <1>1, <2>1 DEF TasksMove
  <2> QED BY <2>1, <2>2, <2>3, <2>4
<1>8. \/ \E c \in Tasks, error \in BOOLEAN :
           Attempt(c) \/ NoLink(c) \/ Silence(c, error) \/ Reject(c) \/ Backoff(c) \/ Call(c)
      \/ \E c \in Tasks : Accept(c)
      \/ \E c \in Tasks : Arrive(c)
      \/ Publish \/ Tick \/ (\E n \in Names : Evict(n)) \/ UNCHANGED vars
  BY DEF Next, Runs
<1> QED BY <1>4, <1>5, <1>6, <1>7, <1>8
-----------------------------------------------------------------------------
(* The invariant of the searches.                                           *)

(* A good pointer compares with the newest one seen by its version.         *)
LEMMA PointerOrder ==
  ASSUME TypeOK, Clock, NEW d \in Data, NEW e \in Data, ~Older(d, e),
         <<d.ver, d.at>> \in was, <<e.ver, e.at>> \in was
  PROVE  e.ver <= d.ver /\ d.ver <= cur
<1>1. /\ d.ver \in Nat /\ e.ver \in Nat /\ d.at \in Nat /\ e.at \in Nat
  BY FetchAssumption DEF Data, Versions
<1>2. /\ e.at < d.at => e.ver <= d.ver
      /\ d.ver <= cur
  BY DEF Clock
<1> QED BY <1>1, <1>2 DEF Older

(* The newest pointer seen only moves on.                                   *)
LEMMA SeenGrows ==
  ASSUME FInv, TypeOK', was \subseteq was', seen' = seen \/ \E c \in Tasks : AcceptedBy(c)
  PROVE  Trusted' /\ NewestSeen <= NewestSeen' /\ NewestSeen \in Nat
<1>1. ASSUME NEW x \in {seen[Meta], seen'[Meta]}, x # None
      PROVE  x.ver \in Nat
  <2>1. x \in Data
    BY <1>1, NamesTyped DEF FInv, TypeOK
  <2> QED BY <2>1, FetchAssumption DEF Data, Versions
<1>2. NewestSeen \in Nat
  BY <1>1 DEF NewestSeen
<1>3. CASE seen'[Meta] = seen[Meta]
  BY <1>2, <1>3 DEF FInv, Trusted, NewestSeen
<1>4. CASE seen'[Meta] # seen[Meta]
  <2>1. PICK c \in Tasks : AcceptedBy(c)
    BY <1>4
  <2> DEFINE d == task[c].data
  <2>2. RejectRollback /\ d.seal = "good" /\ seen' = [seen EXCEPT ![d.name] = d]
    BY <1>4, <2>1 DEF AcceptedBy
  <2>3. task[c].pc = "judge" /\ Passes(task[c], d)
    BY <2>1 DEF AcceptedBy, Accepted
  <2>4. d \in Data /\ Authentic(d)
    BY <2>3 DEF FInv, InHand
  <2>5. d.name = Meta /\ seen'[Meta] = d
    <3>1. seen \in [Names -> Data \cup {None}] /\ d.name \in Names /\ Meta \in Names
      BY <2>4, NamesTyped DEF FInv, TypeOK, Data
    <3> HIDE DEF d
    <3> QED BY <1>4, <2>2, <3>1
  <2>6. <<d.ver, d.at>> \in was
    BY <2>2, <2>4, <2>5 DEF Authentic
  <2>7. d # None
    BY <2>4, FetchAssumption
  <2>8. Trusted' /\ NewestSeen' = d.ver
    BY <2>5, <2>6, <2>7 DEF Trusted, NewestSeen
  <2>9. CASE seen[Meta] = None
    <3>1. d.ver \in Nat
      BY <1>1, <2>5, <2>7
    <3> QED BY <1>2, <2>8, <2>9, <3>1 DEF NewestSeen
  <2>10. CASE seen[Meta] # None
    <3>1. ~Older(d, seen[Meta])
      BY <2>2, <2>3, <2>5, <2>10 DEF Passes, RollbackOk
    <3>2. seen[Meta] \in Data /\ <<seen[Meta].ver, seen[Meta].at>> \in was
      BY <2>10, NamesTyped DEF FInv, TypeOK, Trusted
    <3>3. seen[Meta].ver <= d.ver
      BY <2>4, <2>6, <3>1, <3>2, PointerOrder DEF FInv
    <3> QED BY <1>2, <2>8, <2>10, <3>3 DEF NewestSeen
  <2> QED BY <2>9, <2>10
<1> QED BY <1>3, <1>4

(* The pointer a search accepts.                                            *)
LEMMA PointerAccepted ==
  ASSUME FInv, NEW c \in Tasks, AcceptedBy(c), task[c].stage = "meta"
  PROVE  LET v == task[c].data.ver
         IN /\ v # 0 /\ v <= cur /\ v \in Nat
            /\ RejectRollback => NewestSeen' = v
<1> DEFINE d == task[c].data
<1>1. task[c].pc = "judge" /\ Passes(task[c], d)
  BY DEF AcceptedBy, Accepted
<1>2. d \in Data /\ Authentic(d) /\ d.name = Meta
  BY <1>1 DEF FInv, InHand, ByPrefix
<1>3. d.seal = "good"
  BY <1>1 DEF Passes, SignatureOk
<1>4. d.ver \in Nat /\ d.ver # 0 /\ d # None
  BY <1>2, FetchAssumption DEF Data, Versions
<1>5. d.ver <= cur
  BY <1>2, <1>3 DEF Authentic, FInv, Clock
<1>6. RejectRollback => NewestSeen' = d.ver
  <2>1. RejectRollback => seen' = [seen EXCEPT ![Meta] = d]
    BY <1>2, <1>3 DEF AcceptedBy
  <2>2. RejectRollback => seen'[Meta] = d
    BY <2>1, NamesTyped DEF FInv, TypeOK
  <2> QED BY <1>4, <2>2 DEF NewestSeen
<1> QED BY <1>4, <1>5, <1>6

(* A task moves on to another state by one of the moves.                    *)
LEMMA EachMoves ==
  ASSUME NEW c \in Tasks, TasksMove \/ \E x \in Tasks : AcceptedBy(x)
  PROVE  \/ task'[c] = task[c]
         \/ Moved(task[c], task'[c])
         \/ AcceptedBy(c) /\ Accepted(task[c], task'[c])
BY DEF TasksMove, AcceptedBy

LEMMA InHandNext ==
  ASSUME FInv, was \subseteq was', TypeOK', TasksMove \/ \E x \in Tasks : AcceptedBy(x)
  PROVE  InHand'
<1> DEFINE Then(d) == d.seal = "good" /\ d.name = Meta => <<d.ver, d.at>> \in was'
           Good(t) ==
             /\ t.pc = "idle" <=> t.stage = "none"
             /\ t.stage = "meta" => t.name = Meta
             /\ t.pc \in {"judge", "returned"} =>
                  /\ t.data \in Data /\ Then(t.data)
                  /\ ~ByPrefix(t) => t.data.name = t.name
<1>1. \A d : Authentic(d) => Then(d)
  BY DEF Authentic
<1> HIDE DEF Then
<1>2. ASSUME NEW c \in Tasks
      PROVE  Good(task'[c])
  <2> DEFINE t == task[c]
             u == task'[c]
  <2>1. /\ t.pc = "idle" <=> t.stage = "none"
        /\ t.stage = "meta" => t.name = Meta
        /\ t.pc \in {"judge", "returned"} =>
             /\ t.data \in Data /\ Then(t.data)
             /\ ~ByPrefix(t) => t.data.name = t.name
    BY <1>1 DEF FInv, InHand
  <2> HIDE DEF t, u
  <2>2. CASE u = t
    BY <2>1, <2>2 DEF u
  <2>3. CASE Waits(t, u) \/ GaveUp(t, u) \/ Called(t, u)
    <3>1. u.pc \notin {"judge", "returned", "idle"}
      BY <2>3 DEF Waits, GaveUp, Called, Begun
    <3>2. u.stage # "none" /\ (u.stage = "meta" => u.name = Meta)
      BY <2>1, <2>3 DEF Waits, GaveUp, Called, Begun, Same
    <3> QED BY <3>1, <3>2 DEF u
  <2>4. CASE Supplied(t, u)
    BY <1>1, <2>1, <2>4 DEF Supplied, Same, ByPrefix, u
  <2>5. CASE Accepted(t, u)
    BY <2>1, <2>5 DEF Accepted, Same, Begun, ByPrefix, u
  <2> QED BY <2>2, <2>3, <2>4, <2>5, EachMoves DEF Moved, t, u
<1> QED BY <1>2 DEF InHand, Authentic, Then
LEMMA ReturnsVerifiedNext ==
  ASSUME FInv, TasksMove \/ \E x \in Tasks : AcceptedBy(x)
  PROVE  ReturnsVerified'
<1> DEFINE Good(t) == t.pc = "returned" =>
                        /\ t.data.seal \in {"good", "unsigned"}
                        /\ RequireSig => t.data.seal = "good"
                        /\ t.pin # 0 => t.data.ver = t.pin
<1>1. ASSUME NEW c \in Tasks
      PROVE  Good(task'[c])
  <2> DEFINE t == task[c]
             u == task'[c]
  <2>1. Good(t)
    BY DEF FInv, ReturnsVerified
  <2>2. t.pc = "judge" => t.data \in Data
    BY DEF FInv, InHand
  <2> HIDE DEF t, u
  <2>3. CASE u = t
    BY <2>1, <2>3 DEF u
  <2>4. CASE Moved(t, u)
    <3>1. u.pc # "returned"
      BY <2>4 DEF Moved, Waits, Supplied, GaveUp, Called, Begun
    <3> QED BY <3>1 DEF u
  <2>5. CASE Accepted(t, u)
    <3>1. u.pc = "returned" => u.data = t.data /\ u.pin = t.pin /\ t.data \in Data
      BY <2>2, <2>5 DEF Accepted, Same, Begun
    <3>2. Passes(t, t.data)
      BY <2>5 DEF Accepted
    <3>3. t.data \in Data => t.data.seal \in Seals
      BY DEF Data
    <3>4. u.pc = "returned" => /\ t.data.seal \in {"good", "unsigned"}
                               /\ RequireSig => t.data.seal = "good"
                               /\ t.pin # 0 => t.data.ver = t.pin
      BY <3>1, <3>2, <3>3 DEF Passes, SignatureOk, Seals
    <3> QED BY <3>1, <3>4 DEF u
  <2> QED BY <2>3, <2>4, <2>5, EachMoves DEF t, u
<1> QED BY <1>1 DEF ReturnsVerified

(* What was known when a call begins has been seen.                         *)
LEMMA KnownSeen ==
  ASSUME FInv, RejectRollback
  PROVE  Known <= NewestSeen /\ Known \in Nat
<1>1. Known \in 0..MaxVersion /\ (Known = 0 \/ \E x \in Found : Known = task[x].data.ver)
  BY KnownIs DEF FInv
<1>2. NewestSeen \in Nat
  <2>1. seen[Meta] \in Data \cup {None}
    BY NamesTyped DEF FInv, TypeOK
  <2> QED BY <2>1, FetchAssumption DEF NewestSeen, Data, Versions
<1>3. ASSUME NEW x \in Found
      PROVE  task[x].data.ver <= NewestSeen
  <2>1. x \in Tasks /\ task[x].pc = "returned" /\ task[x].stage = "target"
    BY DEF Found
  <2>2. task[x].pin # 0 /\ task[x].pin <= NewestSeen
    BY <2>1 DEF FInv, Pinned
  <2> QED BY <2>1, <2>2 DEF FInv, ReturnsVerified
<1> QED BY <1>1, <1>2, <1>3, FetchAssumption

LEMMA PinnedNext ==
  ASSUME FInv, TypeOK', was \subseteq was', cur <= cur',
         (TasksMove /\ seen' = seen) \/ \E x \in Tasks : AcceptedBy(x)
  PROVE  Pinned'
<1> DEFINE n == NewestSeen
           m == NewestSeen'
           Good(t, k, v) ==
             /\ t.stage = "target" => t.pin # 0 /\ t.pin <= v
             /\ RejectRollback =>
                  /\ t.floor <= k
                  /\ t.stage = "target" => t.floor <= t.pin /\ t.pin <= k
<1>1. n <= m /\ n \in Nat /\ m \in Nat /\ cur \in Nat /\ cur' \in Nat
  <2>1. n <= m /\ n \in Nat
    BY SeenGrows
  <2>2. cur \in Nat /\ cur' \in Nat
    BY FetchAssumption DEF FInv, TypeOK
  <2>3. m \in Nat
    <3>1. seen'[Meta] \in Data \cup {None}
      BY NamesTyped DEF TypeOK
    <3> QED BY <3>1, FetchAssumption DEF NewestSeen, Data, Versions
  <2> QED BY <2>1, <2>2, <2>3
<1>2. RejectRollback => Known <= n /\ Known \in Nat
  BY KnownSeen
<1> HIDE DEF n, m
<1>3. ASSUME NEW c \in Tasks
      PROVE  Good(task'[c], m, cur')
  <2> DEFINE t == task[c]
             u == task'[c]
  <2>1. t \in Task /\ Good(t, n, cur)
    BY DEF FInv, Pinned, TypeOK, n
  <2>2. t.pin \in Nat /\ t.floor \in Nat
    BY <2>1, FetchAssumption DEF Task
  <2>3. AcceptedBy(c) /\ t.stage = "meta" =>
          /\ t.data.ver # 0 /\ t.data.ver <= cur /\ t.data.ver \in Nat
          /\ RejectRollback => m = t.data.ver
    BY PointerAccepted DEF m
  <2> HIDE DEF t, u
  <2>4. Good(t, m, cur')
    BY <1>1, <2>1, <2>2
  <2>5. CASE u = t
    BY <2>4, <2>5 DEF u
  <2>6. CASE Waits(t, u) \/ Supplied(t, u) \/ GaveUp(t, u)
    <3>1. u.floor = t.floor /\ (u.stage = "target" => t.stage = "target" /\ u.pin = t.pin)
      BY <2>6 DEF Waits, Supplied, GaveUp, Same, Begun
    <3> QED BY <2>4, <3>1 DEF u
  <2>7. CASE Called(t, u)
    <3>1. u.floor = Known /\ u.stage # "target"
      BY <2>7 DEF Called, Begun
    <3> QED BY <1>1, <1>2, <3>1 DEF u
  <2>8. CASE AcceptedBy(c) /\ Accepted(t, u)
    <3>1. CASE t.stage = "meta"
      <4>1. u.floor = t.floor /\ (u.stage = "target" => u.pin = t.data.ver)
        BY <2>8, <3>1 DEF Accepted, Begun
      <4>2. t.data.ver # 0 /\ t.data.ver <= cur' /\ (RejectRollback => m = t.data.ver)
        BY <1>1, <2>3, <2>8, <3>1
      <4> QED BY <1>1, <2>1, <2>2, <2>4, <4>1, <4>2 DEF u
    <3>2. CASE t.stage # "meta"
      <4>1. u.floor = t.floor /\ (u.stage = "target" => t.stage = "target" /\ u.pin = t.pin)
        BY <2>8, <3>2 DEF Accepted, Same, Begun
      <4> QED BY <2>4, <4>1 DEF u
    <3> QED BY <3>1, <3>2
  <2> QED BY <2>5, <2>6, <2>7, <2>8, EachMoves DEF Moved, t, u
<1> QED BY <1>3 DEF Pinned, m

LEMMA FInvInit == Init => FInv
<1> SUFFICES ASSUME Init PROVE FInv
  OBVIOUS
<1>1. PICK f \in Calls : task = [c \in Tasks |-> Idle(f[c])]
  BY DEF Init
<1>2. \A r \in Request : Idle(r) \in Task
  <2>1. 0 \in 0..MaxVersion /\ 0 \in 0..MaxRetries /\ 0 \in 0..(MaxVersion + 1) /\ 0 \in Nat
    BY FetchAssumption
  <2>2. <<>> \in Seq(Versions) /\ Meta \in Names
    BY NamesTyped
  <2> QED BY <2>1, <2>2 DEF Idle, Task
<1>3. f \in [Tasks -> Request]
  BY FetchAssumption
<1>4. task \in [Tasks -> Task]
  BY <1>1, <1>2, <1>3
<1>5. TypeOK
  BY <1>4, FetchAssumption DEF Init, TypeOK
<1>6. \A c \in Tasks : task[c] = Idle(f[c])
  BY <1>1
<1>7. \A c \in Tasks :
        task[c].pc = "idle" /\ task[c].stage = "none" /\ task[c].floor = 0
  <2> TAKE c \in Tasks
  <2> DEFINE r == f[c]
  <2>1. task[c] = Idle(r)
    BY <1>6
  <2> HIDE DEF r
  <2> QED BY <2>1 DEF Idle
<1>8. Meta \in Names
  BY NamesTyped
<1>9. Clock /\ Stored /\ Trusted
  BY <1>8 DEF Init, Clock, Stored, Trusted
<1>10. InHand /\ ReturnsVerified
  BY <1>7 DEF InHand, ReturnsVerified
<1>11. Pinned
  <2>1. NewestSeen = 0
    BY <1>8 DEF Init, NewestSeen
  <2>2. ASSUME NEW c \in Tasks
        PROVE  task[c].stage # "target" /\ task[c].floor <= NewestSeen
    <3>1. task[c].floor = 0 /\ task[c].stage = "none"
      BY <1>7
    <3>2. task[c].floor \in Nat /\ task[c].floor = NewestSeen
      BY <2>1, <3>1
    <3> QED BY <3>1, <3>2
  <2> QED BY <2>2 DEF Pinned
<1> QED BY <1>5, <1>9, <1>10, <1>11 DEF FInv

LEMMA FInvNext == FInv /\ [Next]_vars => FInv'
<1> SUFFICES ASSUME FInv, [Next]_vars PROVE FInv'
  OBVIOUS
<1>1. /\ TypeOK' /\ Clock' /\ Stored' /\ cur <= cur' /\ was \subseteq was'
      /\ (TasksMove /\ seen' = seen) \/ \E c \in Tasks : AcceptedBy(c)
  BY StepMoves DEF FInv
<1>2. Trusted'
  BY <1>1, SeenGrows
<1>3. InHand' /\ ReturnsVerified' /\ Pinned'
  BY <1>1, InHandNext, ReturnsVerifiedNext, PinnedNext
<1> QED BY <1>1, <1>2, <1>3 DEF FInv

(* Every table and call keeps its type.                                     *)
THEOREM FetchTyped == Spec => []TypeOK
<1>1. FInv => TypeOK
  BY DEF FInv
<1> QED BY FInvInit, FInvNext, <1>1, PTL DEF Spec

(* Whatever the network answers, a call returns only what passes its policy *)
(* (_fetch_verified and its checks).                                        *)
THEOREM OnlyVerifiedReturned == Spec => []ReturnsVerified
<1>1. FInv => ReturnsVerified
  BY DEF FInv
<1> QED BY FInvInit, FInvNext, <1>1, PTL DEF Spec

(* A version found by the pointer is one the producer has published, and no *)
(* older than what an earlier search found (fetch_latest).                  *)
THEOREM PointerMovesOn == Spec => []PointerNeverGoesBack
<1>1. FInv => PointerNeverGoesBack
  BY DEF FInv, Pinned, ReturnsVerified, PointerNeverGoesBack
<1> QED BY FInvInit, FInvNext, <1>1, PTL DEF Spec
-----------------------------------------------------------------------------
(* Every call comes to an end.                                              *)

(* The rank by stage, attempt and what is being waited for.                 *)
Stage(t) ==
  CASE t.stage = "none" -> 0 [] t.stage \in {"exact", "meta"} -> 1
    [] t.stage = "range" -> 1 + t.min [] OTHER -> 2
Phase(t) == CASE t.pc = "wait" -> 1 [] t.pc \in {"judge", "backoff"} -> 2 [] OTHER -> 0

LEMMA RankIs ==
  ASSUME NEW t
  PROVE  Rank(t) = IF Ended(t) THEN 4 * Steps * (MaxRetries + 1)
                   ELSE 4 * (Stage(t) * (MaxRetries + 1) + t.attempt) + Phase(t)
BY DEF Rank, Stage, Phase

LEMMA Times ==
  ASSUME NEW a \in Nat, NEW b \in Nat, NEW k \in Nat, a < b
  PROVE  a * k + k <= b * k /\ a * k \in Nat /\ b * k \in Nat
<1>1. PICK d \in Nat : b = a + 1 + d
  <2>1. b - a - 1 \in Nat
    OBVIOUS
  <2>2. b = a + 1 + (b - a - 1)
    OBVIOUS
  <2> QED BY <2>1, <2>2
<1>2. b * k = a * k + k + d * k
  BY <1>1
<1>3. d * k \in Nat /\ a * k \in Nat /\ b * k \in Nat
  OBVIOUS
<1> QED BY <1>2, <1>3

LEMMA StageBound ==
  ASSUME NEW t \in Task
  PROVE  /\ Stage(t) \in Nat /\ Phase(t) \in {0, 1, 2} /\ t.attempt \in 0..MaxRetries
         /\ Stage(t) < Steps /\ Steps \in Nat /\ MaxRetries \in Nat
<1>1. MaxVersion \in Nat /\ MaxRetries \in Nat /\ t.min \in 0..(MaxVersion + 1)
      /\ t.attempt \in 0..MaxRetries
  BY FetchAssumption DEF Task
<1>2. Phase(t) \in {0, 1, 2}
  BY DEF Phase
<1>3. Stage(t) \in {0, 1, 2, 1 + t.min}
  BY DEF Stage
<1> QED BY <1>1, <1>2, <1>3 DEF Steps

(* Order by stage, then attempt, then phase.                                *)
LEMMA RankGrows ==
  ASSUME NEW t \in Task, NEW u \in Task, ~Ended(t),
         \/ Ended(u)
         \/ Stage(t) < Stage(u)
         \/ Stage(t) = Stage(u) /\ t.attempt < u.attempt
         \/ Stage(t) = Stage(u) /\ t.attempt = u.attempt /\ Phase(t) < Phase(u)
  PROVE  Rank(t) < Rank(u) /\ Rank(u) <= 4 * Steps * (MaxRetries + 1)
<1> DEFINE k == MaxRetries + 1
           x == Stage(t) * k
           y == Stage(u) * k
           z == Steps * k
<1>1. /\ Stage(t) \in Nat /\ Stage(u) \in Nat /\ Steps \in Nat /\ k \in Nat
      /\ Phase(t) \in {0, 1, 2} /\ Phase(u) \in {0, 1, 2}
      /\ t.attempt \in Nat /\ u.attempt \in Nat
      /\ t.attempt + 1 <= k /\ u.attempt + 1 <= k
      /\ Stage(t) < Steps /\ Stage(u) < Steps
  BY StageBound
<1>2. Rank(t) = 4 * (x + t.attempt) + Phase(t)
  BY RankIs
<1>3. 4 * Steps * (MaxRetries + 1) = 4 * z
  BY <1>1
<1>4. Rank(u) = IF Ended(u) THEN 4 * z ELSE 4 * (y + u.attempt) + Phase(u)
  BY <1>3, RankIs
<1> HIDE DEF k
<1>5. /\ x + k <= z /\ y + k <= z /\ x \in Nat /\ y \in Nat /\ z \in Nat
      /\ Stage(t) < Stage(u) => x + k <= y
  BY <1>1, Times
<1>6. Stage(t) = Stage(u) => x = y
  OBVIOUS
<1> HIDE DEF x, y, z
<1>7. 4 * (x + t.attempt) + Phase(t) < 4 * z /\ 4 * (y + u.attempt) + Phase(u) < 4 * z
  BY <1>1, <1>5
<1>8. CASE Ended(u)
  BY <1>2, <1>3, <1>4, <1>7, <1>5, <1>8
<1>9. CASE ~Ended(u)
  <2>1. Rank(u) = 4 * (y + u.attempt) + Phase(u)
    BY <1>4, <1>9
  <2>2. 4 * (x + t.attempt) + Phase(t) < 4 * (y + u.attempt) + Phase(u)
    BY <1>1, <1>5, <1>6, <1>9
  <2>3. Rank(u) <= 4 * z
    BY <1>1, <1>5, <1>7, <2>1
  <2> QED BY <1>2, <1>3, <2>1, <2>2, <2>3
<1> QED BY <1>8, <1>9

LEMMA Grows ==
  ASSUME FInv, [Next]_vars, NEW c \in Tasks, task'[c] # task[c]
  PROVE  /\ Rank(task'[c]) > Rank(task[c])
         /\ Rank(task'[c]) <= 4 * Steps * (MaxRetries + 1)
<1> DEFINE t == task[c]
           u == task'[c]
<1>1. /\ TypeOK' /\ (TasksMove \/ \E x \in Tasks : AcceptedBy(x))
  BY StepMoves DEF FInv
<1>2. t \in Task /\ u \in Task
  BY <1>1 DEF FInv, TypeOK
<1>3. Waits(t, u) \/ Supplied(t, u) \/ GaveUp(t, u) \/ Called(t, u) \/ Accepted(t, u)
  BY <1>1, EachMoves DEF Moved
<1>4. /\ t.pc = "idle" => t.stage = "none"
      /\ t.pc = "judge" => t.data \in Data
  BY DEF FInv, InHand
<1> HIDE DEF t, u
<1>5. /\ MaxVersion \in Nat /\ MaxRetries \in Nat
      /\ t.min \in 0..(MaxVersion + 1) /\ u.min \in 0..(MaxVersion + 1)
      /\ t.attempt \in 0..MaxRetries /\ u.attempt \in 0..MaxRetries
  BY <1>2, FetchAssumption DEF Task
<1>6. /\ t.min \in Nat /\ u.min \in Nat /\ t.attempt \in Nat /\ u.attempt \in Nat
  BY <1>5
<1>7. /\ ~Ended(t)
      /\ \/ Ended(u)
         \/ Stage(t) < Stage(u)
         \/ Stage(t) = Stage(u) /\ t.attempt < u.attempt
         \/ Stage(t) = Stage(u) /\ t.attempt = u.attempt /\ Phase(t) < Phase(u)
  <2>1. CASE Waits(t, u) \/ Supplied(t, u)
    <3>1. Stage(t) = Stage(u) /\ t.attempt = u.attempt
      BY <2>1 DEF Waits, Supplied, Same, Stage
    <3>2. Phase(t) < Phase(u) /\ ~Ended(t)
      BY <2>1 DEF Waits, Supplied, Phase, Ended
    <3> QED BY <3>1, <3>2
  <2>2. CASE GaveUp(t, u)
    <3>1. ~Ended(t)
      BY <2>2 DEF GaveUp, Ended
    <3>2. CASE t.attempt < MaxRetries /\ u.attempt = t.attempt + 1
               /\ u.stage = t.stage /\ u.min = t.min
      BY <1>6, <3>1, <3>2 DEF Stage
    <3>3. CASE t.stage = "meta" /\ u.stage = "fallback"
      BY <3>1, <3>3 DEF Stage
    <3>4. CASE u.pc \in {"none", "raised"}
      BY <3>1, <3>4 DEF Ended
    <3> QED BY <2>2, <3>2, <3>3, <3>4 DEF GaveUp, Begun
  <2>3. CASE Called(t, u)
    <3>1. ~Ended(t) /\ Stage(t) = 0
      BY <1>4, <2>3 DEF Called, Ended, Stage
    <3>2. u.stage \in {"meta", "range", "exact"}
      BY <2>3 DEF Called, Begun
    <3>3. Stage(u) = 1 \/ Stage(u) = 1 + u.min
      BY <3>2 DEF Stage
    <3> QED BY <1>6, <3>1, <3>3
  <2>4. CASE Accepted(t, u)
    <3>1. ~Ended(t)
      BY <2>4 DEF Accepted, Ended
    <3>2. CASE t.stage = "meta" /\ u.stage \in {"target", "fallback"}
      BY <3>1, <3>2 DEF Stage
    <3>3. CASE /\ t.stage = "range" /\ u.stage = "range" /\ t.data.ver >= t.min
               /\ u.min = t.data.ver + 1
      <4>1. t.data.ver \in Nat
        BY <1>4, <2>4, FetchAssumption DEF Accepted, Data, Versions
      <4>2. Stage(t) = 1 + t.min /\ Stage(u) = 1 + u.min
        BY <3>3 DEF Stage
      <4> QED BY <1>6, <3>1, <3>3, <4>1, <4>2
    <3>4. CASE u.pc \in {"none", "returned"}
      BY <3>1, <3>4 DEF Ended
    <3> QED BY <2>4, <3>2, <3>3, <3>4 DEF Accepted, Begun
  <2> QED BY <1>3, <2>1, <2>2, <2>3, <2>4
<1>8. Rank(t) < Rank(u) /\ Rank(u) <= 4 * Steps * (MaxRetries + 1)
  BY <1>2, <1>7, RankGrows
<1> QED BY <1>8 DEF t, u

(* Whatever arrives or is lost, every step of a call takes it closer to a   *)
(* fixed bound, so that none retries for ever (_fetch_verified's loop,      *)
(* fetch_latest, fetch_range).                                              *)
THEOREM FetchesEnd == Spec => EveryFetchEnds
<1> DEFINE Step == \A c \in Tasks : task'[c] # task[c] =>
                     /\ Rank(task'[c]) > Rank(task[c])
                     /\ Rank(task'[c]) <= 4 * Steps * (MaxRetries + 1)
<1>1. FInv /\ [Next]_vars => Step
  BY Grows
<1> HIDE DEF Step
<1>2. Spec => [][Step]_vars
  BY FInvInit, FInvNext, <1>1, PTL DEF Spec
<1> QED BY <1>2, PTL DEF EveryFetchEnds, Step
=============================================================================
