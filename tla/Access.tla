------------------------------- MODULE Access -------------------------------
(***************************************************************************)
(* Access to restricted prefixes (rns_icn/access.py): the producer's rules, *)
(* what it encrypts and for whom it issues capabilities (rns_server.py),    *)
(* the capability files that reach consumers by any channel, and what a     *)
(* consumer makes of encrypted Data (client.py, _load_capabilities and      *)
(* _maybe_decrypt).                                                         *)
(*                                                                          *)
(* The rules come from the configuration and change only with a restart.    *)
(* Content stays as it was published, in the producer's store and in every  *)
(* cache; a fetch may return any edition of a name.  Cryptography is        *)
(* symbolic: Data opens with the key it was closed with, a wrapped key with *)
(* its recipient's identity.                                                *)
(***************************************************************************)
EXTENDS NameOps, FiniteSets

CONSTANTS
  Names,       \* content names of the producer
  Prefixes,    \* prefixes a rule may name
  Consumers,
  Readers,     \* the consumers whose clients are looked at
  Configs,     \* sets of rules [prefix, consumers] the producer may start with
  Ttls,        \* lifetimes of capabilities, 0 for none
  MaxIssued,   \* bound: capabilities in circulation
  MaxFiles,    \* bound: files in a client's configuration
  MaxBoots,    \* bound: restarts of the producer
  Horizon,     \* bound: the clock stops here
  None

ASSUME AccessAssumption ==
  /\ \A R \in Configs :
       /\ R \subseteq [prefix : Prefixes, consumers : SUBSET Consumers]
       /\ \A r, q \in R : r.prefix = q.prefix => r = q
  /\ \A p \in Prefixes : p \in Seq({p[i] : i \in DOMAIN p}) /\ None # <<p>>
  /\ Readers \subseteq Consumers
  /\ {MaxIssued, MaxFiles, MaxBoots, Horizon} \subseteq Nat /\ Ttls \subseteq Nat

VARIABLES
  rules,     \* the AccessController's rules
  boots,     \* how often the producer was started
  shelf,     \* the Data published: [name, key, under]; "under" is the prefix
             \* of the most specific rule when it was published (history)
  listed,    \* {<<prefix, consumer>>} some configuration in force named (history)
  issued,    \* the capabilities issued
  loaded,    \* Readers -> the client's capabilities, in the order of loading
  knows,     \* readers that can recall the producer's identity
  read,      \* {<<consumer, Data>>} decrypted or public content (history)
  now

producer == <<rules, boots, listed>>
clients  == <<loaded, knows>>
vars     == <<producer, shelf, issued, clients, read, now>>

-----------------------------------------------------------------------------
(* The producer: AccessController.                                          *)

DeriveCekPerBoot(prefix) == <<prefix, boots>>      \* faulty: salted at start

(* The key depends on the producer's identity and the prefix only.          *)
DeriveCek(prefix) == <<prefix>>

Matching(name) == {r \in rules : StartsWith(name, r.prefix)}

(* Faulty: the shortest prefix wins.                                        *)
MatchingRuleWidest(name) ==
  {r \in Matching(name) : \A q \in Matching(name) : Len(r.prefix) <= Len(q.prefix)}

(* The longest prefix wins; none matches a public name.                     *)
MatchingRule(name) ==
  {r \in Matching(name) : \A q \in Matching(name) : Len(q.prefix) <= Len(r.prefix)}

EncryptContent(name) ==
  [name |-> name,
   key |-> IF MatchingRule(name) = {} THEN None
             ELSE DeriveCek((CHOOSE r \in MatchingRule(name) : TRUE).prefix),
   under |-> LET P == Longest({r.prefix : r \in Matching(name)})
             IN IF P = {} THEN None ELSE CHOOSE p \in P : TRUE]

(* publish_content and publish_post; publish_pushed takes Data the caller   *)
(* built and encrypts nothing, so what it is given is outside this module.  *)
PublishContent(n) ==
  /\ shelf' = shelf \cup {EncryptContent(n)}
  /\ UNCHANGED <<producer, issued, clients, read, now>>

(* Capability.create; a lifetime of 0 means no expiry.                      *)
Create(prefix, c, ttl) ==
  [prefix |-> prefix, consumer |-> c, key |-> DeriveCek(prefix), signed |-> TRUE,
   expires |-> IF ttl > 0 THEN now + ttl ELSE 0]

(* issue_capability refuses unless the rule for this very prefix lists the  *)
(* consumer.                                                                *)
Allows(prefix, c) == \E r \in rules : r.prefix = prefix /\ c \in r.consumers

IssueCapability(prefix, c, ttl) ==
  /\ Cardinality(issued) < MaxIssued
  /\ Allows(prefix, c)
  /\ issued' = issued \cup {Create(prefix, c, ttl)}
  /\ UNCHANGED <<producer, shelf, clients, read, now>>

(* The producer is started again with another configuration.                *)
Restart(R) ==
  /\ boots < MaxBoots
  /\ boots' = boots + 1
  /\ rules' = R
  /\ listed' = listed \cup UNION {{<<r.prefix, c>> : c \in r.consumers} : r \in R}
  /\ UNCHANGED <<shelf, issued, clients, read, now>>

-----------------------------------------------------------------------------
(* The consumer.                                                            *)

(* A good file, one whose wrapped key was damaged, and one whose signature  *)
(* was.                                                                     *)
Copies(cap) == {cap, [cap EXCEPT !.key = None], [cap EXCEPT !.signed = FALSE]}

(* Capability files are passed around freely: a configuration may list the  *)
(* reader's own and other consumers', in any order, good or spoilt.         *)
Listings ==
  UNION {[1..k -> UNION {Copies(cap) : cap \in issued}] : k \in 0..MaxFiles}

(* The client starts with the files fs; one that cannot be read or parsed   *)
(* is skipped, which is to start with a list that lacks it.                 *)
LoadCapabilities(c, fs) ==
  /\ loaded' = [loaded EXCEPT ![c] = fs]
  /\ UNCHANGED <<producer, shelf, issued, knows, read, now>>

(* The producer's announce was heard, or forgotten again.                   *)
Recall(c) ==
  /\ knows' = IF c \in knows THEN knows \ {c} ELSE knows \cup {c}
  /\ UNCHANGED <<producer, shelf, issued, loaded, read, now>>

IsExpired(cap) == cap.expires # 0 /\ now > cap.expires

CapCovers(cap, name) == StartsWith(name, cap.prefix) /\ ~IsExpired(cap)

(* The body of _maybe_decrypt's loop for one capability: not for this name, *)
(* a bad signature (looked at only when the producer's key is known), a key *)
(* wrapped for someone else or the wrong key all lead to the next one.      *)
Opens(c, cap, d) ==
  /\ CapCovers(cap, d.name)
  /\ c \in knows => cap.signed
  /\ cap.consumer = c
  /\ cap.key = d.key

(* The content comes back readable: it is public or some capability opens   *)
(* it.                                                                      *)
MaybeDecrypt(c, d) == d.key = None \/ \E i \in DOMAIN loaded[c] : Opens(c, loaded[c][i], d)

Fetch(c, d) ==
  /\ read' = IF MaybeDecrypt(c, d) THEN read \cup {<<c, d>>} ELSE read
  /\ UNCHANGED <<producer, shelf, issued, clients, now>>

Tick ==
  /\ now < Horizon
  /\ now' = now + 1
  /\ UNCHANGED <<producer, shelf, issued, clients, read>>

-----------------------------------------------------------------------------
Init ==
  /\ rules \in Configs
  /\ boots = 0
  /\ listed = UNION {{<<r.prefix, c>> : c \in r.consumers} : r \in rules}
  /\ shelf = {}
  /\ issued = {}
  /\ loaded = [c \in Readers |-> <<>>]
  /\ knows = {}
  /\ read = {}
  /\ now = 1

Next ==
  \/ \E n \in Names : PublishContent(n)
  \/ \E p \in Prefixes, c \in Consumers, t \in Ttls : IssueCapability(p, c, t)
  \/ \E R \in Configs : Restart(R)
  \/ \E c \in Readers : \E fs \in Listings : LoadCapabilities(c, fs)
  \/ \E c \in Readers : Recall(c)
  \/ \E c \in Readers : \E d \in shelf : Fetch(c, d)
  \/ Tick

Spec == Init /\ [][Next]_vars

-----------------------------------------------------------------------------
Keys  == {DeriveCek(p) : p \in Prefixes} \cup {None}
Files == [prefix : Prefixes, consumer : Consumers, key : Keys, signed : BOOLEAN, expires : Nat]
Shelf == [name : Names, key : Keys, under : Prefixes \cup {None}]

(* Types of the producer's and the clients' state and of the history.       *)
TypeOK ==
  /\ rules \in Configs /\ boots \in 0..MaxBoots /\ now \in Nat
  /\ shelf \subseteq Shelf
  /\ listed \subseteq Prefixes \X Consumers
  /\ issued \subseteq Files
  /\ loaded \in [Readers -> Seq(Files)]
  /\ knows \subseteq Readers
  /\ read \subseteq Readers \X Shelf

(* Restricted content is readable only for consumers that some rule of the  *)
(* producer listed for the most specific prefix in force when it was        *)
(* published, whatever files they got hold of and however the rules changed *)
(* since (matching_rule, issue_capability, derive_cek, _maybe_decrypt).     *)
OnlyGrantedRead ==
  \A r \in read : r[2].under # None => <<r[2].under, r[1]>> \in listed

(* A capability that was issued to a consumer for the prefix, has not       *)
(* expired and is among its loaded files opens every Data published under   *)
(* that prefix, before or after it was issued, across restarts, and         *)
(* whatever other capabilities come before it in the list.                  *)
HoldersRead ==
  \A c \in Readers : \A d \in shelf : \A i \in DOMAIN loaded[c] :
    LET cap == loaded[c][i]
    IN (cap \in issued /\ cap.consumer = c /\ cap.prefix = d.under /\ ~IsExpired(cap))
       => MaybeDecrypt(c, d)
=============================================================================
