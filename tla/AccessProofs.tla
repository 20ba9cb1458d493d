---------------------------- MODULE AccessProofs ----------------------------
(***************************************************************************)
(* For any rules, names, consumers and sequences of restarts: restricted    *)
(* content is read only by those its prefix's rule listed, and whoever      *)
(* holds a valid capability for it reads it.                                *)
(***************************************************************************)
EXTENDS Access, TLAPS

(* What a capability is when it was issued.                                 *)
Issuable ==
  [prefix : Prefixes, consumer : Consumers, key : {DeriveCek(p) : p \in Prefixes},
   signed : {TRUE}, expires : Nat]

RulesListed ==
  /\ rules \subseteq [prefix : Prefixes, consumers : SUBSET Consumers]
  /\ \A r \in rules : \A c \in r.consumers : <<r.prefix, c>> \in listed

(* Restricted Data is closed with the key of the prefix it was published    *)
(* under, public Data with none.                                            *)
ClosedForPrefix(d) ==
  \/ d.key = None /\ d.under = None
  \/ /\ d.under \in Prefixes
     /\ d.key = DeriveCek(d.under)
     /\ StartsWith(d.name, d.under)

IssuedGranted ==
  \A cap \in issued :
    /\ cap \in Issuable
    /\ cap.key = DeriveCek(cap.prefix)
    /\ <<cap.prefix, cap.consumer>> \in listed

(* The files in use are those that were issued, or spoilt ones.             *)
LoadedIssued ==
  /\ DOMAIN loaded = Readers
  /\ \A c \in Readers : \A i \in DOMAIN loaded[c] :
       \E cap \in issued : loaded[c][i] \in Copies(cap)

AccessInv ==
  /\ now \in Nat
  /\ RulesListed
  /\ \A d \in shelf : ClosedForPrefix(d)
  /\ IssuedGranted
  /\ LoadedIssued
  /\ OnlyGrantedRead

-----------------------------------------------------------------------------
(* Two prefixes of one name that have the same length are equal.            *)
LEMMA OnePrefixOfALength ==
  ASSUME NEW name, NEW p \in Prefixes, NEW q \in Prefixes,
         StartsWith(name, p), StartsWith(name, q), Len(p) = Len(q)
  PROVE  p = q
<1>1. p \in Seq({p[i] : i \in DOMAIN p}) /\ q \in Seq({q[i] : i \in DOMAIN q})
  BY AccessAssumption DEF AccessAssumption
<1>2. \A i \in 1..Len(p) : p[i] = q[i]
  BY DEF StartsWith
<1> QED BY <1>1, <1>2

(* Encryption uses the key of the most specific rule's prefix, whichever    *)
(* of the rules that tie the code comes upon.                               *)
LEMMA EncryptionFollowsRule ==
  ASSUME NEW name, rules \subseteq [prefix : Prefixes, consumers : SUBSET Consumers]
  PROVE  ClosedForPrefix(EncryptContent(name))
<1> DEFINE best == MatchingRule(name)
           P == Longest({r.prefix : r \in Matching(name)})
           d == EncryptContent(name)
<1>1. P = {r.prefix : r \in best}
  BY DEF Longest, MatchingRule
<1>2. CASE best = {}
  <2>1. P = {}
    BY <1>1, <1>2
  <2> QED BY <1>2, <2>1 DEF EncryptContent, ClosedForPrefix
<1>3. CASE best # {}
  <2> DEFINE r0 == CHOOSE r \in best : TRUE
             u == CHOOSE p \in P : TRUE
  <2>1. r0 \in best
    BY <1>3
  <2>2. P # {} /\ u \in P
    BY <1>1, <1>3
  <2>3. PICK q \in best : q.prefix = u
    BY <1>1, <2>2
  <2>4. /\ r0.prefix \in Prefixes /\ q.prefix \in Prefixes
        /\ StartsWith(name, r0.prefix) /\ StartsWith(name, q.prefix)
    BY <2>1, <2>3 DEF MatchingRule, Matching
  <2>5. Len(r0.prefix) \in Nat /\ Len(q.prefix) \in Nat
    BY <2>4, AccessAssumption DEF AccessAssumption
  <2>6. Len(r0.prefix) <= Len(q.prefix) /\ Len(q.prefix) <= Len(r0.prefix)
    BY <2>1, <2>3 DEF MatchingRule
  <2>7. r0.prefix = u
    <3>1. Len(r0.prefix) = Len(q.prefix)
      BY <2>5, <2>6
    <3> HIDE DEF r0, u, best
    <3>2. r0.prefix = q.prefix
      BY <3>1, <2>4, OnePrefixOfALength
    <3> QED BY <2>3, <3>2
  <2>8. d.name = name /\ d.key = DeriveCek(r0.prefix) /\ d.under = u
    BY <1>3, <2>2 DEF EncryptContent
  <2> QED BY <2>3, <2>4, <2>7, <2>8 DEF ClosedForPrefix
<1> QED BY <1>2, <1>3

(* A spoilt copy keeps its prefix and its consumer; its key is that of the  *)
(* original or none.                                                        *)
LEMMA CopiesKeep ==
  ASSUME NEW cap \in Issuable, NEW f \in Copies(cap)
  PROVE  /\ f.prefix = cap.prefix /\ f.consumer = cap.consumer
         /\ f.key \in {cap.key, None}
  BY DEF Issuable, Copies

(* What a reader's files open was granted to it.                            *)
LEMMA OpenedWasGranted ==
  ASSUME AccessInv, NEW c \in Readers, NEW d \in shelf, MaybeDecrypt(c, d), d.under # None
  PROVE  <<d.under, c>> \in listed
<1>1. d.under \in Prefixes /\ d.key = <<d.under>>
  BY DEF AccessInv, ClosedForPrefix, DeriveCek
<1>2. d.key # None
  BY <1>1, AccessAssumption DEF AccessAssumption
<1>3. PICK i \in DOMAIN loaded[c] : Opens(c, loaded[c][i], d)
  BY <1>2 DEF MaybeDecrypt
<1>4. PICK cap \in issued : loaded[c][i] \in Copies(cap)
  BY DEF AccessInv, LoadedIssued
<1>5. cap \in Issuable /\ cap.key = <<cap.prefix>> /\ <<cap.prefix, cap.consumer>> \in listed
  BY DEF AccessInv, IssuedGranted, DeriveCek
<1>6. loaded[c][i].consumer = cap.consumer /\ loaded[c][i].key \in {cap.key, None}
  BY <1>4, <1>5, CopiesKeep
<1>7. cap.consumer = c /\ cap.key = d.key
  BY <1>2, <1>3, <1>6 DEF Opens
<1> QED BY <1>1, <1>5, <1>7

-----------------------------------------------------------------------------
LEMMA InitAccess == Init => AccessInv
<1> SUFFICES ASSUME Init PROVE AccessInv
  OBVIOUS
<1>1. RulesListed
  BY AccessAssumption DEF Init, RulesListed, AccessAssumption
<1> QED BY <1>1 DEF Init, AccessInv, IssuedGranted, LoadedIssued, OnlyGrantedRead

LEMMA NextAccess == AccessInv /\ [Next]_vars => AccessInv'
<1> SUFFICES ASSUME AccessInv, [Next]_vars PROVE AccessInv'
  OBVIOUS
<1> USE DEF AccessInv
<1>1. ASSUME NEW n \in Names, PublishContent(n) PROVE AccessInv'
  <2>1. ClosedForPrefix(EncryptContent(n))
    BY EncryptionFollowsRule DEF RulesListed
  <2>2. \A d \in shelf' : ClosedForPrefix(d)
    BY <1>1, <2>1 DEF PublishContent
  <2>3. UNCHANGED <<now, rules, listed, issued, loaded, read>>
    BY <1>1 DEF PublishContent, producer, clients
  <2> QED BY <2>2, <2>3 DEF RulesListed, IssuedGranted, LoadedIssued, OnlyGrantedRead,
                            ClosedForPrefix
<1>2. ASSUME NEW p \in Prefixes, NEW c \in Consumers, NEW t \in Ttls, IssueCapability(p, c, t)
      PROVE AccessInv'
  <2>1. UNCHANGED <<now, rules, listed, shelf, loaded, read>>
    BY <1>2 DEF IssueCapability, producer, clients
  <2>2. <<p, c>> \in listed
    BY <1>2 DEF IssueCapability, Allows, RulesListed
  <2>3. Create(p, c, t).expires \in Nat
    BY AccessAssumption DEF AccessAssumption, Create
  <2>4. /\ Create(p, c, t) \in Issuable
        /\ Create(p, c, t).key = DeriveCek(p)
        /\ Create(p, c, t).prefix = p /\ Create(p, c, t).consumer = c
    BY <2>3 DEF Create, Issuable
  <2>5. issued' = issued \cup {Create(p, c, t)}
    BY <1>2 DEF IssueCapability
  <2>6. IssuedGranted'
    BY <2>1, <2>2, <2>4, <2>5 DEF IssuedGranted
  <2>7. LoadedIssued'
    BY <2>1, <2>5 DEF LoadedIssued
  <2> QED BY <2>1, <2>6, <2>7 DEF RulesListed, OnlyGrantedRead, ClosedForPrefix
<1>3. ASSUME NEW R \in Configs, Restart(R) PROVE AccessInv'
  <2>1. UNCHANGED <<now, shelf, issued, loaded, read>>
    BY <1>3 DEF Restart, clients
  <2>2. R \subseteq [prefix : Prefixes, consumers : SUBSET Consumers]
    BY AccessAssumption DEF AccessAssumption
  <2>3. /\ rules' = R
        /\ listed' = listed \cup UNION {{<<r.prefix, c>> : c \in r.consumers} : r \in R}
    BY <1>3 DEF Restart
  <2>4. RulesListed'
    BY <2>2, <2>3 DEF RulesListed
  <2>5. listed \subseteq listed'
    BY <2>3
  <2>6. IssuedGranted'
    BY <2>1, <2>5 DEF IssuedGranted
  <2>7. OnlyGrantedRead'
    BY <2>1, <2>5 DEF OnlyGrantedRead
  <2> QED BY <2>1, <2>4, <2>6, <2>7 DEF LoadedIssued, ClosedForPrefix
<1>4. ASSUME NEW c \in Readers, NEW fs \in Listings, LoadCapabilities(c, fs) PROVE AccessInv'
  <2>1. UNCHANGED <<now, rules, listed, shelf, issued, read>>
    BY <1>4 DEF LoadCapabilities, producer
  <2>2. \A i \in DOMAIN fs : \E cap \in issued : fs[i] \in Copies(cap)
    BY DEF Listings
  <2>3. loaded' = [loaded EXCEPT ![c] = fs]
    BY <1>4 DEF LoadCapabilities
  <2>4. LoadedIssued'
    BY <2>1, <2>2, <2>3 DEF LoadedIssued
  <2> QED BY <2>1, <2>4 DEF RulesListed, IssuedGranted, OnlyGrantedRead, ClosedForPrefix
<1>5. ASSUME NEW c \in Readers, Recall(c) PROVE AccessInv'
  <2>1. UNCHANGED <<now, rules, listed, shelf, issued, loaded, read>>
    BY <1>5 DEF Recall, producer
  <2> QED BY <2>1 DEF RulesListed, IssuedGranted, LoadedIssued, OnlyGrantedRead, ClosedForPrefix
<1>6. ASSUME NEW c \in Readers, NEW d \in shelf, Fetch(c, d) PROVE AccessInv'
  <2>1. UNCHANGED <<now, rules, listed, shelf, issued, loaded>>
    BY <1>6 DEF Fetch, producer, clients
  <2>2. OnlyGrantedRead'
    <3>1. CASE MaybeDecrypt(c, d)
      <4>1. read' = read \cup {<<c, d>>}
        BY <1>6, <3>1 DEF Fetch
      <4>2. d.under # None => <<d.under, c>> \in listed
        BY <3>1, OpenedWasGranted
      <4> QED BY <2>1, <4>1, <4>2 DEF OnlyGrantedRead
    <3>2. CASE ~MaybeDecrypt(c, d)
      BY <1>6, <2>1, <3>2 DEF Fetch, OnlyGrantedRead
    <3> QED BY <3>1, <3>2
  <2> QED BY <2>1, <2>2 DEF RulesListed, IssuedGranted, LoadedIssued, ClosedForPrefix
<1>7. CASE Tick
  <2>1. now' \in Nat /\ UNCHANGED <<rules, listed, shelf, issued, loaded, read>>
    BY <1>7 DEF Tick, producer, clients
  <2> QED BY <2>1 DEF RulesListed, IssuedGranted, LoadedIssued, OnlyGrantedRead, ClosedForPrefix
<1>8. CASE UNCHANGED vars
  <2>1. UNCHANGED <<now, rules, listed, shelf, issued, loaded, read>>
    BY <1>8 DEF vars, producer, clients
  <2> QED BY <2>1 DEF RulesListed, IssuedGranted, LoadedIssued, OnlyGrantedRead, ClosedForPrefix
<1> QED BY <1>1, <1>2, <1>3, <1>4, <1>5, <1>6, <1>7, <1>8 DEF Next

(* The inductive invariant holds of every run of the specification: keys,   *)
(* grants and files stay tied to the prefix they were made for.             *)
THEOREM AccessInvariant == Spec => []AccessInv
<1> QED BY InitAccess, NextAccess, PTL DEF Spec

(* matching_rule, issue_capability, derive_cek and _maybe_decrypt together  *)
(* let only listed consumers read restricted content, for any nesting of    *)
(* prefixes, any restarts and any circulation of capability files.          *)
THEOREM GrantedReadOnly == Spec => []OnlyGrantedRead
<1>1. AccessInv => OnlyGrantedRead
  BY DEF AccessInv
<1> QED BY <1>1, AccessInvariant, PTL

(* A valid capability of one's own opens what was published under its       *)
(* prefix, wherever it stands in the list of files.                         *)
THEOREM HoldersAlwaysRead == Spec => []HoldersRead
<1>1. AccessInv => HoldersRead
  <2> SUFFICES ASSUME AccessInv, NEW c \in Readers, NEW d \in shelf, NEW i \in DOMAIN loaded[c],
                      loaded[c][i] \in issued, loaded[c][i].consumer = c,
                      loaded[c][i].prefix = d.under, ~IsExpired(loaded[c][i])
               PROVE  MaybeDecrypt(c, d)
    BY DEF HoldersRead
  <2>1. loaded[c][i] \in Issuable /\ loaded[c][i].key = DeriveCek(d.under)
    BY DEF AccessInv, IssuedGranted
  <2>2. CASE d.key = None
    BY <2>2 DEF MaybeDecrypt
  <2>3. CASE d.key = DeriveCek(d.under) /\ StartsWith(d.name, d.under)
    BY <2>1, <2>3 DEF MaybeDecrypt, Opens, CapCovers, Issuable
  <2> QED BY <2>2, <2>3 DEF AccessInv, ClosedForPrefix
<1> QED BY <1>1, AccessInvariant, PTL
=============================================================================
