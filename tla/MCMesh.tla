------------------------------- MODULE MCMesh -------------------------------
(* Small meshes of the producer p, servers b and c and clients x, y.        *)
EXTENDS Mesh

Both(S) == S \cup {<<l[2], l[1]>> : l \in S}

MCAddr  == [i \in 1..AddrBytes |-> 1]
MCName  == <<MCAddr, <<7>> >>
MCNames == {MCName}
MCNonces == {[i \in 1..NonceBytes |-> k] : k \in 1..2}
MCPurges == {[name |-> MCName, prefix |-> FALSE], [name |-> <<MCAddr>>, prefix |-> TRUE]}

MCAsk(c, k) == [client |-> c, name |-> MCName, nonce |-> [i \in 1..NonceBytes |-> k]]

MCRoutes(r) == [n \in Nodes |-> IF n \in DOMAIN r THEN r[n] ELSE <<>>]

(* p - b - y: two editions, with two fetches or two invalidations.          *)
MCLineOf(asks, purges) ==
  [links |-> Both({<<"p", "b">>, <<"b", "y">>}),
   routes |-> MCRoutes([b |-> <<"p">>, y |-> <<"b">>]),
   greeted |-> Both({<<"p", "b">>, <<"b", "y">>}), recalls |-> Servers,
   asks |-> asks, editions |-> 2, purges |-> purges]

MCLines == {MCLineOf({MCAsk("y", 1), MCAsk("y", 2)}, 1), MCLineOf({MCAsk("y", 1)}, 2)}

(* The ring p - b - c, nobody fetches; the capabilities of p are still      *)
(* under way.  Everybody can recall the producer, or c cannot.              *)
MCRingOf(recalls) ==
  [links |-> Both({<<"p", "b">>, <<"b", "c">>, <<"c", "p">>}), routes |-> MCRoutes(<<>>),
   greeted |-> Both({<<"b", "c">>}), recalls |-> recalls,
   asks |-> {}, editions |-> 0, purges |-> 2]

(* The chain p - b - c: c hears of the producer only through b, which may   *)
(* not be able to recall it.                                                *)
MCChainOf(recalls) ==
  [links |-> Both({<<"p", "b">>, <<"b", "c">>}), routes |-> MCRoutes(<<>>),
   greeted |-> Both({<<"p", "b">>, <<"b", "c">>}), recalls |-> recalls,
   asks |-> {}, editions |-> 0, purges |-> 2]

MCChains == {MCChainOf(Servers)}
MCFloods == MCChains \cup {MCChainOf({"p", "c"}), MCRingOf(Servers), MCRingOf({"b", "p"})}

(* x - b - c - y with b and c routing to each other first, p is b's backup. *)
MCCycle ==
  [links |-> Both({<<"p", "b">>, <<"b", "c">>, <<"b", "x">>, <<"c", "y">>}),
   routes |-> MCRoutes([b |-> <<"c", "p">>, c |-> <<"b">>, x |-> <<"b">>, y |-> <<"c">>]),
   greeted |-> Both({<<"p", "b">>, <<"b", "c">>, <<"b", "x">>, <<"c", "y">>}),
   recalls |-> Servers,
   asks |-> {MCAsk("x", 1), MCAsk("y", 2)}, editions |-> 0, purges |-> 0]

MCMeshes == MCLines \cup MCFloods \cup {MCCycle}

(* x - b - p - c - y with the producer routing its own names to b: what b   *)
(* still holds comes back to p and from there to c.                         *)
MCBack ==
  {[links |-> Both({<<"p", "b">>, <<"p", "c">>, <<"b", "x">>, <<"c", "y">>}),
    routes |-> MCRoutes([p |-> <<"b">>, b |-> <<"p">>, c |-> <<"p">>, x |-> <<"b">>, y |-> <<"c">>]),
    greeted |-> Both({<<"p", "b">>, <<"p", "c">>, <<"b", "x">>, <<"c", "y">>}),
    recalls |-> Servers,
    asks |-> {MCAsk("x", 1), MCAsk("y", 2)}, editions |-> 1, purges |-> 1]}

-----------------------------------------------------------------------------
(* Packets of all kinds: names about the length where a varint grows, names *)
(* with a hash, with too many components and with one that is too long,     *)
(* numbers at the limits of their width, every optional part there or not.  *)
Fill(n, v) == [i \in 1..n |-> v]
SName(len, h) == [components |-> <<MCAddr, Fill(len, 5)>>, hash |-> h]
SNames == {SName(k, None) : k \in {0, Base - 9, Base - 8, Base - 7, Base - 1, Base}}
          \cup {SName(1, Fill(HashBytes, Base - 1)),
                [components |-> Fill(MaxComponents, MCAddr), hash |-> None],
                [components |-> Fill(MaxComponents + 1, MCAddr), hash |-> None]}

SInterest(n, sel, hops) ==
  [kind |-> "Interest", name |-> n, nonce |-> Fill(NonceBytes, 0), lifetime_ms |-> Base^U32 - 1,
   can_be_prefix |-> TRUE, must_be_fresh |-> FALSE, selector |-> sel, hop_limit |-> hops]
SSelectors == {None} \cup
  [min_sequence : {None, 0, Base^U64 - 1}, latest : {FALSE}, oldest : BOOLEAN]
SData(n, c, m, s) ==
  [kind |-> "Data", name |-> n, content |-> c, metadata |-> m, signature |-> s]
SMetadata == {None} \cup
  [content_hash : {None, Fill(HashBytes, 9)}, sequence : {None, 0}, stale_age : {None, 1},
   freshness_period : {None, Base^U64 - 1}, signed_at : {None}, encrypted : BOOLEAN]
SSignatures == {None, Fill(SignatureBytes, 3)}

MCSamples ==
  {SInterest(n, None, Base - 1) : n \in SNames}
  \cup {SInterest(SName(1, None), s, h) : s \in SSelectors, h \in {0, Base + 1}}
  \cup {SData(SName(1, None), <<>>, m, s) : m \in SMetadata, s \in SSignatures}
  \cup {SData(n, Fill(Base - 2, 4), None, None) : n \in SNames}
  \cup {[kind |-> "APSubscribe", name |-> n, start_from_now |-> b] : n \in SNames, b \in BOOLEAN}
  \cup {[kind |-> "PropPeer", rns_addr |-> a, wants_sync |-> b] :
          a \in {MCAddr, <<>>, Fill(AddrBytes + 1, 8)}, b \in BOOLEAN}
  \cup {[kind |-> "CapPeer", role |-> r, features |-> f] : r \in 0..2, f \in {0, Base^U32 - 1, Base^U32}}
  \cup {[kind |-> "Invalidate", name |-> n, epoch |-> Base - 1, is_prefix |-> b, signature |-> s] :
          n \in SNames, b \in BOOLEAN, s \in SSignatures}
  \cup {[kind |-> "Capability", producer |-> MCAddr, consumer |-> Fill(AddrBytes, 2), prefix |-> n,
           issued_at |-> 1, expires_at |-> Base^U64 - 1, wrapped_cek |-> w, signature |-> s] :
          n \in SNames, w \in {<<>>, Fill(Base, 6)}, s \in SSignatures}
  \cup {[kind |-> "Nack", name |-> n, reason |-> r] : n \in SNames, r \in 1..3}
=============================================================================
