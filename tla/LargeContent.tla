---------------------------- MODULE LargeContent ----------------------------
(***************************************************************************)
(* Large content in chunks: chunk_content (chunker.py), ContentManifest     *)
(* (manifest.py), chunks that arrive as RNS resources                       *)
(* (resource_transport.py, rns_server.py) and their reassembly              *)
(* (assembler.py).                                                          *)
(*                                                                          *)
(* The producer publishes one edition of a content after the other, under   *)
(* the same chunk names.  A consumer holds the manifest of one of them and  *)
(* collects packets, which caches may serve from any edition, altered or    *)
(* stripped of their signature.                                             *)
(***************************************************************************)
EXTENDS Naturals, Sequences

CONSTANTS
  Bytes,
  Contents,    \* what an edition may contain
  Sizes,       \* the chunk sizes in use
  Editions,    \* bound: how many editions are published
  Signers,     \* whether chunk_content is given a signer
  Forged,      \* bodies an untrusted cache may put into a packet
  Path,        \* the name of the content
  Unhex,       \* what bytes.fromhex makes of the display form of a path
  None

(* hashlib.blake2b, taken to be free of collisions.                         *)
Hash(b) == <<"blake2b", b>>

Hashes  == {"blake2b"} \X Seq(Bytes)
Labels  == Nat
Packet  == [label : Labels, body : Seq(Bytes), hash : Hashes \cup {None},
            sequence : Nat, signature : {"none", "good", "bad"}]
ChunkRef == [label : Labels, hash : Hashes, size : Nat, sequence : Nat]

ASSUME LargeContentAssumption ==
  /\ Contents \subseteq Seq(Bytes) \ {<<>>} /\ Forged \subseteq Seq(Bytes)
  /\ Sizes \subseteq Nat \ {0} /\ Editions \in Nat
  /\ Signers \subseteq BOOLEAN
  /\ None \notin Packet

VARIABLES
  content,   \* edition -> its content
  setup,     \* [size, signer]: the arguments of chunk_content
  offset,    \* edition -> how much of it has been chunked
  refs,      \* edition -> list of ChunkRef
  packets,   \* edition -> list of Packet
  manifest,  \* edition -> ContentManifest, or None
  net,       \* the genuine packets some cache holds
  held,      \* [edition, manifest] the consumer has fetched, or None
  chunks     \* the consumer's packets by label, None where it has none

vars == <<content, setup, offset, refs, packets, manifest, net, held, chunks>>

-----------------------------------------------------------------------------
(* The chunker.                                                             *)

ChunkBytesLate(c, k, size) ==   \* faulty: a byte too late
  SubSeq(c, k + 2, IF k + size <= Len(c) THEN k + size ELSE Len(c))

(* content[offset : offset + chunk_size]                                    *)
ChunkBytes(c, k, size) == SubSeq(c, k + 1, IF k + size <= Len(c) THEN k + size ELSE Len(c))

(* _label: distinct for distinct indexes.                                   *)
Label(i) == i

(* Data.new, with_sequence and sign.                                        *)
NewPacket(i, b) ==
  [label |-> Label(i), body |-> b, hash |-> Hash(b), sequence |-> i,
   signature |-> IF setup.signer THEN "good" ELSE "none"]

(* The loop of chunk_content.                                               *)
Chunk(e) ==
  LET i == Len(refs[e])
      b == ChunkBytes(content[e], offset[e], setup.size)
  IN /\ \A f \in 1..(e - 1) : manifest[f] # None
     /\ offset[e] < Len(content[e])
     /\ refs' = [refs EXCEPT ![e] = Append(@,
          [label |-> Label(i), hash |-> Hash(b), size |-> Len(b), sequence |-> i])]
     /\ packets' = [packets EXCEPT ![e] = Append(@, NewPacket(i, b))]
     /\ offset' = [offset EXCEPT ![e] = @ + setup.size]
     /\ UNCHANGED <<content, setup, manifest, net, held, chunks>>

(* The sum of the sizes.                                                    *)
TotalSize(r) ==
  LET sum[k \in 0..Len(r)] == IF k = 0 THEN 0 ELSE sum[k - 1] + r[k].size
  IN sum[Len(r)]

(* ContentManifest.create, once the loop has ended.                         *)
Create(e) ==
  /\ offset[e] >= Len(content[e])
  /\ manifest[e] = None
  /\ manifest' = [manifest EXCEPT ![e] =
       [name |-> Path, chunks |-> refs[e], hash |-> Hash(content[e]), sequence |-> e,
        total |-> TotalSize(refs[e])]]
  /\ UNCHANGED <<content, setup, offset, refs, packets, net, held, chunks>>

(* ResourceListener._on_resource_concluded and _on_resource_data: a packet  *)
(* whose transfer completes is put into a Content Store.                    *)
Deliver(e, i) ==
  /\ i \in DOMAIN packets[e] /\ manifest[e] # None
  /\ net' = net \cup {packets[e][i]}
  /\ UNCHANGED <<content, setup, offset, refs, packets, manifest, held, chunks>>

-----------------------------------------------------------------------------
(* The consumer.                                                            *)

(* to_json and from_data: everything comes back but the name, whose parser  *)
(* (_parse_name) reads as hex every component that can be read so.          *)
Parsed(m) == [m EXCEPT !.name = Unhex[@]]

FetchManifest(e) ==
  /\ held = None
  /\ manifest[e] # None
  /\ held' = [edition |-> e, manifest |-> Parsed(manifest[e])]
  /\ chunks' = [r \in {Parsed(manifest[e]).chunks[i].label : i \in DOMAIN refs[e]} |-> None]
  /\ UNCHANGED <<content, setup, offset, refs, packets, manifest, net>>

(* What a cache that does not honour the producer makes of a packet: other  *)
(* bytes, another hash or none, no signature or one that does not verify.   *)
Forgeries(d) ==
  {[d EXCEPT !.body = b, !.hash = h, !.signature = s] :
     b \in Forged \cup {d.body}, h \in {Hash(d.body), None} \cup {Hash(f) : f \in Forged},
     s \in {"none", "bad"}}

(* A packet is collected under a label of the manifest, also in place of    *)
(* one that did not verify.                                                 *)
Collect(l, d) ==
  /\ held # None /\ held.manifest.name = Path
  /\ l \in DOMAIN chunks
  /\ d.label = l
  /\ chunks' = [chunks EXCEPT ![l] = d]
  /\ UNCHANGED <<content, setup, offset, refs, packets, manifest, net, held>>

(* _verify_chunk_hash: the hash the packet carries, and that of its bytes.  *)
HashClaimed(ref, d) == d.hash = ref.hash                        \* faulty
HashMatches(ref, d) == d.hash = ref.hash /\ Hash(d.body) = ref.hash

(* _verify_chunk_signature, when there is a validator.                      *)
SignatureFits(d, validator) == validator => d.signature = "good"

(* Faulty: the signature is not looked at.                                  *)
VerifyUnsigned(ref, d, validator) == d # None /\ HashMatches(ref, d)

(* verify_chunk; a missing chunk does not verify (verify_chunks).           *)
VerifyChunk(ref, d, validator) ==
  d # None /\ HashMatches(ref, d) /\ SignatureFits(d, validator)

(* missing_labels.                                                          *)
MissingLabels(m) == {l \in {m.chunks[i].label : i \in DOMAIN m.chunks} : chunks[l] = None}

(* What assembling stops at in chunk i: _require_chunk, then the hash, then *)
(* the signature.                                                           *)
Fault(m, i, validator) ==
  LET ref == m.chunks[i]
      d   == chunks[ref.label]
  IN IF d = None THEN "missing"
     ELSE IF ~HashMatches(ref, d) THEN "hash"
     ELSE IF ~SignatureFits(d, validator) THEN "signature"
     ELSE "none"

Faults(m, validator) == {i \in DOMAIN m.chunks : Fault(m, i, validator) # "none"}
First(S) == CHOOSE i \in S : \A j \in S : i <= j

(* total.extend(data.content), chunk by chunk.                              *)
Concat(bodies) ==
  LET total[k \in 0..Len(bodies)] == IF k = 0 THEN <<>> ELSE total[k - 1] \o bodies[k]
  IN total[Len(bodies)]

Joined(m) == Concat([i \in DOMAIN m.chunks |-> chunks[m.chunks[i].label].body])

(* assemble_verified: [error, bytes].                                       *)
AssembleVerified(m, validator) ==
  IF Faults(m, validator) # {}
    THEN [error |-> Fault(m, First(Faults(m, validator)), validator), bytes |-> <<>>]
    ELSE [error |-> "none", bytes |-> Joined(m)]

(* assemble: the whole is compared with the manifest's hash too.            *)
Assemble(m, validator) ==
  LET r == AssembleVerified(m, validator)
  IN IF r.error = "none" /\ Hash(r.bytes) # m.hash
       THEN [error |-> "integrity", bytes |-> <<>>]
       ELSE r

Init ==
  /\ content \in [1..Editions -> Contents]
  /\ setup \in [size : Sizes, signer : Signers]
  /\ offset = [e \in 1..Editions |-> 0]
  /\ refs = [e \in 1..Editions |-> <<>>]
  /\ packets = [e \in 1..Editions |-> <<>>]
  /\ manifest = [e \in 1..Editions |-> None]
  /\ net = {}
  /\ held = None
  /\ chunks = <<>>

Next ==
  \/ \E e \in 1..Editions :
       Chunk(e) \/ Create(e) \/ FetchManifest(e) \/ (\E i \in DOMAIN packets[e] : Deliver(e, i))
  \/ \E l \in DOMAIN chunks, d \in net : \E x \in {d} \cup Forgeries(d) : Collect(l, x)

Spec == Init /\ [][Next]_vars

-----------------------------------------------------------------------------
(* Types of the chunker's lists, the manifest and the collected packets.    *)
TypeOK ==
  /\ offset \in [1..Editions -> Nat]
  /\ \A e \in 1..Editions :
       /\ \A i \in DOMAIN refs[e] : refs[e][i] \in ChunkRef
       /\ \A i \in DOMAIN packets[e] : packets[e][i] \in Packet
  /\ \A d \in net : d \in Packet
  /\ held # None => /\ held.edition \in 1..Editions
                    /\ \A l \in DOMAIN chunks : chunks[l] = None \/ chunks[l] \in Packet

(* Chunking and assembling are inverse: once every label has one of the     *)
(* packets chunk_content made, both assemblers return the content, whose    *)
(* size the manifest gives.                                                 *)
RoundTrip ==
  held # None =>
    LET e == held.edition
        m == held.manifest
    IN /\ m.total = Len(content[e])
       /\ (\A l \in DOMAIN chunks : \E i \in DOMAIN packets[e] : chunks[l] = packets[e][i]) =>
            /\ Assemble(m, setup.signer) = [error |-> "none", bytes |-> content[e]]
            /\ AssembleVerified(m, setup.signer) = [error |-> "none", bytes |-> content[e]]

(* "defends streamed large files against chunk substitution by a relay or   *)
(* cache": whatever mixture of editions and forgeries has been collected,   *)
(* assembling fails or returns the content the manifest was made for, also  *)
(* without the comparison of the whole and without a validator.             *)
AssembledIsOriginal ==
  held # None =>
    \A validator \in BOOLEAN :
      LET r == AssembleVerified(held.manifest, validator)
      IN r.error = "none" => r.bytes = content[held.edition]

(* A consumer may fetch again what verify_chunks reports and what           *)
(* missing_labels lists: when nothing is left to fetch, both assemblers     *)
(* succeed, and before that neither does.                                   *)
VerifiedAssembles ==
  held # None =>
    \A validator \in BOOLEAN :
      LET m   == held.manifest
          bad == {i \in DOMAIN m.chunks :
                    ~VerifyChunk(m.chunks[i], chunks[m.chunks[i].label], validator)}
      IN /\ bad = {} <=> AssembleVerified(m, validator).error = "none"
         /\ bad = {} <=> Assemble(m, validator).error = "none"
         /\ MissingLabels(m) \subseteq {m.chunks[i].label : i \in bad}

(* "ContentManifest can be round-tripped through a Data packet": what the   *)
(* consumer parses is what the producer published.                          *)
ManifestRoundTrips == held # None => held.manifest = manifest[held.edition]
=============================================================================
