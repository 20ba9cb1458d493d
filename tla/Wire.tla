-------------------------------- MODULE Wire --------------------------------
(***************************************************************************)
(* The wire format (rns_icn/packet.py, rns_icn/name.py) and the capability  *)
(* file (rns_icn/access.py): how a packet becomes a sequence of bytes and   *)
(* how the bytes become a packet again.                                     *)
(*                                                                          *)
(* A packet is a record of a kind.  Each kind has a layout, the sequence of *)
(* its fields in wire order, and writing and reading walk the layout.  An   *)
(* optional field is None when absent; a bit of the flags byte that comes   *)
(* before it says whether it follows.  What a parser raises an error for,   *)
(* and what struct.pack or bytearray.append cannot write, is Refused.       *)
(*                                                                          *)
(* A byte is a number below Base and the widths of the fixed fields are     *)
(* parameters; the markers of a varint are the three largest bytes.         *)
(***************************************************************************)
EXTENDS Integers, Sequences, SequencesExt

CONSTANTS
  Base,            \* bytes are 0..Base-1
  U32, U64,        \* widths of the two integer sizes, in bytes
  NonceBytes, AddrBytes, HashBytes, SignatureBytes,
  MaxComponents,   \* components of a name a parser accepts
  DefaultHopLimit,
  Samples,         \* packets of every kind, to try the format on
  None, Refused

ASSUME WireAssumption ==
  /\ Base \in Nat /\ Base >= 64        \* the metadata flags take six bits
  /\ {U32, U64} \subseteq Nat /\ 2 <= U32 /\ U32 <= U64
  /\ {NonceBytes, AddrBytes, HashBytes, SignatureBytes} \subseteq Nat \ {0}
  /\ MaxComponents \in 1..(Base - 1)
  /\ DefaultHopLimit \in 0..(Base - 1)

Version            == 1
HashDiscriminator  == Base - 1

-----------------------------------------------------------------------------
(* Writing and reading the elementary forms.  What is not a byte stands in  *)
(* the bytes written as Refused.  A reader takes the bytes that are left and*)
(* returns the set of what it can make of them: nothing, where the code     *)
(* raises an error, or one <<value, bytes left>>.                           *)

Drop(b, n) == SubSeq(b, n + 1, Len(b))

(* v without its lowest byte, without its two lowest bytes and so on.       *)
Shifted(v, w) ==
  LET rest[k \in 0..w] == IF k = 0 THEN v ELSE rest[k - 1] \div Base IN rest

Fits(v, w) == Shifted(v, w)[w] = 0

(* struct.pack(">I", v) and its like: big-endian, v must fit.               *)
PackNum(v, w) ==
  IF Fits(v, w) THEN [i \in 1..w |-> Shifted(v, w)[w - i] % Base] ELSE <<Refused>>

NumOf(b) ==
  LET num[i \in 0..Len(b)] == IF i = 0 THEN 0 ELSE num[i - 1] * Base + b[i] IN num[Len(b)]

TakeBytes(b, w) == IF Len(b) < w THEN {} ELSE {<<SubSeq(b, 1, w), Drop(b, w)>>}

TakeNum(b, w) == {<<NumOf(x[1]), x[2]>> : x \in TakeBytes(b, w)}

(* Faulty: the smallest marker is also written as a value.                  *)
WriteVarintUpToMarker(v) ==
  IF v <= Base - 3 THEN <<v>> ELSE <<Base - 3>> \o PackNum(v, 2)

(* The marker before a two-byte value is Base - 3; a value that is its own  *)
(* byte is below it.                                                        *)
WriteVarint(v) ==
  CASE v < Base - 3 -> <<v>>
    [] v >= Base - 3 /\ Fits(v, 2) -> <<Base - 3>> \o PackNum(v, 2)
    [] ~Fits(v, 2) /\ Fits(v, U32) -> <<Base - 2>> \o PackNum(v, U32)
    [] OTHER -> <<Base - 1>> \o PackNum(v, U64)

ReadVarint(b) ==
  IF b = <<>> THEN {}
  ELSE CASE Head(b) = Base - 3 -> TakeNum(Tail(b), 2)
         [] Head(b) = Base - 2 -> TakeNum(Tail(b), U32)
         [] Head(b) = Base - 1 -> TakeNum(Tail(b), U64)
         [] OTHER -> {<<Head(b), Tail(b)>>}

(* Bytes preceded by their length, which has been read.                     *)
TakeFramed(length) == UNION {TakeBytes(n[2], n[1]) : n \in length}

-----------------------------------------------------------------------------
(* Names: [components |-> byte strings, the address first, hash |-> pin].   *)

Sized(b, w) == PackNum(Len(b), w) \o b

NameBytes(n) ==
  PackNum(Len(n.components), 1)
    \o FlattenSeq([i \in DOMAIN n.components |-> Sized(n.components[i], 1)])
    \o (IF n.hash = None THEN <<>> ELSE <<HashDiscriminator>> \o n.hash)

(* One more component off the front: <<components so far, bytes left>>.     *)
ReadComponent(S) ==
  UNION {{<<Append(st[1], c[1]), c[2]>> : c \in TakeFramed(TakeNum(st[2], 1))} : st \in S}

(* Bytes after the components that do not start with the discriminator are  *)
(* ignored.                                                                 *)
ReadPin(b) ==
  IF b = <<>> \/ Head(b) # HashDiscriminator THEN {None}
  ELSE {h[1] : h \in TakeBytes(Tail(b), HashBytes)}

ParseName(b) ==
  IF b = <<>> \/ Head(b) \notin 1..MaxComponents THEN {}
  ELSE LET read[i \in 0..Head(b)] ==
             IF i = 0 THEN {<< <<>>, Tail(b)>>} ELSE ReadComponent(read[i - 1])
       IN UNION {{[components |-> st[1], hash |-> pin] : pin \in ReadPin(st[2])} :
                   st \in read[Head(b)]}

-----------------------------------------------------------------------------
(* What the constructors let a packet be.                                   *)

Byte        == 0..(Base - 1)
Text        == Seq(Byte)
Bytes(w)    == [1..w -> Byte]
Optional(S) == S \cup {None}

WireNames == [components : Seq(Text) \ {<<>>}, hash : Optional(Bytes(HashBytes))]

Selectors ==
  {s \in [min_sequence : Optional(Nat), latest : BOOLEAN, oldest : BOOLEAN] :
     ~(s.latest /\ s.oldest)}

Metadatas ==
  [content_hash : Optional(Bytes(HashBytes)), sequence : Optional(Nat),
   stale_age : Optional(Nat), freshness_period : Optional(Nat),
   signed_at : Optional(Nat), encrypted : BOOLEAN]

Interests ==
  [kind : {"Interest"}, name : WireNames, nonce : Bytes(NonceBytes), lifetime_ms : Nat,
   can_be_prefix : BOOLEAN, must_be_fresh : BOOLEAN, selector : Optional(Selectors),
   hop_limit : Nat]

Datas ==
  [kind : {"Data"}, name : WireNames, content : Text, metadata : Optional(Metadatas),
   signature : Optional(Bytes(SignatureBytes))]

APSubscribes == [kind : {"APSubscribe"}, name : WireNames, start_from_now : BOOLEAN]

PropPeers == [kind : {"PropPeer"}, rns_addr : Text, wants_sync : BOOLEAN]

CapPeers == [kind : {"CapPeer"}, role : Nat, features : Nat]

Invalidates ==
  [kind : {"Invalidate"}, name : WireNames, epoch : Nat, is_prefix : BOOLEAN,
   signature : Optional(Bytes(SignatureBytes))]

Nacks == [kind : {"Nack"}, name : WireNames, reason : 1..3]

CapabilityFiles ==
  {c \in [kind : {"Capability"}, producer : Bytes(AddrBytes), consumer : Bytes(AddrBytes),
          issued_at : Nat, expires_at : Nat, prefix : WireNames, wrapped_cek : Text,
          signature : Optional(Bytes(SignatureBytes))] :
     c.prefix.components[1] = c.producer}

Packets ==
  Interests \cup Datas \cup APSubscribes \cup PropPeers \cup CapPeers \cup Invalidates
    \cup Nacks \cup CapabilityFiles

ASSUME PacketAssumption ==
  /\ None \notin Nat \cup Text \cup Selectors \cup Metadatas
  /\ Refused \notin Nat \cup Packets
  /\ Samples \subseteq Packets

-----------------------------------------------------------------------------
(* Layouts.  A field is <<form, key, width>>: "num" and "raw" take width    *)
(* bytes, "blob" is bytes behind a length of that width, "name" a name      *)
(* behind one, or behind a varint where the width is 0, "flags" one byte    *)
(* whose bits, lowest first, belong to the keys listed in place of the      *)
(* width, "nested" a part with a layout of its own that reads as far as its *)
(* flags say, "framed" one behind a varint.  The flags byte has no key.     *)

NameField == <<"name", "name", 0>>

SelectorLayout ==
  << <<"flags", "flags", <<"min_sequence", "latest", "oldest">> >>, <<"num", "min_sequence", U64>> >>

MetadataLayout ==
  << <<"flags", "flags", <<"content_hash", "sequence", "stale_age", "freshness_period",
                      "signed_at", "encrypted">> >>,
     <<"raw", "content_hash", HashBytes>>, <<"num", "sequence", U64>>,
     <<"num", "stale_age", U64>>, <<"num", "freshness_period", U64>>,
     <<"num", "signed_at", U64>> >>

InterestLayout ==
  << NameField, <<"raw", "nonce", NonceBytes>>, <<"num", "lifetime_ms", U32>>,
     <<"flags", "flags", <<"can_be_prefix", "must_be_fresh", "selector", "hop_limit">> >>,
     <<"nested", "selector", "Selector">>, <<"num", "hop_limit", 1>> >>

DataLayout ==
  << NameField, <<"blob", "content", U32>>, <<"flags", "flags", <<"metadata", "signature">> >>,
     <<"framed", "metadata", "Metadata">>, <<"raw", "signature", SignatureBytes>> >>

APSubscribeLayout == << NameField, <<"flags", "flags", <<"start_from_now">> >> >>

PropPeerLayout == << <<"raw", "rns_addr", AddrBytes>>, <<"flags", "flags", <<"wants_sync">> >> >>

CapPeerLayout == << <<"num", "role", 1>>, <<"num", "features", U32>> >>

InvalidateLayout ==
  << NameField, <<"num", "epoch", U64>>, <<"flags", "flags", <<"is_prefix", "signature">> >>,
     <<"raw", "signature", SignatureBytes>> >>

NackLayout == << NameField, <<"num", "reason", 1>> >>

CapabilityLayout ==
  << <<"raw", "producer", AddrBytes>>, <<"raw", "consumer", AddrBytes>>,
     <<"num", "issued_at", U64>>, <<"num", "expires_at", U64>>,
     <<"name", "prefix", 2>>, <<"blob", "wrapped_cek", 2>>,
     <<"flags", "flags", <<"signature">> >>, <<"raw", "signature", SignatureBytes>> >>

Layout ==
  [Selector |-> SelectorLayout, Metadata |-> MetadataLayout, Interest |-> InterestLayout,
   Data |-> DataLayout, APSubscribe |-> APSubscribeLayout, PropPeer |-> PropPeerLayout,
   CapPeer |-> CapPeerLayout, Invalidate |-> InvalidateLayout, Nack |-> NackLayout,
   Capability |-> CapabilityLayout]

PacketType == <<"Interest", "Data", "APSubscribe", "PropPeer", "CapPeer",
                "Invalidate", "Nack">>

Switches == {"latest", "oldest", "encrypted", "can_be_prefix", "must_be_fresh",
             "start_from_now", "wants_sync", "is_prefix"}

(* The flag of a switch is its value, that of an optional field is up when  *)
(* the field is there.                                                      *)
Raised(p, k) == IF k \in Switches THEN p[k] ELSE p[k] # None

(* What a reader finds, and then checks, once a layout is read: a selector  *)
(* with both children, a NACK of an unknown reason and a capability for a   *)
(* prefix of somebody else are errors.                                      *)
Acceptable(kind, p) ==
  /\ kind = "Selector" => ~(p.latest /\ p.oldest)
  /\ kind = "Nack" => p.reason \in 1..3
  /\ kind = "Capability" => p.prefix.components[1] = p.producer

-----------------------------------------------------------------------------
(* Writing.                                                                 *)

Weight == <<1, 2, 4, 8, 16, 32>>

FlagsOf(p, keys) ==
  LET sum[i \in 0..Len(keys)] ==
        IF i = 0 THEN 0 ELSE sum[i - 1] + (IF Raised(p, keys[i]) THEN Weight[i] ELSE 0)
  IN sum[Len(keys)]

PlainBytes(f, p) ==
  CASE f[1] = "flags" -> PackNum(FlagsOf(p, f[3]), 1)
    [] f[1] # "flags" /\ p[f[2]] = None -> <<>>
    [] f[1] = "num" /\ p[f[2]] # None -> PackNum(p[f[2]], f[3])
    [] f[1] = "raw" /\ p[f[2]] # None -> p[f[2]]

PartBytes(kind, p) ==
  FlattenSeq([i \in DOMAIN Layout[kind] |-> PlainBytes(Layout[kind][i], p)])

Framed(b) == WriteVarint(Len(b)) \o b

FieldBytes(f, p) ==
  CASE f[1] = "name"   -> IF f[3] = 0 THEN Framed(NameBytes(p[f[2]]))
                                      ELSE Sized(NameBytes(p[f[2]]), f[3])
    [] f[1] = "blob"   -> Sized(p[f[2]], f[3])
    [] f[1] \in {"nested", "framed"} /\ p[f[2]] = None -> <<>>
    [] f[1] = "nested" /\ p[f[2]] # None -> PartBytes(f[3], p[f[2]])
    [] f[1] = "framed" /\ p[f[2]] # None -> Framed(PartBytes(f[3], p[f[2]]))
    [] OTHER -> PlainBytes(f, p)

(* A packet as the receiver will see it: a selector or a metadata part that *)
(* says nothing stays off the wire, a hop limit is cut to a byte, an address*)
(* cut or padded to size.                                                   *)
With(p, k, v) == [x \in DOMAIN p \cup {k} |-> IF x = k THEN v ELSE p[x]]

Silent(part) == part # None /\ \A k \in DOMAIN part : ~Raised(part, k)

Normal(p) ==
  CASE p.kind = "Interest" ->
         With(With(p, "selector", IF Silent(p.selector) THEN None ELSE p.selector),
              "hop_limit", p.hop_limit % Base)
    [] p.kind = "Data" /\ Silent(p.metadata) -> With(p, "metadata", None)
    [] p.kind = "PropPeer" ->
         With(p, "rns_addr",
              [i \in 1..AddrBytes |-> IF i <= Len(p.rns_addr) THEN p.rns_addr[i] ELSE 0])
    [] OTHER -> p

Body(p) ==
  FlattenSeq([i \in DOMAIN Layout[p.kind] |-> FieldBytes(Layout[p.kind][i], Normal(p))])

ToBytes(p) ==
  <<CHOOSE i \in DOMAIN PacketType : PacketType[i] = p.kind, Version>> \o Body(p)

-----------------------------------------------------------------------------
(* Reading.  The state of a reader is <<fields so far, bytes left>>.        *)

Into(st, k, taken) == {<<With(st[1], k, x[1]), x[2]>> : x \in taken}

Bit(n, i) == (n \div Weight[i]) % 2 = 1

(* The flags of the absent optional fields are read as FALSE.               *)
Absent(st, k) == k \in DOMAIN st[1] /\ st[1][k] = FALSE

AbsentValue(k) == IF k = "hop_limit" THEN DefaultHopLimit ELSE None

TakeFlags(st, keys) ==
  LET Up(k) == \E i \in DOMAIN keys : keys[i] = k /\ Bit(Head(st[2]), i)
      new   == {keys[i] : i \in DOMAIN keys}
  IN IF st[2] = <<>> THEN {}
     ELSE {<<[k \in DOMAIN st[1] \cup new |-> IF k \in new THEN Up(k) ELSE st[1][k]],
             Tail(st[2])>>}

TakePlain(st, f) ==
  CASE f[1] = "flags" -> TakeFlags(st, f[3])
    [] f[1] # "flags" /\ Absent(st, f[2]) -> {<<With(st[1], f[2], AbsentValue(f[2])), st[2]>>}
    [] f[1] = "num" /\ ~Absent(st, f[2]) -> Into(st, f[2], TakeNum(st[2], f[3]))
    [] f[1] = "raw" /\ ~Absent(st, f[2]) -> Into(st, f[2], TakeBytes(st[2], f[3]))

ReadPlain(S, f) == UNION {TakePlain(st, f) : st \in S}

Empty == [k \in {} |-> None]

ReadPart(kind, b) ==
  LET fields == Layout[kind]
      read[i \in 0..Len(fields)] ==
        IF i = 0 THEN {<<Empty, b>>} ELSE ReadPlain(read[i - 1], fields[i])
  IN {st \in read[Len(fields)] : Acceptable(kind, st[1])}

TakeField(st, f) ==
  LET b == st[2]
      length == IF f[1] = "framed" \/ f[3] = 0 THEN ReadVarint(b) ELSE TakeNum(b, f[3])
  IN CASE f[1] \in {"flags", "num", "raw"} \/ Absent(st, f[2]) -> TakePlain(st, f)
       [] f[1] = "name" ->
            Into(st, f[2], UNION {{<<n, x[2]>> : n \in ParseName(x[1])} : x \in TakeFramed(length)})
       [] f[1] = "blob" -> Into(st, f[2], TakeFramed(length))
       [] f[1] = "nested" /\ ~Absent(st, f[2]) -> Into(st, f[2], ReadPart(f[3], b))
       [] f[1] = "framed" /\ ~Absent(st, f[2]) ->
            Into(st, f[2], UNION {{<<m[1], x[2]>> : m \in ReadPart(f[3], x[1])} :
                                    x \in TakeFramed(length)})

ReadField(S, f) == UNION {TakeField(st, f) : st \in S}

ReadBody(kind, b) ==
  LET fields == Layout[kind]
      read[i \in 0..Len(fields)] ==
        IF i = 0 THEN {<<[kind |-> kind], b>>} ELSE ReadField(read[i - 1], fields[i])
  IN {p \in {st[1] : st \in read[Len(fields)]} : Acceptable(kind, p)}

TheOne(P) == IF P = {} THEN Refused ELSE CHOOSE p \in P : TRUE

(* parse_packet: an unknown type, an unsupported version or any error of    *)
(* the kind's reader refuses the packet; bytes left over are ignored.       *)
ParsePacket(b) ==
  IF Len(b) < 2 \/ b[1] \notin DOMAIN PacketType \/ b[2] # Version THEN Refused
  ELSE TheOne(ReadBody(PacketType[b[1]], Drop(b, 2)))

-----------------------------------------------------------------------------
(* Cut(b): what is left of a packet that was cut short.                     *)
Cut(b) == {SubSeq(b, 1, k) : k \in 0..(Len(b) - 1)}

(* What can be written, and what a parser refuses all the same.             *)
Clean(b) == \A i \in DOMAIN b : b[i] # Refused

Long(p) ==
  \E k \in DOMAIN p \cap {"name", "prefix"} : Len(p[k].components) > MaxComponents

(* A packet that can be written is read back as it was, up to what Normal   *)
(* leaves out, and nothing shorter is taken for a packet.  A name with too  *)
(* many components can be written and is then refused.                      *)
Faithful(p) ==
  LET file     == p.kind = "Capability"        \* a file has no header
      b        == IF file THEN Body(p) ELSE ToBytes(p)
      Parse(x) == IF file THEN TheOne(ReadBody("Capability", x)) ELSE ParsePacket(x)
  IN Clean(b) => /\ Parse(b) = IF Long(p) THEN Refused ELSE Normal(p)
                 /\ \A c \in Cut(b) : Parse(c) = Refused

SamplesFaithful == \A p \in Samples : Faithful(p)
=============================================================================
