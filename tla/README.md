# A TLA+ development for rns-icn

rns-icn is an Information-Centric Networking stack over the Reticulum Network
Stack (RNS): consumers ask for *names*, any node that holds Data for a name may
answer, and forwarders keep a Content Store, a Pending Interest Table and a
Forwarding Information Base.  This directory models its core in TLA+, checks the
models with TLC on small instances, and proves the main invariants with TLAPS
for every instance.  Paths such as `forwarder.py` are under `src/rns_icn/`.

## 1. The system

| Component | Source | State | Operations | Talks to |
|---|---|---|---|---|
| Names | `name.py`, `discovery.py` | none | prefix relation, pin, codecs, reserved names | everything |
| FIB | `fib.py` | prefix -> cost-sorted hops | insert, remove_face, remove_prefix, remove_all_for_face, lookup | Forwarder, routers |
| PIT | `pit.py` | name -> entry; (face, nonce) set | insert_or_aggregate, satisfy, remove, purge_expired, check_loop, record_nonce | Forwarder, server's age loop |
| Strategy | `strategy.py` | face -> consecutive failures | decide, usable_faces, record_failure/success | Forwarder |
| Forwarder | `forwarder.py` | faces, notifiers per name, running refreshes | express, receive_data, receive_nack, withdraw_face | all of the above, Content Store, faces |
| Content Store | `content_store.py` | SQLite tables content and name_prefixes | insert, get, get_prefix, invalidate, remove, purge, evict, recovery | Forwarder, server |
| Server | `server.py` | faces, seen invalidations | handle_interest/data/nack/subscribe/invalidate | Forwarder, push, propagation |
| Push (APS) and offline queue | `aps.py`, `offline_queue.py` | stream -> faces; stream -> queued Data | subscribe, publish, drain | server |
| Propagation | `propagation.py` | peers, downstream set | handshake, sync, propagate | server, faces |
| RNS server and routers | `rns_server.py`, `cli.py`, `peer_discovery.py`, `link_pool.py`, `face.py` | links, link faces, peer table | connect, incoming link, link closed, announce, idle teardown | RNS threads, Forwarder |
| Consumer | `client.py` | link faces, newest signed key per name, capabilities | fetch with retries, fetch_latest, fetch_range, subscribe | Forwarder, LinkPool |
| Access control | `access.py` | capability files | encrypt, issue, cover, unwrap | server, client |
| Large content | `chunker.py`, `assembler.py`, `manifest.py`, `resource_transport.py` | none | split, verify, reassemble | server, client |
| Wire format | `packet.py` | none | encode, decode | everything |
| Shell | `cli*.py`, `config.py`, `health.py`, `metrics.py`, `icn_logging.py`, `rns_utils.py` | counters | start-up, reporting | - |

Everything but RNS's own callbacks runs on one asyncio loop, so the unit of
interleaving is the code between two suspensions.  What is hard in this code:
futures that are resolved in one step and whose waiter runs in a later one;
tables keyed by name that several concurrent forwards share; NACKs, Data and
timeouts of one name racing each other; links that close on another thread; a
SQLite file that is found damaged, or whose last reads were never committed.
`PROJECT.json` lists these hazards at their lines.

## 2. Modules

| Module | What it is |
|---|---|
| `NameOps` | names as sequences, the prefix relation |
| `FibOps`, `Fib` | the FIB's operations as functions of the table; the table under any sequence of calls |
| `PitOps` | the PIT's and the nonce table's operations |
| `Forwarder` | the engine: `express`, `_forward`, refreshes, arriving packets, faces, time; EXTENDS `Fib`, whose table it uses |
| `CacheContract` | what a content store promises to its readers |
| `ContentStore` | the SQLite store, its transactions, restarts and salvage; refines `CacheContract` |
| `PushDelivery` | subscriptions, pushes, the offline queue and the consumer's dispatcher |
| `Propagation` | handshakes, manifests and replication between peered servers |
| `ConsumerFetch` | the consumer's verified fetches, retries, `fetch_latest` and the walk of `fetch_range` |
| `RouterLinks` | links, faces and upstream routes of `icn-router` |
| `LargeContent` | chunking, content manifests, reassembly and its checks |
| `Wire` | the byte format of every packet kind and of capability files |
| `Mesh` | servers and clients joined by links: receive loops, packet handlers, NACKs, invalidations; EXTENDS `Wire` |
| `Access` | restricted prefixes, their encryption, capabilities and the consumer's decryption |
| `MC...` | small instances of each for TLC |
| `ForwarderProofs`, `ContentStoreProofs`, `PushDeliveryProofs`, `ConsumerFetchProofs`, `RouterLinksProofs`, `LargeContentProofs`, `AccessProofs`, `MeshProofs` | theorems and proofs, one module per component; those of the FIB are in `ForwarderProofs` |

Operators whose comment begins "Faulty" are variants of the definition that
follows them with a plausible mistake in them; nothing uses them.  Each is there
to show that a property really depends on the code: with the faulty variant in
place of the definition, TLC refutes the property.

### 2.1 FIB

`fib[p]` is the hop list of prefix `p`; a prefix with an empty list has no entry.
`Upsert` is `insert`'s update-or-append followed by Python's stable sort, stated
as the place the hop ends up in.

### 2.2 Forwarder

A *thread* is one call of `express` (a task) or one background refresh.  Its
program counter says whether it is parked as an aggregated waiter (`waiting`) or
as a forward awaiting one face (`forwarding`).  `notif[n]` are the threads with an
unresolved future in `_pit_notifiers[n]`; `fut[t]` is what the future of `t` was
resolved with.  `ReceiveData` and `AnswerNack` resolve futures; `ResumeData`,
`ResumeNack` and `Timeout` are the later steps in which the threads run, which is
where the races are.  A step of `_forward` tries candidates until one is awaited:
`send_raw` never suspends, so a whole failover is one step (`TryFaces`).
A waiter is found by Data only through a PIT entry: `WaitersStayFindable` says that a
waiter that loses its entry has lost it to a timeout, an eviction, a sweep or the end
of another forward of its name, and then returns with nothing when its lifetime ends.
Upstream nodes are the environment: for every Interest sent they may answer with
matching Data, with a NACK, or never.  The Content Store is one slot per name
that decays as `CacheContract` allows.

A floor or a sequence that is absent is `None`, which the code tells from 0.  A
route may be installed over a face whether its link is up or not (`AddRoute`).

Abstractions: time in ticks, long enough for the loop to run what is due (`Tick`
waits for it); a pin is the number of the edition; the nonce of a refresh is not
recorded (it is never looked up); failures beyond six are counted as six, as the
exponent in the code is capped there; a timed-out future is dropped from the
notifiers, while the code leaves it in the list and skips it when it is done.

### 2.3 Content Store

`db` is what the open connection sees, `disk` what has been committed; every
write operation commits, the purge that starts every read does not (it runs
outside `with self._conn`).  `Restart` opens the file again and finds `disk`;
`RestartDamaged` finds it failing the integrity check: `"index"` damage (of SQLite's
own indexes) leaves every row of both tables readable, and the bulk copy succeeds;
`"rows"` damage, in either table, drives the row-by-row fallback, which keeps the
content rows that pass (all of them, if it is the prefix table that is damaged) and
none of the prefix table.  An edition without a sequence and a read without a floor
have `None`, which the code tells from 0.  `OldLayout` says that the file was created
before `freshness_period` was a column, so that the column is the last one.
Rows are ordered by insertion second and, within it, by rowid.  A file whose
pages cannot be read at all makes the constructor raise; the in-memory store of
clients loses everything with its process.  Neither is modelled.

The refinement maps the table to one slot per name: the intact, unexpired row
under it, fresh when `_parse_metadata` would say so.  `CacheContract` allows a slot
to be lost or to go stale at any time, and allows nothing else but a store: no
read may hand out an edition that was replaced, or fresh again what was stale.
A crash undoes a purge, which is invisible there because the rows that come back
have expired.

### 2.4 Push delivery

One producer and its subscribers.  `LinkFace` never waits for a send, so
`publish_pushed` and `handle_subscribe` run without suspension and are one step
each (`Publish`, `HandleSubscribe`).  A link dies on RNS's thread (`Close`) and the
loop hears of it later (`Cleanup`); in between the face is registered and what is
sent on it vanishes (`Sent`).  Subscriptions of dead faces are never removed in
the code, and are not here: a push is queued once for each of them (`Queued`).
`missed` and `handed` are histories that state what a subscriber was owed.

### 2.5 Propagation

Every link has a queue in each direction and a pump on its receiving side
(`Pump`).  A handshake suspends the pump inside `sync_from_peer`: while it waits for
the manifest (`AwaitManifest`) it reads the queue itself, drops what is not Data and
takes the first Data for the manifest, whatever its name.  Content Stores hold
items and the manifests built for earlier peers; manifests list one name per
label.  A channel may refuse any packet, and nobody sends it again: up to `MaxLost` of
what a step sends is lost, and `lost` remembers which packet on which link (`Sends`).
`ReachesAll` is stated place by place: a publication reaches every server that is
reached from its origin over links that did not lose it.  The aggregation of downstream manifests is left out: nothing in the
package marks a peer as downstream.

### 2.6 Consumer

A *task* is one call of `fetch` or `fetch_latest` over the client's forwarder, of
which the module keeps the part a fetch can see: its Content Store, which holds
every answer before the client has checked it.  The network answers with any
packet an upstream cache may hold (older versions, stale pointers, unsigned
copies) or not at all.  An attempt
without a result ends at once when the answer is rejected (`Reject`) and through
the backoff when none came (`Silence`, `Backoff`); whether an error was recorded on
the way decides whether the call raises.

`Fits` says what the engine lets through: Data of the name asked for, whatever pin or
floor goes with it, and for a prefix Interest anything named under the prefix.  With
`Relayed` nothing more is assumed of it: it may have been pushed, come late, or have
been asked for by somebody whose Interest a relay joined with this one.  Without
`Relayed` the producer is linked directly and sends only what this client has asked it for
(`AskedFor`): the counterexamples are found there, where nobody else can be to blame.

A walk (`fetch_range`) is a call whose every accepted answer raises its floor `min`
and begins the next fetch (`Walked`).  `WalkHits` is the forwarder's sequence-walk
rule: only the edition exactly on the floor may be answered from a store.  No
property says that a walk is complete, because it is not (`WalkSkipsNothing`, section 3).  A
pointer that cannot be read, or leads out of the collection, sends the search to the
selector (`Follows`).

### 2.7 Router

The event loop, RNS's announce and link threads and the start-up sequence of
`icn-router`.  A connect call is suspended only while its link is being made
(`GetLink`, `Created`, `NotCreated`).  Making a face takes two steps (`TakeId`,
`MakeFace`) so that `Preempts` can let another thread in between them.  A link has
one closed-callback, which every new face on it takes over (`hook`).  A peer may
announce itself at any time, also before the router has connected to it and while a
connect is under way.  Cost of routes, capabilities and the packets themselves are
left out.

A connect to a peer whose link the pool still has puts a second face on that link,
and the first face's route is then never withdrawn (`NoBlackHole`, section 3).
`OnlySupersededOutlives` says that this is the only way a route outlives its link, and
`AttachedIsLinked` that discovery is never wrong about who is linked, which is what a
re-connection hangs on.

### 2.8 Large content

A producer publishes editions of one content under the same chunk labels, one
iteration of `chunk_content`'s loop at a time (`Chunk`, `Create`).  A consumer holds
the manifest of one edition (`FetchManifest`, through `_parse_name`) and collects
packets of any edition, genuine or altered by a cache (`Collect`, `Forgeries`).  The
assemblers and verification helpers are operators on what it has collected, so
every property speaks about calling them at any moment.  Hashes are free of
collisions; empty content is refused by the code and is not an input.  The
manifest itself is genuine: it is fetched and verified as any Data is
(`ConsumerFetch`).

### 2.9 Wire

A packet is a record; each kind has a *layout*, the sequence of its fields in wire
order, and one writer and one reader walk the layouts.  The optional fields, the
flags that announce them, the length prefixes, the varint with its three markers,
the header, and every check that makes a parser raise are kept; the widths and the
number of values of a byte are constants.  `Normal` says what writing leaves out or
cuts: an empty selector or metadata part, a hop limit above a byte, the padding of
an address.  A reader yields the set of what the bytes can be read as: one value, or
none where Python raises (a short slice, an unknown reason); a number above its range
is `Refused` among the bytes written.  `Packets` is what the constructors let a packet be:
names of any number of components, any text, numbers of any size.
The reader takes a capability's signature flag from its lowest bit, where the code
takes any nonzero byte; the writer writes only 0 and 1.

### 2.10 Mesh

The composition of nodes.  A link has a queue in each direction; a packet enters it
as the receiver will parse its bytes (`Received`, by way of `Wire`), or is dropped when
the window is full.  The window stands for the channel's count of messages that are
not acknowledged, and counts here what the receiver has not read: `recv_queue` itself has
no bound, but what a channel refuses is refused for some such count.  `_process_link` awaits the handling of each packet, so a server
reads nothing from a neighbour while its handler for that neighbour's last Interest
waits (`Pump`'s guard on `hand`).  A handler is the part of `Forwarder` that ties
nodes together: loop check, store, aggregation, failover over the next hops, hop
limit, NACK to a neighbour that advertised the feature.  `HandleInvalidate` is the
guard, the purge and the flood; `Invalidate` is the producer's own.  A server that
does not recall the producer's key drops the invalidation and does not pass it on
(`recalls`, chosen in `Init`): `EveryVerifierHears` is stated for what is reached over
servers that recall it.  The mesh
itself (links, routes, who has exchanged capabilities, what is fetched) is chosen
in `Init` out of `Meshes`.  Backoff is a set of failed hops of which any part may be
skipped.  A client's call may be ended by its own timer (`GiveUp`), which leaves the
PIT entry.

`Usable` yields what `usable_faces` may leave of the next hops: in their order, with every
hop that did not fail.  `Sole` are the servers the properties of revoked content speak
of: their only next hop is the producer, and without the link from it no path of servers
leads from the producer to them (`Reached`, by way of the sets that are closed under the
links that are left).

### 2.11 Access

The rules of the configuration in force, the Data published with the key it was
closed with, the capabilities issued, and the files each client has loaded, in
their order.  A restart brings other rules; content already published stays.
`Listings` are the files a client may be given: its own and others' capabilities,
good or with a spoilt key or signature.  A file that cannot be parsed is skipped by
the code and so is a list that lacks it here; `Wire` parses the bytes.  Cryptography
is symbolic.
Only `publish_content` and `publish_post` encrypt; Data handed to `publish_pushed` goes
out as it is.

## 3. Runs

Every property is stated above its definition in the module.  Passing runs:

| Run | Instance | Shows |
|---|---|---|
| `fib` | 3 nested prefixes, 3 faces, 2 costs; all reachable tables | sorted hop lists, exact withdrawal, and what a withdrawal empties no longer hides the shorter prefix |
| `forwarder` | 2 concurrent Interests out of exact, pinned and latest-from-floor; 2 next hops, one may close; PIT of 1, 2 nonces; stray Data | waiters findable, entries owned, answers under the name, nothing unsolicited cached, cache honours the Interest |
| `forwarder_refresh` | one name, stale-while-revalidate, cancellable caller, trusted pushes, server sweep; fair | every Interest returns, every refresh ends, expired entries are reclaimed |
| `content_store` | collection with a member that expires and a latest pointer, two editions, an intact and a corrupt copy of one, an unsequenced one, capacity 2, 2 seconds, restarts, bulk salvage | index exact, complete prefix reads, invalidation sticks, oldest evicted, refinement of `CacheContract` |
| `push` | one subscriber, three links of which two may die, two editions, two seconds; fair | what is missed is held, handed over and arrives; editions never go back |
| `propagation` | a line of three peers and a newcomer whose handshakes cross; publications at both ends, one packet lost; fair | publications reach every member no loss cuts off, waits for a manifest end, forwarding ends |
| `fetch` | two searches, or an exact fetch beside a search or a walk, over relays: two versions, stale, late and joined answers, one retry; and pairs of calls for one mutable name, one of them pinned, with unsigned, forged and damaged Data beside the genuine | pointers never go back, every call runs out, only what the call's policy allows is returned |
| `router` | one upstream peer, four links, five faces, two overlapping re-connects beside that of the start, announces at any time, incoming, closing and idle links; fair | routes lead to their peer, only superseded faces outlive their link, attached peers are linked, and a live route comes back, or the bound on links and faces is reached |
| `large_content` | two editions of one to three chunks, whole and short last chunks, signed or not, a cache that alters packets | chunking and assembling are inverse, no mixture is ever returned, helpers and assemblers agree |
| `mesh` | two lines p-b-y (two fetches and a purge, one fetch and two purges), a ring of three servers with two purges, where a server may not recall the producer, a routing cycle with two fetches; window 2; some 250 sample packets; fair | the byte format is faithful; nothing revoked stays at the producer's neighbours; the flood ends and reaches every server it can; Interests die out |
| `access` | a restricted prefix inside another, three configurations, one restart, two capabilities, two files in any order and condition, 3 seconds | only granted consumers read, and holders do |

Bounds.  Two tasks suffice for every pairwise race of one name (the third party
of each race, a refresh or a packet, is there as well); a PIT of one entry makes
eviction happen with the second name; two faces give one failover; `Horizon` 3
lets an Interest of lifetime 1 started at 1 time out on both faces.  In the store
three names and capacity two make every insert of a third evict, and `LastRowid`
bounds the re-use of rowids.  Three links let a subscriber be lost, lost again
before its resubscription is handled, and come back for good; two editions give
one older and one newer.  Four servers are the least that have a member two hops
away from a handshake, and one lost packet can cut off any of them.  In
`ConsumerFetch` one retry gives a second attempt, where a rejected row can answer.  In
`router` the number of closings is finite because links are: what is shown is
that a route comes back whenever links stop closing for long enough, not that it does
while the idle monitor keeps closing them.  Two peers interfere only through the pool, the
counter and the loop, and the three invariants are proved for any number of them; TLC has
checked them with `Peers = {p, q}`, `Spec` and symmetry too (1.6 million states).  `fetch`
takes two instances of `ConsumerFetch` in one run: `InChecked` says which one a behaviour
belongs to, and nothing passes from one to the other.
In `Mesh` a window of two is the least in which two packets can be in order and a
third be lost; three servers in a ring are the least in which an invalidation comes
back to its sender, and two clients at the ends of the routing cycle the least that
make two receive loops wait for each other.  In `Wire` a byte has 64 values, so that
lengths of names reach the markers of a varint.  In `Access` two capabilities are a
right one and a wrong one before it, or the same one twice in two conditions.

One run ends in a violation, which refutes a sentence of the repository (quoted in
`PROJECT.json`, `findings`):

| Run | Property | The repository's sentence | What happens |
|---|---|---|---|
| `forwarder_own_entry` | `RemovesOwnEntry` | "removes exactly the entry it just satisfied or gave up on" (`pit.py:87`) | a resumed forward removes the entry of a newer one |

Fairness.  `Forwarder`: the event loop eventually runs every thread that can run
and every due timer, time passes, and the sweep task (where there is one) runs;
peers owe nothing, so no fairness on answers, links or routes.  `PushDelivery`: the
pumps and the scheduled cleanups run; clients need not connect.  `Propagation`: the
pumps run, links deliver, a wait for a manifest times out.  `RouterLinks`: the loop
runs calls and cleanups; a peer keeps announcing itself (the code relies on this,
`cli.py:185`) and, as an assumption on the network, links that are
tried for ever do not fail for ever.  `Mesh`: as long as a packet can be read, a future is resolved or
a timer runs, one of these things happens; the loops guarantee each of them, and
this much weaker assumption is enough.  The end of a fetch is stated without
fairness, as a rank that every step of a call raises up to a bound.

`CHECK_DEADLOCK FALSE` where a bound or the end of the work lets the system be quiet.

### Further instances

TLC finds these properties violated too, each under the configuration named, with the
changes given, and the property in place of those it lists.  The ones that need no change
are listed as findings in `PROJECT.json`.

| Configuration | With | Property | The repository's sentence | What happens |
|---|---|---|---|---|
| `MCForwarderFit.cfg` | - | `AggregatedAnswerFits` | "an equivalent Interest is already pending" (`PROTOCOL.md:619`) | Interests are joined by name alone, whatever they select |
| `MCContentStoreSalvage.cfg` | - | `InvalidatedStaysGone` | "every name under it" (`content_store.py:444`) | row-by-row salvage loses the prefix index |
| `MCContentStoreLegacy.cfg` | - | `SalvageKeepsRows` | "Salvage valid rows" (`content_store.py:101`) | rows of a migrated file are copied by position and lost |
| `MCPushDeliveryShared.cfg` | - | `ResubscribeDeliversMissed` | "a resubscribe after a disconnect delivers what was missed" (`client.py:407`) | the first of two subscribers drains what was queued for both |
| `MCPushDeliveryUnreachable.cfg` | - | `UnreachableIsQueued` | "Faces that are unreachable have their data queued" (`server.py:442`) | a push between a link's death and the cleanup is lost |
| `MCPropagationCross.cfg` | - | `PeersSubscribe` | "each side fetches the other's manifest and subscribes" (`propagation.py:49`) | crossing handshakes throw away each other's packets |
| `MCPropagationRing.cfg` | - | `ForwardingEnds` | "preventing loops via PIT nonce tracking" (`propagation.py:46`) | pushed Data has no nonce: in a ring of peers it circulates for ever |
| `MCConsumerFetchWalk.cfg` | - | `WalkSkipsNothing` | "only an exact-floor hit, or the producer, may answer" a walk, lest it "silently skip history" (`ICN_APP_PLATFORM.md:221`) | a pointer that comes late satisfies the walk's Interest, is yielded as an edition and moves the floor past others |
| `MCConsumerFetchBack.cfg` | - | `LatestNeverGoesBack` | "only when no pointer exists" (`docs/api-reference.md:101`) | a rejected or silent pointer leads to the selector and an older version |
| `MCRouterLinksFirst.cfg` | - | `NoBlackHole` | "a dropped link stops being a black-hole route" (`rns_server.py:420`) | a peer first heard after the connect gets a second face on its link; the first one's route stays |
| `MCMeshOneHop.cfg` | - | `GoesOneHop` | "1-hop propagation" (`server.py:387`) | every server that gets an invalidation sends it on |
| `MCForwarderFit.cfg` | `Faces = {f1, f2}`, `Requests <- MCTwice` | `NackFailsItsFace` | "records the NACKing face as failed for backoff" (`PROTOCOL.md:433`) | a late NACK of the primary ends the backup's wait and blames the backup |
| `MCForwarderRefresh.cfg` | `Sweeps = FALSE` | `ExpiredReclaimed` | "is still reclaimed by the periodic purge_expired sweep" (`pit.py:90`) | a client has no sweep, and a cancelled call leaves its entry |
| `MCContentStore.cfg` | `Editions <- MCOne`, `Damages = {}`, `Horizon = 1` | `EvictsLeastRecentlyUsed` | "LRU cache" (`content_store.py:19`) | eviction is by insertion time |
| `MCPushDelivery.cfg` | `SPECIFICATION Spec`, `Posts <- MCPost`, `Faces = {1, 2}`, `Owner <- MCOwnerOne`, `Unstable = {1}`, `FromNow = {TRUE}`, `Prunes = FALSE`, `Horizon = 2` | `NothingStaleDrained` | "Default queued-push lifetime" (`PROTOCOL.md:977`) | nothing calls `prune`, and `drain` ignores the age |
| `MCPropagation.cfg` | `Nodes = {a, b}`, `Links <- MCPair`, `Posts <- MCOne`, `Peered <- MCStrangers`, `Handshakes <- MCPair`, `WantsSync = {FALSE}`, `MaxLost = 0` | `PeersReplicate` | "content from any peer replicates to all other peers" (`propagation.py:370`) | a push during a handshake is taken for the manifest |
| `MCPropagation.cfg` | as before, `Posts <- MCIssues`, `Handshakes <- MCOneWay` | `NewPeersCatchUp` | "new peers get existing content" (`propagation.py:16`) | a manifest names one item of a label |
| `MCPropagation.cfg` | `Nodes = {a, b, c}`, `Links <- MCFan`, `Posts <- MCLabels`, `Peered <- MCStrangers`, `Handshakes <- MCFanOut`, `WantsSync = {FALSE}`, `MaxLost = 0` | `NewPeersCatchUp` | the same | a manifest cached for an earlier peer is outdated |
| `MCConsumerFetch.cfg` | `SPECIFICATION Spec`, `Tasks = {c1}`, `Calls <- MCExacts`, `MaxVersion = 1`, `Rogue = {"forged"}`, `RequireSig = FALSE`, `Horizon = 0` | `GivesUpAfterAsking` | "wait for Data with retry/backoff" (`client.py:137`) | a rejected answer in the own store answers all retries |
| `MCConsumerFetch.cfg` | `SPECIFICATION Spec`, `Tasks = {c1}`, `Calls <- MCSearches`, `MaxVersion = 1`, `Rogue = {}`, `RequireSig = FALSE`, `MaxRetries = 0`, `Horizon = 0` | `LatestReturnsNone` | "Returns None if nothing satisfies either path" (`client.py:269`) | a found pointer without its target raises |
| `MCConsumerFetchBack.cfg` | - | `LatestIsVersion` | "Fetch the authenticated latest version under ``prefix``" (`client.py:258`) | the pointer comes after its wait timed out, answers the selector's Interest and is returned in place of a version |
| `MCRouterLinks.cfg` | `Preempts = TRUE` | `RoutesLeadToPeer` | "pointing at the Link face" (`cli.py:137`) | an incoming link between reading and incrementing the counter takes the same face id |
| `MCLargeContent.cfg` | `Sizes = {2, 3}`, `Path = "feed"`, `Unhex <- MCHex` | `ManifestRoundTrips` | "ContentManifest can be round-tripped through a Data packet" (`tests/test_core.py:1001`) | a component such as "feed" is read back as two bytes |
| `MCMesh.cfg` | `Hasty = TRUE` | `NeighbourHoldsNothingRevoked` | "a producer-chosen monotonic value" (`packet.py:841`) | epochs are whole seconds: the second invalidation of a second is a replay to everybody but the producer |

`NeighbourHoldsNothingRevoked` is stated for `Sole`, the servers that hear from the
producer over one link only.  Stated for all servers it fails on a ring in which c
fetches over its link with p: the invalidation comes round by b before the Data
that is still on that link, c caches the Data afterwards, and drops the copy of the
invalidation that follows it as already seen (`server.py:385`).

Every module has a `TypeOK`, checked under the configurations of its runs, where it is not
listed again; `StoreTyped`, `FetchTyped`, `TypeCorrect`, `PushTyped` and `MeshTyped`
prove it.

## 4. Proofs

All theorems hold for every value of the constants under the named assumption of
their module.  `FibAssumption`, `ForwarderAssumption`, `StoreAssumption`,
`RouterAssumption`, `PushAssumption`, `AccessAssumption`, `WireAssumption`, `PacketAssumption` and `MeshAssumption` type the constants, say that
`None` is none of the keys, and that peers, names and faces are finitely many where a
bound counts them, or that links go both ways and next hops are linked.  `FetchAssumption` adds that the seals the network may forge are
not the good one, `LargeContentAssumption` that contents are not empty, which the code
checks (`chunker.py:86`), and chunk sizes positive (with size 0 the loop of
`chunk_content` would not end; every caller in the package leaves it at 64 KB).
`TrafficAssumption` says that the packets of a mesh can be written, as `to_bytes` raises an
error for one that cannot: names have at most `MaxComponents` components, a hop limit and an
edition (which stands for the content) fit a byte, and lengths and times their fields.
`EveryPacketFaithful` does not need it.

Where a theorem has a further hypothesis, the property is false without it, and an
instance shows that:

| Theorem | Hypothesis | Without it |
|---|---|---|
| `NoPitLeak` | `Cancellable = {}` | `MCForwarder.cfg` with `Cancellable = {t1}` and no `SYMMETRY` |
| `CachedWasSolicited` | `Cancellable = {}` | the same: the abandoned entry lets a late answer in |
| `IndexConsistent`, `InvalidationHolds` | `"rows" \notin Damages` | `MCContentStoreSalvage.cfg` |
| `PrefixReads` | the same | `MCContentStoreSalvage.cfg` with that property |
| `StoreKeepsContract` | the same | the same with `Editions <- MCTwo`, `Horizon = 2`: a second restart reads a row that the first could not read |
| `RoutesFitPeers`, `DeadRoutesWithdrawn`, `AttachedPeersLinked` | `~Preempts` | `MCRouterLinks.cfg` with `Preempts = TRUE` |
| `MissedStaysHeld`, `ResubscriptionDelivers` | `AloneOnStreams` | `MCPushDeliveryShared.cfg`, with either property |
| `NeverGoesBack` | `RejectRollback` | `MCPushDelivery.cfg` with `RejectRollback = FALSE` |
| `NeighbourPurged` | `~Hasty` | `MCMesh.cfg` with `Hasty = TRUE` |
| `NeighbourPurged` | `ProducerIsOrigin` | `MCMesh.cfg` with `Meshes <- MCBack`, `Window = 1`: a producer with a next hop for its own name fetches back an edition it revoked, from a server whose invalidation a full window swallowed, and serves it to a neighbour that has heard |

The arguments:

* `FibWellFormed`: type, sortedness and distinctness together are inductive;
  `UpsertKeeps` and `WithoutKeeps` are the two lemmas on lists.  `WithdrawalFalls` is about
  the step that withdraws a face: of the prefixes that still have hops the longest answers
  (`LongestExists`), and none that the step has emptied is among them.  `WithdrawalExact` is a fact about one step, from
  `WithoutKeeps` and what removing a face leaves of a list (`WithoutExact`).
* `EngineCallsFib`: the engine's steps are calls of the FIB or leave it alone, so the three
  theorems above hold of the engine's table.
* `EngineInvariant`: the inductive invariant of the engine adds to the checked
  properties what a parked thread carries with it (its Interest, its face, its
  place in `notif`) and what an unparked one does not.  `NoLostWaiter`, `WaitersFound`,
  `AnswersFitNames`, `TablesStayBounded`, `PitIsKeyed` and `TypeCorrect` are read off it.
  `CachedWasSolicited` needs more than a PIT entry: that the entry belongs to a forward
  under way (`EntryHasOwner`, part of the invariant when nobody cancels).
  `CacheFitsInterest` is a fact about the step that begins a call.  The bounds of the
  tables are proved here and in `StoreBounded` and are not repeated in a run.
* `StoreInvariant`: capacity and types of `db` and `disk`, finiteness of the tables,
  and, unless rows are salvaged one by one, exactness of both indexes and absence
  of invalidated names in both.  `StoreOrder` strengthens it (`OInv`): rows are dated in the
  past with distinct rowids and bounded sequence numbers (`Aged`), so that an oldest and a
  newest exist, and the file differs from the open table only by rows that have
  expired (`Behind`), so that a crash brings back nothing that can be read.
  `EvictionIsLru` and `PrefixReads` follow from `Aged` and the exact index.
  `StoreKeepsContract` is the refinement: every step that is not an insertion keeps
  what it keeps of the rows as it was, or brings back expired ones (`RowsKept`), which
  maps to a decay of the slots (`ServedDecays`); an insertion maps to `Store`
  (`ServedStored`).
* `PInv`: that what was missed is queued, or has been handed over, is inductive once it is
  known that streams are asked for and subscribed to only by clients that want them
  (`Asking`, `Subscribing`).  The difficult steps are those that rewrite a queue: pruning
  keeps every young item (`PrunedHolds`, from a numbering of a finite set, `Ranking`), and
  draining takes the whole queue of a stream whose one subscriber is the one that asks.
  `SInv`: what was accepted last is no older than anything handed over (`Newest`).
* `FInv` of the fetches: stores and tasks hold authentic pointers only, versions grow with
  time (`Clock`), and a search is pinned to a version between its floor and the newest
  seen (`Pinned`).  Every step of a call is one of five kinds of change to its record
  (`Moved`, `TasksMove`), and the invariants are proved by these kinds.  `FetchesEnd`: each
  kind raises the rank, which is made of the stage, the attempt and the phase, and the rank is
  at most `4 * Steps * (MaxRetries + 1)`.
* `LInv` of the router: one caller at a time stands between a link and its face (`Alone`), with
  its link up and its number the counter's (`Holds`); pooled links lead to their peers
  (`Pooled`); nothing is known of a face whose number has not been given (`Faced`).  `WInv` adds
  who has a link's callback (`Hooked`): the last face made on it, so that no route uses a later
  one, and the face discovery knows the peer by is that face.
* `LInv` of large content: a manifest's entries and packets are the chunks of its edition, in
  order (`Chunked`, `Complete`), and what a consumer holds is one of these manifests (`Fetched`).
  The first k chunks joined are the first k times the chunk size bytes, and their sizes add up
  to as many (`JoinChunks`, `SumChunks`); a hash without collisions makes any body that is
  accepted the chunk itself (`Assembling`).  `Concat` and `TotalSize` are recursive
  functions; what they compute is proved from the set of the k for which it holds and
  the well-foundedness of the naturals (`UpTo`, `Recursion`, `Unique`).
* `AccessInvariant`: what the two properties of `Access` need is that everything stays
  tied to one prefix: Data to the prefix of the rule it was published under
  (`ClosedForPrefix`), a capability to the prefix and the consumer it was granted for
  (`IssuedGranted`), a file in use to a capability that was issued (`LoadedIssued`).
  `EncryptionFollowsRule` is the one step that is not bookkeeping: of the matching rules
  that tie for the longest prefix any may be taken, because two prefixes of one name
  with the same length are equal.  `GrantedReadOnly` and `HoldersAlwaysRead` follow.
* `EveryPacketFaithful`, for fields of any width: the bytes of a packet, read with anything behind
  them or cut off anywhere, give what `Normal` makes of it, or nothing.  The bytes at hand *begin*
  with what was written as far as they reach (`Begins`); a reader that has met its form then yields
  the value and what follows, or nothing if the bytes end too soon (`Outcome`), and this
  composes (`BeginsBoth`, `OutcomeBoth`).  It is shown for numbers (`NumRead`), the four
  forms of a varint (`VarintRead`), names (`NameRead`, component by component), the flags
  byte (`FlagsRead`, by cases of the six bits), optional fields (`SkippedRead`, `PlainRead`),
  nested parts (`PartRead`) and, for any layout whose flags come before the fields they announce
  (`WellOrdered`), for the whole body (`Walk`, `WalkGoesOn`, `BodyRead`).  What remains is
  that the ten layouts of the code are such layouts (`InterestConforms` and its like).
  Recursive functions are reasoned about as in large content.
* `TrafficArrives`: the packets of the mesh are packets that `Normal` leaves as they are, so
  they arrive as they were sent; with `SamplesAreFaithful` and the types this is `WireFaithful`.
* `MInv` of the mesh, for any servers, links and routes.  A link keeps its order, and the
  producer purges before it floods: the Data of a revoked edition on the link from the
  producer is ahead of the invalidation (`DataFollowed`), what its neighbour holds of one
  waits for it (`StoreFollowed`), unless the link has lost one.  The difficulty is that
  the neighbour must not take the invalidation for one it has seen.  So the epochs on
  the link grow (`InOrder`) and are above what it has seen (`NewTo`); what the servers
  behind it know, and send it, it has heard itself (`HeardFirst`), as all they hear
  comes through it: that is what `Apart` says of the set of servers on the producer's side.
  Data reaches it from the producer only, because it asks nobody else (`AsksProducer`); the
  producer's own copy is never a revoked one (`Origin`), as it waits for nobody, and no
  epoch is above the producer's (`Clock`).  TLC checked `MInv` as an invariant of `MCMesh.cfg`
  and of two larger meshes first.

Only model-checked is liveness under fairness, which the proof system does not reach:
`EveryInterestReturns`, `ExpiredReclaimed`, `MissedArrives`, the three properties of
`Propagation`, `RouteRecovers`, `EveryVerifierHears`, `FloodEnds` and `InterestsDieOut`.

Every safety property that a passing run checks is stated by a theorem.

## 5. Plan

In this order:

1. `LargeContent`: the sending side (`ResourcePublisher`, whose wait may time out while the
   transfer goes on).
2. `Mesh` with links that close and come back, and with subscriptions over the same
   receive loops.

## 6. Not modelled

Cryptography (signatures, hashes and encryption are facts about a packet), RNS's own
protocol (links come up, carry messages in order within a window, and die),
SQLite's thread safety, the string form of names, `resolve` (a poll of RNS for an
identity), the sending side of resources, the unused loops over `express` in
`forwarder.py`, configuration, command line tools, metrics, health endpoint and
logging.  `PROJECT.json` gives the reason for each.
