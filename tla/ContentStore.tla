---------------------------- MODULE ContentStore ----------------------------
(***************************************************************************)
(* The SQLite-backed Content Store (rns_icn/content_store.py).              *)
(*                                                                          *)
(* Two tables, changed together by every operation: "content", one row per  *)
(* unpinned name, and "index" (name_prefixes), the pairs <<prefix, name>>   *)
(* that prefix reads and prefix invalidation go by.  An operation inside    *)
(* "with self._conn" commits; the purge that opens every read does not, so  *)
(* it is undone when the process dies or closes before the next commit.     *)
(* Opening a file that fails PRAGMA integrity_check salvages it.            *)
(***************************************************************************)
EXTENDS NameOps, FiniteSetsExt

CONSTANTS
  Components,  \* name components
  Names,       \* names that may be stored or asked for
  Editions,    \* what may be stored: [seq, period, fresh, ok]; seq None is
               \* "unsequenced", period 0 "none declared", ok says that the
               \* bytes have the declared hash
  Ttl,         \* the configured time to live of each name, 0 for none
  Reserved,    \* names of discovery objects (latest pointer, catalog)
  MaxEntries,  \* capacity
  Damages,     \* how the file may be found at restart: "index" (SQLite's own
               \* indexes), "rows" (of either table)
  OldLayout,   \* the file was made before freshness_period was a column
  Horizon,     \* bound: the clock stops here
  LastRowid,   \* bound: no row is inserted beyond it
  None

Edition == [seq : Nat \cup {None}, period : Nat, fresh : BOOLEAN, ok : BOOLEAN]

ASSUME StoreAssumption ==
  /\ Names \subseteq Seq(Components) \ {<<>>}
  /\ Editions \subseteq Edition
  /\ Ttl \in [Names -> Nat]
  /\ Reserved \subseteq Names
  /\ MaxEntries \in Nat \ {0}
  /\ Damages \subseteq {"index", "rows"}
  /\ OldLayout \in BOOLEAN
  /\ Horizon \in Nat /\ LastRowid \in Nat
  /\ None \notin Names \cup Nat \cup [ed : Editions, fresh : BOOLEAN]

VARIABLES
  now,     \* int(time.time()), which does not step back
  db,      \* the tables as the open connection sees them
  disk,    \* the tables as last committed
  damage,  \* what is wrong with the committed file: "none" | "index" | "rows"
  last,    \* (history) the name of the row read last, or None
  gone     \* (history) names invalidated and not inserted since

vars == <<now, db, disk, damage, last, gone>>

Rows == [name : Names, ed : Editions, at : Nat, expires : Nat, rid : Nat]

(* Faulty: the name itself is not among the indexed prefixes.               *)
PrefixesProper(n) == {SubSeq(n, 1, k) : k \in 1..(Len(n) - 1)}

Prefixes(n) == {SubSeq(n, 1, k) : k \in 1..Len(n)}

-----------------------------------------------------------------------------
(* The statements the operations are made of.                               *)

(* Faulty: the index rows stay.                                             *)
DeleteContent(d, S) == [d EXCEPT !.content = {r \in @ : r.name \notin S}]

(* DELETE FROM content and FROM name_prefixes, for each of a set of names.  *)
Delete(d, S) ==
  [d EXCEPT !.content = {r \in @ : r.name \notin S},
            !.index   = {x \in @ : x[2] \notin S}]

Expired(r) == r.expires # 0 /\ r.expires <= now

NamesOf(S) == {r.name : r \in S}

Purge(d) == Delete(d, NamesOf({r \in d.content : Expired(r)}))

BeforeNewest(r, s) == r.at > s.at \/ (r.at = s.at /\ r.rid > s.rid)   \* faulty: DESC

(* ORDER BY inserted_at: rows of the same second come in rowid order.       *)
Before(r, s) == r.at < s.at \/ (r.at = s.at /\ r.rid < s.rid)

(* The first k rows of that order, all of them if there are fewer.          *)
Oldest(S, k) == {r \in S : Cardinality({s \in S : Before(s, r)}) < k}

EvictLru(d, k) == Delete(d, NamesOf(Oldest(d.content, k)))

ExpiresAt(n) == IF Ttl[n] = 0 THEN 0 ELSE now + Ttl[n]

(* A replaced row keeps its rowid; a new one comes after all the others.    *)
Rowid(S, n) ==
  IF n \in NamesOf(S)
    THEN (CHOOSE r \in S : r.name = n).rid
    ELSE 1 + Max({0} \cup {r.rid : r \in S})

(* Faulty: a replaced row keeps its insertion time.                         *)
StoredUndated(d, n, e) ==
  LET old   == {r \in d.content : r.name = n}
      row   == [name |-> n, ed |-> e,
                at |-> IF old = {} THEN now ELSE (CHOOSE r \in old : TRUE).at,
                expires |-> ExpiresAt(n), rid |-> Rowid(d.content, n)]
      clean == Delete(d, {n})
  IN [d EXCEPT !.content = clean.content \cup {row},
               !.index   = clean.index \cup {<<p, n>> : p \in Prefixes(n)}]

(* The upsert, then the index rows of the name anew.                        *)
Stored(d, n, e) ==
  LET row == [name |-> n, ed |-> e, at |-> now, expires |-> ExpiresAt(n),
              rid |-> Rowid(d.content, n)]
      clean == Delete(d, {n})
  IN [d EXCEPT !.content = clean.content \cup {row},
               !.index   = clean.index \cup {<<p, n>> : p \in Prefixes(n)}]

-----------------------------------------------------------------------------
(* Operations that write, in one transaction.                               *)

Commits(d) == db' = d /\ disk' = d /\ damage' = "none"

(* ContentStore.insert.                                                     *)
Insert(n, e) ==
  LET d == Stored(db, n, e)
  IN /\ Rowid(db.content, n) <= LastRowid
     /\ Commits(EvictLru(d, Cardinality(d.content) - MaxEntries))
     /\ gone' = gone \ {n}
     /\ UNCHANGED <<now, last>>

(* ContentStore.purge_expired.                                              *)
PurgeExpired ==
  /\ Commits(Purge(db))
  /\ UNCHANGED <<now, last, gone>>

(* ContentStore.evict_lru.                                                  *)
EvictTo(target) ==
  /\ Commits(EvictLru(db, Cardinality(db.content) - target))
  /\ UNCHANGED <<now, last, gone>>

(* Faulty: the deletion is not committed.                                   *)
RemoveUncommitted(n) ==
  /\ db' = Delete(db, {n})
  /\ gone' = gone \cup {n}
  /\ UNCHANGED <<now, disk, damage, last>>

(* ContentStore.remove, and invalidate of one name.                         *)
Remove(n) ==
  /\ Commits(Delete(db, {n}))
  /\ gone' = gone \cup {n}
  /\ UNCHANGED <<now, last>>

Indexed(d, p) == {x[2] : x \in {y \in d.index : y[1] = p}}

(* invalidate of a prefix: the names the index has under it.                *)
InvalidatePrefix(p) ==
  /\ Commits(Delete(db, Indexed(db, p)))
  /\ gone' = gone \cup {n \in Names : StartsWith(n, p)}
  /\ UNCHANGED <<now, last>>

-----------------------------------------------------------------------------
(* Reads.  A row whose bytes do not have the declared hash is passed over.  *)

(* The rows get may return; a pin is the edition whose bytes it is the      *)
(* hash of.                                                                 *)
GetRows(d, n, pin) ==
  {r \in d.content : r.name = n /\ r.ed.ok /\ (pin = None \/ pin = r.ed)}

(* The order of the SELECT in get_prefix: by sequence for a child selector, *)
(* newest first among equals and without one.                               *)
Precedes(child, r, s) ==
  LET newer == r.at > s.at
  IN CASE child = "none"   -> newer
       [] child = "latest" -> r.ed.seq > s.ed.seq \/ (r.ed.seq = s.ed.seq /\ newer)
       [] child = "oldest" -> r.ed.seq < s.ed.seq \/ (r.ed.seq = s.ed.seq /\ newer)

(* A selector ranks what has a sequence, and from the floor on if it has    *)
(* one.                                                                     *)
AtLeast(r, floor) == r.ed.seq # None /\ (floor # None => r.ed.seq >= floor)

(* A discovery object is no member of the collection a selector ranks.      *)
Member(child, r) == child = "none" \/ r.name \notin Reserved

(* The rows get_prefix may return: the first of the selected rows that is   *)
(* not reserved (when ranking) and passes verification.  Rows the ORDER BY  *)
(* does not tell apart may come in any order.                               *)
GetPrefixRows(d, p, child, floor) ==
  LET joined == {r \in d.content : r.name \in Indexed(d, p)}
      ranked == IF child = "none"
                  THEN joined
                  ELSE {r \in joined : AtLeast(r, floor)}
      valid  == {r \in ranked : r.ed.ok /\ Member(child, r)}
  IN {r \in valid : \A s \in valid : ~Precedes(child, s, r)}

(* What a read hands out as fresh (_parse_metadata).                        *)
ServedFresh(r) == r.ed.fresh /\ (r.ed.period = 0 \/ now - r.at < r.ed.period)

(* A read purges first, without committing.                                 *)
Reads(rows) ==
  /\ db' = Purge(db)
  /\ \/ rows = {} /\ UNCHANGED last
     \/ \E r \in rows : last' = r.name
  /\ UNCHANGED <<now, disk, damage, gone>>

Get(n, pin) == Reads(GetRows(Purge(db), n, pin))

GetPrefix(p, child, floor) == Reads(GetPrefixRows(Purge(db), p, child, floor))

-----------------------------------------------------------------------------
(* Opening the file again, after a crash or a close (neither commits).      *)

Empty == [content |-> {}, index |-> {}, old |-> FALSE]

(* _salvage_recovery.  The copy goes by column position, so nothing of a    *)
(* file in the old layout survives it: rows violate NOT NULL, or carry      *)
(* their size as expiry time.  When the bulk copy of both tables succeeds   *)
(* they are taken over; when either fails it, the content is copied row by  *)
(* row, but for those (lost) that fail it, and the index is not.  The swap  *)
(* is not committed.                                                        *)
Salvaged(d, kind, lost) ==
  IF d.old
    THEN Empty
    ELSE [content |-> {r \in d.content : r.name \notin lost},
          index   |-> IF kind = "index" THEN d.index ELSE {},
          old     |-> FALSE]

Restart ==
  /\ damage = "none"
  /\ db' = disk
  /\ UNCHANGED <<now, disk, damage, last, gone>>

RestartDamaged(kind) ==
  /\ damage \in {"none", kind}
  /\ damage' = kind
  /\ \E lost \in SUBSET NamesOf(disk.content) :
       /\ kind = "index" => lost = {}
       /\ db' = Salvaged(disk, kind, lost)
  /\ UNCHANGED <<now, disk, last, gone>>

Tick ==
  /\ now < Horizon
  /\ now' = now + 1
  /\ UNCHANGED <<db, disk, damage, last, gone>>

Init ==
  /\ now = 0
  /\ db = [Empty EXCEPT !.old = OldLayout]
  /\ disk = db
  /\ damage = "none"
  /\ last = None
  /\ gone = {}

Children == {"none", "latest", "oldest"}
Floors   == {e.seq : e \in Editions} \cup {None}

Next ==
  \/ \E n \in Names, e \in Editions : Insert(n, e)
  \/ \E n \in Names : Remove(n) \/ InvalidatePrefix(n)
  \/ \E n \in Names, pin \in Editions \cup {None} : Get(n, pin)
  \/ \E n \in Names, child \in Children, floor \in Floors : GetPrefix(n, child, floor)
  \/ \E k \in 0..MaxEntries : EvictTo(k)
  \/ PurgeExpired
  \/ Restart
  \/ \E kind \in Damages : RestartDamaged(kind)
  \/ Tick

Spec == Init /\ [][Next]_vars

-----------------------------------------------------------------------------
Database == [content : SUBSET Rows, index : SUBSET (Seq(Components) \X Names), old : BOOLEAN]

(* Types of the tables and of the history.                                  *)
TypeOK ==
  /\ now \in Nat
  /\ db \in Database /\ disk \in Database
  /\ damage \in {"none", "index", "rows"}
  /\ last \in Names \cup {None}
  /\ gone \subseteq Names

ExactIndex(d) == d.index = UNION {Prefixes(n) \X {n} : n \in NamesOf(d.content)}

(* The prefix index and the content table agree, in the open connection and *)
(* in the file, through upserts, evictions, purges that are rolled back,    *)
(* crashes and bulk salvage (the paired statements of every operation).     *)
IndexExact == ExactIndex(db) /\ ExactIndex(disk)

(* The store never holds more than its capacity (insert evicts in the same  *)
(* transaction, and no crash, rollback or salvage brings rows back).        *)
CapacityRespected ==
  Cardinality(db.content) <= MaxEntries /\ Cardinality(disk.content) <= MaxEntries

(* What a prefix read should choose from, by the structure of the names.    *)
Eligible(p, child, floor) ==
  {r \in db.content :
     /\ ~Expired(r) /\ r.ed.ok /\ StartsWith(r.name, p)
     /\ child # "none" => AtLeast(r, floor) /\ r.name \notin Reserved}

(* A prefix read finds an edition whenever an unexpired, intact one is      *)
(* stored under the prefix, and with a selector the extreme of all of them  *)
(* (get_prefix against the docstring's "highest (latest) or lowest          *)
(* (oldest) sequenced entry under the prefix").                             *)
PrefixReadsComplete ==
  \A p \in Names, child \in Children, floor \in Floors :
    LET found == GetPrefixRows(Purge(db), p, child, floor)
        all   == Eligible(p, child, floor)
    IN /\ found \subseteq all
       /\ found = {} => all = {}
       /\ child = "latest" => \A r \in found, s \in all : s.ed.seq <= r.ed.seq
       /\ child = "oldest" => \A r \in found, s \in all : s.ed.seq >= r.ed.seq

(* "Purge an exact name (or, if prefix, every name under it)" (invalidate): *)
(* no copy of it is left, and none comes back with a restart.               *)
InvalidatedStaysGone ==
  \A n \in gone : n \notin NamesOf(db.content) \cup NamesOf(disk.content)

(* Inserting keeps what it inserts, and displaces a row only when the store *)
(* is full, and then one that is no newer than those it keeps.              *)
InsertEvictsOldest ==
  [][\A n \in Names, e \in Editions : Insert(n, e) =>
       /\ n \in NamesOf(db'.content)
       /\ \A r \in db.content : r.name # n /\ r \notin db'.content =>
            /\ Cardinality(db'.content) = MaxEntries
            /\ \A s \in db.content \cap db'.content : ~Before(s, r)]_vars

(* "Salvage valid rows from potentially corrupted DB" (_salvage_recovery):  *)
(* a file whose rows can all be read loses none of them.                    *)
SalvageKeepsRows ==
  [][RestartDamaged("index") => NamesOf(db'.content) = NamesOf(disk.content)]_vars

(* "SQLite-backed LRU cache" (ContentStore): an insert does not evict the   *)
(* row that was used last.                                                  *)
EvictsLeastRecentlyUsed ==
  [][\A n \in Names, e \in Editions :
       Insert(n, e) /\ last \in NamesOf(db.content) /\ MaxEntries > 1 =>
         last \in NamesOf(db'.content)]_vars

-----------------------------------------------------------------------------
(* The store implements the contract the forwarding engine is modelled on.  *)

Live(n) == {r \in db.content : r.name = n /\ r.ed.ok /\ ~Expired(r)}

Contract ==
  INSTANCE CacheContract WITH
    slot <- [n \in Names |->
               IF Live(n) = {} THEN None
               ELSE LET r == CHOOSE x \in Live(n) : TRUE
                    IN [ed |-> r.ed, fresh |-> ServedFresh(r)]],
    Fresh <- LAMBDA e : e.fresh

(* Reads hand out nothing but the edition stored last under the name, and   *)
(* none that was stale or lost before without having been stored again.     *)
ImplementsContract == Contract!Spec
=============================================================================
