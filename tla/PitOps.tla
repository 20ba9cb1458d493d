------------------------------- MODULE PitOps -------------------------------
(***************************************************************************)
(* The operations of the Pending Interest Table (rns_icn/pit.py) as         *)
(* functions of the table.  The table is a set of entries                   *)
(*    [name, prefix, expires, owner]                                        *)
(* of which the code keeps at most one per name: "prefix" is can_be_prefix  *)
(* of the Interest that created the entry, "owner" (history) the thread     *)
(* whose insert created it.  in_faces and out_face are written and never    *)
(* read by the engine; "satisfied" is set and the entry removed within one  *)
(* receive_data call, so no entry is ever seen satisfied.                   *)
(* Where two entries expire together the code's choice depends on the       *)
(* dictionary's order: the operations return the set of possible tables.    *)
(***************************************************************************)
EXTENDS Naturals, FiniteSets

Pending(pit, name) == \E e \in pit : e.name = name

NearestExpiry(S) == {e \in S : \A x \in S : e.expires <= x.expires}

(* A bounded table with one more member: the soonest to expire makes room.  *)
Admit(S, x, max) ==
  IF Cardinality(S) >= max
    THEN {(S \ {v}) \cup {x} : v \in NearestExpiry(S)}
    ELSE {S \cup {x}}

(* An Interest for a pending name joins the entry as it is: neither its     *)
(* expiry nor the Interest it was created for change.                       *)
InsertOrAggregate(pit, e, max) ==
  IF Pending(pit, e.name) THEN {pit} ELSE Admit(pit, e, max)

PitRemove(pit, name) == {e \in pit : e.name # name}

(* Entries and nonces alike are dropped once their expiry is reached.       *)
PurgeExpired(S, now) == {e \in S : e.expires > now}

(* Loop detection: (in_face, nonce) pairs, bounded like the entries.        *)
CheckLoop(nonces, face, nonce) ==
  \E x \in nonces : x.face = face /\ x.nonce = nonce

RecordNonce(nonces, x, max) == Admit(nonces, x, max)
=============================================================================
