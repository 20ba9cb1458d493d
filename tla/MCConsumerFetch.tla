-------------------------- MODULE MCConsumerFetch --------------------------
(* Small instances of the consumer's fetches.                               *)
EXTENDS ConsumerFetch, TLC

MCSymmetry == Permutations(Tasks)

MCExact  == [kind |-> "exact", ver |-> 1, pin |-> FALSE]
MCPinned == [kind |-> "exact", ver |-> 2, pin |-> TRUE]
MCLatest == [kind |-> "latest", ver |-> 1, pin |-> FALSE]
MCWalk   == [kind |-> "range", ver |-> 0, pin |-> FALSE]

MCEach(r) == [c \in Tasks |-> r]
MCBoth(r, s) == {[c \in Tasks |-> IF c = d THEN r ELSE s] : d \in Tasks}

(* Two searches, or an exact fetch beside a search or a walk.               *)
MCPairs == {MCEach(MCLatest)} \cup MCBoth(MCExact, MCLatest) \cup MCBoth(MCPinned, MCWalk)

MCExacts       == {MCEach(MCExact)}
MCSearches     == {MCEach(MCLatest)}
MCSearchedWalk == MCBoth(MCWalk, MCLatest)

(* A pinned fetch beside one that is not, or beside a search, of versions   *)
(* under one name, with Data of every seal.                                 *)
MCChecked == MCBoth(MCPinned, MCExact) \cup MCBoth(MCPinned, MCLatest)
Checked == INSTANCE ConsumerFetch
  WITH Calls <- MCChecked, Mutable <- TRUE, Rogue <- Seals \ {"good"}, Horizon <- 0

(* One run takes both: what the tasks call for says which instance it is.   *)
InChecked == [c \in Tasks |-> task[c].req] \in MCChecked

MCInit == Init \/ Checked!Init
MCNext ==
  \/ ~InChecked /\ Next
  \/ InChecked /\ Checked!Next

MCSpec == MCInit /\ [][MCNext]_vars
=============================================================================
