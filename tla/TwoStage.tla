-------------------------------- MODULE TwoStage --------------------------------
(***************************************************************************)
(* What the two-stage pipeline promises, without queue, workers, processes *)
(* or batches: an archive that only grows, a fetched mark that covers only *)
(* what the archive holds, an index that grows in block order behind it,   *)
(* each block once, and an operator who may send both marks back to a      *)
(* block to have the rest done again.                                      *)
(***************************************************************************)
EXTENDS Integers

CONSTANTS
  Block,           \* the block numbers there can be
  First            \* the one an index begins with

VARIABLES
  held,            \* blocks the archive holds for good
  fetched,         \* origin..fetched is held
  digested,        \* origin..digested is indexed
  indexed,         \* blocks that have rows
  origin           \* where the marks count from

vars == <<held, fetched, digested, indexed, origin>>

Init ==
  /\ held = {}
  /\ fetched = First - 1
  /\ digested = First - 1
  /\ indexed = {}
  /\ origin = First

(* Blocks reach the archive in any order, several at a time. *)
Archive ==
  /\ held' \in SUBSET Block
  /\ held \subseteq held'
  /\ UNCHANGED <<fetched, digested, indexed, origin>>

(* The mark moves up, and only over what is held. *)
Publish ==
  /\ fetched' \in Block
  /\ fetched < fetched'
  /\ origin..fetched' \subseteq held
  /\ UNCHANGED <<held, digested, indexed, origin>>

(* The next blocks of the index, in order, and none beyond what is fetched. *)
Index ==
  /\ digested' \in Block
  /\ digested < digested' /\ digested' <= fetched
  /\ indexed' = indexed \cup (digested + 1)..digested'
  /\ UNCHANGED <<held, fetched, origin>>

Redo ==
  /\ origin' \in Block
  /\ fetched' = origin' - 1
  /\ digested' = origin' - 1
  /\ UNCHANGED <<held, indexed>>

Next == Archive \/ Publish \/ Index \/ Redo

Spec == Init /\ [][Next]_vars
================================================================================
