------------------------------ MODULE ReadCache ------------------------------
(***************************************************************************)
(* The archive of storage reads (pif-store cache.rs, pif-chain cache.rs):  *)
(* one record per block with the answers a handler got there.  A block is  *)
(* final, so an answer is the state at that block; what may be missing is  *)
(* the record, or a key of it.  Keys are what one account or one name is   *)
(* read under; the maps behind a key are read together.                    *)
(***************************************************************************)
EXTENDS Integers, FiniteSets

CONSTANT MaxBlock    \* bound: the last block

VARIABLES
    reads,   \* per block, the keys its record answers
    flushed  \* the same, as of the last sync

cacheVars == <<reads, flushed>>

CacheBlocks == 1 .. MaxBlock

CacheInit == reads = [b \in CacheBlocks |-> {}] /\ flushed = reads

\* An answer that the key is absent is no entry.
OnlyPresent(keys, present) == keys \cap present

(***************************************************************************)
(* What a pass adds to the entries of a block: every answer, also that a   *)
(* key is absent, which is not the same as having no answer.               *)
(***************************************************************************)
Learned(keys, present) == keys

(***************************************************************************)
(* `fetch' without a node: every key must have an answer.                  *)
(***************************************************************************)
Archived(b, keys) == keys \subseteq reads[b]

(***************************************************************************)
(* `persist': nothing is written unless something was learned, and then    *)
(* the union of the stored record and what was learned.                    *)
(***************************************************************************)
Persist(b, keys, present) == reads' = [reads EXCEPT ![b] = @ \cup Learned(keys, present)]

SyncReads == flushed' = reads /\ UNCHANGED reads

PowerFailure == reads' = flushed /\ UNCHANGED flushed
=============================================================================
