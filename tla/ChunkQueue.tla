------------------------------- MODULE ChunkQueue -------------------------------
(***************************************************************************)
(* The fetch_chunks table: the work queue of the fetch stage, as the       *)
(* operations of crates/pif-db/src/repo.rs that read and write it.  A      *)
(* table is a function from the primary key, a chunk's first block, to the *)
(* rest of its row.  Every operator takes the table it works on, so that   *)
(* facts about the queue can be stated for any table.                      *)
(*                                                                         *)
(* leased_by is not kept: no statement reads it back.  lease_expires_at is *)
(* not kept either: which leases have run out is chosen by the caller of   *)
(* Reclaimed.  attempts saturates at MaxAttempts, the only value it is     *)
(* compared with.                                                          *)
(***************************************************************************)
EXTENDS Integers

CONSTANT MaxAttempts     \* MAX_CHUNK_ATTEMPTS of fetch.rs

ASSUME MaxAttemptsAssumption == MaxAttempts \in Nat \ {0}

State == {"pending", "leased", "done", "failed"}

Chunk == [to : Int, state : State, attempts : 0..MaxAttempts]

NoChunks == [f \in {} |-> [to |-> 0, state |-> "pending", attempts |-> 0]]

Lesser(a, b) == IF a < b THEN a ELSE b

Greater(a, b) == IF a < b THEN b ELSE a

InState(table, s) == {f \in DOMAIN table : table[f].state = s}

(***************************************************************************)
(* seed_chunks: one INSERT per tile of from..to, in order, each skipped if *)
(* its key is taken.  The statements are not one transaction, so an        *)
(* interrupted call leaves the tiles that start at or below `through'; a   *)
(* call that ran to its end is Seeded(table, from, to, size, to).          *)
(***************************************************************************)
Tiles(from, to, size) == {f \in from..to : (f - from) % size = 0}

(* Not the code: the last tile is not cut at the end of the range. *)
TileUncut(f, to, size) ==
  [to |-> f + size - 1, state |-> "pending", attempts |-> 0]

Tile(f, to, size) ==
  [to |-> Lesser(f + size - 1, to), state |-> "pending", attempts |-> 0]

Seeded(table, from, to, size, through) ==
  [f \in DOMAIN table \cup {t \in Tiles(from, to, size) : t <= through} |->
     IF f \in DOMAIN table THEN table[f] ELSE Tile(f, to, size)]

(***************************************************************************)
(* claim_chunk: the lowest pending chunk that ends at or below the brake's *)
(* ceiling.                                                                *)
(***************************************************************************)
Claimable(table, ceiling) ==
  {f \in InState(table, "pending") : table[f].to <= ceiling}

Lowest(table, ceiling) ==
  {f \in Claimable(table, ceiling) : \A g \in Claimable(table, ceiling) : f <= g}

Leased(table, f) ==
  [table EXCEPT ![f] = [to |-> table[f].to, state |-> "leased",
                        attempts |-> Lesser(table[f].attempts + 1, MaxAttempts)]]

(***************************************************************************)
(* complete_chunk, release_chunk and fail_chunk: an UPDATE by key, whoever *)
(* holds the lease and whatever the row's state; a missing row is no error.*)
(***************************************************************************)
Marked(table, f, s) ==
  IF f \in DOMAIN table THEN [table EXCEPT ![f].state = s] ELSE table

(* Not the code: leases never run out. *)
NeverReclaimed(table, S) == table

(* reclaim_expired_chunks: S is the set of leased chunks whose lease ran out. *)
Reclaimed(table, S) ==
  [f \in DOMAIN table |->
     IF f \in S THEN [table[f] EXCEPT !.state = "pending"] ELSE table[f]]

(***************************************************************************)
(* contiguous_done_end: the greatest to_block over the done chunks that    *)
(* start below every chunk that is not done.  It is NULL when there is no  *)
(* such chunk, which is when IsDoneEnd(table, n) holds for no n.           *)
(***************************************************************************)
(* Not the code: every done chunk, wherever it starts. *)
AllDone(table) == InState(table, "done")

(* Not the code: a leased or failed chunk does not hold the prefix back. *)
BelowPending(table) ==
  {f \in InState(table, "done") : \A g \in InState(table, "pending") : f < g}

DonePrefix(table) ==
  {f \in InState(table, "done") :
     \A g \in DOMAIN table : table[g].state # "done" => f < g}

IsDoneEnd(table, n) ==
  \E f \in DonePrefix(table) :
     n = table[f].to /\ \A g \in DonePrefix(table) : table[g].to <= n

(* chunk_counts: what is left when no chunk is pending and none is leased. *)
NothingLeft(table) ==
  InState(table, "pending") = {} /\ InState(table, "leased") = {}
================================================================================
