---------------------------------- MODULE Fetch ----------------------------------
(***************************************************************************)
(* The fetch stage, crates/pif-chain/src/fetch.rs: catch-up by one worker  *)
(* per endpoint over the chunk queue, then head-following.                 *)
(*                                                                         *)
(* A worker's step is what it does between two awaits that another process *)
(* or worker can observe: one claim, one block archived, the sync, the     *)
(* completion, the watermark.  Waiting on the rate limiter or on an open   *)
(* circuit breaker changes nothing and is a stutter; a breaker that opens  *)
(* in mid-chunk is one of the errors of WorkerFails.                       *)
(***************************************************************************)
EXTENDS Tables

CONSTANTS
  Workers,         \* one per endpoint of the pool
  ChunkSize,       \* pipeline.chunk_size
  MaxLag           \* max_lag; UNBOUNDED_LAG is any value of at least MaxHead

ASSUME FetchAssumption ==
  /\ ChunkSize \in Nat \ {0}
  /\ MaxLag \in Nat \ {0}

VARIABLES
  fetchPc,         \* where Fetch::run is
  stop,            \* options.stop_at; beyond MaxHead it is never reached, as None
  end,             \* the `end' of the backfill in progress
  ahead,           \* the block the stream handed over, still to be archived
  worker           \* the local state of each worker's loop

fetchVars == <<fetchPc, stop, end, ahead, worker>>

NoBlock == StartBlock - 1

FetchPcs == {"off", "backfill", "follow", "archive", "advance", "returned"}

WorkerPcs == {"off", "claim", "archive", "synced", "completed", "advance", "returned"}

(* from, last and next are the chunk of `archive_chunk'; last is the end that *)
(* advance_watermark found once the chunk is completed.                       *)
WorkerState ==
  [pc : WorkerPcs, from : Marks, last : Marks,
   next : StartBlock..(MaxHead + 1), attempts : 0..MaxAttempts]

At(pc) ==
  [pc |-> pc, from |-> NoBlock, last |-> NoBlock, next |-> StartBlock, attempts |-> 0]

FetchTypeOK ==
  /\ fetchPc \in FetchPcs
  /\ stop \in StartBlock..(MaxHead + 1)
  /\ end \in Marks
  /\ ahead \in Marks
  /\ fetchPc \in {"archive", "advance"} => ahead # NoBlock
  /\ worker \in [Workers -> WorkerState]

FetchInit ==
  /\ fetchPc = "off"
  /\ stop = MaxHead + 1
  /\ end = NoBlock
  /\ ahead = NoBlock
  /\ worker = [w \in Workers |-> At("off")]

(* Not the code: a chunk may be longer than the brake lets anyone claim. *)
ConfiguredChunkSize == ChunkSize

effective_chunk_size == Lesser(ChunkSize, MaxLag)

(* Not the code: a brake that follows what is fetched. *)
CeilingOverFetched == fetchMark + MaxLag

brake_ceiling == digestMark + MaxLag

(***************************************************************************)
(* The queueing half of backfill: S is the leases that ran out.            *)
(***************************************************************************)
Queued(table, from, to, through, S) ==
  Seeded(Reclaimed(table, S), from, to, effective_chunk_size, through)

StartWorkers(to) ==
  /\ fetchPc' = "backfill"
  /\ end' = to
  /\ worker' = [w \in Workers |-> At("claim")]

(* run after its catch-up: with stop_at reached it returns, else it follows. *)
AfterCatchUp(to, stop_at) == IF to >= stop_at THEN "returned" ELSE "follow"
--------------------------------------------------------------------------------
(* The loop of `worker'; Set and Goto change the local state of w alone. *)
Set(w, s) == worker' = [worker EXCEPT ![w] = s]

Goto(w, pc) == worker' = [worker EXCEPT ![w].pc = pc]

(* Not the code: the last block of the chunk is left out. *)
ClaimOpenRange(w) ==
  /\ worker[w].pc = "claim"
  /\ \E f \in Lowest(chunks, brake_ceiling) :
       /\ chunks' = Leased(chunks, f)
       /\ Set(w, [pc |-> "archive", from |-> f,
                  last |-> Lesser(chunks[f].to, end) - 1, next |-> f,
                  attempts |-> chunks'[f].attempts])
  /\ UNCHANGED <<head, archiveVars, markVars, indexVars, origin,
                 fetchPc, stop, end, ahead>>

(***************************************************************************)
(* claim_chunk under the brake; archive_chunk then stops at min(to_block,  *)
(* end).  The ceiling is read just before the claim; a digest that commits *)
(* in between only raises it, so that a stale ceiling claims no more.      *)
(***************************************************************************)
Claim(w) ==
  /\ worker[w].pc = "claim"
  /\ \E f \in Lowest(chunks, brake_ceiling) :
       /\ chunks' = Leased(chunks, f)
       /\ Set(w, [pc |-> "archive", from |-> f,
                  last |-> Lesser(chunks[f].to, end), next |-> f,
                  attempts |-> chunks'[f].attempts])
  /\ UNCHANGED <<head, archiveVars, markVars, indexVars, origin,
                 fetchPc, stop, end, ahead>>

(***************************************************************************)
(* Nothing claimable and work left: the worker reclaims what ran out and   *)
(* sleeps.  A lease that runs out may belong to a worker that is alive.    *)
(***************************************************************************)
Reclaim(w, S) ==
  /\ worker[w].pc = "claim"
  /\ Claimable(chunks, brake_ceiling) = {}
  /\ S # {}
  /\ chunks' = Reclaimed(chunks, S)
  /\ UNCHANGED <<head, archiveVars, markVars, indexVars, origin, fetchVars>>

(* Nothing claimable and nothing pending or leased: the worker is done. *)
WorkerReturns(w) ==
  /\ worker[w].pc = "claim"
  /\ NothingLeft(chunks)
  /\ Goto(w, "returned")
  /\ UNCHANGED <<head, archiveVars, queueVars, markVars, indexVars, origin,
                 fetchPc, stop, end, ahead>>

(* One turn of archive_chunk's loop: capture and put_block. *)
ArchiveBlock(w) ==
  /\ worker[w].pc = "archive"
  /\ worker[w].next <= worker[w].last
  /\ unsynced' = unsynced \cup {worker[w].next}
  /\ worker' = [worker EXCEPT ![w].next = @ + 1]
  /\ UNCHANGED <<head, durable, queueVars, markVars, indexVars, origin,
                 fetchPc, stop, end, ahead>>

(* Not the code: the chunk is completed without the sync. *)
SyncSkipped(w) ==
  /\ worker[w].pc = "archive"
  /\ worker[w].next > worker[w].last
  /\ Goto(w, "synced")
  /\ UNCHANGED <<head, archiveVars, queueVars, markVars, indexVars, origin,
                 fetchPc, stop, end, ahead>>

(* archive_chunk returned Ok: store.sync(), which syncs every open segment. *)
SyncChunk(w) ==
  /\ worker[w].pc = "archive"
  /\ worker[w].next > worker[w].last
  /\ durable' = durable \cup unsynced
  /\ unsynced' = {}
  /\ Goto(w, "synced")
  /\ UNCHANGED <<head, queueVars, markVars, indexVars, origin,
                 fetchPc, stop, end, ahead>>

CompleteChunk(w) ==
  /\ worker[w].pc = "synced"
  /\ chunks' = Marked(chunks, worker[w].from, "done")
  /\ Goto(w, "completed")
  /\ UNCHANGED <<head, archiveVars, markVars, indexVars, origin,
                 fetchPc, stop, end, ahead>>

(***************************************************************************)
(* advance_watermark reads how far the done chunks reach, then writes it:  *)
(* two statements, and what others do in between makes the first stale.    *)
(***************************************************************************)
FindDoneEnd(w) ==
  /\ worker[w].pc = "completed"
  /\ \/ \E n \in Marks : IsDoneEnd(chunks, n) /\ Set(w, [At("advance") EXCEPT !.last = n])
     \/ DonePrefix(chunks) = {} /\ Set(w, At("claim"))
  /\ UNCHANGED <<head, archiveVars, queueVars, markVars, indexVars, origin,
                 fetchPc, stop, end, ahead>>

AdvanceWatermark(w) ==
  /\ worker[w].pc = "advance"
  /\ fetchMark' = Greater(fetchMark, worker[w].last)
  /\ Set(w, At("claim"))
  /\ UNCHANGED <<head, archiveVars, queueVars, digestMark, indexVars, origin,
                 fetchPc, stop, end, ahead>>

(***************************************************************************)
(* archive_chunk returned an error in place of its next block.  The chunk  *)
(* is given up on at the last attempt, as this worker's claim counted it,  *)
(* and handed back before that.  What was written stays written.           *)
(***************************************************************************)
WorkerFails(w) ==
  LET spent == worker[w].attempts >= MaxAttempts
  IN /\ worker[w].pc = "archive"
     /\ worker[w].next <= worker[w].last
     /\ chunks' = Marked(chunks, worker[w].from, IF spent THEN "failed" ELSE "pending")
     /\ Set(w, At("claim"))
     /\ UNCHANGED <<head, archiveVars, markVars, indexVars, origin,
                    fetchPc, stop, end, ahead>>

WorkerStep(w) ==
  \/ Claim(w)
  \/ WorkerReturns(w)
  \/ ArchiveBlock(w)
  \/ SyncChunk(w)
  \/ CompleteChunk(w)
  \/ FindDoneEnd(w)
  \/ AdvanceWatermark(w)
--------------------------------------------------------------------------------
AllReturned == \A w \in Workers : worker[w].pc = "returned"

(* Not the code: a failed chunk does not keep backfill from returning Ok. *)
BackfillIgnoresFailed ==
  /\ fetchPc = "backfill"
  /\ AllReturned
  /\ fetchPc' = IF ahead = NoBlock THEN AfterCatchUp(end, stop) ELSE "archive"
  /\ worker' = [w \in Workers |-> At("off")]
  /\ UNCHANGED <<head, archiveVars, queueVars, markVars, indexVars, origin,
                 stop, end, ahead>>

(***************************************************************************)
(* backfill returns Ok: to run when it was the catch-up, to follow_head    *)
(* when it filled the gap before the block at hand.  With a failed chunk   *)
(* it returns ChunksFailed, which ends the process: see Pipeline.          *)
(***************************************************************************)
BackfillReturns ==
  /\ fetchPc = "backfill"
  /\ AllReturned
  /\ InState(chunks, "failed") = {}
  /\ fetchPc' = IF ahead = NoBlock THEN AfterCatchUp(end, stop) ELSE "archive"
  /\ worker' = [w \in Workers |-> At("off")]
  /\ UNCHANGED <<head, archiveVars, queueVars, markVars, indexVars, origin,
                 stop, end, ahead>>

(* Not the code: a gap before the streamed block is not filled. *)
HeadBlockLeavesGap(n) ==
  /\ fetchPc = "follow"
  /\ n \in (fetchMark + 1)..head
  /\ ahead' = n
  /\ fetchPc' = "archive"
  /\ UNCHANGED <<head, archiveVars, queueVars, markVars, indexVars, origin,
                 stop, end, worker>>

(***************************************************************************)
(* follow_head: the stream hands over finalized block n.  One below the    *)
(* watermark is skipped, one beyond the next leaves a gap to backfill.     *)
(***************************************************************************)
HeadBlock(n) ==
  /\ fetchPc = "follow"
  /\ n \in (fetchMark + 1)..head
  /\ ahead' = n
  /\ \/ /\ n = fetchMark + 1
        /\ fetchPc' = "archive"
        /\ UNCHANGED <<chunks, end, worker>>
     \/ /\ n > fetchMark + 1
        /\ \E S \in SUBSET InState(chunks, "leased") :
             chunks' = Queued(chunks, fetchMark + 1, n - 1, n - 1, S)
        /\ StartWorkers(n - 1)
  /\ UNCHANGED <<head, archiveVars, markVars, indexVars, origin, stop>>

(* put_block and sync of the streamed block. *)
ArchiveHead ==
  /\ fetchPc = "archive"
  /\ durable' = durable \cup unsynced \cup {ahead}
  /\ unsynced' = {}
  /\ fetchPc' = "advance"
  /\ UNCHANGED <<head, queueVars, markVars, indexVars, origin,
                 stop, end, ahead, worker>>

AdvanceHead ==
  /\ fetchPc = "advance"
  /\ fetchMark' = Greater(fetchMark, ahead)
  /\ fetchPc' = AfterCatchUp(ahead, stop)
  /\ ahead' = NoBlock
  /\ UNCHANGED <<head, archiveVars, queueVars, digestMark, indexVars, origin,
                 stop, end, worker>>
--------------------------------------------------------------------------------
FetchStep ==
  \/ \E w \in Workers :
       \/ WorkerStep(w)
       \/ WorkerFails(w)
       \/ \E S \in SUBSET InState(chunks, "leased") : Reclaim(w, S)
  \/ BackfillReturns
  \/ \E n \in Blocks : HeadBlock(n)
  \/ ArchiveHead
  \/ AdvanceHead
================================================================================
