--------------------------------- MODULE Tables ---------------------------------
(***************************************************************************)
(* What the stages of the pipeline share: the finalized chain, the archive *)
(* on disk, and the Postgres tables through which they hand over work.     *)
(* One chain is modelled; blocks are their numbers.                        *)
(***************************************************************************)
EXTENDS ChunkQueue

CONSTANTS
  StartBlock,      \* config.start_block: where a fresh index begins
  FirstHead,       \* the finalized head when the first process starts
  MaxHead          \* bound: the head stops growing here

ASSUME BlocksAssumption ==
  /\ StartBlock \in Nat
  /\ FirstHead \in Nat
  /\ MaxHead \in Nat
  /\ StartBlock <= FirstHead
  /\ FirstHead <= MaxHead

VARIABLES
  head,            \* the node's finalized head
  durable,         \* blocks in the segment store, synced
  unsynced,        \* blocks appended to the store since the last sync
  chunks,          \* fetch_chunks
  fetchMark,       \* pipeline_watermarks.fetch_watermark
  digestMark,      \* pipeline_watermarks.digest_watermark
  rows,            \* numbers of the rows of blocks
  cursor,          \* indexer_state.last_indexed_block
  origin           \* history: the block the watermarks count from, which is
                   \* StartBlock or the last --from

archiveVars == <<durable, unsynced>>
queueVars == <<chunks>>
markVars == <<fetchMark, digestMark>>
indexVars == <<rows, cursor>>

Blocks == StartBlock..MaxHead

Marks == (StartBlock - 1)..MaxHead

(* A block SegmentReader finds: whether it was synced makes no difference to it. *)
Readable == durable \cup unsynced

QueueOK(table) ==
  /\ DOMAIN table \subseteq Blocks
  /\ table \in [DOMAIN table -> Chunk]
  /\ \A f \in DOMAIN table : table[f].to \in f..MaxHead

TablesTypeOK ==
  /\ head \in FirstHead..MaxHead
  /\ durable \subseteq Blocks
  /\ unsynced \subseteq Blocks
  /\ QueueOK(chunks)
  /\ fetchMark \in Marks
  /\ digestMark \in Marks
  /\ rows \subseteq Blocks
  /\ cursor \in Marks
  /\ origin \in StartBlock..(MaxHead + 1)

(***************************************************************************)
(* A chain that was never indexed, after init_watermarks(before(start)).   *)
(***************************************************************************)
TablesInit ==
  /\ head = FirstHead
  /\ durable = {}
  /\ unsynced = {}
  /\ chunks = NoChunks
  /\ fetchMark = StartBlock - 1
  /\ digestMark = StartBlock - 1
  /\ rows = {}
  /\ cursor = StartBlock - 1
  /\ origin = StartBlock

(* The chain finalizes one more block. *)
HeadGrows ==
  /\ head < MaxHead
  /\ head' = head + 1
  /\ UNCHANGED <<archiveVars, queueVars, markVars, indexVars, origin>>
================================================================================
