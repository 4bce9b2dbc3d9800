----------------------------- MODULE PipelineProofs -----------------------------
(***************************************************************************)
(* Theorems about Pipeline, after facts about its work queue that hold of  *)
(* every table, and about a replay beside it.                              *)
(***************************************************************************)
EXTENDS PipelineInv, Replay, TLAPS

(* A chunk [f, table[f].to] of the table contains block b. *)
Holds(table, b) == \E f \in DOMAIN table : f <= b /\ b <= table[f].to

(* The tiles of a range leave no block of it out. *)
LEMMA TilesCover ==
  ASSUME NEW from \in Int, NEW to \in Int, NEW size \in Nat \ {0}, NEW b \in from..to
  PROVE  \E t \in Tiles(from, to, size) : t <= b /\ b <= Lesser(t + size - 1, to)
<1>1. PICK r \in 0..(size - 1), q \in Int : (b - from) - r = size * q
  <2>1. /\ (b - from) % size \in 0..(size - 1)
        /\ (b - from) \div size \in Int
        /\ (b - from) - ((b - from) % size) = size * ((b - from) \div size)
    OBVIOUS
  <2> QED BY <2>1
<1> DEFINE t == b - r
<1>2. t \in Int /\ t - from = size * q /\ t <= b /\ b <= t + size - 1
  BY <1>1
<1>3. (t - from) % size = 0
  <2>1. \A k \in Int : (size * k) % size = 0
    OBVIOUS
  <2> QED BY <1>2, <2>1
<1>4. from <= t
  <2>1. t - from > -size
    BY <1>2
  <2>2. \A k \in Int : size * k > -size => k >= 0
    OBVIOUS
  <2>3. \A k \in Nat : size * k >= 0
    OBVIOUS
  <2> HIDE DEF t
  <2>4. q \in Nat
    BY <1>2, <2>1, <2>2
  <2> QED BY <1>2, <2>3, <2>4
<1> HIDE DEF t
<1>5. t \in Tiles(from, to, size)
  BY <1>2, <1>3, <1>4 DEF Tiles
<1>6. b <= Lesser(t + size - 1, to)
  BY <1>2 DEF Lesser
<1> QED BY <1>2, <1>5, <1>6

(* Seeding keeps every row there was and queues a range without a hole. *)
LEMMA SeedingKeeps ==
  ASSUME NEW table, NEW from \in Int, NEW to \in Int, NEW size \in Nat \ {0},
         NEW through \in Int, NEW f \in DOMAIN table
  PROVE  /\ f \in DOMAIN Seeded(table, from, to, size, through)
         /\ Seeded(table, from, to, size, through)[f] = table[f]
  BY DEF Seeded

LEMMA SeedingCovers ==
  ASSUME NEW table, NEW from \in Int, NEW to \in Int, NEW size \in Nat \ {0},
         DOMAIN table \subseteq Int,
         \A f \in DOMAIN table : table[f].to = Lesser(f + size - 1, to),
         NEW b \in from..to
  PROVE  Holds(Seeded(table, from, to, size, to), b)
<1> DEFINE new == Seeded(table, from, to, size, to)
<1>1. PICK t \in Tiles(from, to, size) : t <= b /\ b <= Lesser(t + size - 1, to)
  BY TilesCover
<1>2. t \in Int /\ t <= to
  BY DEF Tiles
<1>3. t \in DOMAIN new
  BY <1>2 DEF Seeded
<1>4. new[t].to = Lesser(t + size - 1, to)
  BY <1>3 DEF Seeded, Tile
<1> QED BY <1>1, <1>3, <1>4 DEF Holds

(***************************************************************************)
(* What makes contiguous_done_end sound on overlapping tilings.  If done   *)
(* chunks are durable and every block of lo..hi lies in some chunk, then   *)
(* everything from lo up to the end of the done prefix is durable.         *)
(***************************************************************************)
LEMMA DonePrefixDurable ==
  ASSUME NEW table, NEW disk, NEW lo \in Int, NEW hi \in Int, NEW n \in Int,
         DOMAIN table \subseteq Int,
         \A f \in DOMAIN table : table[f].to \in Int,
         \A f \in InState(table, "done") : f..table[f].to \subseteq disk,
         \A b \in lo..hi : Holds(table, b),
         n <= hi,
         IsDoneEnd(table, n)
  PROVE  lo..n \subseteq disk
<1> SUFFICES ASSUME NEW b \in lo..n PROVE b \in disk
  OBVIOUS
<1>1. PICK f \in DonePrefix(table) : n = table[f].to
  BY DEF IsDoneEnd
<1>2. f \in InState(table, "done") /\ \A g \in DOMAIN table : table[g].state # "done" => f < g
  BY <1>1 DEF DonePrefix
<1>3. PICK g \in DOMAIN table : g <= b /\ b <= table[g].to
  BY DEF Holds
<1>4. CASE table[g].state = "done"
  BY <1>3, <1>4 DEF InState
<1>5. CASE table[g].state # "done"
  <2>1. f < g
    BY <1>2, <1>5
  <2>2. b \in f..table[f].to
    BY <1>1, <1>2, <1>3, <2>1 DEF InState
  <2> QED BY <1>2, <2>2
<1> QED BY <1>4, <1>5
--------------------------------------------------------------------------------

(* The operations on the queue keep it well formed. *)
LEMMA QueueOps ==
  ASSUME NEW table, QueueOK(table)
  PROVE  /\ QueueOK(NoChunks)
         /\ \A S : QueueOK(Reclaimed(table, S))
         /\ \A f : \A s \in State : QueueOK(Marked(table, f, s))
         /\ \A f \in DOMAIN table : QueueOK(Leased(table, f))
<1> USE MaxAttemptsAssumption DEF QueueOK, Chunk, State
<1>1. QueueOK(NoChunks)
  BY DEF NoChunks
<1>2. ASSUME NEW S PROVE QueueOK(Reclaimed(table, S))
  BY DEF Reclaimed
<1>3. ASSUME NEW f, NEW s \in State PROVE QueueOK(Marked(table, f, s))
  BY DEF Marked
<1>4. ASSUME NEW f \in DOMAIN table PROVE QueueOK(Leased(table, f))
  <2> DEFINE row == [to |-> table[f].to, state |-> "leased",
                     attempts |-> Lesser(table[f].attempts + 1, MaxAttempts)]
  <2>1. Lesser(table[f].attempts + 1, MaxAttempts) \in 0..MaxAttempts
    BY DEF Lesser
  <2>2. row \in Chunk /\ row.to = table[f].to
    BY <2>1
  <2> HIDE DEF row
  <2>3. QueueOK([table EXCEPT ![f] = row])
    BY <2>2
  <2> QED BY <2>3 DEF Leased, row
<1> QED BY <1>1, <1>2, <1>3, <1>4

LEMMA SeedingOK ==
  ASSUME NEW table, QueueOK(table), NEW size \in Nat \ {0},
         NEW from \in StartBlock..(MaxHead + 1), NEW to \in Marks, NEW through \in Int
  PROVE  QueueOK(Seeded(table, from, to, size, through))
<1> USE BlocksAssumption, MaxAttemptsAssumption DEF QueueOK, Chunk, State, Blocks, Marks
<1> DEFINE new == Seeded(table, from, to, size, through)
           tiles == {t \in Tiles(from, to, size) : t <= through}
<1>1. tiles \subseteq from..to
  BY DEF Tiles
<1>2. \A t \in tiles : Tile(t, to, size) \in Chunk /\ Tile(t, to, size).to \in t..MaxHead
  BY <1>1 DEF Tile, Lesser
<1>3. new = [f \in DOMAIN table \cup tiles |->
               IF f \in DOMAIN table THEN table[f] ELSE Tile(f, to, size)]
  BY DEF Seeded
<1> HIDE DEF new, tiles
<1>4. DOMAIN new = DOMAIN table \cup tiles
  BY <1>3
<1>5. \A f \in DOMAIN new : new[f] = IF f \in DOMAIN table THEN table[f] ELSE Tile(f, to, size)
  BY <1>3, <1>4
<1>6. DOMAIN new \subseteq Blocks
  BY <1>1, <1>4
<1>7. \A f \in DOMAIN new : new[f] \in Chunk /\ new[f].to \in f..MaxHead
  BY <1>2, <1>4, <1>5
<1>8. new \in [DOMAIN new -> Chunk]
  BY <1>3, <1>4, <1>7
<1>9. QueueOK(new)
  BY <1>6, <1>7, <1>8 DEF QueueOK
<1> QED BY <1>9 DEF new

LEMMA ChunkSizeOK == effective_chunk_size \in Nat \ {0}
  BY FetchAssumption DEF effective_chunk_size, Lesser

(* What backfill queues from a well-formed table is well formed. *)
LEMMA QueuedOK ==
  ASSUME NEW table, QueueOK(table), NEW from \in StartBlock..(MaxHead + 1),
         NEW to \in Marks, NEW through \in Int, NEW S
  PROVE  QueueOK(Queued(table, from, to, through, S))
<1>1. QueueOK(Reclaimed(table, S))
  BY QueueOps
<1> QED BY <1>1, ChunkSizeOK, SeedingOK DEF Queued

LEMMA AtOK ==
  ASSUME NEW pc \in WorkerPcs
  PROVE  [w \in Workers |-> At(pc)] \in [Workers -> WorkerState] /\ At(pc) \in WorkerState
  BY BlocksAssumption, MaxAttemptsAssumption DEF At, WorkerState, Marks, NoBlock

(***************************************************************************)
(* TypeOK step by step.                                                    *)
(***************************************************************************)
LEMMA StartsTyped ==
  ASSUME TypeOK, NEW mode \in Modes, NEW stop_at \in Stops,
         NEW start \in StartBlock..(MaxHead + 1), NEW table, QueueOK(table),
         StartStages(mode, start, table, stop_at)
  PROVE  FetchTypeOK' /\ DigestTypeOK' /\ QueueOK(chunks)' /\ joined' \in BOOLEAN
<1> USE BlocksAssumption, PipelineAssumption
<1>1. stop_at \in StartBlock..(MaxHead + 1) /\ Lesser(stop_at, head) \in Marks
  BY DEF TypeOK, TablesTypeOK, Marks, Lesser
<1>2. ASSUME StartFetch(start, table, stop_at)
      PROVE  FetchTypeOK' /\ QueueOK(chunks)'
  <2> DEFINE to == Lesser(stop_at, head)
  <2>1. stop' = stop_at /\ ahead' = NoBlock /\ end' = to
    BY <1>2 DEF StartFetch, StartWorkers
  <2>2. fetchPc' \in FetchPcs /\ fetchPc' \notin {"archive", "advance"}
    BY <1>2 DEF StartFetch, StartWorkers, AfterCatchUp, FetchPcs
  <2>3. worker' \in [Workers -> WorkerState]
    BY <1>2, AtOK DEF StartFetch, StartWorkers, WorkerPcs
  <2>4. QueueOK(chunks')
    <3>1. CASE to >= start
      <4>1. PICK S : chunks' = Queued(table, start, to, to, S)
        BY <1>1, <1>2, <3>1 DEF StartFetch, Marks
      <4> QED BY <1>1, <4>1, QueuedOK DEF Marks
    <3>2. CASE to < start
      BY <1>1, <1>2, <3>2 DEF StartFetch, Marks
    <3> QED BY <1>1, <3>1, <3>2 DEF Marks
  <2>5. ahead' \in Marks
    BY <2>1 DEF NoBlock, Marks
  <2> QED BY <1>1, <2>1, <2>2, <2>3, <2>4, <2>5 DEF FetchTypeOK, QueueOK
<1>3. ASSUME StartDigest(start, stop_at)
      PROVE  DigestTypeOK'
  BY <1>1, <1>3 DEF StartDigest, DigestTypeOK, Marks
<1>4. CASE mode = "index"
  BY <1>2, <1>3, <1>4 DEF StartStages
<1>5. CASE mode = "fetch"
  BY <1>2, <1>5 DEF StartStages, TypeOK, DigestTypeOK, digestVars
<1>6. CASE mode = "digest"
  <2>1. chunks' = table /\ UNCHANGED <<fetchVars, joined>> /\ StartDigest(start, stop_at)
    BY <1>6 DEF StartStages
  <2> QED BY <1>3, <2>1 DEF TypeOK, FetchTypeOK, fetchVars, QueueOK
<1> QED BY <1>4, <1>5, <1>6 DEF StartStages

LEMMA DownTyped ==
  ASSUME TypeOK, NEW which \in SUBSET Stages, Down(which)
  PROVE  TypeOK'
<1> USE BlocksAssumption DEF TypeOK, TablesTypeOK
<1>1. UNCHANGED <<head, chunks, fetchMark, digestMark, rows, cursor, origin>> /\ joined' = FALSE
  BY DEF Down, queueVars, markVars, indexVars
<1>2. FetchTypeOK' /\ durable' \subseteq Blocks /\ unsynced' \subseteq Blocks
  <2>1. CASE "fetch" \in which
    <3>1. FetchDown
      BY <2>1 DEF Down
    <3>2. worker' \in [Workers -> WorkerState]
      BY <3>1, AtOK DEF FetchDown, WorkerPcs
    <3> QED BY <3>1, <3>2 DEF FetchDown, FetchTypeOK, FetchPcs, NoBlock, Marks
  <2>2. CASE "fetch" \notin which
    BY <2>2 DEF Down, fetchVars, archiveVars, FetchTypeOK
  <2> QED BY <2>1, <2>2
<1>3. DigestTypeOK'
  BY DEF Down, DigestDown, digestVars, DigestTypeOK, Marks
<1> QED BY <1>1, <1>2, <1>3 DEF QueueOK

(* What FetchStep leaves alone, for the parts of TypeOK a worker's step has. *)
LEMMA WorkerTyped ==
  ASSUME TypeOK, NEW w \in Workers,
         \/ WorkerStep(w)
         \/ WorkerFails(w)
         \/ \E S \in SUBSET InState(chunks, "leased") : Reclaim(w, S)
  PROVE  TablesTypeOK' /\ FetchTypeOK'
<1> USE BlocksAssumption, MaxAttemptsAssumption DEF TypeOK
<1> DEFINE k == worker[w]
<1>0. /\ k \in WorkerState
      /\ QueueOK(chunks)
      /\ worker \in [Workers -> WorkerState]
  BY DEF FetchTypeOK, TablesTypeOK
<1>a. ASSUME NEW s \in WorkerState, Set(w, s)
      PROVE  worker' \in [Workers -> WorkerState]
  BY <1>0, <1>a DEF Set
<1>b. ASSUME NEW pc \in WorkerPcs, Goto(w, pc)
      PROVE  worker' \in [Workers -> WorkerState]
  <2>1. [k EXCEPT !.pc = pc] \in WorkerState
    BY <1>0 DEF WorkerState
  <2> QED BY <1>0, <1>b, <2>1 DEF Goto
<1>c. ASSUME QueueOK(chunks)', worker' \in [Workers -> WorkerState],
             UNCHANGED <<head, archiveVars, markVars, indexVars, origin,
                         fetchPc, stop, end, ahead>>
      PROVE  TablesTypeOK' /\ FetchTypeOK'
  BY <1>c DEF TablesTypeOK, FetchTypeOK, archiveVars, markVars, indexVars
<1>d. ASSUME UNCHANGED chunks PROVE QueueOK(chunks)'
  BY <1>0, <1>d DEF QueueOK
<1>e. ASSUME QueueOK(chunks') PROVE QueueOK(chunks)'
  BY <1>e DEF QueueOK
<1>1. CASE Claim(w)
  <2>1. PICK f \in Lowest(chunks, brake_ceiling) :
          /\ chunks' = Leased(chunks, f)
          /\ Set(w, [pc |-> "archive", from |-> f,
                     last |-> Lesser(chunks[f].to, end), next |-> f,
                     attempts |-> chunks'[f].attempts])
    BY <1>1 DEF Claim
  <2>2. f \in DOMAIN chunks
    BY <2>1 DEF Lowest, Claimable, InState
  <2>3. QueueOK(chunks')
    BY <1>0, <2>1, <2>2, QueueOps
  <2>4. f \in DOMAIN chunks'
    BY <2>1, <2>2 DEF Leased
  <2>5. chunks'[f].attempts \in 0..MaxAttempts
    BY <2>3, <2>4 DEF QueueOK, Chunk
  <2>6. f \in Blocks /\ chunks[f].to \in f..MaxHead /\ end \in Marks
    BY <1>0, <2>2 DEF QueueOK, FetchTypeOK
  <2>7. Lesser(chunks[f].to, end) \in Marks
    BY <2>6 DEF Lesser, Marks, Blocks
  <2>8. [pc |-> "archive", from |-> f, last |-> Lesser(chunks[f].to, end),
         next |-> f, attempts |-> chunks'[f].attempts] \in WorkerState
    BY <2>5, <2>6, <2>7 DEF WorkerState, WorkerPcs, Marks, Blocks
  <2> QED BY <1>a, <1>c, <1>e, <1>1, <2>1, <2>3, <2>8 DEF Claim
<1>2. CASE WorkerReturns(w)
  BY <1>b, <1>c, <1>d, <1>2 DEF WorkerReturns, WorkerPcs, queueVars
<1>3. CASE ArchiveBlock(w)
  <2>1. k.next \in StartBlock..MaxHead /\ k.next + 1 \in StartBlock..(MaxHead + 1)
    BY <1>0, <1>3 DEF ArchiveBlock, WorkerState, Marks
  <2>2. [k EXCEPT !.next = @ + 1] \in WorkerState
    BY <1>0, <2>1 DEF WorkerState
  <2>3. worker' \in [Workers -> WorkerState]
    BY <1>0, <1>3, <2>2 DEF ArchiveBlock
  <2>4. unsynced' \subseteq Blocks
    BY <1>3, <2>1 DEF ArchiveBlock, TablesTypeOK, Blocks
  <2> QED BY <1>d, <1>3, <2>3, <2>4
       DEF ArchiveBlock, TablesTypeOK, FetchTypeOK, queueVars, markVars, indexVars
<1>4. CASE SyncChunk(w)
  <2>1. worker' \in [Workers -> WorkerState]
    BY <1>b, <1>4 DEF SyncChunk, WorkerPcs
  <2> QED BY <1>d, <1>4, <2>1
       DEF SyncChunk, TablesTypeOK, FetchTypeOK, queueVars, markVars, indexVars
<1>5. CASE CompleteChunk(w)
  <2>1. QueueOK(chunks')
    BY <1>0, <1>5, QueueOps DEF CompleteChunk, State
  <2>2. worker' \in [Workers -> WorkerState]
    BY <1>b, <1>5 DEF CompleteChunk, WorkerPcs
  <2> QED BY <1>c, <1>e, <1>5, <2>1, <2>2 DEF CompleteChunk
<1>9. CASE FindDoneEnd(w)
  <2>1. At("claim") \in WorkerState /\ At("advance") \in WorkerState
    BY AtOK DEF WorkerPcs
  <2>2. \A n \in Marks : [At("advance") EXCEPT !.last = n] \in WorkerState
    BY <2>1 DEF WorkerState
  <2>3. worker' \in [Workers -> WorkerState]
    BY <1>a, <1>9, <2>1, <2>2 DEF FindDoneEnd
  <2> QED BY <1>c, <1>d, <1>9, <2>3 DEF FindDoneEnd, queueVars
<1>6. CASE AdvanceWatermark(w)
  <2>1. At("claim") \in WorkerState
    BY AtOK DEF WorkerPcs
  <2>2. worker' \in [Workers -> WorkerState]
    BY <1>a, <1>6, <2>1 DEF AdvanceWatermark
  <2>3. fetchMark' \in Marks
    BY <1>0, <1>6 DEF AdvanceWatermark, TablesTypeOK, WorkerState, Greater
  <2> QED BY <1>d, <1>6, <2>2, <2>3
       DEF AdvanceWatermark, TablesTypeOK, FetchTypeOK, archiveVars, queueVars, indexVars
<1>7. CASE WorkerFails(w)
  <2>1. QueueOK(chunks')
    BY <1>0, <1>7, QueueOps DEF WorkerFails, State
  <2>2. At("claim") \in WorkerState
    BY AtOK DEF WorkerPcs
  <2>3. worker' \in [Workers -> WorkerState]
    BY <1>a, <1>7, <2>2 DEF WorkerFails
  <2> QED BY <1>c, <1>e, <1>7, <2>1, <2>3 DEF WorkerFails
<1>8. CASE \E S \in SUBSET InState(chunks, "leased") : Reclaim(w, S)
  <2>1. QueueOK(chunks')
    BY <1>0, <1>8, QueueOps DEF Reclaim
  <2> QED BY <1>0, <1>c, <1>e, <1>8, <2>1 DEF Reclaim, fetchVars
<1> QED BY <1>1, <1>2, <1>3, <1>4, <1>5, <1>6, <1>7, <1>8, <1>9 DEF WorkerStep

LEMMA FetchTyped ==
  ASSUME TypeOK, FetchStep
  PROVE  TablesTypeOK' /\ FetchTypeOK'
<1> USE BlocksAssumption DEF TypeOK
<1>0. QueueOK(chunks) /\ worker \in [Workers -> WorkerState]
  BY DEF TablesTypeOK, FetchTypeOK
<1>a. [w \in Workers |-> At("off")] \in [Workers -> WorkerState]
  BY AtOK DEF WorkerPcs
<1>1. CASE BackfillReturns
  <2>1. fetchPc' \in FetchPcs /\ (fetchPc' \in {"archive", "advance"} => ahead' # NoBlock)
    BY <1>1 DEF BackfillReturns, AfterCatchUp, FetchPcs
  <2>2. QueueOK(chunks)'
    BY <1>0, <1>1 DEF BackfillReturns, queueVars, QueueOK
  <2> QED BY <1>1, <1>a, <2>1, <2>2
       DEF BackfillReturns, TablesTypeOK, FetchTypeOK, archiveVars, markVars, indexVars
<1>2. ASSUME NEW n \in Blocks, HeadBlock(n) PROVE TablesTypeOK' /\ FetchTypeOK'
  <2>1. /\ fetchMark + 1 \in StartBlock..(MaxHead + 1)
        /\ n \in Marks /\ n - 1 \in Marks /\ n - 1 \in Int /\ n # NoBlock
    BY <1>2 DEF HeadBlock, TablesTypeOK, Marks, Blocks, NoBlock
  <2>2. \/ UNCHANGED <<chunks, end, worker>> /\ fetchPc' = "archive"
        \/ /\ \E S : chunks' = Queued(chunks, fetchMark + 1, n - 1, n - 1, S)
           /\ StartWorkers(n - 1)
    BY <1>2 DEF HeadBlock
  <2>3. QueueOK(chunks')
    BY <1>0, <2>1, <2>2, QueuedOK
  <2>4. end' \in Marks /\ fetchPc' \in FetchPcs /\ worker' \in [Workers -> WorkerState]
    BY <1>0, <2>1, <2>2, AtOK DEF StartWorkers, FetchTypeOK, FetchPcs, WorkerPcs
  <2>5. ahead' = n /\ UNCHANGED <<head, archiveVars, markVars, indexVars, origin, stop>>
    BY <1>2 DEF HeadBlock
  <2> QED BY <2>1, <2>3, <2>4, <2>5
       DEF QueueOK, TablesTypeOK, FetchTypeOK, archiveVars, markVars, indexVars
<1>3. CASE ArchiveHead
  <2>1. QueueOK(chunks)'
    BY <1>0, <1>3 DEF ArchiveHead, queueVars, QueueOK
  <2>2. ahead \in Blocks
    BY <1>3 DEF ArchiveHead, FetchTypeOK, NoBlock, Blocks, Marks
  <2> QED BY <1>3, <2>1, <2>2
       DEF ArchiveHead, TablesTypeOK, FetchTypeOK, FetchPcs, markVars, indexVars
<1>4. CASE AdvanceHead
  <2>1. QueueOK(chunks)'
    BY <1>0, <1>4 DEF AdvanceHead, queueVars, QueueOK
  <2>2. /\ fetchMark' \in Marks
        /\ ahead' \in Marks
        /\ fetchPc' \in FetchPcs /\ fetchPc' \notin {"archive", "advance"}
    BY <1>4 DEF AdvanceHead, TablesTypeOK, FetchTypeOK, Greater, AfterCatchUp,
                NoBlock, FetchPcs, Marks
  <2> QED BY <1>4, <2>1, <2>2
       DEF AdvanceHead, TablesTypeOK, FetchTypeOK, archiveVars, indexVars
<1> QED BY <1>1, <1>2, <1>3, <1>4, WorkerTyped DEF FetchStep

LEMMA DigestTyped ==
  ASSUME TypeOK, DigestStep
  PROVE  TablesTypeOK' /\ DigestTypeOK'
<1> USE BlocksAssumption, DigestAssumption DEF TypeOK
<1>0. QueueOK(chunks)
  BY DEF TablesTypeOK
<1>1. UNCHANGED chunks /\ QueueOK(chunks)'
  BY <1>0 DEF DigestStep, DigestPoll, DigestCommit, DigestReturns, queueVars, QueueOK
<1>2. CASE DigestPoll
  <2>1. ready' \in Marks
    BY <1>2 DEF DigestPoll, TablesTypeOK, DigestTypeOK, Lesser, Marks
  <2> QED BY <1>1, <1>2, <2>1
       DEF DigestPoll, TablesTypeOK, DigestTypeOK, archiveVars, markVars, indexVars
<1>3. CASE DigestCommit
  <2>1. next \in Blocks /\ BatchEnd \in next..MaxHead
    BY <1>3 DEF DigestCommit, DigestTypeOK, BatchEnd, Lesser, Blocks, Marks
  <2>2. /\ digestMark' \in Marks
        /\ cursor' \in Marks
        /\ rows' \subseteq Blocks
        /\ next' \in StartBlock..(MaxHead + 1)
    BY <1>3, <2>1 DEF DigestCommit, Commit, Greater, TablesTypeOK, Marks, Blocks
  <2> QED BY <1>1, <1>3, <2>2
       DEF DigestCommit, TablesTypeOK, DigestTypeOK, archiveVars
<1>4. CASE DigestReturns
  BY <1>1, <1>4 DEF DigestReturns, TablesTypeOK, DigestTypeOK, archiveVars, markVars, indexVars
<1> QED BY <1>2, <1>3, <1>4 DEF DigestStep

LEMMA RunTyped ==
  ASSUME TypeOK, Run
  PROVE  TypeOK'
<1> USE BlocksAssumption, PipelineAssumption
<1>0. QueueOK(chunks) /\ QueueOK(NoChunks)
  BY QueueOps DEF TypeOK, TablesTypeOK
<1>1. ASSUME NEW mode \in Modes, NEW stop_at \in Stops, Start(mode, stop_at)
      PROVE  TypeOK'
  <2>1. Resume \in StartBlock..(MaxHead + 1)
    BY DEF Resume, TypeOK, TablesTypeOK, Marks
  <2>2. FetchTypeOK' /\ DigestTypeOK' /\ QueueOK(chunks)' /\ joined' \in BOOLEAN
    BY <1>0, <1>1, <2>1, StartsTyped DEF Start
  <2> QED BY <1>1, <2>2 DEF Start, TypeOK, TablesTypeOK, archiveVars, markVars, indexVars
<1>2. ASSUME NEW mode \in Modes, NEW stop_at \in Stops, NEW n \in Blocks,
             StartFrom(mode, stop_at, n)
      PROVE  TypeOK'
  <2>1. n \in StartBlock..(MaxHead + 1) /\ n - 1 \in Marks
    BY DEF Blocks, Marks
  <2>2. FetchTypeOK' /\ DigestTypeOK' /\ QueueOK(chunks)' /\ joined' \in BOOLEAN
    BY <1>0, <1>2, <2>1, StartsTyped DEF StartFrom
  <2> QED BY <1>2, <2>1, <2>2
       DEF StartFrom, ResetMarks, TypeOK, TablesTypeOK, archiveVars, indexVars
<1>3. CASE FetchStep /\ UNCHANGED <<digestVars, joined>>
  BY <1>3, FetchTyped DEF TypeOK, DigestTypeOK, digestVars
<1>4. CASE DigestStep /\ UNCHANGED <<fetchVars, joined>>
  BY <1>4, DigestTyped DEF TypeOK, FetchTypeOK, fetchVars
<1>5. CASE Finish \/ ChunksFailed \/ DigestFails
  BY <1>5, DownTyped DEF Finish, ChunksFailed, DigestFails
<1>6. CASE HeadGrows /\ UNCHANGED <<fetchVars, digestVars, joined>>
  <2>1. FetchTypeOK' /\ DigestTypeOK' /\ joined' \in BOOLEAN
    BY <1>6 DEF TypeOK, FetchTypeOK, DigestTypeOK, fetchVars, digestVars
  <2> QED BY <1>6, <2>1
       DEF HeadGrows, TypeOK, TablesTypeOK, QueueOK, archiveVars, queueVars, markVars, indexVars
<1> QED BY <1>1, <1>2, <1>3, <1>4, <1>5, <1>6 DEF Run

LEMMA FaultTyped ==
  ASSUME TypeOK, Fault
  PROVE  TypeOK'
<1> USE BlocksAssumption, PipelineAssumption
<1>1. CASE Crash
  BY <1>1, DownTyped DEF Crash
<1>2. ASSUME NEW stop_at \in Stops, SeedingInterrupted(stop_at) PROVE TypeOK'
  <2>1. QueueOK(chunks) /\ Resume \in StartBlock..(MaxHead + 1) /\ Lesser(stop_at, head) \in Marks
    BY DEF TypeOK, TablesTypeOK, Resume, Marks, Lesser
  <2>2. PICK through \in Resume..Lesser(stop_at, head), S \in SUBSET InState(chunks, "leased") :
          chunks' = Queued(chunks, Resume, Lesser(stop_at, head), through, S)
    BY <1>2 DEF SeedingInterrupted
  <2>3. QueueOK(chunks')
    BY <2>1, <2>2, QueuedOK
  <2>4. FetchTypeOK' /\ DigestTypeOK' /\ joined' \in BOOLEAN
    BY <1>2 DEF SeedingInterrupted, TypeOK, FetchTypeOK, DigestTypeOK, fetchVars, digestVars
  <2> QED BY <1>2, <2>3, <2>4
       DEF SeedingInterrupted, TypeOK, TablesTypeOK, QueueOK, archiveVars, markVars, indexVars
<1>3. ASSUME NEW u \in Froms, ResetInterrupted(u[1], u[2]) PROVE TypeOK'
  <2>1. u[2] \in StartBlock..(MaxHead + 1) /\ u[2] - 1 \in Marks
    BY DEF Blocks, Marks
  <2>2. FetchTypeOK' /\ DigestTypeOK' /\ joined' \in BOOLEAN
    BY <1>3 DEF ResetInterrupted, TypeOK, FetchTypeOK, DigestTypeOK, fetchVars, digestVars
  <2> QED BY <1>3, <2>1, <2>2
       DEF ResetInterrupted, ResetMarks, TypeOK, TablesTypeOK, QueueOK, archiveVars,
           queueVars, indexVars
<1> QED BY <1>1, <1>2, <1>3 DEF Fault

LEMMA InitTyped == Init => TypeOK
<1> SUFFICES ASSUME Init PROVE TypeOK
  OBVIOUS
<1> USE BlocksAssumption DEF Init
<1>1. QueueOK(chunks)
  <2>1. chunks = NoChunks
    BY DEF TablesInit
  <2> QED BY <2>1 DEF NoChunks, QueueOK, Chunk, State
<1>2. worker \in [Workers -> WorkerState]
  BY AtOK DEF FetchInit, WorkerPcs
<1>3. TablesTypeOK
  BY <1>1 DEF TablesInit, TablesTypeOK, Blocks, Marks
<1>4. FetchTypeOK
  BY <1>2 DEF FetchInit, FetchTypeOK, FetchPcs, NoBlock, Marks
<1>5. DigestTypeOK
  BY DEF DigestInit, DigestTypeOK, Marks
<1> QED BY <1>3, <1>4, <1>5 DEF TypeOK

LEMMA StutterTyped == TypeOK /\ UNCHANGED vars => TypeOK'
  BY DEF TypeOK, TablesTypeOK, FetchTypeOK, DigestTypeOK, QueueOK, vars, archiveVars,
         queueVars, markVars, indexVars, fetchVars, digestVars

(* Every table and every local variable stays in its range, whatever the    *)
(* number of workers, the chunk size, the batch, the lag and the blocks:    *)
(* no chunk ends beyond the head, no mark leaves the chain.                 *)
THEOREM TypeCorrect == Spec => []TypeOK
<1>1. TypeOK /\ [Next]_vars => TypeOK'
  BY RunTyped, FaultTyped, StutterTyped DEF Next
<1> QED BY InitTyped, <1>1, PTL DEF Spec
--------------------------------------------------------------------------------
(***************************************************************************)
(* FetchInv step by step, first what the operations on the queue do to its *)
(* two conjuncts about rows.                                               *)
(***************************************************************************)
RowsOK(table) ==
  /\ \A f \in DOMAIN table : table[f].to = Lesser(f + effective_chunk_size - 1, To)
  /\ \A f \in InState(table, "done") : f..table[f].to \subseteq durable

SameChunks(old, new) ==
  DOMAIN new = DOMAIN old /\ \A f \in DOMAIN old : new[f].to = old[f].to

LEMMA OneToFacts ==
  ASSUME OneTo, TypeOK
  PROVE  /\ To \in StartBlock..MaxHead
         /\ \A s \in Stops : s = To /\ Lesser(s, head) = To
<1>1. To \in Stops /\ \A s \in Stops : s = To
  BY DEF OneTo
<1>2. To \in StartBlock..MaxHead
  BY <1>1, PipelineAssumption, BlocksAssumption DEF OneTo
<1>3. To <= head
  BY <1>2, BlocksAssumption DEF OneTo, TypeOK, TablesTypeOK
<1> QED BY <1>1, <1>2, <1>3, BlocksAssumption DEF Lesser, TypeOK, TablesTypeOK

LEMMA RowOps ==
  ASSUME NEW table, QueueOK(table), RowsOK(table)
  PROVE  /\ RowsOK(NoChunks)
         /\ \A S : RowsOK(Reclaimed(table, S)) /\ SameChunks(table, Reclaimed(table, S))
         /\ \A f : \A s \in State : SameChunks(table, Marked(table, f, s))
         /\ \A f : \A s \in State \ {"done"} : RowsOK(Marked(table, f, s))
         /\ \A f \in DOMAIN table : RowsOK(Leased(table, f)) /\ SameChunks(table, Leased(table, f))
<1> USE DEF QueueOK, Chunk, RowsOK, SameChunks, InState
<1>1. RowsOK(NoChunks)
  BY DEF NoChunks
<1>2. ASSUME NEW S PROVE RowsOK(Reclaimed(table, S)) /\ SameChunks(table, Reclaimed(table, S))
  BY DEF Reclaimed
<1>3. ASSUME NEW f, NEW s \in State PROVE SameChunks(table, Marked(table, f, s))
  BY DEF Marked
<1>4. ASSUME NEW f, NEW s \in State \ {"done"} PROVE RowsOK(Marked(table, f, s))
  BY DEF Marked, State
<1>5. ASSUME NEW f \in DOMAIN table
      PROVE  RowsOK(Leased(table, f)) /\ SameChunks(table, Leased(table, f))
  BY DEF Leased
<1> QED BY <1>1, <1>2, <1>3, <1>4, <1>5

LEMMA QueuedRows ==
  ASSUME NEW table, QueueOK(table), RowsOK(table), NEW S,
         NEW from \in StartBlock..(MaxHead + 1), NEW through \in Int,
         To \in StartBlock..MaxHead
  PROVE  /\ RowsOK(Queued(table, from, To, through, S))
         /\ \A b \in from..To : Holds(Queued(table, from, To, To, S), b)
<1> DEFINE old == Reclaimed(table, S)
           size == effective_chunk_size
<1>1. QueueOK(old) /\ RowsOK(old)
  BY QueueOps, RowOps
<1>2. size \in Nat \ {0} /\ from \in Int /\ To \in Int
  BY ChunkSizeOK, BlocksAssumption
<1> HIDE DEF old, size
<1>3. RowsOK(Seeded(old, from, To, size, through))
  <2> DEFINE new == Seeded(old, from, To, size, through)
  <2>1. \A f \in DOMAIN new : \/ f \in DOMAIN old /\ new[f] = old[f]
                              \/ new[f] = Tile(f, To, size)
    BY DEF Seeded
  <2> HIDE DEF new
  <2>2. \A f \in DOMAIN new : new[f].to = Lesser(f + size - 1, To)
    BY <1>1, <2>1 DEF RowsOK, Tile, size
  <2>3. \A f \in InState(new, "done") : f \in InState(old, "done") /\ new[f] = old[f]
    BY <2>1 DEF InState, Tile
  <2>4. RowsOK(new)
    BY <1>1, <2>2, <2>3 DEF RowsOK, size
  <2> QED BY <2>4 DEF new
<1>4. \A f \in DOMAIN old : old[f].to = Lesser(f + size - 1, To)
  BY <1>1 DEF RowsOK, size
<1>5. DOMAIN old \subseteq Int
  BY <1>1, BlocksAssumption DEF QueueOK, Blocks
<1>6. \A b \in from..To : Holds(Seeded(old, from, To, size, To), b)
  BY <1>2, <1>4, <1>5, SeedingCovers
<1> QED BY <1>3, <1>6 DEF Queued, old, size

LEMMA QueueInv == RowsOK(chunks) <=> ChunkEnds /\ DoneDurable
  BY DEF RowsOK, ChunkEnds, DoneDurable

LEMMA QueueInvNext ==
  ASSUME RowsOK(chunks'), durable \subseteq durable'
  PROVE  ChunkEnds' /\ DoneDurable'
  BY DEF RowsOK, ChunkEnds, DoneDurable, InState, effective_chunk_size, Lesser

(* Workers that hold no chunk, as they are when a process starts or ends. *)
LEMMA IdleWorkers ==
  ASSUME NEW pc \in {"off", "claim"}, worker' = [w \in Workers |-> At(pc)]
  PROVE  WorkerInv'
  BY DEF WorkerInv, At

LEMMA HigherRange ==
  \A lo, mid, hi \in Int : lo <= mid => \A b \in mid..hi : b \in lo..hi
  OBVIOUS

(* The queue of a start, with the origin it counts from. *)
LEMMA FetchStarts ==
  ASSUME OneTo, TypeOK, NEW table, QueueOK(table), RowsOK(table),
         NEW start \in StartBlock..(MaxHead + 1),
         FetchInv, UNCHANGED <<durable, unsynced>>,
         MarksOrdered', WatermarkHonest', start <= fetchMark' + 1, fetchMark' \in Marks,
         NEW mode \in Modes, NEW stop_at \in Stops,
         StartStages(mode, start, table, stop_at),
         mode = "digest" => table = chunks /\ UNCHANGED <<fetchMark, origin>>
  PROVE  FetchInv'
<1> USE BlocksAssumption
<1>1. /\ To \in StartBlock..MaxHead
      /\ stop_at = To /\ Lesser(stop_at, head) = To
  BY OneToFacts
<1>2. CASE mode # "digest"
  <2>1. StartFetch(start, table, stop_at)
    BY <1>2 DEF StartStages
  <2>2. CASE To >= start
    <3>1. PICK S : chunks' = Queued(table, start, To, To, S)
      BY <1>1, <2>1, <2>2 DEF StartFetch
    <3>2. RowsOK(chunks') /\ \A b \in start..To : Holds(chunks', b)
      BY <1>1, <3>1, QueuedRows
    <3>3. fetchPc' = "backfill" /\ end' = To /\ stop' = To /\ ahead' = NoBlock
          /\ worker' = [w \in Workers |-> At("claim")]
      BY <1>1, <2>1, <2>2 DEF StartFetch, StartWorkers
    <3>4. ChunkEnds' /\ DoneDurable'
      BY <3>2, QueueInvNext
    <3>5. Covered'
      <4>0. start \in Int /\ To \in Int /\ fetchMark' + 1 \in Int
        BY <1>1 DEF Marks
      <4>1. \A b \in (fetchMark' + 1)..To : b \in start..To
        BY <4>0, HigherRange
      <4>2. \A b \in (fetchMark' + 1)..To : InChunk(b)'
        BY <3>2, <4>1 DEF InChunk, Holds
      <4> QED BY <4>2 DEF Covered, To
    <3>6. StageInv' /\ WorkerInv'
      BY <1>1, <3>3, IdleWorkers DEF StageInv, To, NoBlock
    <3> QED BY <3>4, <3>5, <3>6 DEF FetchInv
  <2>3. CASE To < start
    <3>1. /\ chunks' = table /\ fetchPc' = "returned" /\ ahead' = NoBlock
          /\ worker' = [w \in Workers |-> At("off")]
      BY <1>1, <2>1, <2>3 DEF StartFetch, AfterCatchUp
    <3>2. ChunkEnds' /\ DoneDurable'
      BY <3>1, QueueInvNext
    <3>3. Covered' /\ StageInv' /\ WorkerInv'
      BY <3>1, IdleWorkers DEF Covered, StageInv, At, NoBlock
    <3> QED BY <3>2, <3>3 DEF FetchInv
  <2> QED BY <1>1, <2>2, <2>3
<1>3. CASE mode = "digest"
  <2>1. chunks' = table /\ UNCHANGED fetchVars
    BY <1>3 DEF StartStages
  <2>2. ChunkEnds' /\ DoneDurable'
    BY <2>1, QueueInvNext
  <2>3. StageInv'
    BY <2>1 DEF FetchInv, StageInv, fetchVars, To, NoBlock
  <2>4. UNCHANGED <<chunks, fetchMark, origin>>
    BY <1>3, <2>1
  <2> QED BY <2>1, <2>2, <2>3, <2>4
       DEF FetchInv, Covered, InChunk, WorkerInv, fetchVars, Readable, To
<1> QED BY <1>2, <1>3

LEMMA FetchDowns ==
  ASSUME OneTo, TypeOK, FetchInv, NEW which \in SUBSET Stages, Down(which)
  PROVE  FetchInv'
<1>1. /\ UNCHANGED <<chunks, fetchMark, digestMark, origin>>
      /\ durable \subseteq durable'
  BY DEF Down, FetchDown, queueVars, markVars, archiveVars
<1>2. ChunkEnds' /\ DoneDurable'
  BY <1>1, QueueInv, QueueInvNext DEF FetchInv
<1>3. MarksOrdered' /\ WatermarkHonest'
  BY <1>1 DEF FetchInv, MarksOrdered, WatermarkHonest
<1>4. CASE "fetch" \in which
  <2>1. FetchDown
    BY <1>4 DEF Down
  <2>2. Covered' /\ StageInv' /\ WorkerInv'
    BY <2>1, IdleWorkers DEF FetchDown, Covered, StageInv, At, NoBlock
  <2> QED BY <1>2, <1>3, <2>2 DEF FetchInv
<1>5. CASE "fetch" \notin which
  <2>1. UNCHANGED <<fetchVars, archiveVars>>
    BY <1>5 DEF Down
  <2>2. Covered' /\ StageInv' /\ WorkerInv'
    BY <1>1, <2>1 DEF FetchInv, Covered, InChunk, StageInv, WorkerInv, fetchVars, archiveVars,
                      Readable, To, NoBlock
  <2> QED BY <1>2, <1>3, <2>2 DEF FetchInv
<1> QED BY <1>4, <1>5

(* A worker's step on the queue: rows keep their ends and nothing is lost. *)
LEMMA FetchWorks ==
  ASSUME OneTo, TypeOK, FetchInv, NEW w \in Workers,
         \/ WorkerStep(w)
         \/ WorkerFails(w)
         \/ \E S \in SUBSET InState(chunks, "leased") : Reclaim(w, S)
  PROVE  FetchInv'
<1> USE BlocksAssumption, MaxAttemptsAssumption
<1> DEFINE k == worker[w]
<1>0. /\ k \in WorkerState /\ worker \in [Workers -> WorkerState]
      /\ QueueOK(chunks) /\ RowsOK(chunks)
      /\ To \in StartBlock..MaxHead
      /\ fetchMark \in Marks /\ digestMark \in Marks /\ origin \in Int
  BY QueueInv, OneToFacts DEF TypeOK, FetchTypeOK, TablesTypeOK, FetchInv
<1>1. /\ UNCHANGED <<fetchPc, stop, end, ahead, digestMark, origin>>
      /\ k.pc # "off"
      /\ \A v \in Workers \ {w} : worker'[v] = worker[v]
  BY <1>0 DEF WorkerStep, Claim, WorkerReturns, ArchiveBlock, SyncChunk, CompleteChunk,
         FindDoneEnd, AdvanceWatermark, WorkerFails, Reclaim, markVars, fetchVars, Set, Goto
<1>2. fetchPc = "backfill" /\ end = To
  BY <1>1 DEF FetchInv, StageInv
<1>a. ASSUME SameChunks(chunks, chunks') PROVE Covered'
  <2>1. \A b : InChunk(b) => InChunk(b)'
    BY <1>a DEF SameChunks, InChunk
  <2>2. fetchMark' \in Int /\ fetchMark' >= fetchMark
    BY <1>0 DEF WorkerStep, Claim, WorkerReturns, ArchiveBlock, SyncChunk, CompleteChunk,
         FindDoneEnd, AdvanceWatermark, WorkerFails, Reclaim, markVars, Greater, Marks, WorkerState
  <2>3. PICK m \in Int : m = fetchMark' /\ m >= fetchMark
    BY <2>2
  <2>4. /\ fetchMark \in Int /\ To \in Int
        /\ \A i \in Int : m >= i => i + 1 \in Int /\ m + 1 \in Int /\ i + 1 <= m + 1
    BY <1>0 DEF Marks
  <2>5. \A b \in (fetchMark' + 1)..To : b \in (fetchMark + 1)..To
    BY <2>3, <2>4, HigherRange
  <2>6. \A b \in (fetchMark' + 1)..To : InChunk(b)'
    BY <1>2, <2>1, <2>5 DEF FetchInv, Covered
  <2> QED BY <2>6 DEF Covered, To
<1>b. StageInv'
  BY <1>1, <1>2 DEF FetchInv, StageInv, To, NoBlock
<1>c. ASSUME UNCHANGED fetchMark, durable \subseteq durable' PROVE MarksOrdered' /\ WatermarkHonest'
  BY <1>1, <1>c DEF FetchInv, MarksOrdered, WatermarkHonest
<1>d. ASSUME SameChunks(chunks, chunks'), Readable \subseteq Readable', durable \subseteq durable',
             worker'[w].pc \notin {"archive", "synced", "advance"}
      PROVE  WorkerInv'
  BY <1>1, <1>d DEF FetchInv, WorkerInv, SameChunks
<1>e. ASSUME UNCHANGED chunks PROVE SameChunks(chunks, chunks')
  BY <1>e DEF SameChunks
<1>3. CASE Claim(w)
  <2>1. PICK f \in Lowest(chunks, brake_ceiling) :
          /\ chunks' = Leased(chunks, f)
          /\ Set(w, [pc |-> "archive", from |-> f,
                     last |-> Lesser(chunks[f].to, end), next |-> f,
                     attempts |-> chunks'[f].attempts])
    BY <1>3 DEF Claim
  <2>2. f \in DOMAIN chunks /\ f \in Int
    BY <1>0, <2>1 DEF Lowest, Claimable, InState, QueueOK, Blocks
  <2>3. RowsOK(chunks') /\ SameChunks(chunks, chunks')
    BY <1>0, <2>1, <2>2, RowOps DEF RowsOK, InState
  <2>4. UNCHANGED <<durable, unsynced, fetchMark>>
    BY <1>3 DEF Claim, archiveVars, markVars
  <2>5. chunks[f].to = Lesser(chunks[f].to, end)
    BY <1>0, <1>2, <2>2 DEF RowsOK, Lesser, QueueOK
  <2>6. WorkerInv'
    <3>1. worker'[w] = [pc |-> "archive", from |-> f, last |-> chunks[f].to, next |-> f,
                        attempts |-> chunks'[f].attempts]
      BY <1>0, <2>1, <2>5 DEF Set
    <3>2. f..(f - 1) = {}
      BY <2>2
    <3> QED BY <1>1, <2>2, <2>3, <2>4, <3>1, <3>2 DEF FetchInv, WorkerInv, SameChunks, Readable
  <2> QED BY <1>a, <1>b, <1>c, <2>3, <2>4, <2>6, QueueInvNext DEF FetchInv
<1>4. CASE WorkerReturns(w)
  <2>1. UNCHANGED <<durable, unsynced, chunks, fetchMark>> /\ worker'[w].pc = "returned"
    BY <1>0, <1>4 DEF WorkerReturns, archiveVars, queueVars, markVars, Goto, WorkerState
  <2> QED BY <1>0, <1>a, <1>b, <1>c, <1>d, <1>e, <2>1, QueueInvNext DEF FetchInv, Readable
<1>5. CASE ArchiveBlock(w)
  <2>1. /\ UNCHANGED <<durable, chunks, fetchMark>>
        /\ unsynced' = unsynced \cup {k.next}
        /\ worker'[w] = [k EXCEPT !.next = k.next + 1]
        /\ k.pc = "archive"
    BY <1>0, <1>5 DEF ArchiveBlock, queueVars, markVars
  <2>2. k.from..(k.next - 1) \subseteq Readable
    BY <2>1 DEF FetchInv, WorkerInv
  <2>3. k.from..k.next \subseteq Readable'
    BY <1>0, <2>1, <2>2 DEF Readable, WorkerState, Marks
  <2>4. /\ worker'[w].pc = "archive" /\ worker'[w].from = k.from
        /\ worker'[w].last = k.last /\ worker'[w].next - 1 = k.next
    BY <1>0, <2>1 DEF WorkerState
  <2>5. WorkerInv'
    BY <1>1, <2>1, <2>3, <2>4 DEF FetchInv, WorkerInv, Readable
  <2> QED BY <1>0, <1>a, <1>b, <1>c, <1>e, <2>1, <2>5, QueueInvNext DEF FetchInv
<1>6. CASE SyncChunk(w)
  <2>1. /\ UNCHANGED <<chunks, fetchMark>>
        /\ durable' = Readable /\ Readable' = Readable
        /\ k.pc = "archive" /\ k.next > k.last
        /\ worker'[w] = [k EXCEPT !.pc = "synced"]
    BY <1>0, <1>6 DEF SyncChunk, queueVars, markVars, Goto, Readable
  <2>2. k.from..k.last \subseteq Readable
    BY <1>0, <2>1 DEF FetchInv, WorkerInv, WorkerState, Marks
  <2>3. /\ worker'[w].pc = "synced" /\ worker'[w].from = k.from /\ worker'[w].last = k.last
    BY <1>0, <2>1 DEF WorkerState
  <2>4. WorkerInv'
    BY <1>1, <2>1, <2>2, <2>3 DEF FetchInv, WorkerInv, Readable
  <2> QED BY <1>0, <1>a, <1>b, <1>c, <1>e, <2>1, <2>4, QueueInvNext DEF FetchInv, Readable
<1>7. CASE CompleteChunk(w)
  <2>1. /\ UNCHANGED <<durable, unsynced, fetchMark>>
        /\ chunks' = Marked(chunks, k.from, "done")
        /\ k.pc = "synced" /\ worker'[w].pc = "completed"
    BY <1>0, <1>7 DEF CompleteChunk, archiveVars, markVars, Goto, WorkerState
  <2>2. SameChunks(chunks, chunks')
    BY <1>0, <2>1, RowOps DEF State
  <2>3. k.from \in DOMAIN chunks => k.from..chunks[k.from].to \subseteq durable
    BY <2>1 DEF FetchInv, WorkerInv
  <2>4. \A f \in InState(chunks', "done") : f \in InState(chunks, "done") \/ f = k.from
    BY <1>0, <2>1 DEF Marked, InState, QueueOK, Chunk
  <2>5. RowsOK(chunks')
    BY <1>0, <2>2, <2>3, <2>4 DEF RowsOK, SameChunks, InState
  <2> QED BY <1>a, <1>b, <1>c, <1>d, <2>1, <2>2, <2>5, QueueInvNext DEF FetchInv, Readable
<1>8. CASE FindDoneEnd(w)
  <2>1. UNCHANGED <<durable, unsynced, chunks, fetchMark>>
    BY <1>8 DEF FindDoneEnd, archiveVars, queueVars, markVars
  <2>2. WorkerInv'
    <3>1. CASE Set(w, At("claim"))
      BY <1>0, <1>d, <1>e, <2>1, <3>1 DEF Set, At, Readable
    <3>2. ASSUME NEW n \in Marks, IsDoneEnd(chunks, n), Set(w, [At("advance") EXCEPT !.last = n])
          PROVE  WorkerInv'
      <4>1. DOMAIN chunks # {} /\ n <= To
        BY <1>0, <3>2 DEF IsDoneEnd, DonePrefix, InState, RowsOK, Lesser, QueueOK
      <4>2. \A b \in (fetchMark + 1)..To : Holds(chunks, b)
        BY <1>2, <4>1 DEF FetchInv, Covered, InChunk, Holds
      <4>3. /\ DOMAIN chunks \subseteq Int
            /\ \A f \in DOMAIN chunks : chunks[f].to \in Int
            /\ \A f \in InState(chunks, "done") : f..chunks[f].to \subseteq durable
            /\ fetchMark + 1 \in Int /\ To \in Int /\ n \in Int
        BY <1>0, <3>2 DEF QueueOK, RowsOK, Blocks, Marks
      <4>4. (fetchMark + 1)..n \subseteq durable
        BY <3>2, <4>1, <4>2, <4>3, DonePrefixDurable
      <4>5. origin..n \subseteq durable
        BY <1>0, <4>3, <4>4 DEF FetchInv, WatermarkHonest, Marks
      <4>6. worker'[w].pc = "advance" /\ worker'[w].last = n
        BY <1>0, <3>2 DEF Set, At
      <4> QED BY <1>1, <2>1, <4>5, <4>6 DEF FetchInv, WorkerInv, Readable
    <3> QED BY <1>8, <3>1, <3>2 DEF FindDoneEnd
  <2> QED BY <1>0, <1>a, <1>b, <1>c, <1>e, <2>1, <2>2, QueueInvNext DEF FetchInv
<1>11. CASE AdvanceWatermark(w)
  <2>1. /\ UNCHANGED <<durable, unsynced, chunks>> /\ worker'[w].pc = "claim"
        /\ k.pc = "advance" /\ fetchMark' = Greater(fetchMark, k.last)
    BY <1>0, <1>11 DEF AdvanceWatermark, archiveVars, queueVars, Set, At
  <2>2. origin..k.last \subseteq durable /\ k.last \in Int
    BY <1>0, <2>1 DEF FetchInv, WorkerInv, WorkerState, Marks
  <2>3. MarksOrdered' /\ WatermarkHonest'
    BY <1>0, <1>1, <2>1, <2>2 DEF FetchInv, MarksOrdered, WatermarkHonest, Greater, Marks
  <2> QED BY <1>0, <1>a, <1>b, <1>d, <1>e, <2>1, <2>3, QueueInvNext DEF FetchInv, Readable
<1>9. CASE WorkerFails(w)
  <2>1. /\ UNCHANGED <<durable, unsynced, fetchMark>> /\ worker'[w].pc = "claim"
        /\ \E s \in State \ {"done"} : chunks' = Marked(chunks, k.from, s)
    BY <1>0, <1>9 DEF WorkerFails, archiveVars, markVars, Set, At, State
  <2>2. SameChunks(chunks, chunks') /\ RowsOK(chunks')
    BY <1>0, <2>1, RowOps
  <2> QED BY <1>a, <1>b, <1>c, <1>d, <2>1, <2>2, QueueInvNext DEF FetchInv, Readable
<1>10. CASE \E S \in SUBSET InState(chunks, "leased") : Reclaim(w, S)
  <2>1. /\ UNCHANGED <<durable, unsynced, fetchMark, worker>>
        /\ \E S : chunks' = Reclaimed(chunks, S)
        /\ k.pc = "claim"
    BY <1>10 DEF Reclaim, archiveVars, markVars, fetchVars
  <2>2. SameChunks(chunks, chunks') /\ RowsOK(chunks')
    BY <1>0, <2>1, RowOps
  <2> QED BY <1>a, <1>b, <1>c, <1>d, <2>1, <2>2, QueueInvNext DEF FetchInv, Readable
<1> QED BY <1>3, <1>4, <1>5, <1>6, <1>7, <1>8, <1>9, <1>10, <1>11 DEF WorkerStep

LEMMA FetchReadsNothing ==
  ASSUME FetchInv, UNCHANGED <<durable, unsynced, chunks, fetchMark, origin, fetchVars>>,
         MarksOrdered'
  PROVE  FetchInv'
<1>1. ChunkEnds' /\ DoneDurable' /\ WatermarkHonest'
  BY DEF FetchInv, ChunkEnds, DoneDurable, WatermarkHonest, To, effective_chunk_size
<1>2. Covered' /\ StageInv' /\ WorkerInv'
  BY DEF FetchInv, Covered, InChunk, StageInv, WorkerInv, Readable, To, NoBlock, fetchVars
<1> QED BY <1>1, <1>2 DEF FetchInv

LEMMA FetchRuns ==
  ASSUME OneTo, NoDigestFrom, TypeOK, TypeOK', FetchInv, Run
  PROVE  FetchInv'
<1> USE BlocksAssumption, PipelineAssumption
<1>0. /\ QueueOK(chunks) /\ RowsOK(chunks)
      /\ QueueOK(NoChunks) /\ RowsOK(NoChunks)
      /\ fetchMark \in Marks /\ digestMark \in Marks /\ digestMark <= fetchMark
      /\ fetchMark' \in Marks
      /\ origin..fetchMark \subseteq durable
  BY QueueInv, QueueOps, RowOps
  DEF TypeOK, TablesTypeOK, FetchInv, MarksOrdered, WatermarkHonest
<1>1. ASSUME NEW mode \in Modes, NEW stop_at \in Stops, Start(mode, stop_at)
      PROVE  FetchInv'
  <2>1. UNCHANGED <<durable, unsynced, fetchMark, digestMark, origin>>
    BY <1>1 DEF Start, archiveVars, markVars
  <2>2. MarksOrdered' /\ WatermarkHonest'
    BY <1>0, <2>1 DEF MarksOrdered, WatermarkHonest
  <2>3. Resume \in StartBlock..(MaxHead + 1) /\ Resume <= fetchMark' + 1
    BY <1>0, <2>1 DEF Resume, Marks
  <2> QED BY <1>0, <1>1, <2>1, <2>2, <2>3, FetchStarts DEF Start
<1>2. ASSUME NEW mode \in Modes, NEW stop_at \in Stops, NEW n \in Blocks,
             <<mode, n>> \in Froms, StartFrom(mode, stop_at, n)
      PROVE  FetchInv'
  <2>1. /\ UNCHANGED <<durable, unsynced>> /\ origin' = n
        /\ fetchMark' = n - 1 /\ digestMark' = n - 1
    BY <1>2 DEF StartFrom, ResetMarks, archiveVars
  <2>2. n \in Int /\ n \in StartBlock..(MaxHead + 1) /\ n <= fetchMark' + 1
    BY <2>1 DEF Blocks
  <2>3. MarksOrdered' /\ WatermarkHonest'
    BY <2>1, <2>2 DEF MarksOrdered, WatermarkHonest
  <2>4. mode # "digest"
    BY <1>2 DEF NoDigestFrom
  <2> QED BY <1>0, <1>2, <2>1, <2>2, <2>3, <2>4, FetchStarts DEF StartFrom
<1>3. CASE FetchStep /\ UNCHANGED <<digestVars, joined>>
  <2>1. CASE BackfillReturns
    <3>1. UNCHANGED <<durable, unsynced, chunks, fetchMark, digestMark, origin, ahead>>
      BY <2>1 DEF BackfillReturns, archiveVars, queueVars, markVars
    <3>2. /\ ChunkEnds' /\ DoneDurable' /\ MarksOrdered' /\ WatermarkHonest'
      BY <1>0, <3>1, QueueInvNext DEF FetchInv, MarksOrdered, WatermarkHonest
    <3>3. fetchPc' = "returned" /\ worker' = [w \in Workers |-> At("off")]
      BY <2>1, OneToFacts DEF BackfillReturns, AfterCatchUp, FetchInv, StageInv
    <3>4. Covered' /\ StageInv' /\ WorkerInv'
      BY <3>1, <3>3, IdleWorkers DEF FetchInv, Covered, StageInv, At, NoBlock
    <3> QED BY <3>2, <3>4 DEF FetchInv
  <2>2. \/ BackfillReturns
        \/ \E w \in Workers : \/ WorkerStep(w)
                              \/ WorkerFails(w)
                              \/ \E S \in SUBSET InState(chunks, "leased") : Reclaim(w, S)
    BY <1>3 DEF FetchStep, HeadBlock, ArchiveHead, AdvanceHead, FetchInv, StageInv
  <2> QED BY <2>1, <2>2, FetchWorks
<1>4. CASE DigestStep /\ UNCHANGED <<fetchVars, joined>>
  <2>1. UNCHANGED <<durable, unsynced, chunks, fetchMark, origin>>
    BY <1>4 DEF DigestStep, DigestPoll, DigestCommit, DigestReturns, archiveVars, queueVars, markVars
  <2>2. digestMark' <= fetchMark
    BY <1>0, <1>4 DEF DigestStep, DigestPoll, DigestCommit, DigestReturns, Commit, CanCommit, markVars
  <2> QED BY <1>4, <2>1, <2>2, FetchReadsNothing DEF MarksOrdered
<1>5. CASE Finish \/ ChunksFailed \/ DigestFails
  BY <1>5, FetchDowns DEF Finish, ChunksFailed, DigestFails
<1>6. CASE HeadGrows /\ UNCHANGED <<fetchVars, digestVars, joined>>
  BY <1>0, <1>6, FetchReadsNothing DEF HeadGrows, archiveVars, queueVars, markVars, MarksOrdered
<1> QED BY <1>1, <1>2, <1>3, <1>4, <1>5, <1>6 DEF Run

LEMMA FetchFaults ==
  ASSUME OneTo, NoDigestFrom, TypeOK, TypeOK', FetchInv, Fault
  PROVE  FetchInv'
<1> USE BlocksAssumption, PipelineAssumption
<1>0. /\ QueueOK(chunks) /\ RowsOK(chunks) /\ To \in StartBlock..MaxHead
      /\ fetchMark \in Marks /\ digestMark \in Marks
  BY QueueInv, OneToFacts DEF TypeOK, TablesTypeOK, FetchInv
<1>1. CASE Crash
  BY <1>1, FetchDowns DEF Crash
<1>2. ASSUME NEW stop_at \in Stops, SeedingInterrupted(stop_at) PROVE FetchInv'
  <2>1. PICK through \in Resume..To, S \in SUBSET InState(chunks, "leased") : chunks' = Queued(chunks, Resume, To, through, S)
    BY <1>2, OneToFacts DEF SeedingInterrupted
  <2>2. Resume \in StartBlock..(MaxHead + 1) /\ through \in Int
    BY <1>0 DEF Resume, Marks
  <2>3. RowsOK(chunks')
    BY <1>0, <2>1, <2>2, QueuedRows
  <2>4. /\ UNCHANGED <<durable, unsynced, fetchMark, digestMark, origin, fetchVars>>
        /\ fetchPc = "off"
    BY <1>2 DEF SeedingInterrupted, archiveVars, markVars
  <2>5. ChunkEnds' /\ DoneDurable' /\ MarksOrdered' /\ WatermarkHonest'
    BY <2>3, <2>4, QueueInvNext DEF FetchInv, MarksOrdered, WatermarkHonest
  <2>6. Covered' /\ StageInv' /\ WorkerInv'
    BY <2>4 DEF FetchInv, Covered, StageInv, WorkerInv, fetchVars, To, NoBlock
  <2> QED BY <2>5, <2>6 DEF FetchInv
<1>3. ASSUME NEW u \in Froms, ResetInterrupted(u[1], u[2]) PROVE FetchInv'
  <2>1. /\ UNCHANGED <<durable, unsynced, chunks, fetchVars>> /\ fetchPc = "off"
        /\ u[2] \in Int /\ fetchMark' = u[2] - 1 /\ digestMark' = u[2] - 1 /\ origin' = u[2]
    BY <1>3 DEF NoDigestFrom, ResetInterrupted, ResetMarks, archiveVars, queueVars, Blocks
  <2>2. ChunkEnds' /\ DoneDurable' /\ MarksOrdered' /\ WatermarkHonest'
    BY <1>0, <2>1, QueueInvNext DEF FetchInv, MarksOrdered, WatermarkHonest
  <2>3. Covered' /\ StageInv' /\ WorkerInv'
    BY <2>1 DEF FetchInv, Covered, StageInv, WorkerInv, fetchVars, To, NoBlock
  <2> QED BY <2>2, <2>3 DEF FetchInv
<1> QED BY <1>1, <1>2, <1>3 DEF Fault

LEMMA FetchInit0 == Init => FetchInv
<1> SUFFICES ASSUME Init PROVE FetchInv
  OBVIOUS
<1> USE BlocksAssumption DEF Init, TablesInit, FetchInit
<1>1. ChunkEnds /\ DoneDurable /\ Covered
  BY DEF ChunkEnds, DoneDurable, Covered, InState, NoChunks
<1>2. StageInv /\ WorkerInv
  BY DEF StageInv, WorkerInv, At, NoBlock
<1>3. MarksOrdered /\ WatermarkHonest
  BY DEF MarksOrdered, WatermarkHonest
<1> QED BY <1>1, <1>2, <1>3 DEF FetchInv

(* Fetch's invariant, for every number of workers and blocks, every chunk   *)
(* size, batch and lag, and whatever is started, restarted and killed, as   *)
(* long as the index is asked for up to one finalized block and no          *)
(* `pif digest --from' pulls the queue from under the fetch stage.          *)
THEOREM FetchCorrect == ASSUME OneTo, NoDigestFrom PROVE Spec => []FetchInv
<1>1. TypeOK /\ TypeOK' /\ FetchInv /\ [Next]_vars => FetchInv'
  <2>1. FetchInv /\ UNCHANGED vars => FetchInv'
    BY FetchReadsNothing DEF vars, archiveVars, queueVars, markVars, MarksOrdered, FetchInv
  <2> QED BY <2>1, FetchRuns, FetchFaults DEF Next
<1> QED BY FetchInit0, <1>1, TypeCorrect, PTL DEF Spec

(* The fetch watermark never claims a block the disk does not hold          *)
(* (advance_fetch_watermark), under the same premises.                      *)
THEOREM Honest == ASSUME OneTo, NoDigestFrom PROVE Spec => []WatermarkHonest
<1>1. FetchInv => WatermarkHonest
  BY DEF FetchInv
<1> QED BY <1>1, FetchCorrect, PTL
--------------------------------------------------------------------------------
(***************************************************************************)
(* DigestInv step by step.  Premises is what the theorems below assume.    *)
(***************************************************************************)
Premises == OneTo /\ FromsWithIndex

Before == Premises /\ TypeOK /\ FetchInv /\ DigestInv

(* What the digest can commit is what the fetch watermark promised it. *)
LEMMA BatchArchived ==
  ASSUME Before, digestPc = "run", next <= ready
  PROVE  /\ BatchEnd \in next..fetchMark
         /\ next..BatchEnd \subseteq durable
         /\ Greater(digestMark, BatchEnd) = BatchEnd
         /\ CanCommit(next, BatchEnd)
<1> USE BlocksAssumption, DigestAssumption
<1>1. /\ next = digestMark + 1 /\ ready <= fetchMark /\ origin <= next
      /\ next \in Int /\ ready \in Int /\ digestMark \in Int /\ fetchMark \in Int /\ origin \in Int
      /\ origin..fetchMark \subseteq durable
  BY DEF Before, DigestInv, FetchInv, WatermarkHonest, TypeOK, TablesTypeOK, DigestTypeOK, Marks
<1>2. BatchEnd \in next..ready
  BY <1>1 DEF BatchEnd, Lesser
<1>3. next..BatchEnd \subseteq durable
  BY <1>1, <1>2
<1> QED BY <1>1, <1>2, <1>3 DEF CanCommit, Readable, Greater

(* What the fetch stage does to what the digest reads. *)
LEMMA FetchGrows ==
  ASSUME TypeOK, TypeOK', FetchStep
  PROVE  /\ UNCHANGED <<digestMark, rows, cursor, origin>>
         /\ durable \subseteq durable'
         /\ fetchMark <= fetchMark'
<1>0. fetchMark \in Int /\ fetchMark' \in Int
  BY BlocksAssumption DEF TypeOK, TablesTypeOK, Marks
<1>1. UNCHANGED <<digestMark, rows, cursor, origin>> /\ durable \subseteq durable'
  BY DEF FetchStep, WorkerStep, Claim, WorkerReturns, ArchiveBlock, SyncChunk, CompleteChunk,
         FindDoneEnd, AdvanceWatermark, WorkerFails, Reclaim, BackfillReturns, HeadBlock,
         ArchiveHead, AdvanceHead, archiveVars, markVars, indexVars
<1>2. fetchMark <= fetchMark'
  BY <1>0, BlocksAssumption
  DEF FetchStep, WorkerStep, Claim, WorkerReturns, ArchiveBlock, SyncChunk, CompleteChunk,
      FindDoneEnd, AdvanceWatermark, WorkerFails, Reclaim, BackfillReturns, HeadBlock,
      ArchiveHead, AdvanceHead, markVars, Greater, TypeOK, FetchTypeOK, Marks
<1> QED BY <1>1, <1>2

(* And what the end of a process does. *)
LEMMA DownLeaves ==
  ASSUME NEW which \in SUBSET Stages, Down(which)
  PROVE  /\ UNCHANGED <<digestMark, fetchMark, rows, cursor, origin>>
         /\ durable \subseteq durable'
         /\ digestPc' = "off" \/ UNCHANGED digestVars
  BY DEF Down, FetchDown, DigestDown, archiveVars, markVars, indexVars

(* The digest stage is not touched, and the archive only grows. *)
LEMMA DigestReadsArchive ==
  ASSUME Before, UNCHANGED <<digestMark, rows, cursor, origin, digestVars>>,
         durable \subseteq durable', fetchMark <= fetchMark', fetchMark' \in Int
  PROVE  DigestInv'
<1>1. fetchMark \in Int /\ ready \in Int
  BY BlocksAssumption DEF Before, TypeOK, TablesTypeOK, DigestTypeOK, Marks
<1>2. digestPc' = "run" => next' = digestMark' + 1 /\ ready' <= fetchMark'
  BY <1>1 DEF Before, DigestInv, digestVars
<1> QED BY <1>2 DEF Before, DigestInv, NoGaps, RowsReplayable, CursorInStep

(* Where the digest resumes, or begins again after --from. *)
LEMMA DigestStarts ==
  ASSUME Before, NEW mode \in Modes, NEW stop_at \in Stops, NEW start \in Int, NEW table,
         StartStages(mode, start, table, stop_at), UNCHANGED <<durable, rows, cursor>>,
         fetchMark' \in Marks, digestMark' = start - 1, origin' <= start,
         NoGaps', CursorInStep', mode = "fetch" => UNCHANGED <<fetchMark, digestMark>>
  PROVE  DigestInv'
<1> USE BlocksAssumption, PipelineAssumption
<1>1. RowsReplayable'
  BY DEF Before, DigestInv, RowsReplayable
<1>2. digestPc' = "run" => next' = digestMark' + 1 /\ ready' <= fetchMark'
  <2>1. CASE mode = "fetch"
    BY <2>1 DEF StartStages, Before, DigestInv, digestVars
  <2>2. CASE mode # "fetch"
    BY <2>2 DEF StartStages, StartDigest, Marks
  <2> QED BY <2>1, <2>2
<1> QED BY <1>1, <1>2 DEF DigestInv

LEMMA DigestRuns ==
  ASSUME Before, TypeOK', Run
  PROVE  DigestInv'
<1> USE BlocksAssumption, PipelineAssumption, DigestAssumption
<1>0. /\ fetchMark \in Int /\ digestMark \in Int /\ origin \in Int /\ ready \in Int
      /\ fetchMark' \in Marks /\ fetchMark' \in Int
  BY DEF Before, TypeOK, TablesTypeOK, DigestTypeOK, Marks
<1>1. ASSUME NEW mode \in Modes, NEW stop_at \in Stops, Start(mode, stop_at)
      PROVE  DigestInv'
  <2>1. UNCHANGED <<durable, fetchMark, digestMark, origin, rows, cursor>>
    BY <1>1 DEF Start, archiveVars, markVars, indexVars
  <2>2. Resume \in Int /\ digestMark' = Resume - 1 /\ origin' <= Resume
    BY <1>0, <2>1 DEF Resume, Before, DigestInv
  <2>3. NoGaps' /\ CursorInStep'
    BY <2>1 DEF Before, DigestInv, NoGaps, CursorInStep
  <2>4. StartStages(mode, Resume, chunks, stop_at)
    BY <1>1 DEF Start
  <2> QED BY <1>0, <2>1, <2>2, <2>3, <2>4, DigestStarts
<1>2. ASSUME NEW mode \in Modes, NEW stop_at \in Stops, NEW n \in Blocks,
             <<mode, n>> \in Froms, StartFrom(mode, stop_at, n)
      PROVE  DigestInv'
  <2>1. /\ UNCHANGED <<durable, rows, cursor>> /\ origin' = n
        /\ fetchMark' = n - 1 /\ digestMark' = n - 1
    BY <1>2 DEF StartFrom, ResetMarks, archiveVars, indexVars
  <2>2. n \in Int /\ digestMark' = n - 1 /\ origin' <= n /\ origin'..digestMark' = {}
    BY <2>1 DEF Blocks
  <2>3. NoGaps' /\ CursorInStep'
    BY <2>2 DEF NoGaps, CursorInStep
  <2>4. mode = "index"
    BY <1>2 DEF Before, Premises, FromsWithIndex
  <2> QED BY <1>0, <1>2, <2>1, <2>2, <2>3, <2>4, DigestStarts DEF StartFrom
<1>3. CASE FetchStep /\ UNCHANGED <<digestVars, joined>>
  BY <1>0, <1>3, FetchGrows, DigestReadsArchive DEF Before
<1>4. CASE DigestStep /\ UNCHANGED <<fetchVars, joined>>
  <2>1. UNCHANGED <<durable, fetchMark, origin>> /\ digestPc = "run"
    BY <1>4 DEF DigestStep, DigestPoll, DigestCommit, DigestReturns, archiveVars, markVars
  <2>2. next = digestMark + 1 /\ ready <= fetchMark /\ origin <= next /\ next \in Int /\ until \in Int
    BY <2>1 DEF Before, DigestInv, TypeOK, DigestTypeOK
  <2>3. CASE DigestCommit
    <3>1. /\ BatchEnd \in next..fetchMark /\ next..BatchEnd \subseteq durable
          /\ Greater(digestMark, BatchEnd) = BatchEnd
      BY <2>1, <2>3, BatchArchived DEF DigestCommit
    <3>2. /\ rows' = rows \cup next..BatchEnd /\ cursor' = BatchEnd /\ digestMark' = BatchEnd
          /\ next' = BatchEnd + 1 /\ UNCHANGED ready
      BY <2>3, <3>1 DEF DigestCommit, Commit
    <3>3. NoGaps'
      BY <1>0, <2>1, <2>2, <3>1, <3>2 DEF Before, DigestInv, NoGaps
    <3>4. RowsReplayable' /\ CursorInStep'
      BY <2>1, <3>1, <3>2 DEF Before, DigestInv, RowsReplayable, CursorInStep
    <3>5. next' = digestMark' + 1 /\ ready' <= fetchMark' /\ origin' <= digestMark' + 1
      BY <1>0, <2>1, <2>2, <3>1, <3>2
    <3> QED BY <3>3, <3>4, <3>5 DEF DigestInv
  <2>4. CASE DigestPoll \/ DigestReturns
    <3>1. UNCHANGED <<digestMark, rows, cursor, next>>
          /\ (digestPc' = "run" => ready' <= fetchMark')
      BY <1>0, <2>1, <2>2, <2>4
      DEF DigestPoll, DigestReturns, markVars, indexVars, Lesser
    <3> QED BY <2>1, <2>2, <3>1 DEF Before, DigestInv, NoGaps, RowsReplayable, CursorInStep
  <2> QED BY <1>4, <2>3, <2>4 DEF DigestStep
<1>5. ASSUME NEW which \in SUBSET Stages, Down(which) PROVE DigestInv'
  BY <1>0, <1>5, DownLeaves
  DEF Before, DigestInv, NoGaps, RowsReplayable, CursorInStep, digestVars
<1>6. CASE HeadGrows /\ UNCHANGED <<fetchVars, digestVars, joined>>
  BY <1>0, <1>6, DigestReadsArchive DEF HeadGrows, archiveVars, markVars, indexVars
<1> QED BY <1>1, <1>2, <1>3, <1>4, <1>5, <1>6 DEF Run, Finish, ChunksFailed, DigestFails

LEMMA DigestFaults ==
  ASSUME Before, TypeOK', Fault
  PROVE  DigestInv'
<1> USE BlocksAssumption, PipelineAssumption
<1>0. fetchMark \in Int /\ fetchMark' \in Int
  BY DEF Before, TypeOK, TablesTypeOK, Marks
<1>1. ASSUME NEW which \in SUBSET Stages, Down(which) PROVE DigestInv'
  BY <1>1, DownLeaves
  DEF Before, DigestInv, NoGaps, RowsReplayable, CursorInStep, digestVars
<1>2. ASSUME NEW stop_at \in Stops, SeedingInterrupted(stop_at) PROVE DigestInv'
  BY <1>0, <1>2, DigestReadsArchive DEF SeedingInterrupted, archiveVars, markVars, indexVars
<1>3. ASSUME NEW u \in Froms, ResetInterrupted(u[1], u[2]) PROVE DigestInv'
  <2>1. /\ UNCHANGED <<durable, rows, cursor, digestVars>> /\ digestPc = "off"
        /\ u[2] \in Int /\ fetchMark' = u[2] - 1 /\ digestMark' = u[2] - 1 /\ origin' = u[2]
    BY <1>3 DEF Before, Premises, FromsWithIndex, ResetInterrupted, ResetMarks, archiveVars,
                indexVars, Blocks
  <2>2. origin'..digestMark' = {} /\ origin' <= digestMark' + 1 /\ digestPc' = "off"
    BY <2>1 DEF digestVars
  <2> QED BY <2>1, <2>2 DEF Before, DigestInv, NoGaps, RowsReplayable, CursorInStep
<1> QED BY <1>1, <1>2, <1>3 DEF Fault, Crash

LEMMA DigestInit0 == Init => DigestInv
  BY BlocksAssumption
  DEF Init, TablesInit, DigestInit, DigestInv, NoGaps, RowsReplayable, CursorInStep

(* The digest's invariant: it works on the block after its watermark, has   *)
(* been promised no more than is fetched, and leaves no gap behind.         *)
THEOREM DigestCorrect == ASSUME Premises PROVE Spec => []DigestInv
<1>1. TypeOK /\ TypeOK' /\ FetchInv /\ DigestInv /\ [Next]_vars => DigestInv'
  <2>1. DigestInv /\ UNCHANGED vars => DigestInv'
    BY DEF vars, archiveVars, markVars, indexVars, digestVars, DigestInv, NoGaps,
           RowsReplayable, CursorInStep
  <2> QED BY <2>1, DigestRuns, DigestFaults DEF Next, Before
<1>2. Spec => []FetchInv
  BY FetchCorrect DEF Premises, FromsWithIndex, NoDigestFrom
<1> QED BY DigestInit0, <1>1, <1>2, TypeCorrect, PTL DEF Spec

(* The index has no gap from the origin to the digest watermark, whatever   *)
(* crashes, restarts and --from under `pif index' there are.                *)
THEOREM Gapless == ASSUME Premises PROVE Spec => []NoGaps
<1>1. DigestInv => NoGaps
  BY DEF DigestInv
<1> QED BY <1>1, DigestCorrect, PTL

(* No row describes a block a crash can still take from the archive.        *)
THEOREM Replayable == ASSUME Premises PROVE Spec => []RowsReplayable
<1>1. DigestInv => RowsReplayable
  BY DEF DigestInv
<1> QED BY <1>1, DigestCorrect, PTL

(* The digest never stops with BlockNotArchived and never meets the CHECK.  *)
THEOREM FindsItsBlocks == ASSUME Premises PROVE Spec => []DigestFindsItsBlocks
<1>1. TypeOK /\ FetchInv /\ DigestInv => DigestFindsItsBlocks
  BY BatchArchived DEF Before, DigestFindsItsBlocks
<1>2. Spec => []FetchInv
  BY FetchCorrect DEF Premises, FromsWithIndex, NoDigestFrom
<1> QED BY <1>1, <1>2, TypeCorrect, DigestCorrect, PTL

(* The cursor and the digest watermark agree. *)
THEOREM InStep == ASSUME Premises PROVE Spec => []CursorInStep
<1>1. DigestInv => CursorInStep
  BY DEF DigestInv
<1> QED BY <1>1, DigestCorrect, PTL
--------------------------------------------------------------------------------
(***************************************************************************)
(* BrakeInv step by step.  It needs no premise on the order of the stages: *)
(* the brake reads the digest watermark, which only grows.                 *)
(***************************************************************************)
(* The fetch stage and the archive are not touched. *)
LEMMA BrakeLoosens ==
  ASSUME TypeOK, TypeOK', BrakeInv, UNCHANGED <<durable, unsynced, fetchVars>>,
         digestMark <= digestMark'
  PROVE  BrakeInv'
<1>1. /\ digestMark \in Int /\ digestMark' \in Int /\ MaxLag \in Int
      /\ Readable \subseteq Int /\ \A w \in Workers : worker[w].last \in Int
  BY BlocksAssumption, FetchAssumption
  DEF TypeOK, TablesTypeOK, FetchTypeOK, WorkerState, Marks, Blocks, Readable
<1>2. \A b \in Int : b <= digestMark + MaxLag => b <= digestMark' + MaxLag
  <2>1. \A d, e, b \in Int : d <= e /\ b <= d + MaxLag => b <= e + MaxLag
    BY <1>1
  <2> QED BY <1>1, <2>1
<1>3. BrakeHolds'
  BY <1>1, <1>2 DEF BrakeInv, BrakeHolds, Readable
<1>4. \A w \in Workers : worker'[w].pc = "archive" => worker'[w].last <= brake_ceiling'
  BY <1>1, <1>2 DEF BrakeInv, brake_ceiling, fetchVars
<1> QED BY <1>3, <1>4 DEF BrakeInv, fetchVars, NoBlock

LEMMA BrakeStarts ==
  ASSUME NeverFollows, TypeOK, BrakeInv, NEW mode \in Modes, NEW stop_at \in Stops,
         NEW start \in Int, NEW table, StartStages(mode, start, table, stop_at),
         UNCHANGED <<durable, unsynced, digestMark>>
  PROVE  BrakeInv'
<1> USE BlocksAssumption, PipelineAssumption
<1>1. BrakeHolds' /\ brake_ceiling' = brake_ceiling
  BY DEF BrakeInv, BrakeHolds, Readable, brake_ceiling
<1>2. CASE mode = "digest"
  BY <1>1, <1>2 DEF StartStages, BrakeInv, fetchVars, NoBlock
<1>3. CASE mode # "digest"
  <2>1. Lesser(stop_at, head) = stop_at /\ stop_at \in Int
    BY DEF NeverFollows, TypeOK, TablesTypeOK, Lesser
  <2>2. /\ stop' = stop_at /\ ahead' = NoBlock /\ end' = stop_at
        /\ \/ fetchPc' = "backfill" /\ worker' = [w \in Workers |-> At("claim")]
           \/ fetchPc' = "returned" /\ worker' = [w \in Workers |-> At("off")]
    BY <1>3, <2>1 DEF StartStages, StartFetch, StartWorkers, AfterCatchUp
  <2>3. \A w \in Workers : worker'[w].pc # "archive"
    BY <2>2 DEF At
  <2> QED BY <1>1, <2>1, <2>2, <2>3 DEF BrakeInv, NoBlock
<1> QED BY <1>2, <1>3

LEMMA BrakeDowns ==
  ASSUME TypeOK, BrakeInv, NEW which \in SUBSET Stages, Down(which)
  PROVE  BrakeInv'
<1>1. UNCHANGED digestMark /\ Readable' \subseteq Readable
  BY DEF Down, FetchDown, archiveVars, markVars, Readable
<1>2. BrakeHolds' /\ brake_ceiling' = brake_ceiling
  BY <1>1 DEF BrakeInv, BrakeHolds, brake_ceiling
<1>3. CASE "fetch" \in which
  <2>1. /\ fetchPc' = "off" /\ ahead' = NoBlock
        /\ worker' = [w \in Workers |-> At("off")]
    BY <1>3 DEF Down, FetchDown
  <2> QED BY <1>2, <2>1 DEF BrakeInv, At, NoBlock
<1>4. CASE "fetch" \notin which
  BY <1>2, <1>4 DEF Down, BrakeInv, fetchVars, NoBlock
<1> QED BY <1>3, <1>4

LEMMA BrakeWorks ==
  ASSUME TypeOK, BrakeInv, NEW w \in Workers,
         \/ WorkerStep(w)
         \/ WorkerFails(w)
         \/ \E S \in SUBSET InState(chunks, "leased") : Reclaim(w, S)
  PROVE  BrakeInv'
<1> USE BlocksAssumption, FetchAssumption
<1> DEFINE k == worker[w]
<1>0. /\ k \in WorkerState /\ worker \in [Workers -> WorkerState]
      /\ QueueOK(chunks) /\ end \in Int /\ brake_ceiling \in Int
  BY DEF TypeOK, FetchTypeOK, TablesTypeOK, Marks, brake_ceiling
<1>1. /\ UNCHANGED <<fetchPc, stop, end, ahead, digestMark>>
      /\ \A v \in Workers \ {w} : worker'[v] = worker[v]
  BY <1>0 DEF WorkerStep, Claim, WorkerReturns, ArchiveBlock, SyncChunk, CompleteChunk,
         FindDoneEnd, AdvanceWatermark, WorkerFails, Reclaim, markVars, fetchVars, Set, Goto
<1>2. brake_ceiling' = brake_ceiling
  BY <1>1 DEF brake_ceiling
<1>a. ASSUME Readable' \subseteq Readable,
             worker'[w].pc = "archive" => worker'[w].last <= brake_ceiling
      PROVE  BrakeInv'
  BY <1>1, <1>2, <1>a DEF BrakeInv, BrakeHolds, NoBlock
<1>3. CASE Claim(w)
  <2>1. PICK f \in Lowest(chunks, brake_ceiling) :
          Set(w, [pc |-> "archive", from |-> f, last |-> Lesser(chunks[f].to, end), next |-> f,
                  attempts |-> chunks'[f].attempts])
    BY <1>3 DEF Claim
  <2>2. chunks[f].to <= brake_ceiling /\ chunks[f].to \in Int
    BY <1>0, <2>1 DEF Lowest, Claimable, InState, QueueOK, Blocks
  <2>3. worker'[w].last <= brake_ceiling
    BY <1>0, <2>1, <2>2 DEF Set, Lesser
  <2>4. Readable' = Readable
    BY <1>3 DEF Claim, archiveVars, Readable
  <2> QED BY <1>a, <2>3, <2>4
<1>4. CASE ArchiveBlock(w)
  <2>1. /\ Readable' = Readable \cup {k.next} /\ k.pc = "archive" /\ k.next <= k.last
        /\ worker'[w] = [k EXCEPT !.next = k.next + 1]
    BY <1>0, <1>4 DEF ArchiveBlock, Readable
  <2>2. k.last <= brake_ceiling
    BY <2>1 DEF BrakeInv
  <2>3. k.next <= brake_ceiling
    BY <1>0, <2>1, <2>2 DEF WorkerState, Marks
  <2>4. worker'[w].last = k.last
    BY <1>0, <2>1 DEF WorkerState
  <2>5. BrakeHolds'
    BY <1>1, <2>1, <2>3 DEF BrakeInv, BrakeHolds, brake_ceiling
  <2> QED BY <1>1, <1>2, <2>2, <2>4, <2>5 DEF BrakeInv, NoBlock
<1>5. CASE SyncChunk(w)
  <2>1. Readable' = Readable /\ worker'[w].pc = "synced"
    BY <1>0, <1>5 DEF SyncChunk, Goto, Readable, WorkerState
  <2> QED BY <1>a, <2>1
<1>6. CASE \/ WorkerReturns(w) \/ CompleteChunk(w) \/ FindDoneEnd(w) \/ AdvanceWatermark(w)
           \/ WorkerFails(w)
  <2>1. Readable' = Readable
    BY <1>6 DEF WorkerReturns, CompleteChunk, FindDoneEnd, AdvanceWatermark, WorkerFails,
                archiveVars, Readable
  <2>2. worker'[w].pc # "archive"
    BY <1>0, <1>6 DEF WorkerReturns, CompleteChunk, FindDoneEnd, AdvanceWatermark, WorkerFails,
                      Set, Goto, At, WorkerState
  <2> QED BY <1>a, <2>1, <2>2
<1>7. CASE \E S \in SUBSET InState(chunks, "leased") : Reclaim(w, S)
  <2>1. UNCHANGED <<durable, unsynced, worker>>
    BY <1>7 DEF Reclaim, archiveVars, fetchVars
  <2> QED BY <1>a, <2>1 DEF BrakeInv, Readable
<1> QED BY <1>3, <1>4, <1>5, <1>6, <1>7 DEF WorkerStep

LEMMA BrakeSteps ==
  ASSUME NeverFollows, NoFrom, TypeOK, TypeOK', BrakeInv, [Next]_vars
  PROVE  BrakeInv'
<1> USE BlocksAssumption, PipelineAssumption
<1>0. digestMark \in Int /\ digestMark' \in Int
  BY DEF TypeOK, TablesTypeOK, Marks
<1>1. ASSUME NEW mode \in Modes, NEW stop_at \in Stops, Start(mode, stop_at)
      PROVE  BrakeInv'
  <2>1. StartStages(mode, Resume, chunks, stop_at) /\ UNCHANGED <<durable, unsynced, digestMark>>
    BY <1>1 DEF Start, archiveVars, markVars
  <2> QED BY <1>0, <2>1, BrakeStarts DEF Resume
<1>2. CASE FetchStep
  <2>1. CASE BackfillReturns
    <3>1. UNCHANGED <<durable, unsynced, digestMark, stop, end, ahead>>
      BY <2>1 DEF BackfillReturns, archiveVars, markVars
    <3>2. fetchPc' = "returned" /\ worker' = [w \in Workers |-> At("off")]
      BY <2>1 DEF BackfillReturns, AfterCatchUp, BrakeInv
    <3> QED BY <3>1, <3>2 DEF BrakeInv, BrakeHolds, Readable, At, NoBlock
  <2>2. \/ BackfillReturns
        \/ \E w \in Workers : \/ WorkerStep(w)
                              \/ WorkerFails(w)
                              \/ \E S \in SUBSET InState(chunks, "leased") : Reclaim(w, S)
    BY <1>2 DEF FetchStep, HeadBlock, ArchiveHead, AdvanceHead, BrakeInv
  <2> QED BY <2>1, <2>2, BrakeWorks
<1>3. CASE DigestStep /\ UNCHANGED <<fetchVars, joined>>
  <2>1. UNCHANGED <<durable, unsynced>> /\ digestMark <= digestMark'
    BY <1>0, <1>3 DEF DigestStep, DigestPoll, DigestCommit, DigestReturns, Commit, Greater,
                      archiveVars, markVars, TypeOK, DigestTypeOK
  <2> QED BY <1>3, <2>1, BrakeLoosens
<1>4. CASE Finish \/ ChunksFailed \/ DigestFails \/ Crash
  BY <1>4, BrakeDowns DEF Finish, ChunksFailed, DigestFails, Crash
<1>5. ASSUME \/ HeadGrows /\ UNCHANGED <<fetchVars, digestVars, joined>>
             \/ \E stop_at \in Stops : SeedingInterrupted(stop_at)
             \/ UNCHANGED vars
      PROVE  BrakeInv'
  <2>1. UNCHANGED <<durable, unsynced, digestMark, fetchVars>>
    BY <1>5 DEF HeadGrows, SeedingInterrupted, vars, archiveVars, markVars
  <2> QED BY <1>0, <2>1, BrakeLoosens
<1> QED BY <1>1, <1>2, <1>3, <1>4, <1>5 DEF Next, Run, Fault, NoFrom

LEMMA BrakeInit0 == Init => BrakeInv
  BY DEF Init, TablesInit, FetchInit, BrakeInv, BrakeHolds, Readable, At

(* No block is archived further ahead of the digest than max_lag allows,    *)
(* however long a worker takes over the chunk it claimed, and whatever       *)
(* crashes and restarts there are (brake_ceiling, claim_chunk).             *)
THEOREM Braked == ASSUME NeverFollows, NoFrom PROVE Spec => []BrakeHolds
<1>1. TypeOK /\ TypeOK' /\ BrakeInv /\ [Next]_vars => BrakeInv'
  BY BrakeSteps
<1>2. BrakeInv => BrakeHolds
  BY DEF BrakeInv
<1> QED BY BrakeInit0, <1>1, <1>2, TypeCorrect, PTL DEF Spec
--------------------------------------------------------------------------------
(***************************************************************************)
(* The refinement: every step is a step of TwoStage or changes nothing of  *)
(* what TwoStage sees.                                                     *)
(***************************************************************************)
AbstractVars == <<durable, fetchMark, digestMark, rows, origin>>

LEMMA AbstractFetch ==
  ASSUME TypeOK, TypeOK', WatermarkHonest', FetchStep
  PROVE  Abstract!Next \/ UNCHANGED AbstractVars
<1> USE BlocksAssumption DEF AbstractVars, archiveVars, markVars, indexVars
<1>0. fetchMark \in Marks /\ fetchMark' \in Marks /\ durable' \subseteq Blocks
  BY DEF TypeOK, TablesTypeOK
<1>1. UNCHANGED <<digestMark, rows, origin>>
  BY DEF FetchStep, WorkerStep, Claim, WorkerReturns, ArchiveBlock, SyncChunk,
         CompleteChunk, FindDoneEnd, AdvanceWatermark, WorkerFails, Reclaim, BackfillReturns, HeadBlock,
         ArchiveHead, AdvanceHead
<1>2. CASE UNCHANGED durable
  <2>1. ASSUME fetchMark < fetchMark' PROVE Abstract!Publish
    BY <1>0, <1>1, <1>2, <2>1 DEF Abstract!Publish, Blocks, Marks, WatermarkHonest
  <2>2. fetchMark <= fetchMark'
    BY <1>0 DEF FetchStep, WorkerStep, Claim, WorkerReturns, ArchiveBlock, SyncChunk,
         CompleteChunk, FindDoneEnd, AdvanceWatermark, WorkerFails, Reclaim, BackfillReturns, HeadBlock,
         ArchiveHead, AdvanceHead, Greater, TypeOK, FetchTypeOK, Marks
  <2> QED BY <1>0, <1>1, <1>2, <2>1, <2>2 DEF Abstract!Next, Marks
<1>3. CASE durable' # durable
  <2>1. durable \subseteq durable' /\ UNCHANGED fetchMark
    BY <1>3 DEF FetchStep, WorkerStep, Claim, WorkerReturns, ArchiveBlock, SyncChunk,
         CompleteChunk, FindDoneEnd, AdvanceWatermark, WorkerFails, Reclaim, BackfillReturns, HeadBlock,
         ArchiveHead, AdvanceHead
  <2> QED BY <1>0, <1>1, <2>1 DEF Abstract!Next, Abstract!Archive
<1> QED BY <1>2, <1>3

LEMMA AbstractDigest ==
  ASSUME Before, TypeOK', DigestStep
  PROVE  Abstract!Next \/ UNCHANGED AbstractVars
<1> USE BlocksAssumption DEF AbstractVars, archiveVars, markVars, indexVars
<1>1. CASE DigestPoll \/ DigestReturns
  BY <1>1 DEF DigestPoll, DigestReturns
<1>2. CASE DigestCommit
  <2>1. /\ BatchEnd \in next..fetchMark /\ Greater(digestMark, BatchEnd) = BatchEnd
        /\ next = digestMark + 1 /\ digestMark \in Marks /\ fetchMark \in Marks
    BY <1>2, BatchArchived
    DEF DigestCommit, Before, DigestInv, TypeOK, TablesTypeOK
  <2>2. /\ rows' = rows \cup (digestMark + 1)..BatchEnd /\ digestMark' = BatchEnd
        /\ UNCHANGED <<durable, fetchMark, origin>>
    BY <1>2, <2>1 DEF DigestCommit, Commit
  <2>3. BatchEnd \in Blocks /\ digestMark < BatchEnd /\ BatchEnd <= fetchMark
    BY <2>1 DEF Blocks, Marks
  <2> QED BY <2>2, <2>3 DEF Abstract!Next, Abstract!Index
<1> QED BY <1>1, <1>2 DEF DigestStep

LEMMA AbstractStep ==
  ASSUME Before, TypeOK', WatermarkHonest', [Next]_vars
  PROVE  [Abstract!Next]_AbstractVars
<1> USE BlocksAssumption, PipelineAssumption
    DEF AbstractVars, archiveVars, queueVars, markVars, indexVars
<1>1. ASSUME NEW which \in SUBSET Stages, Down(which)
      PROVE  Abstract!Next \/ UNCHANGED AbstractVars
  <2>1. /\ UNCHANGED <<digestMark, fetchMark, rows, origin>>
        /\ durable \subseteq durable' /\ durable' \subseteq Blocks
    BY <1>1 DEF Down, FetchDown, TypeOK, TablesTypeOK
  <2> QED BY <2>1 DEF Abstract!Next, Abstract!Archive
<1>2. ASSUME NEW n \in Blocks, ResetMarks(n) PROVE Abstract!Next
  BY <1>2 DEF ResetMarks, Abstract!Next, Abstract!Redo
<1>3. CASE Run
  <2>1. CASE \E mode \in Modes, stop_at \in Stops :
               \/ Start(mode, stop_at)
               \/ \E n \in Blocks : <<mode, n>> \in Froms /\ StartFrom(mode, stop_at, n)
    BY <2>1, <1>2 DEF Start, StartFrom
  <2>2. CASE FetchStep \/ DigestStep
    BY <2>2, AbstractFetch, AbstractDigest DEF Before
  <2>3. CASE Finish \/ ChunksFailed \/ DigestFails
    BY <2>3, <1>1 DEF Finish, ChunksFailed, DigestFails
  <2>4. CASE HeadGrows
    BY <2>4 DEF HeadGrows
  <2> QED BY <1>3, <2>1, <2>2, <2>3, <2>4 DEF Run
<1>4. CASE Fault
  <2>1. ASSUME NEW u \in Froms, ResetInterrupted(u[1], u[2]) PROVE Abstract!Next
    BY <1>2, <2>1 DEF ResetInterrupted
  <2> QED BY <1>1, <1>4, <2>1 DEF Fault, Crash, SeedingInterrupted
<1>5. CASE UNCHANGED vars
  BY <1>5 DEF vars
<1> QED BY <1>3, <1>4, <1>5 DEF Next

(* The pipeline of workers, leases, batches, processes and crashes is an     *)
(* implementation of the two-stage index.                                    *)
THEOREM Implements == ASSUME Premises PROVE Spec => ImplementsTwoStage
<1>1. Init => Abstract!Init
  BY DEF Init, TablesInit, Abstract!Init
<1>2. TypeOK /\ TypeOK' /\ FetchInv /\ WatermarkHonest' /\ DigestInv /\ [Next]_vars
        => [Abstract!Next]_(Abstract!vars)
  BY AbstractStep DEF Before, AbstractVars, Abstract!vars
<1>3. Spec => []FetchInv
  BY FetchCorrect DEF Premises, FromsWithIndex, NoDigestFrom
<1>4. Spec => []WatermarkHonest
  BY Honest DEF Premises, FromsWithIndex, NoDigestFrom
<1> QED BY <1>1, <1>2, <1>3, <1>4, TypeCorrect, DigestCorrect, PTL
     DEF Spec, ImplementsTwoStage, Abstract!Spec

-----------------------------------------------------------------------------
(***************************************************************************)
(* A replay beside the pipeline, for an index that is asked for up to one  *)
(* finalized block (OneTo) and no --from.  With --from the archive below   *)
(* the origin is not what the marks speak of, and a replay there can find  *)
(* blocks that are not synced.                                             *)
(***************************************************************************)
ReplayPremises == OneTo /\ NoFrom

ReplayTypeOK ==
  /\ TypeOK
  /\ replayNext \in StartBlock..(MaxHead + 1)
  /\ replayTo \in Marks

(* FetchInv, and of the digest only that it believes a fetch watermark it   *)
(* has read: a replay moves the digest watermark past the digest's next.    *)
ReplayInv ==
  /\ FetchInv
  /\ origin = StartBlock
  /\ digestPc = "run" => ready <= fetchMark
  /\ ReplayStaysArchived

(* What can be committed is durable, whoever commits it. *)
LEMMA CommitsArchived ==
  ASSUME TypeOK, ReplayInv, NEW from \in Int, NEW to \in Int, StartBlock <= from,
         to <= fetchMark
  PROVE  from..to \subseteq durable
  BY BlocksAssumption DEF TypeOK, TablesTypeOK, Marks, ReplayInv, FetchInv, WatermarkHonest

LEMMA CommitKeeps ==
  ASSUME TypeOK, ReplayInv, NEW from \in Int, NEW to \in Int, StartBlock <= from,
         Commit(from, to)
  PROVE  /\ rows' \subseteq durable /\ \A b \in rows' : b <= fetchMark
         /\ digestMark' <= fetchMark
<1>1. fetchMark \in Int /\ digestMark \in Int
  BY BlocksAssumption DEF TypeOK, TablesTypeOK, Marks
<1>2. to <= fetchMark /\ digestMark' <= fetchMark /\ rows' = rows \cup from..to
  BY <1>1 DEF Commit, CanCommit, Greater
<1>3. from..to \subseteq durable
  BY <1>2, CommitsArchived
<1>4. \A b \in from..to : b <= fetchMark
  BY <1>1, <1>2
<1> QED BY <1>2, <1>3, <1>4 DEF ReplayInv, ReplayStaysArchived

LEMMA ReplayRange ==
  ASSUME ReplayTypeOK, Replaying
  PROVE  /\ replayNext \in Blocks /\ ReplayEnd \in replayNext..replayTo
         /\ ReplayEnd \in Blocks /\ ReplayEnd + 1 \in StartBlock..(MaxHead + 1)
  BY BlocksAssumption, DigestAssumption
  DEF ReplayTypeOK, Replaying, ReplayEnd, Lesser, Marks, Blocks

LEMMA ReplayTyped ==
  ASSUME ReplayTypeOK, ReplayNextStep
  PROVE  ReplayTypeOK'
<1> USE BlocksAssumption
<1>1. CASE Next /\ UNCHANGED replayVars
  BY <1>1, RunTyped, FaultTyped DEF Next, ReplayTypeOK, replayVars, Marks
<1>2. CASE (\E r \in Replays : ReplayStart(r)) \/ ReplayStops
  <2>1. UNCHANGED vars
    BY <1>2 DEF ReplayStart, ReplayStops
  <2>2. TypeOK'
    BY <2>1, StutterTyped DEF ReplayTypeOK
  <2>3. replayNext' \in StartBlock..(MaxHead + 1) /\ replayTo' \in Marks
    <3>1. ASSUME NEW r \in Replays, ReplayStart(r)
          PROVE  replayNext' \in StartBlock..(MaxHead + 1) /\ replayTo' \in Marks
      BY <3>1, ReplayAssumption DEF ReplayStart, Blocks, Marks
    <3> QED BY <1>2, <3>1 DEF ReplayStops, Marks
  <2> QED BY <2>2, <2>3 DEF ReplayTypeOK
<1>3. CASE ReplayCommit
  <2>1. /\ replayNext \in Blocks /\ ReplayEnd \in Blocks
        /\ ReplayEnd + 1 \in StartBlock..(MaxHead + 1)
    BY <1>3, ReplayRange DEF ReplayCommit
  <2>2. rows' \subseteq Blocks /\ cursor' \in Marks /\ digestMark' \in Marks
    BY <1>3, <2>1 DEF ReplayCommit, Commit, CanCommit, Greater, ReplayTypeOK, TypeOK,
                      TablesTypeOK, Marks, Blocks
  <2>3. FetchTypeOK' /\ DigestTypeOK' /\ joined' \in BOOLEAN /\ QueueOK(chunks)'
    BY <1>3 DEF ReplayCommit, ReplayTypeOK, TypeOK, TablesTypeOK, FetchTypeOK, DigestTypeOK,
                QueueOK, fetchVars, digestVars, queueVars
  <2>4. TablesTypeOK'
    BY <1>3, <2>2, <2>3 DEF ReplayCommit, ReplayTypeOK, TypeOK, TablesTypeOK, archiveVars
  <2> QED BY <1>3, <2>1, <2>3, <2>4 DEF ReplayCommit, ReplayTypeOK, TypeOK
<1> QED BY <1>1, <1>2, <1>3 DEF ReplayNextStep

(* The pipeline's own steps. *)
LEMMA PipelineKeeps ==
  ASSUME ReplayPremises, TypeOK, TypeOK', ReplayInv, Next
  PROVE  ReplayInv'
<1> USE BlocksAssumption, PipelineAssumption, DigestAssumption
<1>0. /\ fetchMark \in Int /\ fetchMark' \in Int /\ ready \in Int /\ rows \subseteq Int
      /\ until \in Int /\ next \in Int /\ StartBlock <= next
  BY DEF TypeOK, TablesTypeOK, DigestTypeOK, Marks, Blocks
<1>1. FetchInv'
  <2>1. OneTo /\ NoDigestFrom
    BY DEF ReplayPremises, NoFrom, NoDigestFrom
  <2> QED BY <2>1, FetchRuns, FetchFaults DEF Next, ReplayInv
<1>a. ASSUME UNCHANGED <<rows, origin>>, durable \subseteq durable', fetchMark <= fetchMark',
             digestPc' = "run" => ready' <= fetchMark'
      PROVE  ReplayInv'
  BY <1>0, <1>1, <1>a DEF ReplayInv, ReplayStaysArchived
<1>2. ASSUME NEW mode \in Modes, NEW stop_at \in Stops, Start(mode, stop_at)
      PROVE  ReplayInv'
  <2>1. digestPc' = "run" => ready' <= fetchMark'
    BY <1>0, <1>2 DEF Start, StartStages, StartDigest, ReplayInv, digestVars, markVars,
                      TypeOK, TablesTypeOK, Marks
  <2> QED BY <1>2, <1>a, <1>0, <2>1 DEF Start, archiveVars, markVars, indexVars
<1>3. CASE FetchStep /\ UNCHANGED <<digestVars, joined>>
  <2>1. digestPc' = "run" => ready' <= fetchMark'
    BY <1>0, <1>3, FetchGrows DEF ReplayInv, digestVars
  <2> QED BY <1>3, <1>a, <2>1, FetchGrows
<1>4. CASE DigestStep /\ UNCHANGED <<fetchVars, joined>>
  <2>1. UNCHANGED <<durable, fetchMark, origin>>
    BY <1>4 DEF DigestStep, DigestPoll, DigestCommit, DigestReturns, archiveVars, markVars
  <2>2. CASE DigestCommit
    <3>1. BatchEnd \in Int /\ Commit(next, BatchEnd) /\ UNCHANGED ready
          /\ ready <= fetchMark
      BY <1>0, <2>2 DEF DigestCommit, BatchEnd, Lesser, ReplayInv
    <3>2. ReplayStaysArchived'
      BY <1>0, <2>1, <3>1, CommitKeeps DEF ReplayStaysArchived
    <3> QED BY <1>1, <2>1, <3>1, <3>2 DEF ReplayInv
  <2>3. CASE DigestPoll \/ DigestReturns
    <3>1. UNCHANGED rows /\ (digestPc' = "run" => ready' <= fetchMark')
      BY <1>0, <2>1, <2>3 DEF DigestPoll, DigestReturns, indexVars, Lesser, ReplayInv
    <3> QED BY <1>0, <1>a, <2>1, <3>1
  <2> QED BY <1>4, <2>2, <2>3 DEF DigestStep
<1>5. ASSUME NEW which \in SUBSET Stages, Down(which) PROVE ReplayInv'
  <2>1. digestPc' = "run" => ready' <= fetchMark'
    BY <1>5, DownLeaves DEF ReplayInv, digestVars
  <2> QED BY <1>0, <1>5, <1>a, <2>1, DownLeaves
<1>6. CASE HeadGrows /\ UNCHANGED <<fetchVars, digestVars, joined>>
  BY <1>0, <1>6, <1>a DEF HeadGrows, archiveVars, markVars, indexVars, ReplayInv, digestVars
<1>7. ASSUME NEW stop_at \in Stops, SeedingInterrupted(stop_at) PROVE ReplayInv'
  BY <1>0, <1>7, <1>a
  DEF SeedingInterrupted, archiveVars, markVars, indexVars, ReplayInv, digestVars
<1> QED BY <1>2, <1>3, <1>4, <1>5, <1>6, <1>7
     DEF Next, Run, Fault, Crash, Finish, ChunksFailed, DigestFails, ReplayPremises, NoFrom

(* The replay's. *)
LEMMA ReplayKeeps ==
  ASSUME ReplayTypeOK, ReplayInv,
         ReplayCommit \/ ReplayStops \/ \E r \in Replays : ReplayStart(r)
  PROVE  ReplayInv'
<1>1. CASE ReplayStops \/ \E r \in Replays : ReplayStart(r)
  <2>1. UNCHANGED vars
    BY <1>1 DEF ReplayStart, ReplayStops
  <2>2. FetchInv'
    BY <2>1, FetchReadsNothing
    DEF vars, archiveVars, queueVars, markVars, MarksOrdered, FetchInv, ReplayInv
  <2> QED BY <2>1, <2>2
       DEF vars, archiveVars, markVars, indexVars, digestVars, ReplayInv, ReplayStaysArchived
<1>2. CASE ReplayCommit
  <2>1. replayNext \in Int /\ ReplayEnd \in Int /\ StartBlock <= replayNext
    BY <1>2, ReplayRange, BlocksAssumption DEF ReplayCommit, Blocks
  <2>2. /\ UNCHANGED <<durable, unsynced, chunks, fetchMark, origin, fetchVars, ready, digestPc>>
        /\ Commit(replayNext, ReplayEnd)
    BY <1>2 DEF ReplayCommit, archiveVars, queueVars, digestVars
  <2>3. ReplayStaysArchived' /\ MarksOrdered'
    BY <2>1, <2>2, CommitKeeps DEF ReplayTypeOK, ReplayStaysArchived, MarksOrdered
  <2>4. FetchInv'
    BY <2>2, <2>3, FetchReadsNothing DEF ReplayInv
  <2> QED BY <2>2, <2>3, <2>4 DEF ReplayInv
<1> QED BY <1>1, <1>2

LEMMA ReplayInit0 == ReplayInit => ReplayTypeOK /\ ReplayInv
<1> SUFFICES ASSUME ReplayInit PROVE ReplayTypeOK /\ ReplayInv
  OBVIOUS
<1>1. TypeOK /\ FetchInv
  BY InitTyped, FetchInit0 DEF ReplayInit
<1> QED BY <1>1, BlocksAssumption
     DEF ReplayInit, Init, TablesInit, DigestInit, ReplayTypeOK, ReplayInv,
         ReplayStaysArchived, Marks

LEMMA ReplayStutters ==
  ASSUME ReplayTypeOK, ReplayInv, UNCHANGED allVars
  PROVE  ReplayTypeOK' /\ ReplayInv'
<1>1. UNCHANGED vars /\ UNCHANGED replayVars
  BY DEF allVars
<1>2. TypeOK'
  BY <1>1, StutterTyped DEF ReplayTypeOK
<1>3. FetchInv'
  BY <1>1, FetchReadsNothing
  DEF vars, archiveVars, queueVars, markVars, MarksOrdered, FetchInv, ReplayInv
<1> QED BY <1>1, <1>2, <1>3
     DEF ReplayTypeOK, replayVars, vars, archiveVars, markVars, indexVars, digestVars,
         ReplayInv, ReplayStaysArchived

(* Fetch's invariant and the two of the rows, with a replay at any moment.  *)
THEOREM ReplayCorrect ==
  ASSUME ReplayPremises PROVE ReplaySpec => [](ReplayTypeOK /\ ReplayInv)
<1>1. ReplayTypeOK /\ ReplayInv /\ [ReplayNextStep]_allVars => (ReplayTypeOK /\ ReplayInv)'
  <2> SUFFICES ASSUME ReplayTypeOK, ReplayInv, [ReplayNextStep]_allVars
               PROVE  ReplayTypeOK' /\ ReplayInv'
    OBVIOUS
  <2>1. CASE ReplayNextStep
    <3>1. ReplayTypeOK'
      BY <2>1, ReplayTyped
    <3> QED BY <2>1, <3>1, PipelineKeeps, ReplayKeeps DEF ReplayNextStep, ReplayTypeOK
  <2> QED BY <2>1, ReplayStutters
<1> QED BY ReplayInit0, <1>1, PTL DEF ReplaySpec

(* `pif replay' beside the pipeline: every row is one that can be replayed   *)
(* from disk again and lies below the fetch watermark, whatever ranges are   *)
(* replayed, in whatever order, and whatever crashes.                        *)
THEOREM ReplayArchived == ASSUME ReplayPremises PROVE ReplaySpec => []ReplayStaysArchived
<1>1. ReplayInv => ReplayStaysArchived
  BY DEF ReplayInv
<1> QED BY <1>1, ReplayCorrect, PTL

(* And the digest stage beside it never stops with BlockNotArchived and     *)
(* never meets the CHECK, though the replay moves its watermark.            *)
THEOREM ReplayFindsItsBlocks ==
  ASSUME ReplayPremises PROVE ReplaySpec => []DigestFindsItsBlocks
<1>1. ReplayTypeOK /\ ReplayInv => DigestFindsItsBlocks
  <2> SUFFICES ASSUME ReplayTypeOK, ReplayInv, digestPc = "run", next <= ready
               PROVE  CanCommit(next, BatchEnd)
    BY DEF DigestFindsItsBlocks
  <2>1. /\ next \in Int /\ ready \in Int /\ fetchMark \in Int /\ digestMark \in Int
        /\ StartBlock <= next /\ ready <= fetchMark /\ digestMark <= fetchMark
    BY BlocksAssumption
    DEF ReplayTypeOK, TypeOK, TablesTypeOK, DigestTypeOK, Marks, ReplayInv, FetchInv, MarksOrdered
  <2>2. BatchEnd \in Int /\ BatchEnd <= fetchMark
    BY <2>1, DigestAssumption DEF BatchEnd, Lesser
  <2>3. next..BatchEnd \subseteq durable
    BY <2>1, <2>2, CommitsArchived DEF ReplayTypeOK
  <2> QED BY <2>1, <2>2, <2>3 DEF CanCommit, Readable, Greater
<1> QED BY <1>1, ReplayCorrect, PTL

(* Nor does a replay make the fetch watermark claim a block that is lost.   *)
THEOREM ReplayHonest == ASSUME ReplayPremises PROVE ReplaySpec => []WatermarkHonest
<1>1. ReplayInv => WatermarkHonest
  BY DEF ReplayInv, FetchInv
<1> QED BY <1>1, ReplayCorrect, PTL
================================================================================
