# Verification of the Polkadot indexer

TLA+ modules, TLC configurations and TLAPS proofs for the indexer in
`src/crates`. The program archives finalized blocks of a Substrate chain
(*fetch*), decodes what it archived into Postgres (*digest*), and moves old
segments of the archive to a cold tier. What makes it hard is that the parts
share nothing but files and Postgres rows, may be separate processes, may be
killed at any point, and are meant to resume without a gap.

## 1. The system

### Components, their state and their operations

| component | state | operations | modelled by |
|---|---|---|---|
| fetch work queue, `pif-db/src/repo.rs` | `fetch_chunks`: first block → last block, state, attempts, lease | `seed_chunks`, `reset_chunks`, `claim_chunk`, `complete_chunk`, `release_chunk`, `fail_chunk`, `reclaim_expired_chunks`, `contiguous_done_end`, `chunk_counts` | `ChunkQueue` |
| watermarks and cursor, `repo.rs` | `pipeline_watermarks` (fetch, digest, archive), `indexer_state` | `init_watermarks`, `reset_watermarks`, `advance_*_watermark`, `update_cursor` | `Tables` (archive watermark: `Archive`) |
| fetch stage, `pif-chain/src/fetch.rs` | one worker loop per endpoint, the head stream | `run`, `backfill`, `worker`, `archive_chunk`, `advance_watermark`, `follow_head` | `Fetch` |
| digest stage, `digest.rs` | next block, the fetch watermark last read | `run`, `commit`, `replay_range` | `Digest`, `Replay` |
| processes, `pipeline.rs`, `pif-cli` | which stages run | `pif index`, `fetch`, `digest`, `replay`; `resolve_start` | `Pipeline`, `Replay` |
| segment files and store, `pif-store/src/segment.rs`, `segstore.rs` | data and index file per segment, hot and cold directory, open writers | `put`, `get`, `sync`, `contiguous_end`, `copy_to_cold`, `drop_hot` | `SegmentFile`, `Archive` |
| tiering, `pif-chain/src/tiering.rs` | `segments` rows, archive watermark | `pass`, `tier_archive` | `Archive` |
| capture and metadata, `fetch.rs` `capture`, `ensure_metadata`, `metadata.rs`, `archive.rs` | `seen_runtimes`, metadata files, `runtime_versions`, the digest's client and loaded metadata | resolve a block's runtime, fetch and keep its metadata once, archive the block under it, decode it | `Capture` |
| decoding, `decode.rs`, inserts of `repo.rs` | `blocks`, `extrinsics`, `events` | `decode_core`, `record_outcome`, `write_blocks_in_tx` | `Decoding` |
| rate limiter and breaker, `limiter.rs` | rate, tokens, failures, state of the breaker, backoff | `poll`, `succeeded`, `failed`, `refill` | `Limiter` |
| endpoint pool and identity guard, `client.rs`, `pipeline.rs` | the pool of a command, the stored genesis | `connect_all`, `guard_chain_identity`, `upsert_chain` | `Endpoints` |
| storage read cache, `cache.rs` of `pif-chain` and `pif-store` | answers by block and key, absences too | `fetch`, `persist`, `sync` | `ReadCache`, `Projection` |
| light client path, `pipeline.rs` `follow_head` | none of its own | `index_one`, `persist` | `Projection` |
| identity projection, `pif-identity` | registrations valid over block ranges, usernames, subs | sync from state at a block, bootstrap, the readers | `Identity`, `Projection` |
| configuration, `config.rs` | the file, the configuration in use | parse, resolve, validate | `Settings` |
| GraphQL, the end-to-end tests | | read-only queries | not modelled, see section 6 |

### Interactions

* Fetch and digest meet in two numbers of one row. Fetch writes
  `fetch_watermark`; digest reads it and writes `digest_watermark`; fetch reads
  that one back as its brake (`brake_ceiling`). A CHECK keeps digest at or below
  fetch.
* Workers, of one process or of several, meet in `fetch_chunks`: a claim is one
  statement with `FOR UPDATE SKIP LOCKED`, everything after it is an UPDATE by
  key.
* The archive on disk is written by fetch and read by digest and replay. It is
  synced once a chunk, before the chunk is completed.
* A replay shares `commit` with the digest stage: same rows, same cursor, same
  watermark.

### What is hard, and what makes each part correct

* *Queue.* Chunks end in any order, restarts tile the range anew from another
  block, leases run out under living workers. Correct when the prefix of done
  chunks never steps over a block that is not on disk.
* *Fetch.* A kill between two of: write, sync, complete, read the prefix, write
  the watermark. Correct when the watermark is honest (`WatermarkHonest`), the
  archive stays within the brake (`BrakeHolds`), and everything asked for arrives
  (`ArchiveRecovers`, `EventuallyIndexed`).
* *Digest.* Works on a mark read earlier. Correct when it leaves no gap
  (`NoGaps`), commits nothing a crash could take from disk (`RowsReplayable`),
  always finds what it was promised (`DigestFindsItsBlocks`), and keeps the
  cursor in step (`CursorInStep`).
* *Both.* The stages must not wait on each other, and a chunk that is given up on
  must stop the process (`GivesUp`; the brake may prevent that, `FailureStops`).
* *Replay.* Writes to the tables of a pipeline that runs.
* *Store and tiering.* A block is two writes to two files, a segment is sealed
  only when a later one is begun, a pass moves files under readers and writers,
  and late workers put blocks again that are synced, digested or tiered. Correct
  when what was synced can be read for ever (`ReadsBack`), a
  torn append reads as absent (`TornReadsAbsent`), rows and mark of the cold
  tier describe what is there (`RecordsTrue`, `ArchivedPrefix`), and the store's
  own account of itself is right (`StatusTrue`).
* *Capture.* A runtime is looked at once for a whole backfill, by whichever
  worker meets it first, and a node reports the wrong one for a block that
  upgrades it. Correct when every block is decoded with the metadata of the
  runtime that executed it (`DecodesTrue`) and that metadata comes
  (`DecodableUnlessFailed`), whole and the best on offer, which the code does not
  always see to (`MetadataArchived`, `NeverHalfWritten`, `BestOffered`).
* *Limiter.* Time, a moving rate, three states, and a worker that holds a chunk.
  Correct when a node is spared (`Conforms`, `HalfOpenBounded`, `ProbesBackOff`),
  a silent one takes no chunk with it (`NoLeaseBehindOpenBreaker`) and gets its
  turn again (`ComesBack`).
* *Connecting.* The check and the write of the genesis are far apart, and the
  operator repoints endpoints. Correct when one chain's blocks never come from two
  (`OneChain`).
* *Identity and its cache.* Tables are synced from state, not from events; rows
  are closed and opened by block; a replay has no node. Correct when any
  indexed block gets its own answer (`HistoryTrue`), the tables answer as the node
  would (`AliasesAgree`), reads are kept (`ReadsKept`) and the unique indexes do
  not stop the indexer (`OnlyRegrantsRefused`).
* *Decoding and configuration* are sequential: outcomes joined to extrinsics
  by index (`RowsTrue`), what is validated is what runs (`AcceptedRuns`,
  `RetentionKept`).

Every hazard with its line is in `PROJECT.json`.

## 2. Modules

```
ChunkQueue   the table, as operators on a value
  Tables     chain, archive, tables: all shared state
    Fetch    the fetch stage
    Digest   the digest stage
      Pipeline      both composed; starts, ends, crashes; properties
        PipelineInv   inductive invariant
        Replay        a replay beside it               <- PipelineProofs, for
                                                          all of these
TwoStage     what the pipeline promises (Pipeline implements it)
MCPipeline, MCReplay   values for TLC

SegmentFile  two files of one segment, as operators on values
  Archive    segment store, tiering pass, kills, power  <- ArchiveProofs
             failures
BlockArchive what the stages rely on (Archive implements it)

Limiter      an endpoint: bucket, breaker, worker     <- LimiterProofs
Capture      metadata and the runtime of a block      <- CaptureProofs
Endpoints    connecting, the identity guard           <- EndpointsProofs
Decoding     rows of a block, inserted in batches
Settings     the configuration file
  NodeParts  the five beside each other               <- NodeProofs
MCNode       values for TLC

Identity     the pallet, the tables, sync, the readers
ReadCache    the archive of storage reads
  Projection bootstrap, digest, replay, light client  <- ProjectionProofs
MCProjection values for TLC
Recursion    what may be said of recursive functions  <- itself: lemmas
             and folds
```

`NodeParts` puts five parts that share no state into one specification, of which
one is at work in a behaviour. `Projection` composes `Identity` and `ReadCache`
with the batches of the digest, which are those of `Digest` reduced to their order.

### How state corresponds

| model | code |
|---|---|
| `chunks` | `fetch_chunks`, keyed by `from_block`. `leased_by` and `last_error` are never read back and are left out; which leases have run out is chosen freely |
| `durable`, `unsynced` | blocks in the segment store, fsynced or only written. A process that goes down keeps any subset of what it had not synced |
| `fetchMark`, `digestMark`, `cursor`, `rows` | the two watermarks, `last_indexed_block`, `blocks` |
| `origin` | history variable: the block the marks count from, `start_block` or the last `--from` |
| `worker[w].pc` | between which two awaits worker `w` is: about to claim, archiving block `next`, synced, completed, about to write the mark `last` |
| `fetchPc`, `digestPc` | where `Fetch::run` and `Digest::run` are |
| `end`, `ahead`, `stop`, `until`, `next`, `ready` | local variables of `backfill`, `follow_head`, and the two `run`s |
| `joined` | the stages are one process (`pif index`), so that one does not go down alone |

### How actions correspond

One action is what the code does between two points another process could look
in. `Claim`, `Reclaim`, `WorkerReturns`, `ArchiveBlock`, `SyncChunk`,
`CompleteChunk`, `FindDoneEnd`, `AdvanceWatermark`, `WorkerFails` are the turns of
`Fetch::worker`. `advance_watermark` is two actions because it reads and writes in
two statements. `HeadBlock`, `ArchiveHead`, `AdvanceHead` are `follow_head`.
`DigestPoll` and `DigestCommit` are the loops of `Digest::run`; a commit is one
action because it is one transaction. `Start`, `StartFrom` are the commands,
`Finish`, `ChunksFailed`, `DigestFails` their ends, `Crash` a kill, a power
failure or any error of node, disk or database, at any moment.
`SeedingInterrupted` and `ResetInterrupted` are crashes inside a start, after
some of its statements.

For the archive on disk:

| model | code |
|---|---|
| `hotSeg`, `hotIdx`, `coldSeg`, `coldIdx` | the `.seg` and `.idx` files of a segment on each tier; an offset counts frames, `synced` is the length that the last `sync_data` covered |
| `writer` | the slot of `Segments::writer`; `end` is `SegmentWriter::end`, `putting` the block while `append` is between its two writes, `astray` that the file position is past `end` since an append failed |
| `fresh`, `fetched` | blocks put since the last sync, and blocks that were put and then synced, which is when their chunk may be completed |
| `recorded`, `archiveMark` | rows of `segments`, `archive_watermark` |
| `pass` | locals of `tier_archive`, and between which two of its calls it is |
| `mishaps` | restarts, failed appends and passes, and synced blocks that were put again, counted for the bound |
| `deleted`, `reopened`, `again`, `torn`, `cut` | history variables: segments removed under `on_digest = "delete"`; segments with a hot file that a late put made after they were tiered; synced blocks put again and not synced since; blocks whose last record may be damaged; whether power has failed |

`PutFrame` and `PutEntry` are the two writes of `append`, the first with the
sealing and opening that `put` does before it. As in the code nothing asks whether
the block is there: any block may be put at any time, synced, digested, being
copied or tiered, which is what expired leases and overlapping tilings do.
`AppendFails` is an append on a full disk, after a part of its frame. `CopySeg`,
`CopyIdx`, `RecordSegment`, `CloseWriter`, `DropSeg`, `DropIdx` are the steps of a
pass on one segment (the last three are `drop_hot`), `PassEnds` the end of its loop
with the watermark, `PassFails` any error. What the stages do is reduced to `Sync`,
`Publish` and `Digest`. `Pipeline` sees the same archive as two sets, `durable` and
`unsynced`. `ReadsBack` says where that is right: for all that was synced, but for
three cases it names, in each of which the code does lose blocks (findings 4 and 9
to 12).

For the parts of a node:

| model | code |
|---|---|
| `rate`, `tokens`, `idle` | the bucket in units of a token per tick; `idle` is the time since `refilled_at` |
| `breaker`, `failures`, `left`, `backoff` | `open_until`, `probing`, `consecutive_failures`, `backoff`; time is counted down, not compared |
| `worker`, `done` | where the endpoint's worker is: before `ready`, before the claim, in a chunk |
| `meter`, `streamed`, `refused`, `since`, `asked` | history: what the node saw; `streamed` is the part of `meter` that streamed blocks cost |
| `chunk`, `seen`, `blobs`, `rows`, `saved` | chunks of one block, `seen_runtimes`, metadata files (a format, none, or torn), `runtime_versions`, the runtime a block is archived under |
| `unwritten` | metadata files written since the last start, none of which is synced |
| `unfetched`, `taken` | history: runtimes a worker failed to get the metadata of; runtimes whose file a power failure tore, or removed when no block of theirs was left to capture |
| `client`, `loaded`, `decoded` | the digest's offline client, its metadata, what each block was decoded with |
| `process[p]`, `chains`, `node` | a command between its awaits, the stored genesis, what chain each endpoint is of |
| `file`, `config`, `load` | the file as written, after parsing and resolving, and how far loading got |
| `applied`, `cursor`, `blocks`, `extrinsics`, `events` | what the chain's blocks consist of, how many are written, the tables |

`Work` of `Limiter` is one turn of the worker loop as the endpoint sees it; `Tick`
lets time pass; `StreamedBlock` is a block of the head stream, captured with calls
that acquire nothing. `Meet` is `seen.insert`, `Lookup`, `Download`, `StoreMetadata`,
`RecordRuntime` are the awaits of `ensure_metadata`, `PutBlock` the rest of
`capture`, `Decode` `decode_stored` with `ensure_client`. `CrashRestart` is a kill;
`PowerFailure` takes or tears any metadata files of the run, for none is synced. `Skip`, `Join`,
`Connected` are the turns of `connect_all`; `ConnectFirst` is `pif digest`.
`Parse`, `Resolve`, `Validate` are the three passes of `from_path`, `Edit` an
operator. `WriteBatch` is `write_blocks_in_tx`, `SetBack` a `--from`.

For the projection: `chain` is the finalized blocks with one call each and the
state it left; `tables` the handler's three tables; `at`, `indexed`, `seeded` are
`indexer_state`, the rows of `blocks` and `identity_bootstrap`; `stage`,
`snapshot`, `unsaved` are where the process is. `SweepIdentities` to
`FinishBootstrap` are the steps of `bootstrap`, `CommitBatch` and `PersistReads`
the two halves of a batch, `FollowHead` a block of the light client. `Identity`
holds `sync_account`, `sync_username` and the writers of `store.rs` as operators
on the tables, with the unique indexes as `Indexed`, and both resolvers.

### Simplifications

* `resolve_start` and the seeding of the queue are one step. A digest that runs
  beside a starting `pif fetch` could commit in between; the start block would
  then be lower than the digest mark, which only seeds more.
* The brake's ceiling is read in the step of the claim. Read earlier it is
  lower, never higher, because the digest mark only grows while a stage runs, the
  `--from` of a separate `pif digest` apart.
* A crash while the gap before a streamed block is being seeded leaves a whole
  tiling in the model; an interrupted seeding is modelled at starts.
* `attempts` saturates at `MAX_CHUNK_ATTEMPTS`, the only value it is compared with.
* One chain: hashes and parent links are left out, and so is the linkage check
  of `write_blocks_in_tx`, which holds on one chain. Finalized blocks are never
  reverted, which is what the code assumes.
* In `Archive`, directory operations are durable when they return (the code never
  syncs a directory), the file headers are always there, and the reader's cached
  index is the index file, which `put` and `drop_hot` see to within a process. One
  process writes, one pass runs at a time. The storage cache's pass, which uses the
  same rows, is left out.
* An index entry is written whole or not at all, a `sync_data` does not fail, and
  a failed append leaves one frame's worth of bytes. The first write to a file that
  is shorter than its index extends it in the model when it is opened. A `.seg`
  without its `.idx`, which a late put can leave when it comes between the two
  removals of `drop_hot`, is read as empty, where the code scans it; this only
  concerns segments in `reopened`.
* In `RedoSpec` blocks are put again for no other reason than `--from`, so that the
  run shows what `--from` alone does.
* In the pipeline modules a limiter that makes a worker wait is a stutter; a
  breaker that opens in mid-chunk is one of the errors of `WorkerFails`.
* `Limiter` has discrete time and whole tokens; fractions of a rate are rounded
  down. One worker uses an endpoint, as in the code; the head follower shares it
  (`StreamedBlock`, `FillGap`). A streamed block costs what a block costs a worker,
  and `MaxStreamed` bounds how many come before the node has rested.
* In `Capture` a runtime is its spec version, a chunk one block, a metadata file
  the format it is in. The header check of `decode_stored` and the live path
  `decode_at` are left out.
* In `Identity` a registration is one value of `Raws`: one in `Titled` has a display
  name, one in `Vouched` a good judgement; a display is known by its registration.
  Other judgements and fields, labels, deposits, providers and grace periods are
  left out. A block has one call. `pallet_identity` itself is external.
* In `Decoding` an extrinsic is what the rows tell apart: call, origin, whether
  its arguments decode, how it ended, what it paid. SCALE, JSON and SS58 forms are
  left out.
* `Settings` reads a file as records; strings are model values, paths sequences
  of components, a word of 100 000 stands for `u64`.

## 3. Runs

Small instances: blocks 1 to 4 or 5, one or two workers, chunks of two blocks
or three, batches of two or three.

| run | asks | bounds, and why they are enough |
|---|---|---|
| `PipelineCrash` | safety of `pif index` under every crash, and that it implements `TwoStage` | 2 workers, 5 blocks, chunk 2, lag 4, batch 3: a restart in mid-chunk tiles 1-2, 3-4, 5-5 anew as 4-5 or 2-3, 4-5, so tilings overlap; the last chunk lies beyond the brake at first; a batch crosses a chunk's end; two attempts, so that a chunk is retried and given up on |
| `PipelineApart` | `pif index`, `pif fetch` and `pif digest` as processes of their own, `--from` with `pif index` and with `pif fetch` under a running digest, which may then stop with an error, also interrupted | 1 worker, 4 blocks, chunk 2, `--from 2`, which is in mid-chunk. `RowsReplayable` is not asked: with `--from` ahead of anything fetched, a running digest may commit a block below it that is not synced yet |
| `PipelineLive` | head-following, that the stages never wait for each other, and when a failed chunk ends the process | 2 workers, the head moves from 2 to 5, so that a gap of two blocks can lie before the streamed block; lag 2 below the chunk size 3 and the batch 3, so that the brake holds chunks back; `GivesUp` is asked with it |
| `PipelineRecovery` | liveness over crashes, ends and restarts | 2 workers, 4 blocks, two chunks. The lag does not bind: where it does, a lost mark (finding 2) also closes the brake, and the property does not hold |
| `ReplayBeside` | a replay beside a running, crashing pipeline | replays of blocks 2-3 and 1-4, batch 2, so that one crosses chunk and batch ends |
| `ArchiveSafe` | segment files, tiering, and that they implement `BlockArchive` | blocks 1 to 3 in segments 0-1 and 2-3, so that the first segment is partly before the start block and the second is left and re-entered in any order; two frames per file, so that a torn or a lost frame, a hole and a block put twice all occur; two mishaps, so that a late put meets a kill, a power failure, a full disk or a failing pass; both policies, changed at restarts |
| `NodeParts` | the five parts: limiter, capture, connecting, decoding, configuration | *limiter*: rates 1 to 3 a second of two ticks, two failures to open, backoff 2 doubled to 8, jitter 1, chunks of two blocks, so that the rate climbs and halves between its ends and the backoff reaches its cap; two streamed blocks on top of a bucket of three. *capture*: two workers, blocks 0 to 3, upgrades at 1 and 2: the first runtime executes blocks 0 and 1, the second block 2, the third block 3, and blocks 1 and 2 report the runtime after theirs; runtimes without the metadata API and with a format this build cannot read; one kill or power failure, one error. *connecting*: two commands, two endpoints, two chains, three starts. *decoding*: two blocks of up to three extrinsics of five kinds, batches of two, one `--from`. *configuration*: any two edits of a file with two chains |
| `Projection` | identity tables and read archive | two accounts, two names, three registrations (with a display, without, vouched for), every sequence of three blocks with any call, from two states; batches up to three; both sources; whole replays; kills and power failures at every step. Two accounts are a parent and a sub, or two holders of a name; three blocks are a change, a change back and one beyond |
| `PipelineHeadMoved` | finding 1 | head moves from 3 to 5 between two starts |
| `PipelineLostMark` | finding 2 | as `PipelineRecovery` |
| `ReplayGap` | finding 3 | as `ReplayBeside` |
| `ArchiveRedo` | finding 4 | `--from` at any digested block, `archive` only, no faults |

Bounds: `MaxHead` and `LastBlock` stop the chain, `MaxAttempts` the retries,
`MaxFrames` the growth of a file by frames put again. In `Archive`, `MaxMishaps`
bounds restarts, failures and synced blocks that are put again, together, and
`Faults` says which of power failures and full disks there are, beside kills. In
the pipeline nothing else is bounded: starts, crashes and expired leases may recur for ever. Workers are
symmetric where no liveness is checked. In `NodeParts` also `MaxEdits`,
`MaxRefused` (a count of failed probes that saturates), `MaxCrashes`, `MaxErrors`,
`MaxStreamed`, `MaxStarts`, `LastBody` and `Redos`, in `Projection` `MaxBlock` and the
calls. The runs of these two turn the deadlock check off, for a configuration is
loaded once and the chains end; so do `ArchiveSafe` and
`ArchiveRedo`, where everything is archived in the end and no mishap is left.

### Fairness

`StageFairness`, for the liveness runs, is weak fairness of: each worker's next
step and its reclaiming of leases (its loop sleeps and polls), the turns of
`backfill` and `follow_head`, the delivery of finalized blocks, the digest's
loop (it polls), and the end of a process whose stages have ended. Every one is a
loop of the code that does not wait for anything else when the action is enabled.
Nothing is assumed of errors, of the head or of the operator, except in
`FairSpec`, where a supervisor restarts a program that is down. Its properties are
about behaviours in which from some time on nothing is killed (`CrashesEnd`: only
steps of `Run`); runs may still fail, end and start for ever.

For `NodeParts`: time passes, and the task of a worker is polled again and again
(weak fairness of `Tick` and `Work`). Nothing is assumed of the node's answers, so
that `ComesBack` says that the worker is back at asking, not that it succeeds.

## 4. Proofs

For every value of the constants: any number of workers and blocks, any chunk
size, lag, batch and number of attempts, any rates and clocks, any upgrades and
formats, any endpoints, accounts and calls, any range of blocks in segments of any
size.

| theorem | says | premise |
|---|---|---|
| `TypeCorrect` | every variable keeps its range | none |
| `FetchCorrect`, `Honest` | `[]FetchInv`, hence `[]WatermarkHonest` | `OneTo`, `NoDigestFrom` |
| `DigestCorrect`, `Gapless`, `Replayable`, `FindsItsBlocks`, `InStep` | `[]DigestInv` and what follows | `OneTo`, `FromsWithIndex` |
| `Implements` | `Spec` implements `TwoStage!Spec` | the same |
| `Braked` | `[]BrakeHolds` | `NeverFollows`, `NoFrom` |
| `ReplayCorrect`, `ReplayArchived`, `ReplayFindsItsBlocks`, `ReplayHonest` | `[]ReplayInv` for a replay beside the pipeline, hence `ReplayStaysArchived`, `DigestFindsItsBlocks`, `WatermarkHonest` | `OneTo`, `NoFrom` |
| `DonePrefixDurable`, `SeedingCovers` | facts of the queue for any table | stated with them |
| `LimiterCorrect`, `NodeIsSpared`, `ChunksStayClaimable`, `ProbesAreFew` | `[]LimiterInv`, hence `Conforms`, `NoLeaseBehindOpenBreaker`, `HalfOpenBounded` | none |
| `CaptureCorrect`, `BlocksDecodeTrue`, `MetadataComes` | `[]CaptureInv`, hence `DecodesTrue`, `DecodableUnlessFailed` | none |
| `EndpointsCorrect`, `PoolIsOneChain` | `[]EndpointsInv`, hence `OneChain` | none |
| `PartsCorrect`, `PartsTyped` | the invariants of the parts side by side, for the specification of `NodeParts`, hence `PartsTypeOK` | none |
| `ProbesAreSpacedOut` | `ProbesBackOff`, of any two states a step apart | none |
| `RowsAreTrue` | `[]DecodingInv`, hence `[]RowsTrue` | none |
| `AcceptedFilesRun`, `RetentionIsKept` | `[]AcceptedRuns`, `[]RetentionKept` | none |
| `RankRecursion`, `FoldExists` | a recursive function over ranked elements, and a fold over a finite set, have the value their definitions give them | none |
| `ReadsStay` | `[]ReadsKept` | none |
| `HistoryIsTrue` | `[]HistoryTrue` | `Replays = "whole"` |
| `OnlyRegrantsAreRefused` | `[]OnlyRegrantsRefused` | `Replays = "whole"` |
| `AliasesAreTrue` | `[]AliasesAgree` | `Replays = "whole"` |
| `ReadsBackForEver`, `RecordsAreTrue`, `ArchivedInOrder`, `TornAppendsAbsent`, `StatusIsTrue`, `ArchiveTypeCorrect` | every invariant of the run `ArchiveSafe`, for any faults and any number of mishaps | none |
| `ImplementsArchive` | `Archive` implements `BlockArchive!Spec` | none |

*Premises.* `OneTo`: every start asks for the same last block, and the chain has
finalized it. Without it `WatermarkHonest` is false (finding 1).
`NoDigestFrom`: no `pif digest --from`, which drops the queue under a running
fetch. `FromsWithIndex`: `--from` with `pif index` only; a separate `pif fetch
--from` takes the fetch mark below what a running digest is about to commit.
`NeverFollows`: what a start asks for is finalized when it starts; `follow_head`
never asks the brake. `NoFrom`: no `--from`, which takes the digest mark below what
is archived, and leaves an archive below the new origin of which the marks say
nothing. `Replays = "whole"`: a replay ends at the last block indexed. One that
ends before it rewrites rows that later blocks closed, and `HistoryTrue` is false
of it (section 5). Constants are assumed to be what their comments say: a hole is not a block
number (`HoleAssumption`), sets of
accounts and names are finite, `None` is none of the values it stands beside,
the calls are those of the pallet, and the states a chain begins in are what the
pallet keeps them (`Coherent`: a primary username is one of the account's own, a name
that is unbound has an owner, one that waits to be accepted has none).

*Argument.* `WatermarkHonest` is not inductive: the mark is moved to the end of
the done prefix, so one must know that done chunks are on disk, and that no block
between the mark and that end is missing from the queue. `FetchInv` adds exactly
that:

* `ChunkEnds`: a chunk's first block determines its last. This is why a tile
  dropped by ON CONFLICT DO NOTHING is never longer than the row it meets.
* `DoneDurable`: done chunks are on disk; it needs `WorkerInv`, what a worker has
  written of the chunk it holds, or thinks it holds after its lease ran out.
* `Covered`: while workers run, every block above the mark is in some chunk. It
  comes from `SeedingCovers` and is kept because no operation removes a row.
* `DonePrefixDurable` puts the two together: a done chunk below every unfinished
  one has only durable blocks before it, *however tilings overlap*.
* `WorkerInv` carries the same fact for the end a worker has read and not yet
  written, as other workers change the table meanwhile.

`DigestInv` then needs only that the digest's `next` follows its mark and that
what it was promised is at or below the fetch mark. Beside a replay that is not
so: a replay moves the digest mark past `next`. `ReplayInv` is `FetchInv` with what
the digest believes of the fetch mark, and what both commit lies below it.
`BrakeInv` puts the ceiling on `last`, the end of the chunk a worker has claimed:
the ceiling only rises, so what held at the claim holds at each of its blocks.
The implementation proof
maps `durable`, the marks, `rows` and `origin` to the variables of `TwoStage`; the
steps of `FetchInv` give `Publish` its guard.

`LimiterInv`: `Conforms` speaks of what the node saw, which no code variable
holds. `Metered` ties the meter to the bucket: what was asked for and what may
still be asked for, refill included, stay within capacity and what was streamed.
That needs the bucket's cap and the rate's ceiling at every change of the rate. What
`follow_head` asks is in `meter` and in `streamed` alike, for no limiter holds it
back: the bound on the workers' calls is proved, the ceiling on all calls
(`CeilingKept`) is refuted (finding 14). `Counted` ties
`asked` to the chunk in hand, `HalfOpenBounded` follows.

`ProbesBackOff` speaks of a number that doubles with each failure. That the
recursive function `Doubled` is that number is not to be had from its definition
without induction, which `Recursion` supplies for sets in place of predicates.

`CaptureInv`: `DecodableUnlessFailed` is about a file that is missing although
its runtime was met. `MetIsSeenTo` says who has it: some worker between `Meet` and
`StoreMetadata`. `Leases` says that this worker's own block is not done, which is
the block the property asks for. `SeesTo` (one worker at a time sees to a runtime)
and `InHand` (it has no file meanwhile) keep a second worker's failure from being
the first one's. After a power failure everything is met anew, so that what is
gone comes back where a block of its runtime is left to capture; a torn file does
not, for `ensure_metadata` asks only whether there is one (`TornTaken`).

`EndpointsInv`: what the guard found, `GuardHolds`, survives until `upsert_chain`,
because a stored genesis is never overwritten and the pool's nodes do not change
under a command; `PoolAgrees` extends it from the first endpoint to all. Two first
starts are outside: `known` is false for them.

`DecodingInv` says that the tables hold the rows of some blocks, whole, which makes
`RowsTrue` a statement about one block: what `Outcomes` computes from the events of
any list of extrinsics. `Tally` is its loop invariant, over the *set* of events seen;
the order of events decides nothing because no extrinsic reports two outcomes or
two fees (`OneStoryOfBlock`). That is the point: outcomes are joined by index, and
`Tally` for one index is indifferent to every other. A block's first extrinsic is
assumed to be the inherent that sets its timestamp, as on every chain with that
pallet.

`ReadsKept` needs only that what a block needs is settled when it is finalized
(`BlocksGrow`) and that nothing is indexed beyond the chain (`Heights`).

`HistoryTrue` says what a reader gets for any block and account, from rows that
`put_identity` opens and closes while the digest, a sweep or a replay goes on. Four
layers lead to it:

* *Rows of one account* (`Before`, `Tells`, `OpenTells`): ranges do not overlap, one
  row at most is open, none begins after the last block written. `PutAfter` says
  what `put_identity` does to them at a block beyond the last. A replay writes at
  blocks that lie before: `Rewritten` says that the rows of a replay in progress are
  true up to where it is and as they were beyond, where the account was not
  touched; `RewriteStarts`, `RewritePuts`, `RewriteSkips`, `RewriteEnds` are its
  steps. That the last row stays open until its end, so that the unique index
  accepts every step, comes from `Replays = "whole"`.
* *Tables* (`GoodTables`, `PutIdentityRows`, `Beside`): the other writers leave
  identities alone, and the indexes refuse no identity.
* *A block* (`SyncPuts`): `sync` works through a queue of accounts and folds over
  it; what the rows of an account become does not depend on the order. The queue
  holds every account the block touched.
* *The chain* (`ChangeTouches`, `SameBetween`): an account whose registration
  differs between two blocks was touched by one in between, so rows that are not
  written need no writing. This is where a light client errs, and `StaleAt`
  names exactly the blocks it did not see.

`HistoryInv` then has, for each account, that its rows are *before* the block they
were last brought to (`Edge`), tell the truth of every block indexed, and before
the first one those of some block since the first sweep (`SweptRows`: a sweep that
a crash ends is begun again at another block).

`OnlyRegrantsRefused` is about the index that allows an account one active primary
username, which a statement in the middle of a transaction may break although the
transaction as a whole would not. `NamesInv` has two parts that matter:

* `OneShown`: the index itself, of what is committed. `SyncAccountsNames` says what
  the rows of names become when any set of accounts is synced, one after the other,
  whatever the order (`NameSynced`): it needs that a name is the primary of its owner
  only (`Coherent`, kept by every call, `CoherentAfter`). Demoting before promoting
  is what keeps the index at every step of it (`SetPrimaryNames`).
* `Rooted`: a row with `is_primary` names an account that once owned the name, or
  the name was removed. `sync_username` moves a row to the name's present owner and
  leaves `is_primary` alone: the one statement that can show a second primary. As
  long as no name is granted twice the owner it moves to is the one it has
  (`OneOwner`, from the history of a name along the chain), and the account's own
  sync has run before it (`SoundNext`). With a second grant it can really be refused:
  section 5.

`AliasesAgree` compares what a reader gets from five tables with what the node
answers. `AgreeInv` says it of the tables themselves: at the last block indexed the
row of a name has the owner the pallet has and is open if it has one (`As`), the
rows of subs are its parents, the primary username of an account is flagged, and no
other name of it is, unless it was granted again (`Agree`).

* *On the way* (`Agreeing`): while the handler goes from one block to another,
  what a table does not say yet is put right by a block in between. `AgreeGoesBack`:
  the tables of the last block are so on their way from any earlier one, because
  what differs between two blocks was touched in between (`NameStays`,
  `PrimaryStays`, `SuperStays`). `AgreeNext`: the handler keeps it so, from block to
  block; its queue also holds the subs of the accounts touched. `AgreeEnds`: at the
  end `Agree` holds. A replay is all three; a digest starts from `AgreeGoesOn`,
  which needs of a name granted at the next block what `Rooted` and `OneOwner` say.
* *Before the first block* (`SweptTo`): sweeps that a crash ends begin again at
  another block, over rows of the earlier state. Each row is as at some block between
  the first sweep and the last, and the primary usernames as at one of them. The
  first block makes that `Agree` (`AgreeFirst`) if each of these blocks is the one
  before it or itself: this is where `Missed = {}` is needed.
* *A reader* (`AgreeShows`): with `HistoryInv` for the registration and `OneShown`
  for the one primary, the views answer as `alias_from_storage` does.

`ArchiveInv`: `ReadsBack` asks that a block can be read where the reader looks,
which says nothing of what a failure leaves of it or of what the next pass does to
the other tier. `Holds` is reading strengthened by durability: the last entry of
the block and its frame are there, and within what was synced if the block is
`Lasting`, that is, has not been put again since. All of it is said of segments
whose hot file is the one their blocks were first put in (`First`), and of blocks
that are not `torn`.

* `HotHeld`, `ColdHeld`, `SomeTier`: what was fetched is held by the hot files,
  and by the cold ones once their index is there, and one of the two is there.
  While both are, the hot data also fits the *cold* index: a pass that comes
  again replaces the data file under an index it wrote before. A block may have an
  entry in the cold index and a newer one in the hot index; both must fit.
* `FreshHeld`: what the next sync will promise is in the file it will sync, or in
  one that was sealed. `WriterTrue` and `IndexesInOrder` say where an append lands,
  for a writer that is not astray.
* `CopyFits`: between the copy of the data file and that of the index, whatever the
  index names and whatever the writer is about to enter is in the copied data,
  unless it was put since the copy, which is what `torn` says then.
* `TieredSettled`: only segments that the digest is past are touched by a pass,
  and of those every block was fetched (by the arithmetic of `segment_end`). So what
  a late put brings to such a segment is a block that was there, and a file it
  makes anew is one more hot file of a segment in `reopened`.
* `TieredInOrder`, `PassTrue`: segments that appear after a pass listed them lie
  beyond what it may take or are in `reopened`, so the archive watermark stays a
  prefix. `InHand` is what the steps of a pass have done to the segment at hand.

The implementation proof maps `kept` to the fetched blocks that can be found and
`spoiled` to the blocks that are torn or whose segment was reopened. A block is
spoiled only when it is kept or digested, or as the disk fills up: what the stages
are promised is lost by putting it again, never by a kill, a power failure or a
pass alone.

*Recursion.* The library's induction theorems take an operator as a parameter,
which no installed prover instantiates. `Recursion` states induction for sets
(`SetInduction`, from well-foundedness), for what has a rank (`RankInduction`), and
that a recursive function over ranked elements exists and is what its definition
says (`RankRecursion`), subsets ranked by size included: `FoldExists` is what the
folds of the community modules compute. `Doubled`, the queue of `sync`, the fold
over it, the batches of a digest, `FlattenSeq` and the fold over the events of a
block are instances.

*Model-checked only*: liveness under fairness and ENABLED, which this prover
cannot do; head-following and starts with several `--to` (outside `OneTo`); replays
that end before the last block. Every safety invariant that a passing run checks is
stated by a theorem, under the premises of the table; a property that is false of the code (section 5) has none.

## 5. Findings

Shown by a run:

1. `PipelineHeadMoved`. A run without `--to` ends its tiling at the head, in a
   shorter chunk. A restart seeds from the digest watermark, which need not be the
   end of a chunk. When a new tile has the key of the short chunk, the tile is
   dropped, and the blocks after the short chunk's end are in no chunk. The done
   prefix steps over them, and the fetch watermark claims blocks nobody fetched;
   the digest stops at the first of them with `BlockNotArchived`.
   `repo.rs:668-670` says that `from` is never mid-chunk.
2. `PipelineLostMark`. Only a worker that has just completed a chunk advances the
   watermark. After a crash between the two statements for the last chunk,
   no restart finds anything to claim, and the digest waits for ever (until
   the head moves and a new chunk is completed).
3. `ReplayGap`. A replay advances the digest watermark. Over a range that is
   fetched and not yet digested it moves it past blocks that never get rows.
4. `ArchiveRedo`. A `--from` that begins inside a tiered segment fetches only a part
   of it. That part becomes a hot file, which `locate` prefers, so that the blocks
   before it can no longer be read; when it is digested again, the next pass
   copies it over the complete cold copy, and those blocks are on no tier.
   `repo.rs:477-478` says that they are still there.

Shown by TLC when a property that the code does not have is checked in place of the
ones a run lists:

| finding | property | run to change |
|---|---|---|
| 5 | `FailureStops` | `PipelineLive` |
| 6 | `WatermarkHonest` | `PipelineCrash` with one worker, `ChunkSize = 4`, `Stops = {3, 4}` |
| 7, 8, 13 | `MetadataArchived`, `NeverHalfWritten`, `BestOffered` | `NodeParts` |
| 9 | `HasCopy` | `ArchiveSafe` with `Faults = {}` |
| 10, 11 | `NeverWrong` | `ArchiveSafe` with `Faults = {"power"}`, or `{"full"}` |
| 12 | `RecordedWhole` | `ArchiveSafe` with `StartBlock = 2`, `MaxFrames = 3`, `Faults = {}` |
| 14 | `CeilingKept` | `NodeParts` |
| 15 | `DisplaysAgree` | `Projection` |

5. A failed chunk with the next one beyond the brake: the digest
   cannot pass the failed chunk, so the other stays pending, so no worker returns, so
   `ChunksFailed` is never reported (`fetch.rs:196`). `repo.rs:825-827` says that
   `fail_chunk` is there to stop "with something a human can read". `GivesUp` says
   that this is the only case: if the brake does not hold a chunk back for ever,
   the process ends.
6. A worker stops at `min(to_block, end)` and completes the whole
   chunk: a run with a smaller `--to` that takes over a longer chunk marks blocks as
   done that it did not fetch (`fetch.rs:262`), against `segment.rs:135-136`.
7. A runtime whose metadata could not be fetched or stored stays in
   `seen_runtimes` (`fetch.rs:478`): the retry archives its blocks without it,
   and the digest stops at them.
8. `put_metadata` syncs nothing (`hot.rs:146-147`): after a power failure
   the file may be empty under its final name, although `hot.rs:136` says that a
   reader never sees a half-written runtime. `ensure_metadata` finds it there and
   never replaces it. It may also be gone: if no block of its runtime is left to
   capture, nobody asks for it again. The blocks and the row are kept in both cases.
9. As finding 4, without `--from`: a worker whose lease ran out, or an
   overlapping tile, puts a block again whose segment was tiered meanwhile. The hot
   file then has that block alone, hides the cold copy, and is copied over it.
10. A block that is put again after it was synced gets a second index
   entry. A power failure that keeps the entry and loses its frame hides the good
   frame behind it until the block is fetched once more: present but wrong, against
   `segment.rs:13-14`. A process that is only killed cannot do this
   (`TornReadsAbsent`).
11. A failed `append` (a full disk) leaves the writer in its slot with
   the file position beyond `end`. Every later frame is then indexed at the wrong
   offset, synced, and reported as done: the fetch watermark claims blocks that read
   as corrupt (`segment.rs:114-130` against `segment.rs:13-14`).
12. A late put between the copy of a segment's data file and that of
   its index: the cold index names a frame the cold file does not have, for a block
   that it did have, and the hot files are dropped (`segstore.rs:348-352`).
13. A failed call of the metadata ladder counts as "not offered"
   (`metadata.rs:144`), and the poorer format is kept for good, although
   `metadata.rs:45-46` keeps the legacy RPC for runtimes without the API.
14. `follow_head` captures streamed blocks with calls that acquire
   nothing (`fetch.rs:595`), while workers that fill a gap spend the whole bucket:
   `max_rps` is not the ceiling that `README.md:460-461` of the repository calls it.
15. A display is optional. For a sub with a registration of its
   own without one, under a parent with one, `identity_current` answers with the
   parent's (`0001_identity.sql:185`) and `alias_from_storage` with none
   (`resolver.rs:310-314`). `resolver.rs:63` describes one answer.

Seen while modelling and not given a run of their own:

* `follow_head` archives whatever the stream brings and never asks the brake
  (`fetch.rs:595` against `fetch.rs:68-70`).
* `release_chunk` and `fail_chunk` write by key: a worker whose lease ran out
  turns a chunk another one completed back to pending (`repo.rs:809`). It costs a
  second fetch; `WatermarkHonest` holds all the same.
* `pif digest --from` resets the fetch watermark too and then waits for it
  (`pipeline.rs:211`).
* A pass that fails after moving segments does not advance the archive watermark,
  and the next pass does only if it moves one more (`tiering.rs:225`).
* The rows of `segments` are keyed by chain and first block, so that the pass over
  the storage cache overwrites the row, and the checksum, of the block segment
  (`tiering.rs:191`, `repo.rs:583`).
* A replay of an old range takes the cursor back and leaves the digest watermark
  (`digest.rs:256` against `digest.rs:253`).

Of connecting and processes:

* Two first starts can both pass the guard before either stores its genesis; the
  second `upsert_chain` is a no-op, and its command indexes under the other's
  genesis (the exception in `OneChain`). `repo.rs:19-20` says that repointing
  "surfaces as a unique-violation on genesis_hash"; `0001_core.sql:10` says that the
  column is not unique on purpose.
* `pif digest` connects to the first endpoint only, and goes on without it when
  that is down or of another chain (`pipeline.rs:368-434`).
* `main.rs:197-198` and `main.rs:348` say that a chain that goes down cannot stall
  the others. The first failing task returns from the loop over the `JoinSet`
  (`main.rs:216-218`, `375-377`), which drops it, and dropping it aborts the rest.
* Filling a gap before a streamed block waits until every endpoint's breaker lets
  it.

Of capture, limiter and decoding:

* A crash between `put_metadata` and `record_archived_runtime` leaves
  `metadata_hash` NULL: the next look finds the file and records nothing.
* With several workers `first_seen_block` of a runtime is the block of whichever
  met it first, not the lowest, against `repo.rs:184-188` and `repo.rs:918-920`.
* `limiter.rs:102-103` says that exactly one request is let through when a backoff
  ends. `poll` lets through all until one ends: up to a chunk (`HalfOpenBounded`).
* Core rows are inserted with ON CONFLICT DO NOTHING: digesting or replaying again
  after a decoding bug was fixed leaves the old rows, against `config.rs:60-62`.

Of handlers and the identity projection:

* A replay of a range in which an account's identity changed twice is refused
  by `identities_current_idx` when its last row is open: closing and opening move
  rows of later blocks. `pipeline.rs:237-239` and `store.rs:7-8` say idempotent. The
  same stops the digest after `--from`. A partial replay reopens an identity that
  a later block cleared. `HistoryTrue` is therefore checked with `Replays =
  "whole"`; with `"any"` TLC shows this.
* The row of a removed username keeps `is_primary` (a removal goes through
  `put_username`, which does not touch it) and has no account any more, so
  `set_primary_username` does not demote it. When the name is granted again to an
  account that has a primary, `usernames_primary_idx` refuses it, and the digest is
  stuck: the exception in `OnlyRegrantsRefused`. When that primary is being unbound
  the index lets it pass; once it is removed, the tables name the account by a
  username that `UsernameOf` does not, against `store.rs:150-151`. This takes five
  blocks, beyond the bound of `Projection`; it was met in looking for an invariant
  that proves `AliasesAgree`, which excepts such names (`Regranted`).
* The view `effective_verified` and `alias_from_storage` disagree on a sub with an
  unverified identity of its own under a verified parent, and on names that are
  being unbound (exceptions in `AliasesAgree`, as is finding 15).
* The sweep of usernames marks unbinding names "active" and skips pending ones,
  against `read.rs:3-5`. `PreapprovalExpired` names an account only, so that the
  pending row stays.
* The sweeps delete nothing: a light client that crashes in them sweeps a later
  state over rows that are no longer true, until the accounts are touched.
* `pif fetch` and `pif digest` never bootstrap handlers, although
  `handlers.rs:66-68` says that state is seeded once before any block. A handler
  that is enabled again later is not seeded anew.
* A light client never sees what changed between its bootstrap and the first
  block of the stream, nor while it was down (`StaleAt` in `HistoryTrue`).
* A crash between the commit of a batch and `persist` loses the reads of its blocks:
  the digest does not come back, and a replay stops at them, against
  `digest.rs:118`. So does a replay for a handler that was added since.

Of configuration:

* A relative hot or cold path that is empty is joined to a directory before it is
  checked for being empty (`config.rs:598-604` against `731-738`).
* A duration's value times its unit can overflow (`config.rs:164-198`).
* Changing `segment_size` under an existing store is not noticed.

## 6. Not modelled

* *GraphQL* and the *end-to-end tests*: reading and paging of rows; a harness.
* *Several chains in one process*: they share no state; how one ends the others
  is described above.
* *Two writing processes on one store*: nothing the modules state would hold
  (`segment.rs:52`). *`pif digest --from` under a running fetch* likewise
  (`pipeline.rs:211`).
* *A `sync_data` that fails*, and an index entry that is written in part.
* *The storage cache's own tiering*, a *missing index file*, *compression*,
  *directory syncs*.
* *SCALE, JSON, SS58 and hex forms*, *hash linkage* of blocks, the *header check* of
  `decode_stored`: conversions by libraries, or checks that hold on one chain.
* *smoldot*, *subxt* and the node: external; what they answer is chosen freely.
* Arguments, printing, logging, wording of errors.
