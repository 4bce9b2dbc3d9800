-------------------------------- MODULE Pipeline --------------------------------
(***************************************************************************)
(* `pif index', `pif fetch' and `pif digest'                               *)
(* (crates/pif-chain/src/pipeline.rs): the two stages composed over the    *)
(* tables of module Tables, with the starts, ends and crashes of the       *)
(* processes that run them.                                                *)
(*                                                                         *)
(* At most one process runs the fetch stage and at most one the digest     *)
(* stage; `pif index' is one process that runs both.                       *)
(***************************************************************************)
EXTENDS Fetch, Digest

CONSTANTS
  Modes,           \* the commands used: a subset of {"index", "fetch", "digest"}
  Stops,           \* the values of --to; MaxHead + 1 stands for none
  Froms            \* the uses of --from: pairs of a command and a block

ASSUME PipelineAssumption ==
  /\ Modes \subseteq {"index", "fetch", "digest"}
  /\ Stops \subseteq StartBlock..(MaxHead + 1)
  /\ Froms \subseteq Modes \X Blocks

VARIABLE joined    \* the two stages are one process

vars == <<head, archiveVars, queueVars, markVars, indexVars, origin,
          fetchVars, digestVars, joined>>

TypeOK == TablesTypeOK /\ FetchTypeOK /\ DigestTypeOK /\ joined \in BOOLEAN

Init == TablesInit /\ FetchInit /\ DigestInit /\ joined = FALSE
--------------------------------------------------------------------------------
(***************************************************************************)
(* Starting.  resolve_start gives `start' and `table', the queue it leaves.*)
(* No action comes between it and the seeding, because the head is read    *)
(* after it and can only be higher for that.                               *)
(***************************************************************************)
StartFetch(start, table, stop_at) ==
  LET to == Lesser(stop_at, head)
  IN /\ stop' = stop_at
     /\ ahead' = NoBlock
     /\ \/ /\ to >= start
           /\ \E S \in SUBSET InState(table, "leased") :
                chunks' = Queued(table, start, to, to, S)
           /\ StartWorkers(to)
        \/ /\ to < start
           /\ chunks' = table
           /\ fetchPc' = AfterCatchUp(to, stop_at)
           /\ end' = to
           /\ worker' = [w \in Workers |-> At("off")]

(* Not the code: a restart that resumes after what is fetched, not digested. *)
ResumeAfterFetched == fetchMark + 1

(* resolve_start and digest_only without --from. *)
Resume == digestMark + 1

(* Not the code: the block to resume with is taken for one that is done. *)
StartDigestAfter(start, stop_at) ==
  /\ digestPc' = "run"
  /\ until' = stop_at
  /\ next' = Lesser(start + 1, MaxHead + 1)
  /\ ready' = StartBlock - 1

StartDigest(start, stop_at) ==
  /\ digestPc' = "run"
  /\ until' = stop_at
  /\ next' = start
  /\ ready' = StartBlock - 1

StartStages(mode, start, table, stop_at) ==
  \/ /\ mode = "index"
     /\ fetchPc = "off" /\ digestPc = "off"
     /\ StartFetch(start, table, stop_at)
     /\ StartDigest(start, stop_at)
     /\ joined' = TRUE
  \/ /\ mode = "fetch"
     /\ fetchPc = "off"
     /\ StartFetch(start, table, stop_at)
     /\ UNCHANGED <<digestVars, joined>>
  \/ /\ mode = "digest"
     /\ digestPc = "off"
     /\ StartDigest(start, stop_at)
     /\ chunks' = table
     /\ UNCHANGED <<fetchVars, joined>>

(* Without --from: resume where the digest stopped. *)
Start(mode, stop_at) ==
  /\ StartStages(mode, Resume, chunks, stop_at)
  /\ UNCHANGED <<head, archiveVars, markVars, indexVars, origin>>

(* Not the code: the fetch watermark is left where it is. *)
ResetDigestMark(n) ==
  /\ fetchMark' = fetchMark
  /\ digestMark' = n - 1
  /\ origin' = n
  /\ UNCHANGED <<head, archiveVars, indexVars>>

(* reset_watermarks(before(n)), without its archive watermark. *)
ResetMarks(n) ==
  /\ fetchMark' = n - 1
  /\ digestMark' = n - 1
  /\ origin' = n
  /\ UNCHANGED <<head, archiveVars, indexVars>>

(* With --from n: reset_watermarks, then reset_chunks. *)
StartFrom(mode, stop_at, n) ==
  /\ ResetMarks(n)
  /\ StartStages(mode, n, NoChunks, stop_at)
--------------------------------------------------------------------------------
(* Ending.  A stage that goes down keeps no local state.  What the store had *)
(* not synced is on disk or lost, block by block.                            *)
FetchDown ==
  /\ fetchPc' = "off"
  /\ stop' = MaxHead + 1
  /\ end' = NoBlock
  /\ ahead' = NoBlock
  /\ worker' = [w \in Workers |-> At("off")]
  /\ \E kept \in SUBSET unsynced : durable' = durable \cup kept
  /\ unsynced' = {}

DigestDown ==
  /\ digestPc' = "off"
  /\ until' = MaxHead + 1
  /\ next' = StartBlock
  /\ ready' = StartBlock - 1

(* Exactly the stages of `which' go down, and no process loses one of two. *)
Down(which) ==
  /\ joined => which = {"fetch", "digest"}
  /\ IF "fetch" \in which
     THEN fetchPc # "off" /\ FetchDown
     ELSE UNCHANGED <<fetchVars, archiveVars>>
  /\ IF "digest" \in which
     THEN digestPc # "off" /\ DigestDown
     ELSE UNCHANGED digestVars
  /\ joined' = FALSE
  /\ UNCHANGED <<head, queueVars, markVars, indexVars, origin>>

Stages == {"fetch", "digest"}

(* try_join: a process ends well when every stage it runs has returned. *)
Finish ==
  \E which \in SUBSET Stages \ {{}} :
    /\ "fetch" \in which => fetchPc = "returned"
    /\ "digest" \in which => digestPc = "returned"
    /\ Down(which)

(* backfill returns ChunksFailed; the digest it is joined with stops too. *)
ChunksFailed ==
  /\ fetchPc = "backfill"
  /\ AllReturned
  /\ InState(chunks, "failed") # {}
  /\ \E which \in SUBSET Stages : "fetch" \in which /\ Down(which)

(* A block at or below the watermark is not archived, or the CHECK fires. *)
DigestFails ==
  /\ digestPc = "run"
  /\ next <= ready
  /\ ~CanCommit(next, BatchEnd)
  /\ \E which \in SUBSET Stages : "digest" \in which /\ Down(which)

(* A kill, a power failure, or an error of the node, the store or Postgres. *)
Crash == \E which \in SUBSET Stages \ {{}} : Down(which)

(* A crash while the queue is being seeded: a prefix of the tiles is there. *)
SeedingInterrupted(stop_at) ==
  LET start == Resume
      to == Lesser(stop_at, head)
  IN /\ fetchPc = "off"
     /\ to >= start
     /\ \E through \in start..to, S \in SUBSET InState(chunks, "leased") :
          chunks' = Queued(chunks, start, to, through, S)
     /\ UNCHANGED <<head, archiveVars, markVars, indexVars, origin,
                    fetchVars, digestVars, joined>>

(* A crash between reset_watermarks and reset_chunks. *)
ResetInterrupted(mode, n) ==
  /\ mode # "digest" => fetchPc = "off"
  /\ mode # "fetch" => digestPc = "off"
  /\ ResetMarks(n)
  /\ UNCHANGED <<queueVars, fetchVars, digestVars, joined>>
--------------------------------------------------------------------------------
Run ==
  \/ \E mode \in Modes, stop_at \in Stops :
       \/ Start(mode, stop_at)
       \/ \E n \in Blocks : <<mode, n>> \in Froms /\ StartFrom(mode, stop_at, n)
  \/ FetchStep /\ UNCHANGED <<digestVars, joined>>
  \/ DigestStep /\ UNCHANGED <<fetchVars, joined>>
  \/ Finish
  \/ ChunksFailed
  \/ DigestFails
  \/ HeadGrows /\ UNCHANGED <<fetchVars, digestVars, joined>>

Fault ==
  \/ Crash
  \/ \E stop_at \in Stops : Modes \cap {"index", "fetch"} # {} /\ SeedingInterrupted(stop_at)
  \/ \E u \in Froms : ResetInterrupted(u[1], u[2])

Next == Run \/ Fault

Spec == Init /\ [][Next]_vars

(* Without faults: what the processes do when nothing kills them. *)
SteadySpec == Init /\ [][Run]_vars

(***************************************************************************)
(* Fairness.  Every loop of the code polls or is woken: a worker that has  *)
(* something to do does it, a lease that stays leased runs out and some    *)
(* idle worker reclaims it, the stream delivers, the digest polls, and a   *)
(* process whose stages are over ends.  Nothing is assumed of failures, of *)
(* the head, or of the operator.                                           *)
(***************************************************************************)
FetchOnly(A) == A /\ UNCHANGED <<digestVars, joined>>

StageFairness ==
  /\ \A w \in Workers :
       /\ WF_vars(FetchOnly(WorkerStep(w)))
       /\ WF_vars(FetchOnly(Reclaim(w, InState(chunks, "leased"))))
  /\ WF_vars(FetchOnly(BackfillReturns \/ ArchiveHead \/ AdvanceHead))
  /\ WF_vars(FetchOnly(\E n \in Blocks : HeadBlock(n)))
  /\ WF_vars(DigestStep /\ UNCHANGED <<fetchVars, joined>>)
  /\ WF_vars(Finish)
  /\ WF_vars(ChunksFailed)
  /\ WF_vars(DigestFails)

SteadyFairSpec == SteadySpec /\ StageFairness

(* With faults, and an operator or a supervisor that restarts the program. *)
FairSpec ==
  /\ Spec
  /\ StageFairness
  /\ WF_vars(\E mode \in Modes, stop_at \in Stops : Start(mode, stop_at))
--------------------------------------------------------------------------------
(* The watermark never claims a block the disk does not hold: whatever the  *)
(* order in which workers finish, fail, lose their leases and crash, every  *)
(* block from the origin to fetch_watermark is durable                      *)
(* (advance_fetch_watermark, contiguous_done_end).                          *)
WatermarkHonest == origin..fetchMark \subseteq durable

(* The index has no gap: exactly the blocks the digest watermark covers     *)
(* have rows, through batches, restarts and crashes (Digest::commit,        *)
(* resolve_start; count_gaps looks for what this excludes).                 *)
NoGaps == origin..digestMark \subseteq rows

(* Everything committed can be replayed from disk: no row describes a block *)
(* that a crash could still take from the archive.                          *)
RowsReplayable == rows \subseteq durable

(* The digest always finds what the fetch watermark promised it: it never   *)
(* stops with BlockNotArchived and never meets the table's CHECK.           *)
DigestFindsItsBlocks ==
  digestPc = "run" /\ next <= ready => CanCommit(next, BatchEnd)

(* The legacy cursor is kept in step with the digest watermark. *)
CursorInStep == origin..digestMark # {} => cursor = digestMark

(* No block is archived further ahead of the digest than the brake allows.  *)
BrakeHolds == \A b \in Readable : b <= digestMark + MaxLag

(* Chunk by chunk, worker by worker, restart by restart, the pipeline does   *)
(* no more than the abstract two-stage index: every step is one of its steps *)
(* or changes nothing it sees.                                               *)
Abstract == INSTANCE TwoStage WITH
  Block <- Blocks, First <- StartBlock, held <- durable, fetched <- fetchMark,
  digested <- digestMark, indexed <- rows

ImplementsTwoStage == Abstract!Spec

SomeFailed == InState(chunks, "failed") # {}

(* With both stages running, every block that is finalized and asked for is *)
(* indexed in the end, brake and lost leases notwithstanding, or a chunk has *)
(* failed for good (Fetch::worker, Digest::run: neither waits on the other). *)
EventuallyIndexed ==
  \A b \in Blocks :
    digestPc = "run" /\ fetchPc # "off" /\ b <= head /\ b <= stop
      ~> digestMark >= b \/ SomeFailed

(* A chunk still to be claimed ends beyond the brake. *)
HeldBack == \E f \in InState(chunks, "pending") : chunks[f].to > brake_ceiling

(* A backfill with a chunk that stays given up on stops the process          *)
(* (fail_chunk, ChunksFailed), unless the brake keeps work back for ever: the *)
(* digest cannot pass the failed chunk, and workers return only when nothing *)
(* is pending.  A late worker may give up on a chunk that another completes. *)
GivesUp ==
  fetchPc = "backfill" /\ SomeFailed
    ~> fetchPc = "off" \/ ~SomeFailed \/ []HeldBack

(* Not so without that exception, as fail_chunk promises it.                 *)
FailureStops ==
  fetchPc = "backfill" /\ SomeFailed ~> fetchPc = "off" \/ ~SomeFailed

(* From some time on nothing is killed: processes start, work, fail in the   *)
(* ways the code handles, and end.                                           *)
CrashesEnd == <>[][Run]_vars

(* When crashes end, what dead processes had leased is fetched all the same  *)
(* (reclaim_expired_chunks), however often a run ends and another starts.    *)
ArchiveRecovers ==
  CrashesEnd =>
    \A b \in Blocks : <>(b \in durable \/ SomeFailed \/ \A s \in Stops : s < b)

(* When crashes end, a restart resumes where the index stopped and finishes. *)
IndexRecovers ==
  CrashesEnd =>
    \A b \in Blocks : <>(digestMark >= b \/ SomeFailed \/ \A s \in Stops : s < b)
================================================================================
