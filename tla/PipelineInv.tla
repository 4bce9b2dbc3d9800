------------------------------ MODULE PipelineInv ------------------------------
(***************************************************************************)
(* The inductive invariant of Pipeline for an index that is always asked   *)
(* for up to the same block.  That is the premise OneTo: every start has   *)
(* the same --to and the chain has finalized it, so that every backfill of *)
(* every run ends there.  Without it WatermarkHonest is false: the run     *)
(* PipelineHeadMoved shows one way.                                        *)
(***************************************************************************)
EXTENDS Pipeline

To == CHOOSE s \in Stops : TRUE

OneTo == Stops = {To} /\ To <= FirstHead

(* The premise of what is said of the archive: `pif digest --from' moves the *)
(* marks and drops the queue under a running fetch stage.                    *)
NoDigestFrom == \A u \in Froms : u[1] # "digest"

(* The premise of what is said of rows: no --from under a running digest. *)
FromsWithIndex == \A u \in Froms : u[1] = "index"

(***************************************************************************)
(* Tilings of different runs overlap, but a chunk's first block determines *)
(* its last: ON CONFLICT DO NOTHING never keeps a chunk that is shorter    *)
(* than the tile it stands for.                                            *)
(***************************************************************************)
ChunkEnds ==
  \A f \in DOMAIN chunks : chunks[f].to = Lesser(f + effective_chunk_size - 1, To)

DoneDurable == \A f \in InState(chunks, "done") : f..chunks[f].to \subseteq durable

InChunk(b) == \E f \in DOMAIN chunks : f <= b /\ b <= chunks[f].to

(* While workers run no block above the watermark is missing from the queue. *)
Covered == fetchPc = "backfill" => \A b \in (fetchMark + 1)..To : InChunk(b)

StageInv ==
  /\ fetchPc \in {"off", "backfill", "returned"}
  /\ ahead = NoBlock
  /\ fetchPc = "backfill" => end = To /\ stop = To
  /\ fetchPc # "backfill" => \A w \in Workers : worker[w].pc = "off"

(* What a worker has archived of the chunk it holds, or thinks it holds. *)
WorkerInv ==
  \A w \in Workers :
    LET k == worker[w] IN
    /\ k.pc \in {"archive", "synced"} /\ k.from \in DOMAIN chunks =>
         k.last = chunks[k.from].to
    /\ k.pc = "archive" => k.from..(k.next - 1) \subseteq Readable
    /\ k.pc = "synced" => k.from..k.last \subseteq durable
    /\ k.pc = "advance" => origin..k.last \subseteq durable

MarksOrdered == digestMark <= fetchMark

FetchInv ==
  /\ ChunkEnds
  /\ DoneDurable
  /\ Covered
  /\ StageInv
  /\ WorkerInv
  /\ MarksOrdered
  /\ WatermarkHonest

(* The premises of what is said of the brake: what is asked for is finalized, *)
(* as a streamed block is archived without asking the brake, and no --from    *)
(* takes the digest watermark below what is archived already.                 *)
NeverFollows == \A s \in Stops : s <= FirstHead

NoFrom == Froms = {}

(* A worker stays below the ceiling it claimed under, however long it takes. *)
BrakeInv ==
  /\ BrakeHolds
  /\ fetchPc \in {"off", "backfill", "returned"} /\ ahead = NoBlock
  /\ fetchPc = "backfill" => end >= stop
  /\ \A w \in Workers : worker[w].pc = "archive" => worker[w].last <= brake_ceiling

(* The digest works on the next block and below what it was promised. *)
DigestInv ==
  /\ digestPc = "run" => next = digestMark + 1 /\ ready <= fetchMark
  /\ origin <= digestMark + 1
  /\ NoGaps
  /\ RowsReplayable
  /\ CursorInStep
================================================================================
