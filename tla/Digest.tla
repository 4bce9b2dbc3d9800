--------------------------------- MODULE Digest ---------------------------------
(***************************************************************************)
(* The digest stage, crates/pif-chain/src/digest.rs: decode what the       *)
(* archive holds up to the fetch watermark and commit it in batches.       *)
(* A batch is one transaction: its rows, the rows of its handlers, the     *)
(* cursor and the digest watermark land together or not at all.            *)
(***************************************************************************)
EXTENDS Tables

CONSTANT
  Batch            \* pipeline.digest_batch

ASSUME DigestAssumption == Batch \in Nat \ {0}

VARIABLES
  digestPc,        \* where Digest::run is
  until,           \* its options.stop_at; beyond MaxHead as in Fetch
  next,            \* the next block to commit
  ready            \* `last': the fetch watermark it read last, up to until

digestVars == <<digestPc, until, next, ready>>

DigestTypeOK ==
  /\ digestPc \in {"off", "run", "returned"}
  /\ until \in StartBlock..(MaxHead + 1)
  /\ next \in StartBlock..(MaxHead + 1)
  /\ ready \in Marks

DigestInit ==
  /\ digestPc = "off"
  /\ until = MaxHead + 1
  /\ next = StartBlock
  /\ ready = StartBlock - 1

(* Not the code: any archived block will do, fetched or not. *)
CanCommitUnchecked(from, to) == from..to \subseteq Readable

(* The part of `commit' that can fail: BlockNotArchived, then the CHECK of   *)
(* pipeline_watermarks that keeps the digest watermark at or below the fetch. *)
CanCommit(from, to) ==
  /\ from..to \subseteq Readable
  /\ Greater(digestMark, to) <= fetchMark

(* Not the code: the cursor is left at the first block of the batch. *)
CommitCursorBehind(from, to) ==
  /\ CanCommit(from, to)
  /\ rows' = rows \cup from..to
  /\ cursor' = from
  /\ digestMark' = Greater(digestMark, to)

(* Not the code: the last block of the batch is not written. *)
CommitOpenRange(from, to) ==
  /\ CanCommit(from, to)
  /\ rows' = rows \cup from..(to - 1)
  /\ cursor' = to
  /\ digestMark' = Greater(digestMark, to)

Commit(from, to) ==
  /\ CanCommit(from, to)
  /\ rows' = rows \cup from..to
  /\ cursor' = to
  /\ digestMark' = Greater(digestMark, to)

BatchEnd == Lesser(next + Batch - 1, ready)
--------------------------------------------------------------------------------
(* Not the code: the digest waits for the chain, not for the fetch stage. *)
PollHead ==
  /\ digestPc = "run"
  /\ next > ready
  /\ next <= until
  /\ ready' = Lesser(head, until)
  /\ UNCHANGED <<head, archiveVars, queueVars, markVars, indexVars, origin,
                 digestPc, until, next>>

(* The outer loop: caught up with what it last read, it reads again. *)
DigestPoll ==
  /\ digestPc = "run"
  /\ next > ready
  /\ next <= until
  /\ ready' = Lesser(fetchMark, until)
  /\ UNCHANGED <<head, archiveVars, queueVars, markVars, indexVars, origin,
                 digestPc, until, next>>

(* One turn of the inner loop, which returns at stop_at. *)
DigestCommit ==
  /\ digestPc = "run"
  /\ next <= ready
  /\ Commit(next, BatchEnd)
  /\ next' = BatchEnd + 1
  /\ digestPc' = IF BatchEnd >= until THEN "returned" ELSE "run"
  /\ UNCHANGED <<head, archiveVars, queueVars, fetchMark, origin, until, ready>>

(* Started beyond its stop_at: nothing to do. *)
DigestReturns ==
  /\ digestPc = "run"
  /\ next > ready
  /\ next > until
  /\ digestPc' = "returned"
  /\ UNCHANGED <<head, archiveVars, queueVars, markVars, indexVars, origin,
                 until, next, ready>>

DigestStep == DigestPoll \/ DigestCommit \/ DigestReturns
================================================================================
