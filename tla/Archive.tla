-------------------------------- MODULE Archive --------------------------------
(***************************************************************************)
(* The block archive on disk and the tiering that moves it:                *)
(* crates/pif-store/src/segstore.rs and cold.rs, pif-chain/src/tiering.rs. *)
(*                                                                         *)
(* The fetch stage appends blocks to segments of the hot tier and syncs;   *)
(* the digest reads them back; a tiering pass copies digested segments to  *)
(* the cold tier, records the copy and deletes the hot one.  Of the two    *)
(* stages only what the store sees of them is here: which blocks are put,  *)
(* when the store is synced, and the watermarks.                           *)
(*                                                                         *)
(* What is done to directories (a new file, a rename, a removal) is taken  *)
(* to be durable when the call returns.                                    *)
(***************************************************************************)
EXTENDS SegmentFile

CONSTANTS
  StartBlock,      \* where the archive begins
  LastBlock,       \* bound: blocks after it are not finalized yet
  SegmentSize,     \* layout::DEFAULT_SEGMENT_SIZE
  MaxFrames,       \* bound on the frames of a data file
  MaxMishaps,      \* bound: restarts, failures, and blocks put although they were synced
  Policies,        \* the values of on_digest: a subset of {"archive", "delete"}
  Faults           \* beside kills: a subset of {"power", "full"}

ASSUME ArchiveAssumption ==
  /\ StartBlock \in Nat /\ LastBlock \in Nat /\ StartBlock <= LastBlock
  /\ SegmentSize \in Nat \ {0}
  /\ MaxFrames \in Nat \ {0} /\ MaxMishaps \in Nat
  /\ Policies \subseteq {"archive", "delete"} /\ Policies # {}
  /\ Faults \subseteq {"power", "full"}

VARIABLES
  hotSeg, hotIdx,      \* the files of the hot tier, by segment
  coldSeg, coldIdx,    \* the files of the cold tier
  writer,              \* Segments::writer
  fresh,               \* blocks put since the last sync, in this run
  fetched,             \* blocks that were put and then synced
  fetchMark, digestMark, archiveMark,
  recorded,            \* the segments table: rows of the cold tier
  pass,                \* the tiering pass
  policy,              \* on_digest
  mishaps,             \* how often something went wrong, see MaxMishaps
  deleted,             \* history: segments that `delete' removed
  reopened,            \* history: segments with a new hot file after they were tiered
  again,               \* history: blocks put again, until the run that did it syncs
  torn,                \* history: blocks whose last record may be damaged, see TornBy
  cut                  \* history: power has failed

hot == <<hotSeg, hotIdx>>
cold == <<coldSeg, coldIdx>>
marks == <<fetchMark, digestMark, archiveMark>>
history == <<deleted, reopened, again, torn, cut>>
vars == <<hot, cold, writer, fresh, fetched, marks, recorded, pass, policy, mishaps,
          history>>

Blocks == StartBlock..LastBlock

segment_index(b) == b \div SegmentSize

segment_end(s) == (s + 1) * SegmentSize - 1

Segs == segment_index(StartBlock)..segment_index(LastBlock)

None == -1

(***************************************************************************)
(* segment is None while no writer is open; end is the offset it takes its *)
(* files to end at; putting is the block between its frame and its entry;  *)
(* it is astray once an append failed half-way, as end is not moved then.  *)
(***************************************************************************)
Closed == [segment |-> None, end |-> 0, putting |-> None, astray |-> FALSE]

(* The segments still to be considered, the digest watermark the pass began *)
(* with, the segment at hand, and the highest block it moved.               *)
Idle == [pc |-> "idle", todo |-> {}, digested |-> 0, at |-> None, highest |-> None]

PassPcs == {"idle", "pick", "copied", "indexed", "recorded", "closed", "removed"}

Init ==
  /\ hotSeg = [s \in Segs |-> NoFile] /\ hotIdx = [s \in Segs |-> NoFile]
  /\ coldSeg = [s \in Segs |-> NoFile] /\ coldIdx = [s \in Segs |-> NoFile]
  /\ writer = Closed
  /\ fresh = {} /\ fetched = {}
  /\ fetchMark = StartBlock - 1 /\ digestMark = StartBlock - 1
  /\ archiveMark = Lesser(0, StartBlock - 1)
  /\ recorded = {}
  /\ pass = Idle
  /\ policy \in Policies /\ mishaps = 0
  /\ deleted = {} /\ reopened = {} /\ again = {} /\ torn = {} /\ cut = FALSE
--------------------------------------------------------------------------------
(* Segments::get: locate takes the hot copy when there is one. *)
Found(b) ==
  LET s == segment_index(b)
  IN IF hotSeg[s].there THEN Reads(hotSeg[s], hotIdx[s], b)
     ELSE Reads(coldSeg[s], coldIdx[s], b)

(***************************************************************************)
(* `pif store status': what the store itself says can be replayed, from    *)
(* the first block it holds (first_number, by the names of the files) to   *)
(* the end of what follows it (contiguous_end, by the indexes).            *)
(***************************************************************************)
Indexed(b) ==
  LET s == segment_index(b)
  IN IF hotSeg[s].there THEN EntriesOf(hotIdx[s], b) # {}
     ELSE coldSeg[s].there /\ EntriesOf(coldIdx[s], b) # {}

(* Not the code: the segments of the hot tier alone. *)
HeldHot == {s \in Segs : hotSeg[s].there}

Held == {s \in Segs : hotSeg[s].there \/ coldSeg[s].there}

first_number ==
  LET lowest == {s \in Held : \A t \in Held : s <= t}
      first == {b \in Blocks : segment_index(b) \in lowest /\ Indexed(b)}
  IN {b \in first : \A c \in first : b <= c}

Replayable ==
  {b \in Blocks : \E from \in first_number : from <= b /\ \A c \in from..b : Indexed(c)}

(***************************************************************************)
(* Writing.  The slot holds one writer; a block of another segment seals   *)
(* the segment at hand and opens its own.                                  *)
(***************************************************************************)
(* Not the code: the segment left behind is not synced. *)
LeftUnsynced(files, s) ==
  IF writer.segment = None \/ s # None THEN files
  ELSE [files EXCEPT ![writer.segment] = Synced(@)]

(* With s = None: sync, which seals nothing but flushes the same files. *)
Sealed(files, s) ==
  IF writer.segment \in {None, s} THEN files
  ELSE [files EXCEPT ![writer.segment] = Synced(@)]

Mishap == mishaps < MaxMishaps /\ mishaps' = mishaps + 1

(***************************************************************************)
(* A put of b damages it when the writer's offset is not where its file    *)
(* ends, and when the data file has just been copied and the index not.    *)
(***************************************************************************)
TornBy(b) ==
  LET s == segment_index(b)
  IN IF \/ writer.segment = s /\ writer.astray
        \/ pass.pc = "copied" /\ pass.at = s
     THEN {b} ELSE {}

(***************************************************************************)
(* append, its first write, to a slot that is opened for it where it has   *)
(* to be.  Nothing asks whether the block is there already: an overlapping *)
(* chunk or a lease that ran out puts it again.  A writer whose file was   *)
(* removed under it writes where nobody looks.                             *)
(***************************************************************************)
WriteFrame(b, frame) ==
  LET s == segment_index(b)
      slot == writer.segment = s
      seg == IF slot THEN hotSeg[s] ELSE Opened(hotSeg[s], hotIdx[s])
      end == IF slot THEN writer.end ELSE IndexedEnd(hotIdx[s])
      put == frame # Hole
  IN /\ writer.putting = None
     /\ Len(seg.data) < MaxFrames /\ end < MaxFrames
     /\ hotSeg' = [Sealed(hotSeg, s) EXCEPT
                     ![s] = IF seg.there THEN Appended(seg, frame) ELSE @]
     /\ hotIdx' = [Sealed(hotIdx, s) EXCEPT ![s].there = @ \/ ~slot]
     /\ writer' = [segment |-> s, end |-> end, putting |-> IF put THEN b ELSE None,
                   astray |-> ~put \/ (slot /\ writer.astray)]
     /\ reopened' = IF ~slot /\ ~hotSeg[s].there /\ (coldSeg[s].there \/ s \in deleted)
                    THEN reopened \cup {s} ELSE reopened
     /\ torn' = IF put THEN torn \cup TornBy(b) ELSE torn
     /\ (put /\ b \notin fetched /\ UNCHANGED mishaps) \/ Mishap
     /\ UNCHANGED <<cold, fresh, fetched, marks, recorded, pass, policy, deleted, again,
                    cut>>

PutFrame(b) == WriteFrame(b, b)

(* The disk is full: part of the frame is written, and the put is an error.   *)
AppendFails(b) == "full" \in Faults /\ WriteFrame(b, Hole)

(* Its second: the block is put. *)
PutEntry ==
  LET s == writer.segment
  IN /\ writer.putting # None
     /\ hotIdx' = IF hotIdx[s].there
                  THEN [hotIdx EXCEPT ![s] = Appended(@, Entry(writer.putting, writer.end + 1))]
                  ELSE hotIdx
     /\ writer' = [writer EXCEPT !.end = @ + 1, !.putting = None]
     /\ fresh' = fresh \cup {writer.putting}
     /\ again' = again \cup ({writer.putting} \cap fetched)
     /\ UNCHANGED <<hotSeg, cold, fetched, marks, recorded, pass, policy, mishaps, deleted,
                    reopened, torn, cut>>

(* store.sync(): what was put may be reported as done. *)
Sync ==
  /\ fresh # {}
  /\ writer.putting = None
  /\ hotSeg' = Sealed(hotSeg, None) /\ hotIdx' = Sealed(hotIdx, None)
  /\ fetched' = fetched \cup fresh /\ again' = again \ fresh
  /\ fresh' = {}
  /\ UNCHANGED <<cold, writer, marks, recorded, pass, policy, mishaps, deleted, reopened,
                 torn, cut>>

(* advance_fetch_watermark. *)
Publish(n) ==
  /\ n > fetchMark
  /\ StartBlock..n \subseteq fetched
  /\ fetchMark' = n
  /\ UNCHANGED <<hot, cold, writer, fresh, fetched, digestMark, archiveMark, recorded,
                 pass, policy, mishaps, history>>

(* A batch of the digest. *)
Digest(n) ==
  /\ n \in (digestMark + 1)..fetchMark
  /\ \A b \in (digestMark + 1)..n : Found(b)
  /\ digestMark' = n
  /\ UNCHANGED <<hot, cold, writer, fresh, fetched, fetchMark, archiveMark, recorded,
                 pass, policy, mishaps, history>>
--------------------------------------------------------------------------------
(***************************************************************************)
(* Tiering::pass.  It lists the hot segments once, takes them in order and *)
(* stops at the first that is not digested or not old enough.              *)
(***************************************************************************)
PassStarts ==
  /\ pass.pc = "idle"
  /\ digestMark >= 0
  /\ \E s \in Segs : hotSeg[s].there
  /\ pass' = [Idle EXCEPT !.pc = "pick", !.todo = {s \in Segs : hotSeg[s].there},
                          !.digested = digestMark]
  /\ UNCHANGED <<hot, cold, writer, fresh, fetched, marks, recorded, policy, mishaps, history>>

(* Not the code: a segment is taken as soon as the digest is in it. *)
PartlyDigested(s) == s * SegmentSize <= pass.digested

Digested(s) == segment_end(s) <= pass.digested

Eligible(s) == s \in pass.todo /\ Digested(s) /\ \A t \in pass.todo : s <= t

(* copy_verified of the data file: it appears whole, synced and compared. *)
CopySeg(s) ==
  /\ pass.pc = "pick" /\ policy = "archive" /\ Eligible(s)
  /\ coldSeg' = [coldSeg EXCEPT ![s] = FileOf(hotSeg[s].data)]
  /\ pass' = [pass EXCEPT !.pc = "copied", !.at = s]
  /\ UNCHANGED <<hot, coldIdx, writer, fresh, fetched, marks, recorded, policy, mishaps,
                 history>>

CopyIdx(s) ==
  /\ pass.pc = "copied" /\ pass.at = s
  /\ coldIdx' = IF hotIdx[s].there
                THEN [coldIdx EXCEPT ![s] = FileOf(hotIdx[s].data)] ELSE coldIdx
  /\ pass' = [pass EXCEPT !.pc = "indexed"]
  /\ UNCHANGED <<hot, coldSeg, writer, fresh, fetched, marks, recorded, policy, mishaps,
                 history>>

RecordSegment(s) ==
  /\ pass.pc = "indexed" /\ pass.at = s
  /\ recorded' = recorded \cup {s}
  /\ pass' = [pass EXCEPT !.pc = "recorded"]
  /\ UNCHANGED <<hot, cold, writer, fresh, fetched, marks, policy, mishaps, history>>

(* Not the code: a segment is dropped before it is copied. *)
DroppableAtOnce(s) == pass.pc = "pick" /\ Eligible(s)

(* With `archive' after it is recorded, with `delete' at once. *)
Droppable(s) ==
  \/ pass.pc = "recorded" /\ pass.at = s
  \/ pass.pc = "pick" /\ policy = "delete" /\ Eligible(s)

(* drop_hot: close the writer; remove the data file, then the index.  A late *)
(* put may open the segment again between any two of the three.              *)
CloseWriter(s) ==
  /\ Droppable(s)
  /\ writer.putting = None
  /\ LET mine == writer.segment = s
     IN /\ writer' = IF mine THEN Closed ELSE writer
        /\ hotSeg' = IF mine THEN Sealed(hotSeg, None) ELSE hotSeg
        /\ hotIdx' = IF mine THEN Sealed(hotIdx, None) ELSE hotIdx
  /\ pass' = [pass EXCEPT !.pc = "closed", !.at = s]
  /\ UNCHANGED <<cold, fresh, fetched, marks, recorded, policy, mishaps, history>>

DropSeg(s) ==
  /\ pass.pc = "closed" /\ pass.at = s
  /\ hotSeg' = [hotSeg EXCEPT ![s] = NoFile]
  /\ pass' = [pass EXCEPT !.pc = "removed"]
  /\ deleted' = IF policy = "delete" THEN deleted \cup {s} ELSE deleted
  /\ UNCHANGED <<hotIdx, cold, writer, fresh, fetched, marks, recorded, policy, mishaps,
                 reopened, again, torn, cut>>

(* And forget_segment, under `delete'. *)
DropIdx(s) ==
  /\ pass.pc = "removed" /\ pass.at = s
  /\ hotIdx' = [hotIdx EXCEPT ![s] = NoFile]
  /\ recorded' = IF policy = "delete" THEN recorded \ {s} ELSE recorded
  /\ pass' = [pass EXCEPT !.pc = "pick", !.todo = @ \ {s}, !.at = None,
                          !.highest = segment_end(s)]
  /\ UNCHANGED <<hotSeg, cold, writer, fresh, fetched, marks, policy, mishaps, history>>

(* Not the code: the mark covers all that is digested. *)
DigestedMark == IF pass.highest = None THEN archiveMark ELSE pass.digested

(* advance_archive_watermark. *)
NewArchiveMark == IF pass.highest > archiveMark THEN pass.highest ELSE archiveMark

(* At a segment that is not digested or not old enough, or after the last. *)
PassEnds ==
  /\ pass.pc = "pick"
  /\ archiveMark' = NewArchiveMark
  /\ pass' = Idle
  /\ UNCHANGED <<hot, cold, writer, fresh, fetched, fetchMark, digestMark, recorded,
                 policy, mishaps, history>>

(* An error of disk or database; run_forever goes on. *)
PassFails ==
  /\ pass # Idle /\ Mishap
  /\ pass' = Idle
  /\ UNCHANGED <<hot, cold, writer, fresh, fetched, marks, recorded, policy, history>>
--------------------------------------------------------------------------------
(* The processes end and start again, perhaps with another on_digest. *)
Restart ==
  /\ Mishap
  /\ writer' = Closed
  /\ fresh' = {}
  /\ pass' = Idle
  /\ policy' \in Policies
  /\ UNCHANGED <<cold, fetched, marks, recorded, deleted, reopened>>

(* What was written stays written. *)
Kill ==
  /\ Restart
  /\ UNCHANGED <<hot, again, torn, cut>>

(* What was not synced may be lost, of each file by itself. *)
Survivors(files) ==
  {left \in [Segs -> UNION {Remains(files[s]) : s \in Segs}] :
     \A s \in Segs : left[s] \in Remains(files[s])}

PowerFailure ==
  /\ "power" \in Faults
  /\ Restart
  /\ hotSeg' \in Survivors(hotSeg) /\ hotIdx' \in Survivors(hotIdx)
  /\ torn' = torn \cup again /\ again' = {} /\ cut' = TRUE

PassStep ==
  \/ PassStarts
  \/ \E s \in Segs :
       \/ CopySeg(s) \/ CopyIdx(s) \/ RecordSegment(s)
       \/ CloseWriter(s) \/ DropSeg(s) \/ DropIdx(s)
  \/ PassEnds
  \/ PassFails

Next ==
  \/ \E b \in Blocks : PutFrame(b) \/ AppendFails(b) \/ Publish(b) \/ Digest(b)
  \/ PutEntry
  \/ Sync
  \/ PassStep
  \/ Kill
  \/ PowerFailure

Spec == Init /\ [][Next]_vars

(***************************************************************************)
(* `pif index --from n': reset_watermarks and reset_chunks.  Of the blocks *)
(* from n on nothing is promised any more.  Here blocks are put again for  *)
(* no other reason.                                                        *)
(***************************************************************************)
RedoFrom(n) ==
  /\ n <= digestMark
  /\ writer' = Closed /\ fresh' = {} /\ pass' = Idle
  /\ fetchMark' = n - 1 /\ digestMark' = n - 1
  /\ archiveMark' = Lesser(archiveMark, n - 1)
  /\ fetched' = fetched \cap StartBlock..(n - 1) /\ again' = again \cap StartBlock..(n - 1)
  /\ UNCHANGED <<hot, cold, recorded, policy, mishaps, deleted, reopened, torn, cut>>

OnlyNew == \A b \in fetched : writer'.putting = b => writer.putting = b

RedoSpec == Init /\ [][(Next /\ OnlyNew) \/ \E n \in Blocks : RedoFrom(n)]_vars
--------------------------------------------------------------------------------
(* Type invariant, with the CHECK of pipeline_watermarks: no mark overtakes the *)
(* one before it.                                                               *)
ArchiveTypeOK ==
  /\ \A s \in Segs :
       /\ IsFile(hotSeg[s], Blocks \cup {Hole}) /\ IsFile(coldSeg[s], Blocks \cup {Hole})
       /\ IsFile(hotIdx[s], [block : Blocks, at : 1..MaxFrames])
       /\ IsFile(coldIdx[s], [block : Blocks, at : 1..MaxFrames])
  /\ writer.segment \in Segs \cup {None} /\ writer.putting \in Blocks \cup {None}
  /\ fresh \subseteq Blocks /\ fetched \subseteq Blocks
  /\ archiveMark <= digestMark /\ digestMark <= fetchMark
  /\ fetchMark \in (StartBlock - 1)..LastBlock
  /\ recorded \subseteq Segs /\ deleted \subseteq Segs /\ reopened \subseteq Segs
  /\ again \subseteq Blocks /\ torn \subseteq Blocks
  /\ pass.pc \in PassPcs /\ pass.todo \subseteq Segs /\ pass.at \in Segs \cup {None}

(* What was synced can be read for ever, whichever tier it is on and       *)
(* whatever a pass, a kill or a power failure has left half done: copy,    *)
(* verify, record, then delete.  It can although blocks are put again at   *)
(* any time; the three cases in which that costs a block are named: its    *)
(* last record may be damaged (torn), its segment had left the hot tier    *)
(* (reopened), or on_digest = "delete" took it (deleted).                  *)
ReadsBack ==
  \A b \in fetched \ torn : segment_index(b) \notin deleted \cup reopened => Found(b)

(* Not so without the exceptions, although no block should be "present-    *)
(* but-wrong" (segment.rs:13-14): with power failures and with a full disk *)
(* TLC refutes this.                                                       *)
NeverWrong == \A b \in fetched : segment_index(b) \notin deleted => Found(b)

(* Not so either: that a recorded segment is whole on the cold tier, torn  *)
(* blocks included ("Copy, verify, record, then delete", tiering.rs:11).   *)
(* TLC refutes it without any fault.                                       *)
RecordedWhole ==
  \A b \in fetched :
    segment_index(b) \in recorded \ reopened =>
      Reads(coldSeg[segment_index(b)], coldIdx[segment_index(b)], b)

(* Nor this, with late puts or with --from (RedoSpec): on one tier or the  *)
(* other there is a copy of every block whose own record is not damaged    *)
(* ("blocks already tiered to cold storage are still there",               *)
(* repo.rs:477-478; "so it stays replayable", tiering.rs:7).               *)
HasCopy ==
  \A b \in fetched \ torn :
    LET s == segment_index(b)
    IN s \notin deleted =>
         Reads(hotSeg[s], hotIdx[s], b) \/ Reads(coldSeg[s], coldIdx[s], b)

(* A row of `segments' stands for a copy on the cold tier that is whole:   *)
(* it names every block of that segment that was ever reported as done,    *)
(* also while a later pass copies the segment once more, unless blocks     *)
(* were put into it after it had left the hot tier.                        *)
RecordsTrue ==
  \A b \in fetched \ torn :
    segment_index(b) \in recorded \ reopened =>
      Reads(coldSeg[segment_index(b)], coldIdx[segment_index(b)], b)

(* The archive watermark is a prefix, not a set: no segment at or below it *)
(* is left on the hot tier, although passes fail and take up again and     *)
(* blocks are put while a pass drops their segment.  What a late put makes *)
(* anew after that is the one exception.                                   *)
ArchivedPrefix ==
  \A s \in Segs \ reopened : segment_end(s) <= archiveMark => ~hotSeg[s].there

(* As long as power holds, a torn append reads as absent, never as present *)
(* but wrong: every block with an index entry can be read, unless it was   *)
(* put through a writer that an error had led astray, or put into a        *)
(* segment while it was copied or after it was tiered.                     *)
TornReadsAbsent ==
  ~cut =>
    \A s \in Segs \ reopened : hotSeg[s].there =>
      \A i \in DOMAIN hotIdx[s].data :
        hotIdx[s].data[i].block \notin torn =>
          Reads(hotSeg[s], hotIdx[s], hotIdx[s].data[i].block)

(* The store's own answer agrees with the watermark, which Postgres was    *)
(* only told ("the only way to audit `fetch_watermark` against reality",   *)
(* hot.rs:117): whatever a pass, a kill or a power failure has left, it    *)
(* covers every block up to the watermark, as long as no segment below was *)
(* deleted or written to after it was tiered; and as long as power holds,  *)
(* every block in it can be read.                                          *)
StatusTrue ==
  /\ \A b \in StartBlock..fetchMark :
       (\A s \in Segs : s <= segment_index(b) => s \notin deleted \cup reopened)
         => b \in Replayable
  /\ ~cut => \A b \in Replayable \ torn : segment_index(b) \notin reopened => Found(b)

(* All of it is the archive that the two stages rely on: a set of readable *)
(* blocks that grows.  It gives up digested blocks under `delete', and     *)
(* blocks that are spoiled, which it had or which were digested, as long   *)
(* as the disk does not fill up.                                           *)
A == INSTANCE BlockArchive WITH
       kept <- {b \in fetched : Found(b)},
       spoiled <- torn \cup {b \in Blocks : segment_index(b) \in reopened}

ImplementsBlockArchive == A!Spec
================================================================================
