---------------------------- MODULE ArchiveProofs ----------------------------
(***************************************************************************)
(* The archive keeps what was fetched, on one tier or the other, for any   *)
(* range of blocks and any size of segments: what the run ArchiveSafe      *)
(* checks on three blocks.                                                 *)
(***************************************************************************)
EXTENDS Archive, SequenceTheorems, WellFoundedInduction, TLAPS

(* A file, and what both tiers may hold.                                    *)
Files(unit) == [there : BOOLEAN, data : Seq(unit), synced : Nat]

Frames == Blocks \cup {Hole}

Entries == [block : Blocks, at : 1..MaxFrames]

Writers == [segment : Segs \cup {None}, end : Nat, putting : Blocks \cup {None},
            astray : BOOLEAN]

Passes == [pc : PassPcs, todo : SUBSET Segs, digested : Int, at : Segs \cup {None},
           highest : Int]

WellFormed ==
  /\ hotSeg \in [Segs -> Files(Frames)] /\ coldSeg \in [Segs -> Files(Frames)]
  /\ hotIdx \in [Segs -> Files(Entries)] /\ coldIdx \in [Segs -> Files(Entries)]
  /\ \A s \in Segs :
       /\ IsFile(hotSeg[s], Frames) /\ IsFile(hotIdx[s], Entries)
       /\ IsFile(coldSeg[s], Frames) /\ IsFile(coldIdx[s], Entries)
  /\ writer \in Writers
  /\ fresh \subseteq Blocks /\ fetched \subseteq Blocks
  /\ recorded \subseteq Segs /\ deleted \subseteq Segs /\ reopened \subseteq Segs
  /\ again \subseteq Blocks /\ torn \subseteq Blocks
  /\ pass \in Passes /\ policy \in Policies

(* What is below the fetch watermark was put and synced.                    *)
Marks ==
  /\ archiveMark \in Int /\ digestMark \in Int /\ fetchMark \in Int
  /\ -1 <= archiveMark /\ archiveMark <= digestMark /\ digestMark <= fetchMark
  /\ StartBlock - 1 <= digestMark /\ fetchMark <= LastBlock
  /\ StartBlock..fetchMark \subseteq fetched

(* The digest is past the segment: all of it was fetched.                   *)
Settled(s) == segment_end(s) <= digestMark

(* The hot file is the one its blocks were first put in.                    *)
First(s) == s \notin reopened /\ hotSeg[s].there

(* Entries come in the order of their frames, none missing.                 *)
InOrder(idx) == \A i \in DOMAIN idx.data : idx.data[i].at = i

IndexesInOrder == \A s \in Segs : InOrder(hotIdx[s]) /\ InOrder(coldIdx[s])

(* The last entry of a block, and a frame with that block.                  *)
IsLast(idx, b, i) == i \in EntriesOf(idx, b) /\ \A j \in EntriesOf(idx, b) : j <= i

Points(seg, i, b) == i \in DOMAIN seg.data /\ seg.data[i] = b

(* What a power failure has to leave: all that was synced, but for blocks   *)
(* that were put again since.                                               *)
Lasting == fetched \ again

(* Data file and index have the block where another index (their own, or    *)
(* the one on the cold tier) says, and keep it there if it is to last.      *)
Holds(seg, own, idx, b, lasting) ==
  \E i \in EntriesOf(idx, b) :
    /\ IsLast(idx, b, i) /\ Points(seg, i, b) /\ i \in DOMAIN own.data
    /\ b \in lasting => i <= seg.synced /\ i <= own.synced

(* The writer knows where its files end, and what it has put between; it is *)
(* astray only where the disk can be full.                                  *)
WriterTrue ==
  /\ writer.segment = None => writer.putting = None
  /\ writer.astray => "full" \in Faults
  /\ writer.putting # None =>
       segment_index(writer.putting) = writer.segment /\ writer.end < MaxFrames
  /\ \A s \in Segs : writer.segment = s =>
       /\ hotSeg[s].there \/ Settled(s)
       /\ hotIdx[s].there => Len(hotIdx[s].data) = writer.end
       /\ First(s) =>
            /\ ~writer.astray => Len(hotSeg[s].data) =
                 IF writer.putting = None THEN writer.end ELSE writer.end + 1
            /\ writer.putting \notin torn \cup {None} =>
                 Points(hotSeg[s], writer.end + 1, writer.putting)

Whole(file) == file.synced = Len(file.data)

(* Blocks that are put and not yet synced are in files that the next sync,  *)
(* or the seal before it, makes durable.                                    *)
FreshHeld ==
  \A b \in fresh :
    LET s == segment_index(b)
    IN /\ hotSeg[s].there \/ b \in fetched
       /\ First(s) =>
            /\ EntriesOf(hotIdx[s], b) # {}
            /\ b \notin torn => Holds(hotSeg[s], hotIdx[s], hotIdx[s], b, Lasting)
            /\ writer.segment # s => Whole(hotSeg[s]) /\ Whole(hotIdx[s])

HotHeld ==
  \A b \in fetched :
    LET s == segment_index(b)
    IN First(s) =>
         /\ \E i \in EntriesOf(hotIdx[s], b) : i <= hotIdx[s].synced
         /\ b \notin torn => Holds(hotSeg[s], hotIdx[s], hotIdx[s], b, Lasting)

(* The index of the cold tier is written last, and while the hot files are  *)
(* there it fits them too: a pass that fails and comes again replaces the   *)
(* data file first.                                                         *)
ColdHeld ==
  \A b \in fetched :
    LET s == segment_index(b)
    IN coldIdx[s].there /\ s \notin reopened =>
         /\ EntriesOf(coldIdx[s], b) # {}
         /\ b \notin torn =>
              /\ Reads(coldSeg[s], coldIdx[s], b)
              /\ First(s) => Holds(hotSeg[s], hotIdx[s], coldIdx[s], b, Lasting)

SomeTier ==
  \A b \in fetched :
    LET s == segment_index(b)
    IN hotSeg[s].there \/ coldIdx[s].there \/ s \in deleted

(* Only settled segments are tiered, and opened once more.                  *)
TieredSettled ==
  /\ again \subseteq fetched
  /\ \A s \in Segs :
       /\ coldSeg[s].there \/ s \in deleted \cup reopened => Settled(s)
       /\ hotIdx[s].there /\ ~hotSeg[s].there => Settled(s)
       /\ coldIdx[s].there => coldSeg[s].there
       /\ s \in recorded => coldIdx[s].there \/ s \in reopened
       /\ s \in reopened => coldIdx[s].there \/ s \in deleted
       /\ First(s) => hotIdx[s].there /\ s \notin deleted

(* As long as power holds, an index entry never points astray.              *)
NotTorn ==
  ~cut =>
    \A s \in Segs : First(s) =>
      \A i \in DOMAIN hotIdx[s].data :
        hotIdx[s].data[i].block \notin torn => Points(hotSeg[s], i, hotIdx[s].data[i].block)

(* Between the two copies: the data file that was copied has what the index *)
(* says, and the block that is not in the index yet.                        *)
CopyFits(s) ==
  \A b \in Blocks \ torn : segment_index(b) = s =>
    /\ \A i \in Nat : IsLast(hotIdx[s], b, i) => Points(coldSeg[s], i, b)
    /\ writer.putting = b => Points(coldSeg[s], writer.end + 1, b)

(* The pass at work: what it has in hand, and what it has still to do.      *)
Handling == {"copied", "indexed", "recorded", "closed", "removed"}

InHand(s) ==
  /\ pass.pc = "copied" => CopyFits(s)
  /\ pass.pc \in {"indexed", "recorded"} => coldIdx[s].there
  /\ pass.pc = "closed" => policy = "delete" \/ coldIdx[s].there
  /\ pass.pc = "removed" => ~hotSeg[s].there

PassTrue ==
  /\ pass.pc = "idle" => pass = Idle
  /\ pass.pc = "pick" => pass.at = None
  /\ pass.pc \in Handling =>
       /\ pass.at \in pass.todo /\ segment_end(pass.at) <= pass.digested
       /\ \A s \in pass.todo : pass.at <= s
       /\ pass.at \notin reopened => InHand(pass.at)
       /\ pass.pc = "copied" => coldSeg[pass.at].there
       /\ pass.pc = "recorded" => pass.at \in recorded
       /\ pass.pc = "removed" /\ policy = "delete" => pass.at \in deleted
  /\ pass.pc # "idle" => pass.digested <= digestMark /\ pass.highest <= pass.digested
  /\ \A s \in pass.todo :
       /\ pass.highest < segment_end(s)
       /\ hotSeg[s].there \/ (pass.pc = "removed" /\ s = pass.at)

(* Segments are tiered in order.                                            *)
TieredInOrder ==
  \A s \in Segs : First(s) =>
    /\ archiveMark < segment_end(s)
    /\ pass.pc # "idle" /\ s \notin pass.todo => pass.digested < segment_end(s)

ArchiveInv ==
  /\ WellFormed /\ Marks /\ IndexesInOrder /\ WriterTrue /\ FreshHeld /\ HotHeld
  /\ ColdHeld /\ SomeTier /\ TieredSettled /\ NotTorn /\ PassTrue /\ TieredInOrder
--------------------------------------------------------------------------------
(* Files of segments, for any contents.                                     *)

LEMMA SegmentArithmetic ==
  ASSUME NEW b \in Blocks
  PROVE  /\ segment_index(b) \in Segs
         /\ b <= segment_end(segment_index(b))
  <1>1. StartBlock \in Nat /\ LastBlock \in Nat /\ SegmentSize \in Nat \ {0} /\ b \in Nat
        /\ StartBlock <= b /\ b <= LastBlock
    BY ArchiveAssumption DEF Blocks
  <1>2. /\ StartBlock \div SegmentSize \in Nat /\ LastBlock \div SegmentSize \in Nat
        /\ b \div SegmentSize \in Nat
    BY <1>1
  <1>3. StartBlock \div SegmentSize <= b \div SegmentSize
    BY <1>1
  <1>4. b \div SegmentSize <= LastBlock \div SegmentSize
    BY <1>1
  <1>5. b <= (b \div SegmentSize + 1) * SegmentSize - 1
    BY <1>1
  <1> QED
    BY <1>2, <1>3, <1>4, <1>5 DEF segment_index, segment_end, Segs

LEMMA SegmentOrder ==
  /\ Segs \subseteq Nat
  /\ \A s \in Segs : segment_end(s) \in Nat
  /\ \A s, t \in Segs : s < t => segment_end(s) < segment_end(t)
  <1>1. StartBlock \in Nat /\ LastBlock \in Nat /\ SegmentSize \in Nat \ {0}
    BY ArchiveAssumption
  <1>2. StartBlock \div SegmentSize \in Nat /\ LastBlock \div SegmentSize \in Nat
    BY <1>1
  <1>3. Segs \subseteq Nat
    BY <1>2 DEF Segs, segment_index
  <1>4. \A s \in Nat : (s + 1) * SegmentSize - 1 \in Nat
    BY <1>1
  <1>5. \A s, t \in Nat : s < t => (s + 1) * SegmentSize - 1 < (t + 1) * SegmentSize - 1
    BY <1>1
  <1> QED
    BY <1>3, <1>4, <1>5 DEF segment_end

LEMMA HoldsReads ==
  ASSUME NEW seg, NEW own, NEW idx, NEW b, NEW lasting, InOrder(idx),
         Holds(seg, own, idx, b, lasting)
  PROVE  Reads(seg, idx, b) /\ EntriesOf(idx, b) # {}
  BY DEF InOrder, Holds, IsLast, Points, Reads, EntriesOf

(* Nothing that is indexed is lost by a step, or less durable after it.     *)
Stays(seg, own, after, ownAfter) ==
  \A i \in DOMAIN own.data :
    /\ i \in DOMAIN ownAfter.data /\ ownAfter.data[i] = own.data[i]
    /\ i \in DOMAIN seg.data => i \in DOMAIN after.data /\ after.data[i] = seg.data[i]
    /\ i <= seg.synced => i <= after.synced
    /\ i <= own.synced => i <= ownAfter.synced

LEMMA HoldsOn ==
  ASSUME NEW seg, NEW own, NEW after, NEW ownAfter, Stays(seg, own, after, ownAfter),
         NEW idx, NEW idxAfter, idxAfter.data = idx.data,
         NEW b, NEW lasting, NEW lastingAfter, Holds(seg, own, idx, b, lasting),
         b \in lastingAfter => b \in lasting
  PROVE  Holds(after, ownAfter, idxAfter, b, lastingAfter)
  BY DEF Holds, IsLast, Points, EntriesOf, Stays

LEMMA HoldsWhole ==
  ASSUME NEW seg \in Files(Frames), NEW own \in Files(Entries), Whole(seg), Whole(own),
         NEW idx, NEW b, NEW lasting, NEW lastingAfter, Holds(seg, own, idx, b, lasting)
  PROVE  Holds(seg, own, idx, b, lastingAfter)
  <1>1. /\ \A i \in DOMAIN seg.data : i <= seg.synced
        /\ \A i \in DOMAIN own.data : i <= own.synced
    BY DEF Files, Whole
  <1> QED
    BY <1>1 DEF Holds, Points

LEMMA NoFileIsFile ==
  ASSUME NEW unit
  PROVE  NoFile \in Files(unit) /\ IsFile(NoFile, unit) /\ ~NoFile.there /\ NoFile.data = <<>>
  BY DEF Files, IsFile, NoFile

LEMMA KeptFile ==
  ASSUME NEW unit, NEW file \in Files(unit), IsFile(file, unit)
  PROVE  /\ Synced(file) \in Files(unit) /\ IsFile(Synced(file), unit)
         /\ FileOf(file.data) \in Files(unit) /\ IsFile(FileOf(file.data), unit)
         /\ [file EXCEPT !.there = TRUE] \in Files(unit)
         /\ IsFile([file EXCEPT !.there = TRUE], unit)
  <1>1. file.data \in Seq(unit) /\ file.synced \in 0..Len(file.data) /\ file.there \in BOOLEAN
        /\ Len(file.data) \in Nat /\ (~file.there => file.data = <<>>)
    BY DEF Files, IsFile
  <1>2. Synced(file) = [there |-> file.there, data |-> file.data, synced |-> Len(file.data)]
    BY DEF Files, Synced
  <1>3. [file EXCEPT !.there = TRUE] = [there |-> TRUE, data |-> file.data, synced |-> file.synced]
    <2> DEFINE made == [file EXCEPT !.there = TRUE]
    <2>1. made \in Files(unit) /\ made.there = TRUE
      BY DEF Files
    <2>2. made.data = file.data /\ made.synced = file.synced
      BY DEF Files
    <2> HIDE DEF made
    <2> QED
      BY <2>1, <2>2 DEF Files
  <1>4. Synced(file) \in Files(unit) /\ IsFile(Synced(file), unit)
    BY <1>1, <1>2 DEF Files, IsFile
  <1>5. FileOf(file.data) \in Files(unit) /\ IsFile(FileOf(file.data), unit)
    BY <1>1 DEF Files, IsFile, FileOf
  <1>6. [file EXCEPT !.there = TRUE] \in Files(unit) /\ IsFile([file EXCEPT !.there = TRUE], unit)
    BY <1>1, <1>3 DEF Files, IsFile
  <1> QED
    BY <1>4, <1>5, <1>6

LEMMA AppendedFile ==
  ASSUME NEW unit, NEW file \in Files(unit), IsFile(file, unit), NEW u \in unit
  PROVE  LET after == Appended(file, u)
         IN /\ after \in Files(unit) /\ IsFile(after, unit)
            /\ after.there /\ after.synced = file.synced
            /\ Len(after.data) = Len(file.data) + 1
            /\ DOMAIN after.data = 1..(Len(file.data) + 1)
            /\ \A i \in DOMAIN file.data : after.data[i] = file.data[i]
            /\ after.data[Len(file.data) + 1] = u
  <1> DEFINE data == Append(file.data, u)
  <1>1. file.data \in Seq(unit) /\ file.synced \in 0..Len(file.data) /\ Len(file.data) \in Nat
    BY DEF Files, IsFile
  <1>2. /\ data \in Seq(unit) /\ Len(data) = Len(file.data) + 1
        /\ DOMAIN data = 1..(Len(file.data) + 1)
        /\ \A i \in DOMAIN file.data : data[i] = file.data[i]
        /\ data[Len(file.data) + 1] = u
    BY <1>1
  <1>3. Appended(file, u) = [there |-> TRUE, data |-> data, synced |-> file.synced]
    <2> DEFINE made == [file EXCEPT !.there = TRUE, !.data = data]
    <2> HIDE DEF data
    <2>1. made \in Files(unit) /\ made.there = TRUE
      BY <1>2 DEF Files
    <2>2. made.data = data /\ made.synced = file.synced
      BY DEF Files
    <2>3. Appended(file, u) = made
      BY DEF Appended, data
    <2> HIDE DEF made
    <2> QED
      BY <2>1, <2>2, <2>3 DEF Files
  <1> HIDE DEF data
  <1>4. Appended(file, u) \in Files(unit) /\ IsFile(Appended(file, u), unit)
    BY <1>1, <1>3, <1>2 DEF Files, IsFile
  <1> QED
    BY <1>3, <1>2, <1>4

LEMMA IndexEnd ==
  ASSUME NEW idx \in Files(Entries), InOrder(idx)
  PROVE  IndexedEnd(idx) = Len(idx.data)
  BY DEF Files, InOrder, IndexedEnd

LEMMA OpenedFile ==
  ASSUME NEW seg \in Files(Frames), IsFile(seg, Frames), NEW idx \in Files(Entries), InOrder(idx)
  PROVE  LET after == Opened(seg, idx)
         IN /\ after \in Files(Frames) /\ IsFile(after, Frames) /\ after.there
            /\ Len(after.data) = Len(idx.data)
            /\ DOMAIN after.data = 1..Len(idx.data)
            /\ \A i \in DOMAIN seg.data : i \in DOMAIN idx.data => after.data[i] = seg.data[i]
            /\ \A i \in DOMAIN idx.data : i <= seg.synced => i <= after.synced
  <1> DEFINE end == Len(idx.data)
             data == [i \in 1..end |-> IF i <= Len(seg.data) THEN seg.data[i] ELSE Hole]
  <1>1. end \in Nat /\ Len(seg.data) \in Nat /\ DOMAIN seg.data = 1..Len(seg.data)
        /\ DOMAIN idx.data = 1..end /\ seg.synced \in 0..Len(seg.data)
    BY DEF Files, IsFile
  <1>2. IndexedEnd(idx) = end
    BY IndexEnd
  <1>3. \A i \in 1..end : data[i] \in Frames
    BY <1>1 DEF Files, Frames
  <1>4. data \in Seq(Frames) /\ Len(data) = end
    <2>1. data \in [1..end -> Frames]
      BY <1>3
    <2> HIDE DEF data
    <2> QED
      BY <1>1, <2>1
  <1>5. Opened(seg, idx) = [there |-> TRUE, data |-> data, synced |-> Lesser(seg.synced, end)]
    BY <1>2 DEF Opened
  <1>6. Lesser(seg.synced, end) \in 0..end
    BY <1>1 DEF Lesser
  <1>7. \A i \in 1..end : i <= seg.synced => i <= Lesser(seg.synced, end)
    BY <1>1 DEF Lesser
  <1> HIDE DEF data, end
  <1>8. Opened(seg, idx) \in Files(Frames) /\ IsFile(Opened(seg, idx), Frames)
    BY <1>1, <1>4, <1>5, <1>6 DEF Files, IsFile
  <1>9. DOMAIN data = 1..end /\ \A i \in DOMAIN seg.data : i \in DOMAIN idx.data => data[i] = seg.data[i]
    BY <1>1 DEF data
  <1> QED
    BY <1>1, <1>4, <1>5, <1>7, <1>8, <1>9 DEF end

LEMMA RemainingFile ==
  ASSUME NEW unit, NEW file \in Files(unit), IsFile(file, unit), NEW after \in Remains(file)
  PROVE  /\ after \in Files(unit) /\ IsFile(after, unit)
         /\ after.there = file.there /\ after.synced = file.synced
         /\ \A i \in DOMAIN after.data : i \in DOMAIN file.data /\ after.data[i] = file.data[i]
         /\ \A i \in DOMAIN file.data : i <= file.synced => i \in DOMAIN after.data
         /\ Len(after.data) <= Len(file.data)
  <1>1. /\ file.data \in Seq(unit) /\ file.synced \in 0..Len(file.data) /\ Len(file.data) \in Nat
        /\ DOMAIN file.data = 1..Len(file.data)
        /\ ~file.there => file.data = <<>>
    BY DEF Files, IsFile
  <1>2. PICK n \in file.synced..Len(file.data) :
          after = [file EXCEPT !.data = SubSeq(file.data, 1, n)]
    BY DEF Remains
  <1> DEFINE data == SubSeq(file.data, 1, n)
  <1>3. n \in Nat /\ n <= Len(file.data) /\ file.synced <= n
    BY <1>1, <1>2
  <1>4. /\ data \in Seq(unit) /\ Len(data) = n
        /\ \A i \in 1..n : data[i] = file.data[i]
    <2>1. \A i \in 1..n : file.data[i] \in unit
      BY <1>1, <1>3, ElementOfSeq
    <2>2. /\ data \in Seq(unit) /\ Len(data) = IF 1 <= n THEN n - 1 + 1 ELSE 0
          /\ \A i \in 1..(n - 1 + 1) : data[i] = file.data[1 + i - 1]
      BY <1>1, <1>3, <2>1, SubSeqProperties
    <2> HIDE DEF data
    <2> QED
      BY <1>3, <2>2
  <1>5. after.there = file.there /\ after.synced = file.synced /\ after.data = data
    BY <1>2 DEF Files
  <1> HIDE DEF data
  <1>6. after \in Files(unit)
    BY <1>2, <1>4 DEF Files, data
  <1>7. ~after.there => after.data = <<>>
    <2>1. ~file.there => n = 0
      BY <1>1, <1>3
    <2> QED
      BY <1>4, <1>5, <2>1
  <1>8. IsFile(after, unit)
    BY <1>3, <1>4, <1>5, <1>6, <1>7, <1>1 DEF IsFile, Files
  <1> QED
    BY <1>1, <1>3, <1>4, <1>5, <1>6, <1>8

LEMMA SyncedStays ==
  ASSUME NEW seg \in Files(Frames), IsFile(seg, Frames),
         NEW own \in Files(Entries), IsFile(own, Entries)
  PROVE  /\ Stays(seg, own, Synced(seg), Synced(own))
         /\ Whole(Synced(seg)) /\ Whole(Synced(own))
         /\ Synced(seg).there = seg.there /\ Synced(seg).data = seg.data
         /\ Synced(own).there = own.there /\ Synced(own).data = own.data
  <1>1. /\ Synced(seg).data = seg.data /\ Synced(own).data = own.data
        /\ Synced(seg).there = seg.there /\ Synced(own).there = own.there
        /\ Synced(seg).synced = Len(seg.data) /\ Synced(own).synced = Len(own.data)
    BY DEF Files, Synced
  <1>2. /\ seg.synced \in Nat /\ own.synced \in Nat /\ Len(seg.data) \in Nat /\ Len(own.data) \in Nat
        /\ seg.synced <= Len(seg.data) /\ own.synced <= Len(own.data)
        /\ DOMAIN own.data = 1..Len(own.data)
    BY DEF Files, IsFile
  <1>3. \A i \in DOMAIN own.data : /\ i <= seg.synced => i <= Len(seg.data)
                                   /\ i <= own.synced => i <= Len(own.data)
    BY <1>2
  <1> QED
    BY <1>1, <1>3 DEF Stays, Whole

LEMMA AppendStays ==
  ASSUME NEW seg \in Files(Frames), IsFile(seg, Frames), NEW u \in Frames,
         NEW own \in Files(Entries), NEW ownAfter, ownAfter.data = own.data,
         ownAfter.synced = own.synced
  PROVE  Stays(seg, own, Appended(seg, u), ownAfter)
  <1>1. /\ Appended(seg, u).synced = seg.synced
        /\ DOMAIN Appended(seg, u).data = 1..(Len(seg.data) + 1)
        /\ \A i \in DOMAIN seg.data : Appended(seg, u).data[i] = seg.data[i]
    BY AppendedFile
  <1>2. DOMAIN seg.data \subseteq 1..(Len(seg.data) + 1)
    BY DEF Files
  <1> QED
    BY <1>1, <1>2 DEF Stays

LEMMA OpenStays ==
  ASSUME NEW seg \in Files(Frames), IsFile(seg, Frames), NEW own \in Files(Entries), InOrder(own)
  PROVE  Stays(seg, own, Opened(seg, own), own)
  <1>1. /\ DOMAIN Opened(seg, own).data = 1..Len(own.data)
        /\ \A i \in DOMAIN seg.data : i \in DOMAIN own.data => Opened(seg, own).data[i] = seg.data[i]
        /\ \A i \in DOMAIN own.data : i <= seg.synced => i <= Opened(seg, own).synced
    BY OpenedFile
  <1>2. DOMAIN own.data = 1..Len(own.data)
    BY DEF Files
  <1> QED
    BY <1>1, <1>2 DEF Stays

LEMMA StaysOn ==
  ASSUME NEW seg, NEW own, NEW mid, NEW after, NEW ownAfter,
         Stays(seg, own, mid, own), Stays(mid, own, after, ownAfter)
  PROVE  Stays(seg, own, after, ownAfter)
  BY DEF Stays

(* Its entry makes the block that was put the last one of its number.       *)
LEMMA EntryLast ==
  ASSUME NEW own \in Files(Entries), IsFile(own, Entries), InOrder(own),
         NEW c \in Blocks, Len(own.data) < MaxFrames
  PROVE  LET end == Len(own.data)
             after == Appended(own, Entry(c, end + 1))
         IN /\ after \in Files(Entries) /\ IsFile(after, Entries) /\ InOrder(after)
            /\ after.there /\ Len(after.data) = end + 1
            /\ DOMAIN own.data = 1..end /\ DOMAIN after.data = 1..(end + 1)
            /\ after.data[end + 1].block = c
            /\ after.synced = own.synced
            /\ \A i \in DOMAIN own.data : after.data[i] = own.data[i]
            /\ \A i : IsLast(after, c, i) <=> i = end + 1
            /\ EntriesOf(own, c) \subseteq EntriesOf(after, c)
            /\ \A b : b # c => EntriesOf(after, b) = EntriesOf(own, b)
            /\ \A seg : Stays(seg, own, seg, after)
  <1> DEFINE end == Len(own.data)
             e == Entry(c, end + 1)
             after == Appended(own, e)
  <1>1. end \in Nat /\ DOMAIN own.data = 1..end
    BY DEF Files
  <1>2. e \in Entries /\ e.block = c /\ e.at = end + 1
    BY <1>1, ArchiveAssumption DEF Entries, Entry
  <1> HIDE DEF e
  <1>3. /\ after \in Files(Entries) /\ IsFile(after, Entries) /\ after.there
        /\ after.synced = own.synced
        /\ Len(after.data) = end + 1 /\ DOMAIN after.data = 1..(end + 1)
        /\ \A i \in DOMAIN own.data : after.data[i] = own.data[i]
        /\ after.data[end + 1] = e
    BY <1>2, AppendedFile
  <1> HIDE DEF after, end
  <1>4. InOrder(after)
    <2>1. ASSUME NEW i \in 1..(end + 1) PROVE after.data[i].at = i
      <3>1. CASE i = end + 1
        BY <3>1, <1>2, <1>3
      <3>2. CASE i # end + 1
        <4>1. i \in 1..end
          BY <3>2, <1>1
        <4> QED
          BY <4>1, <1>1, <1>3 DEF InOrder
      <3> QED
        BY <3>1, <3>2
    <2> QED
      BY <1>3, <2>1 DEF InOrder
  <1>5. EntriesOf(after, c) = EntriesOf(own, c) \cup {end + 1}
    BY <1>1, <1>2, <1>3 DEF EntriesOf
  <1>6. \A b : b # c => EntriesOf(after, b) = EntriesOf(own, b)
    BY <1>1, <1>2, <1>3 DEF EntriesOf
  <1>7. \A i : IsLast(after, c, i) <=> i = end + 1
    <2>1. \A j \in EntriesOf(own, c) : j \in 1..end
      BY <1>1 DEF EntriesOf
    <2>2. \A j \in EntriesOf(after, c) : j \in Nat /\ j <= end + 1
      BY <1>1, <1>5, <2>1
    <2> QED
      BY <1>1, <1>5, <2>1, <2>2 DEF IsLast
  <1>8. \A seg : Stays(seg, own, seg, after)
    BY <1>1, <1>3 DEF Stays
  <1> QED
    BY <1>1, <1>2, <1>3, <1>4, <1>5, <1>6, <1>7, <1>8 DEF after, e, end

(* What is to last is still there after a power failure, by either index.   *)
LEMMA RemainingHolds ==
  ASSUME NEW seg \in Files(Frames), IsFile(seg, Frames), NEW after \in Remains(seg),
         NEW own \in Files(Entries), IsFile(own, Entries), NEW ownAfter \in Remains(own),
         NEW idx, NEW b, NEW lasting, NEW lastingAfter, b \in lasting,
         Holds(seg, own, idx, b, lasting)
  PROVE  /\ Holds(after, ownAfter, idx, b, lastingAfter)
         /\ idx = own => Holds(after, ownAfter, ownAfter, b, lastingAfter)
  <1>1. PICK i \in EntriesOf(idx, b) :
          /\ \A j \in EntriesOf(idx, b) : j <= i
          /\ i \in DOMAIN seg.data /\ seg.data[i] = b /\ i \in DOMAIN own.data
          /\ i <= seg.synced /\ i <= own.synced
    BY DEF Holds, IsLast, Points
  <1>2. i \in DOMAIN after.data /\ after.data[i] = b /\ i <= after.synced
    BY <1>1, RemainingFile
  <1>3. /\ ownAfter.synced = own.synced /\ i \in DOMAIN ownAfter.data
        /\ \A j \in DOMAIN ownAfter.data : j \in DOMAIN own.data /\ ownAfter.data[j] = own.data[j]
    BY <1>1, RemainingFile
  <1>4. Holds(after, ownAfter, idx, b, lastingAfter)
    BY <1>1, <1>2, <1>3 DEF Holds, IsLast, Points
  <1>5. ASSUME idx = own PROVE Holds(after, ownAfter, ownAfter, b, lastingAfter)
    <2>1. i \in EntriesOf(ownAfter, b) /\ \A j \in EntriesOf(ownAfter, b) : j <= i
      BY <1>1, <1>3, <1>5 DEF EntriesOf
    <2> QED
      BY <1>1, <1>2, <1>3, <2>1 DEF Holds, IsLast, Points
  <1> QED
    BY <1>4, <1>5
--------------------------------------------------------------------------------
(* The invariant is inductive.                                              *)

LEMMA InvInit == Init => ArchiveInv
  <1> SUFFICES ASSUME Init PROVE ArchiveInv
    OBVIOUS
  <1>1. /\ StartBlock \in Nat /\ LastBlock \in Nat /\ StartBlock <= LastBlock
        /\ \A b \in Blocks : b \in Nat
    BY ArchiveAssumption DEF Blocks
  <1>2. /\ \A s \in Segs : hotSeg[s] = NoFile /\ hotIdx[s] = NoFile
        /\ \A s \in Segs : coldSeg[s] = NoFile /\ coldIdx[s] = NoFile
        /\ fetched = {} /\ fresh = {} /\ recorded = {} /\ deleted = {} /\ reopened = {}
        /\ again = {} /\ torn = {}
        /\ writer = Closed /\ pass = Idle /\ policy \in Policies
    BY DEF Init
  <1>3. WellFormed
    <2>1. /\ hotSeg \in [Segs -> Files(Frames)] /\ coldSeg \in [Segs -> Files(Frames)]
          /\ hotIdx \in [Segs -> Files(Entries)] /\ coldIdx \in [Segs -> Files(Entries)]
      BY NoFileIsFile DEF Init
    <2>2. \A s \in Segs :
            /\ IsFile(hotSeg[s], Frames) /\ IsFile(hotIdx[s], Entries)
            /\ IsFile(coldSeg[s], Frames) /\ IsFile(coldIdx[s], Entries)
      BY <1>2, NoFileIsFile
    <2>3. writer \in Writers
      BY <1>2 DEF Closed, Writers
    <2>4. pass \in Passes
      BY <1>2 DEF Idle, Passes, PassPcs, None
    <2> QED
      BY <1>2, <2>1, <2>2, <2>3, <2>4 DEF WellFormed
  <1>4. Marks
    BY <1>1, ArchiveAssumption DEF Init, Marks, Lesser
  <1>5. IndexesInOrder
    BY <1>2, NoFileIsFile DEF IndexesInOrder, InOrder
  <1>6. WriterTrue
    BY <1>2, SegmentOrder DEF WriterTrue, Closed, None
  <1>7. FreshHeld /\ HotHeld /\ ColdHeld /\ SomeTier
    BY <1>2 DEF FreshHeld, HotHeld, ColdHeld, SomeTier
  <1>8. TieredSettled /\ NotTorn /\ TieredInOrder
    BY <1>2, NoFileIsFile DEF TieredSettled, NotTorn, TieredInOrder, First
  <1>9. PassTrue
    BY <1>2 DEF PassTrue, Idle, Handling
  <1> QED
    BY <1>3, <1>4, <1>5, <1>6, <1>7, <1>8, <1>9 DEF ArchiveInv

(* Facts of the invariant that most steps need.                             *)
LEMMA FileFacts ==
  ASSUME ArchiveInv
  PROVE  /\ hotSeg \in [Segs -> Files(Frames)] /\ coldSeg \in [Segs -> Files(Frames)]
         /\ hotIdx \in [Segs -> Files(Entries)] /\ coldIdx \in [Segs -> Files(Entries)]
         /\ \A s \in Segs :
              /\ hotSeg[s] \in Files(Frames) /\ hotIdx[s] \in Files(Entries)
              /\ IsFile(hotSeg[s], Frames) /\ IsFile(hotIdx[s], Entries)
              /\ IsFile(coldSeg[s], Frames) /\ IsFile(coldIdx[s], Entries)
              /\ InOrder(hotIdx[s]) /\ InOrder(coldIdx[s])
         /\ writer \in Writers /\ writer.segment \in Segs \cup {None}
         /\ writer.putting \in Blocks \cup {None} /\ writer.end \in Nat
         /\ fetched \subseteq Blocks /\ fresh \subseteq Blocks
         /\ \A b \in Blocks : segment_index(b) \in Segs /\ b # None
         /\ \A s \in Segs : s # None
  <1>1. \A b \in Blocks : b # None
    BY ArchiveAssumption DEF Blocks, None
  <1> QED
    BY <1>1, SegmentArithmetic, SegmentOrder
       DEF ArchiveInv, WellFormed, IndexesInOrder, Writers, None

LEMMA PassBounds ==
  ASSUME ArchiveInv
  PROVE  /\ pass \in Passes /\ pass.todo \subseteq Segs
         /\ pass.digested \in Int /\ pass.highest \in Int /\ pass.at \in Segs \cup {None}
         /\ archiveMark \in Int /\ digestMark \in Int /\ fetchMark \in Int
         /\ -1 <= archiveMark /\ archiveMark <= digestMark /\ digestMark <= fetchMark
         /\ \A s \in Segs : segment_end(s) \in Nat
  BY SegmentOrder DEF ArchiveInv, WellFormed, Passes, Marks

(* All of a settled segment was fetched.                                    *)
LEMMA SettledFetched ==
  ASSUME ArchiveInv, NEW b \in Blocks, Settled(segment_index(b))
  PROVE  b \in fetched /\ b <= digestMark
  <1>1. b <= segment_end(segment_index(b)) /\ segment_end(segment_index(b)) \in Nat
    BY SegmentArithmetic, SegmentOrder
  <1>2. segment_end(segment_index(b)) <= digestMark /\ digestMark <= fetchMark
        /\ digestMark \in Int /\ fetchMark \in Int /\ StartBlock..fetchMark \subseteq fetched
    BY DEF Settled, ArchiveInv, Marks
  <1>3. b \in Nat /\ StartBlock \in Nat /\ StartBlock <= b
    BY ArchiveAssumption DEF Blocks
  <1> QED
    BY <1>1, <1>2, <1>3

(* A segment that has no hot file and was not tiered has nothing in it.     *)
New(s) ==
  /\ ~hotSeg[s].there /\ hotIdx[s].data = <<>> /\ ~coldSeg[s].there /\ ~coldIdx[s].there
  /\ s \notin deleted \cup reopened \cup recorded
  /\ digestMark < segment_end(s)
  /\ \A c \in fetched \cup fresh : segment_index(c) # s

LEMMA NewOrTiered ==
  ASSUME ArchiveInv, NEW b \in Blocks, ~hotSeg[segment_index(b)].there
  PROVE  LET s == segment_index(b)
         IN \/ New(s)
            \/ /\ coldSeg[s].there \/ s \in deleted
               /\ coldIdx[s].there \/ s \in deleted
               /\ Settled(s)
  <1> DEFINE s == segment_index(b)
  <1>1. s \in Segs /\ IsFile(hotIdx[s], Entries)
    BY FileFacts
  <1>2. CASE Settled(s)
    <2>1. b \in fetched
      BY <1>2, SettledFetched
    <2> QED
      BY <1>1, <1>2, <2>1 DEF ArchiveInv, SomeTier, TieredSettled
  <1>3. CASE ~Settled(s)
    <2>1. ~hotIdx[s].there /\ ~coldSeg[s].there /\ ~coldIdx[s].there
          /\ s \notin deleted \cup reopened /\ s \notin recorded
      BY <1>1, <1>3 DEF ArchiveInv, TieredSettled
    <2>2. hotIdx[s].data = <<>>
      BY <1>1, <2>1 DEF IsFile
    <2>3. \A c \in fetched \cup fresh : segment_index(c) # s
      BY <2>1 DEF ArchiveInv, SomeTier, FreshHeld
    <2>4. digestMark < segment_end(s)
      BY <1>1, <1>3, PassBounds DEF Settled
    <2> QED
      BY <2>1, <2>2, <2>3, <2>4 DEF New
  <1> QED
    BY <1>2, <1>3

(* What sync, or leaving a segment, does to the files.                      *)
LEMMA SealedFiles ==
  ASSUME ArchiveInv, NEW s \in Segs \cup {None}
  PROVE  LET seg == Sealed(hotSeg, s)
             idx == Sealed(hotIdx, s)
         IN /\ seg \in [Segs -> Files(Frames)] /\ idx \in [Segs -> Files(Entries)]
            /\ \A t \in Segs :
                 /\ IsFile(seg[t], Frames) /\ IsFile(idx[t], Entries)
                 /\ Stays(hotSeg[t], hotIdx[t], seg[t], idx[t])
                 /\ seg[t].there = hotSeg[t].there /\ seg[t].data = hotSeg[t].data
                 /\ idx[t].there = hotIdx[t].there /\ idx[t].data = hotIdx[t].data
                 /\ IF writer.segment = t /\ t # s
                      THEN Whole(seg[t]) /\ Whole(idx[t])
                      ELSE seg[t] = hotSeg[t] /\ idx[t] = hotIdx[t]
  <1> DEFINE seg == Sealed(hotSeg, s)
             idx == Sealed(hotIdx, s)
             w == writer.segment
  <1>1. /\ hotSeg \in [Segs -> Files(Frames)] /\ hotIdx \in [Segs -> Files(Entries)]
        /\ \A t \in Segs : /\ hotSeg[t] \in Files(Frames) /\ hotIdx[t] \in Files(Entries)
                           /\ IsFile(hotSeg[t], Frames) /\ IsFile(hotIdx[t], Entries)
        /\ w \in Segs \cup {None} /\ \A t \in Segs : t # None
    BY FileFacts
  <1>2. \A t \in Segs : Stays(hotSeg[t], hotIdx[t], hotSeg[t], hotIdx[t])
    BY DEF Stays
  <1>3. CASE w \in {None, s}
    <2>1. seg = hotSeg /\ idx = hotIdx
      BY <1>3 DEF Sealed
    <2> QED
      BY <1>1, <1>2, <1>3, <2>1
  <1>4. CASE w \notin {None, s}
    <2>1. w \in Segs
      BY <1>1, <1>4
    <2>2. seg = [hotSeg EXCEPT ![w] = Synced(hotSeg[w])]
          /\ idx = [hotIdx EXCEPT ![w] = Synced(hotIdx[w])]
      BY <1>4 DEF Sealed
    <2>3. /\ Synced(hotSeg[w]) \in Files(Frames) /\ Synced(hotIdx[w]) \in Files(Entries)
          /\ IsFile(Synced(hotSeg[w]), Frames) /\ IsFile(Synced(hotIdx[w]), Entries)
      BY <1>1, <2>1, KeptFile
    <2>4. /\ Stays(hotSeg[w], hotIdx[w], Synced(hotSeg[w]), Synced(hotIdx[w]))
          /\ Whole(Synced(hotSeg[w])) /\ Whole(Synced(hotIdx[w]))
          /\ Synced(hotSeg[w]).there = hotSeg[w].there
          /\ Synced(hotSeg[w]).data = hotSeg[w].data
          /\ Synced(hotIdx[w]).there = hotIdx[w].there
          /\ Synced(hotIdx[w]).data = hotIdx[w].data
      BY <1>1, <2>1, SyncedStays
    <2>5. /\ seg[w] = Synced(hotSeg[w]) /\ idx[w] = Synced(hotIdx[w])
          /\ \A t \in Segs \ {w} : seg[t] = hotSeg[t] /\ idx[t] = hotIdx[t]
      BY <1>1, <2>1, <2>2
    <2>6. seg \in [Segs -> Files(Frames)] /\ idx \in [Segs -> Files(Entries)]
      BY <1>1, <2>1, <2>2, <2>3
    <2> HIDE DEF seg, idx
    <2>7. ASSUME NEW t \in Segs, t = w
          PROVE  /\ IsFile(seg[t], Frames) /\ IsFile(idx[t], Entries)
                 /\ Stays(hotSeg[t], hotIdx[t], seg[t], idx[t])
                 /\ seg[t].there = hotSeg[t].there /\ seg[t].data = hotSeg[t].data
                 /\ idx[t].there = hotIdx[t].there /\ idx[t].data = hotIdx[t].data
                 /\ Whole(seg[t]) /\ Whole(idx[t])
      BY <2>3, <2>4, <2>5, <2>7
    <2>8. ASSUME NEW t \in Segs, t # w
          PROVE  /\ IsFile(seg[t], Frames) /\ IsFile(idx[t], Entries)
                 /\ Stays(hotSeg[t], hotIdx[t], seg[t], idx[t])
                 /\ seg[t] = hotSeg[t] /\ idx[t] = hotIdx[t]
      BY <1>1, <1>2, <2>5, <2>8
    <2> QED
      BY <1>4, <2>6, <2>7, <2>8 DEF seg, idx
  <1> QED
    BY <1>3, <1>4

(* A step that keeps what is indexed in place, and indexes nothing.         *)
HotOn(t) ==
  /\ hotSeg[t].there => hotSeg'[t].there
  /\ hotIdx'[t].data = hotIdx[t].data
  /\ First(t)' => New(t) \/ (First(t) /\ Stays(hotSeg[t], hotIdx[t], hotSeg'[t], hotIdx'[t]))
  /\ writer'.segment # t =>
       \/ Whole(hotSeg'[t]) /\ Whole(hotIdx'[t])
       \/ writer.segment # t /\ hotSeg'[t] = hotSeg[t] /\ hotIdx'[t] = hotIdx[t]

LEMMA HeldOn ==
  ASSUME ArchiveInv, UNCHANGED <<coldSeg, coldIdx, fresh, fetched, again, deleted, cut>>,
         torn \subseteq torn', reopened \subseteq reopened', \A t \in Segs : HotOn(t)
  PROVE  FreshHeld' /\ HotHeld' /\ ColdHeld' /\ SomeTier' /\ NotTorn'
  <1>1. /\ \A b \in fetched \cup fresh : segment_index(b) \in Segs
        /\ \A t \in Segs : hotIdx[t] \in Files(Entries)
    BY FileFacts
  <1>2. ASSUME NEW t \in Segs, First(t)', NEW b, b \in fetched \cup fresh, segment_index(b) = t
        PROVE  First(t) /\ Stays(hotSeg[t], hotIdx[t], hotSeg'[t], hotIdx'[t])
    BY <1>2 DEF HotOn, New
  <1>3. Lasting' = Lasting
    BY DEF Lasting
  <1>4. \A t \in Segs : \A b : EntriesOf(hotIdx'[t], b) = EntriesOf(hotIdx[t], b)
    BY DEF HotOn, EntriesOf
  <1>5. ASSUME NEW t \in Segs, NEW b, Stays(hotSeg[t], hotIdx[t], hotSeg'[t], hotIdx'[t])
        PROVE  /\ Holds(hotSeg[t], hotIdx[t], hotIdx[t], b, Lasting) =>
                    Holds(hotSeg'[t], hotIdx'[t], hotIdx'[t], b, Lasting)
               /\ Holds(hotSeg[t], hotIdx[t], coldIdx[t], b, Lasting) =>
                    Holds(hotSeg'[t], hotIdx'[t], coldIdx[t], b, Lasting)
    <2>1. hotIdx'[t].data = hotIdx[t].data
      BY DEF HotOn
    <2> QED
      BY <1>5, <2>1, HoldsOn
  <1>6. FreshHeld'
    <2> SUFFICES ASSUME NEW b \in fresh
                 PROVE  LET t == segment_index(b)
                        IN /\ hotSeg'[t].there \/ b \in fetched
                           /\ First(t)' =>
                                /\ EntriesOf(hotIdx'[t], b) # {}
                                /\ b \notin torn' =>
                                     Holds(hotSeg'[t], hotIdx'[t], hotIdx'[t], b, Lasting)
                                /\ writer'.segment # t => Whole(hotSeg'[t]) /\ Whole(hotIdx'[t])
      BY <1>3 DEF FreshHeld, Whole
    <2> DEFINE t == segment_index(b)
    <2>1. t \in Segs /\ (hotSeg'[t].there \/ b \in fetched)
      BY <1>1 DEF HotOn, ArchiveInv, FreshHeld
    <2>2. ASSUME First(t)'
          PROVE  /\ EntriesOf(hotIdx'[t], b) # {}
                 /\ b \notin torn' => Holds(hotSeg'[t], hotIdx'[t], hotIdx'[t], b, Lasting)
                 /\ writer'.segment # t => Whole(hotSeg'[t]) /\ Whole(hotIdx'[t])
      <3>1. First(t) /\ Stays(hotSeg[t], hotIdx[t], hotSeg'[t], hotIdx'[t])
        BY <1>2, <2>1, <2>2
      <3>2. /\ EntriesOf(hotIdx[t], b) # {}
            /\ b \notin torn => Holds(hotSeg[t], hotIdx[t], hotIdx[t], b, Lasting)
            /\ writer.segment # t => Whole(hotSeg[t]) /\ Whole(hotIdx[t])
        BY <3>1 DEF ArchiveInv, FreshHeld
      <3>3. writer'.segment # t => Whole(hotSeg'[t]) /\ Whole(hotIdx'[t])
        BY <2>1, <3>2 DEF HotOn
      <3> QED
        BY <1>4, <1>5, <2>1, <3>1, <3>2, <3>3
    <2> QED
      BY <2>1, <2>2
  <1>7. HotHeld'
    <2> SUFFICES ASSUME NEW b \in fetched, First(segment_index(b))'
                 PROVE  LET t == segment_index(b)
                        IN /\ \E i \in EntriesOf(hotIdx'[t], b) : i <= hotIdx'[t].synced
                           /\ b \notin torn' =>
                                Holds(hotSeg'[t], hotIdx'[t], hotIdx'[t], b, Lasting)
      BY <1>3 DEF HotHeld
    <2> DEFINE t == segment_index(b)
    <2>1. t \in Segs /\ First(t) /\ Stays(hotSeg[t], hotIdx[t], hotSeg'[t], hotIdx'[t])
      BY <1>1, <1>2
    <2>2. /\ \E i \in EntriesOf(hotIdx[t], b) : i <= hotIdx[t].synced
          /\ b \notin torn => Holds(hotSeg[t], hotIdx[t], hotIdx[t], b, Lasting)
      BY <2>1 DEF ArchiveInv, HotHeld
    <2>3. \E i \in EntriesOf(hotIdx'[t], b) : i <= hotIdx'[t].synced
      BY <1>4, <2>1, <2>2 DEF EntriesOf, Stays
    <2> QED
      BY <1>5, <2>1, <2>2, <2>3
  <1>8. ColdHeld'
    <2> SUFFICES ASSUME NEW b \in fetched, coldIdx[segment_index(b)].there,
                        segment_index(b) \notin reopened'
                 PROVE  LET t == segment_index(b)
                        IN /\ EntriesOf(coldIdx[t], b) # {}
                           /\ b \notin torn' =>
                                /\ Reads(coldSeg[t], coldIdx[t], b)
                                /\ First(t)' =>
                                     Holds(hotSeg'[t], hotIdx'[t], coldIdx[t], b, Lasting)
      BY <1>3 DEF ColdHeld
    <2> DEFINE t == segment_index(b)
    <2>1. /\ t \in Segs /\ EntriesOf(coldIdx[t], b) # {}
          /\ b \notin torn => /\ Reads(coldSeg[t], coldIdx[t], b)
                              /\ First(t) => Holds(hotSeg[t], hotIdx[t], coldIdx[t], b, Lasting)
      BY <1>1 DEF ArchiveInv, ColdHeld
    <2> QED
      BY <1>2, <1>5, <2>1
  <1>9. SomeTier'
    BY <1>1 DEF ArchiveInv, SomeTier, HotOn
  <1>10. NotTorn'
    <2> SUFFICES ASSUME ~cut, NEW t \in Segs, First(t)', NEW i \in DOMAIN hotIdx'[t].data,
                        hotIdx'[t].data[i].block \notin torn'
                 PROVE  Points(hotSeg'[t], i, hotIdx'[t].data[i].block)
      BY DEF NotTorn
    <2>1. hotIdx'[t].data = hotIdx[t].data
      BY DEF HotOn
    <2>2. First(t) /\ Stays(hotSeg[t], hotIdx[t], hotSeg'[t], hotIdx'[t])
      BY <2>1 DEF HotOn, New
    <2>3. Points(hotSeg[t], i, hotIdx[t].data[i].block)
      BY <2>1, <2>2 DEF ArchiveInv, NotTorn
    <2> QED
      BY <2>1, <2>2, <2>3 DEF Points, Stays
  <1> QED
    BY <1>6, <1>7, <1>8, <1>9, <1>10

(* What the first write does to the files: the segment it leaves is sealed, *)
(* the one it goes to is opened, unless it is the same, and gets the frame. *)
LEMMA WriteFrameFiles ==
  ASSUME ArchiveInv, NEW b \in Blocks, NEW frame \in Frames, WriteFrame(b, frame)
  PROVE  LET s == segment_index(b)
             slot == writer.segment = s
         IN /\ hotSeg' \in [Segs -> Files(Frames)] /\ hotIdx' \in [Segs -> Files(Entries)]
            /\ \A t \in Segs :
                 /\ IsFile(hotSeg'[t], Frames) /\ IsFile(hotIdx'[t], Entries)
                 /\ Stays(hotSeg[t], hotIdx[t], hotSeg'[t], hotIdx'[t])
                 /\ hotIdx'[t].data = hotIdx[t].data
            /\ hotSeg'[s].there = (hotSeg[s].there \/ ~slot)
            /\ hotIdx'[s].there = (hotIdx[s].there \/ ~slot)
            /\ \A t \in Segs \ {s} :
                 /\ hotSeg'[t].there = hotSeg[t].there /\ hotIdx'[t].there = hotIdx[t].there
                 /\ IF writer.segment = t
                      THEN Whole(hotSeg'[t]) /\ Whole(hotIdx'[t])
                      ELSE hotSeg'[t] = hotSeg[t] /\ hotIdx'[t] = hotIdx[t]
            /\ writer'.segment = s /\ writer'.end \in Nat /\ writer'.end < MaxFrames
            /\ writer'.end = IF slot THEN writer.end ELSE Len(hotIdx[s].data)
            /\ hotSeg'[s].there /\ (slot => Len(hotSeg[s].data) = writer.end) =>
                 Points(hotSeg'[s], writer'.end + 1, frame)
                 /\ Len(hotSeg'[s].data) = writer'.end + 1
  <1> DEFINE s == segment_index(b)
             slot == writer.segment = s
             sealedSeg == Sealed(hotSeg, s)
             sealedIdx == Sealed(hotIdx, s)
             seg == IF slot THEN hotSeg[s] ELSE Opened(hotSeg[s], hotIdx[s])
             after == IF seg.there THEN Appended(seg, frame) ELSE sealedSeg[s]
             own == [hotIdx[s] EXCEPT !.there = hotIdx[s].there \/ ~slot]
  <1>1. /\ s \in Segs /\ s # None
        /\ hotSeg[s] \in Files(Frames) /\ hotIdx[s] \in Files(Entries)
        /\ IsFile(hotSeg[s], Frames) /\ IsFile(hotIdx[s], Entries) /\ InOrder(hotIdx[s])
        /\ writer.end \in Nat
    BY FileFacts
  <1>2. /\ sealedSeg \in [Segs -> Files(Frames)] /\ sealedIdx \in [Segs -> Files(Entries)]
        /\ \A t \in Segs :
             /\ IsFile(sealedSeg[t], Frames) /\ IsFile(sealedIdx[t], Entries)
             /\ Stays(hotSeg[t], hotIdx[t], sealedSeg[t], sealedIdx[t])
             /\ sealedSeg[t].there = hotSeg[t].there /\ sealedIdx[t].there = hotIdx[t].there
             /\ sealedIdx[t].data = hotIdx[t].data
             /\ IF writer.segment = t /\ t # s
                  THEN Whole(sealedSeg[t]) /\ Whole(sealedIdx[t])
                  ELSE sealedSeg[t] = hotSeg[t] /\ sealedIdx[t] = hotIdx[t]
    <2>1. s \in Segs \cup {None}
      BY <1>1
    <2> HIDE DEF s
    <2> QED
      BY <2>1, SealedFiles
  <1>3. sealedSeg[s] = hotSeg[s] /\ sealedIdx[s] = hotIdx[s]
    BY <1>1, <1>2
  <1>4. IndexedEnd(hotIdx[s]) = Len(hotIdx[s].data) /\ Len(hotIdx[s].data) \in Nat
    BY <1>1, IndexEnd DEF Files
  <1>5. /\ writer'.segment = s
        /\ writer'.end = IF slot THEN writer.end ELSE Len(hotIdx[s].data)
        /\ writer'.end < MaxFrames
        /\ hotSeg' = [sealedSeg EXCEPT ![s] = after]
        /\ hotIdx' = [sealedIdx EXCEPT ![s].there = hotIdx[s].there \/ ~slot]
    BY <1>1, <1>2, <1>3, <1>4 DEF WriteFrame
  <1>6. /\ seg \in Files(Frames) /\ IsFile(seg, Frames)
        /\ seg.there = (hotSeg[s].there \/ ~slot)
        /\ Len(seg.data) = IF slot THEN Len(hotSeg[s].data) ELSE Len(hotIdx[s].data)
        /\ Stays(hotSeg[s], hotIdx[s], seg, hotIdx[s])
    <2>1. CASE slot
      <3>1. seg = hotSeg[s] /\ hotSeg[s].there \in BOOLEAN
        BY <1>1, <2>1 DEF Files
      <3>2. Stays(hotSeg[s], hotIdx[s], hotSeg[s], hotIdx[s])
        BY DEF Stays
      <3> QED
        BY <1>1, <2>1, <3>1, <3>2
    <2>2. CASE ~slot
      BY <1>1, <2>2, OpenedFile, OpenStays
    <2> QED
      BY <2>1, <2>2
  <1>7. /\ own \in Files(Entries) /\ IsFile(own, Entries) /\ own.data = hotIdx[s].data
        /\ own.synced = hotIdx[s].synced /\ own.there = (hotIdx[s].there \/ ~slot)
    <2>1. own = [there |-> hotIdx[s].there \/ ~slot, data |-> hotIdx[s].data,
                 synced |-> hotIdx[s].synced]
      BY <1>1 DEF Files
    <2>2. hotIdx[s].there \in BOOLEAN
      BY <1>1 DEF Files
    <2> QED
      BY <1>1, <2>1, <2>2 DEF Files, IsFile
  <1>8. hotIdx' = [sealedIdx EXCEPT ![s] = own]
    BY <1>3, <1>5
  <1> HIDE DEF seg, own
  <1>9. /\ after \in Files(Frames) /\ IsFile(after, Frames) /\ after.there = seg.there
        /\ seg.there => Points(after, Len(seg.data) + 1, frame)
                        /\ Len(after.data) = Len(seg.data) + 1
        /\ Stays(hotSeg[s], hotIdx[s], after, own)
    <2>1. CASE seg.there
      <3>0. seg \in Files(Frames) /\ IsFile(seg, Frames)
        BY <1>6
      <3>1. /\ Appended(seg, frame) \in Files(Frames) /\ IsFile(Appended(seg, frame), Frames)
            /\ Appended(seg, frame).there
            /\ Len(Appended(seg, frame).data) = Len(seg.data) + 1
            /\ DOMAIN Appended(seg, frame).data = 1..(Len(seg.data) + 1)
            /\ Appended(seg, frame).data[Len(seg.data) + 1] = frame
        BY <3>0, AppendedFile
      <3>2. Len(seg.data) \in Nat
        BY <1>6 DEF Files
      <3>3. Stays(seg, hotIdx[s], Appended(seg, frame), own)
        BY <1>1, <1>6, <1>7, AppendStays
      <3>4. Stays(hotSeg[s], hotIdx[s], Appended(seg, frame), own)
        BY <1>6, <3>3, StaysOn
      <3>5. after = Appended(seg, frame)
        BY <2>1
      <3>6. Len(seg.data) + 1 \in 1..(Len(seg.data) + 1)
        BY <3>2
      <3> HIDE DEF after
      <3> QED
        BY <2>1, <3>1, <3>4, <3>5, <3>6 DEF Points
    <2>2. CASE ~seg.there
      <3>1. after = hotSeg[s]
        BY <1>3, <2>2
      <3> QED
        BY <1>1, <1>6, <1>7, <2>2, <3>1 DEF Stays, Files
    <2> QED
      BY <2>1, <2>2
  <1> HIDE DEF after
  <1>10. /\ hotSeg'[s] = after /\ hotIdx'[s] = own
         /\ \A t \in Segs \ {s} : hotSeg'[t] = sealedSeg[t] /\ hotIdx'[t] = sealedIdx[t]
    BY <1>1, <1>2, <1>5, <1>8
  <1>11. hotSeg' \in [Segs -> Files(Frames)] /\ hotIdx' \in [Segs -> Files(Entries)]
    BY <1>2, <1>5, <1>7, <1>8, <1>9
  <1>12. \A t \in Segs :
           /\ IsFile(hotSeg'[t], Frames) /\ IsFile(hotIdx'[t], Entries)
           /\ Stays(hotSeg[t], hotIdx[t], hotSeg'[t], hotIdx'[t])
           /\ hotIdx'[t].data = hotIdx[t].data
    <2> TAKE t \in Segs
    <2>1. CASE t = s
      BY <1>7, <1>9, <1>10, <2>1
    <2>2. CASE t # s
      BY <1>2, <1>10, <2>2
    <2> QED
      BY <2>1, <2>2
  <1>13. \A t \in Segs \ {s} :
           /\ hotSeg'[t].there = hotSeg[t].there /\ hotIdx'[t].there = hotIdx[t].there
           /\ IF writer.segment = t
                THEN Whole(hotSeg'[t]) /\ Whole(hotIdx'[t])
                ELSE hotSeg'[t] = hotSeg[t] /\ hotIdx'[t] = hotIdx[t]
    BY <1>2, <1>10
  <1>14. hotSeg'[s].there = (hotSeg[s].there \/ ~slot)
         /\ hotIdx'[s].there = (hotIdx[s].there \/ ~slot)
    BY <1>6, <1>7, <1>9, <1>10
  <1>15. hotSeg'[s].there /\ (slot => Len(hotSeg[s].data) = writer.end) =>
           Points(hotSeg'[s], writer'.end + 1, frame) /\ Len(hotSeg'[s].data) = writer'.end + 1
    BY <1>5, <1>6, <1>9, <1>10
  <1>16. writer'.end \in Nat
    BY <1>1, <1>4, <1>5
  <1> HIDE DEF sealedSeg, sealedIdx, s
  <1> QED
    BY <1>5, <1>11, <1>12, <1>13, <1>14, <1>15, <1>16 DEF s

(* A put, or one that fails half-way.                                       *)
LEMMA WriteFrameStep ==
  ASSUME ArchiveInv, NEW b \in Blocks, PutFrame(b) \/ AppendFails(b)
  PROVE  ArchiveInv'
  <1> DEFINE s == segment_index(b)
             slot == writer.segment = s
  <1>0. PICK frame \in Frames :
          WriteFrame(b, frame) /\ (frame = b \/ ("full" \in Faults /\ frame = Hole))
    <2>1. b \in Frames /\ Hole \in Frames
      BY DEF Frames
    <2>2. CASE PutFrame(b)
      BY <2>1, <2>2 DEF PutFrame
    <2>3. CASE AppendFails(b)
      BY <2>1, <2>3 DEF AppendFails
    <2> QED
      BY <2>2, <2>3
  <1>1. /\ UNCHANGED <<coldSeg, coldIdx, fresh, fetched, fetchMark, digestMark, archiveMark,
                       recorded, pass, policy, deleted, again, cut>>
        /\ writer.putting = None
        /\ reopened' = IF ~slot /\ ~hotSeg[s].there /\ (coldSeg[s].there \/ s \in deleted)
                       THEN reopened \cup {s} ELSE reopened
        /\ torn \subseteq torn' /\ torn' \subseteq torn \cup {b}
        /\ IF frame = Hole
             THEN writer'.putting = None /\ writer'.astray /\ "full" \in Faults
             ELSE /\ frame = b /\ writer'.putting = b /\ TornBy(b) \subseteq torn'
                  /\ writer'.astray = (slot /\ writer.astray)
        /\ writer'.astray \in BOOLEAN
    <2>1. frame = Hole => frame # b
      BY HoleAssumption, ArchiveAssumption DEF Blocks
    <2>2. TornBy(b) \subseteq {b}
      BY DEF TornBy
    <2> QED
      BY <1>0, <2>1, <2>2 DEF WriteFrame, cold, marks
  <1>2. /\ hotSeg' \in [Segs -> Files(Frames)] /\ hotIdx' \in [Segs -> Files(Entries)]
        /\ \A t \in Segs :
             /\ IsFile(hotSeg'[t], Frames) /\ IsFile(hotIdx'[t], Entries)
             /\ Stays(hotSeg[t], hotIdx[t], hotSeg'[t], hotIdx'[t])
             /\ hotIdx'[t].data = hotIdx[t].data
        /\ hotSeg'[s].there = (hotSeg[s].there \/ ~slot)
        /\ hotIdx'[s].there = (hotIdx[s].there \/ ~slot)
        /\ \A t \in Segs \ {s} :
             /\ hotSeg'[t].there = hotSeg[t].there /\ hotIdx'[t].there = hotIdx[t].there
             /\ IF writer.segment = t
                  THEN Whole(hotSeg'[t]) /\ Whole(hotIdx'[t])
                  ELSE hotSeg'[t] = hotSeg[t] /\ hotIdx'[t] = hotIdx[t]
        /\ writer'.segment = s /\ writer'.end \in Nat /\ writer'.end < MaxFrames
        /\ writer'.end = IF slot THEN writer.end ELSE Len(hotIdx[s].data)
        /\ hotSeg'[s].there /\ (slot => Len(hotSeg[s].data) = writer.end) =>
             Points(hotSeg'[s], writer'.end + 1, frame)
             /\ Len(hotSeg'[s].data) = writer'.end + 1
    BY <1>0, WriteFrameFiles
  <1>3. /\ s \in Segs /\ s # None /\ b # None
        /\ \A t \in Segs : t # None
        /\ writer \in Writers
        /\ \A c \in Blocks : segment_index(c) \in Segs /\ c # None
        /\ fetched \subseteq Blocks /\ fresh \subseteq Blocks
    BY FileFacts
  (* The hot file is there, or nothing was in the segment, or it is opened   *)
  (* once more.                                                              *)
  <1>4. /\ First(s)' => First(s) \/ New(s)
        /\ s \in reopened' \ reopened => (coldIdx[s].there \/ s \in deleted) /\ Settled(s)
        /\ ~hotSeg[s].there /\ ~New(s) /\ ~slot => s \in reopened'
    <2>1. CASE hotSeg[s].there
      BY <1>1, <2>1 DEF First
    <2>2. CASE ~hotSeg[s].there
      BY <1>1, <1>2, <2>2, NewOrTiered DEF First, New
    <2> QED
      BY <2>1, <2>2
  <1>5. \A t \in Segs \ {s} : First(t)' <=> First(t)
    BY <1>1, <1>2 DEF First
  <1>6. \A t \in Segs : HotOn(t)
    <2> TAKE t \in Segs
    <2>1. CASE t = s
      BY <1>2, <1>4, <2>1 DEF HotOn
    <2>2. CASE t # s
      BY <1>2, <1>5, <2>2 DEF HotOn
    <2> QED
      BY <2>1, <2>2
  <1>7. FreshHeld' /\ HotHeld' /\ ColdHeld' /\ SomeTier' /\ NotTorn'
    <2>1. reopened \subseteq reopened' /\ torn \subseteq torn'
      BY <1>1
    <2> QED
      BY <1>1, <1>6, <2>1, HeldOn
  <1>8. WellFormed'
    <2>1. writer' \in Writers
      <3>1. writer' = [segment |-> s, end |-> writer'.end, putting |-> writer'.putting,
                       astray |-> writer'.astray]
        BY <1>0 DEF WriteFrame
      <3> QED
        BY <1>1, <1>2, <1>3, <3>1 DEF Writers
    <2>2. reopened' \subseteq Segs /\ torn' \subseteq Blocks
      BY <1>1, <1>3 DEF ArchiveInv, WellFormed
    <2> QED
      BY <1>1, <1>2, <2>1, <2>2 DEF ArchiveInv, WellFormed
  <1>9. Marks' /\ IndexesInOrder'
    BY <1>1, <1>2 DEF ArchiveInv, Marks, IndexesInOrder, InOrder
  <1>10. WriterTrue'
    <2>1. writer'.astray => "full" \in Faults
      BY <1>1 DEF ArchiveInv, WriterTrue
    <2>2. hotIdx'[s].there => Len(hotIdx'[s].data) = writer'.end
      <3>1. CASE slot
        BY <1>2, <1>3, <3>1 DEF ArchiveInv, WriterTrue, Files
      <3>2. CASE ~slot
        BY <1>2, <1>3, <3>2
      <3> QED
        BY <3>1, <3>2
    <2>3. ASSUME First(s)', writer'.putting \notin torn' \cup {None}
          PROVE  Points(hotSeg'[s], writer'.end + 1, writer'.putting)
      <3>1. frame = b /\ writer'.putting = b /\ b \notin TornBy(b) /\ hotSeg'[s].there
        BY <1>1, <2>3 DEF First
      <3>2. slot => ~writer.astray
        BY <3>1 DEF TornBy
      <3>3. slot => First(s)
        BY <1>1, <1>2, <2>3 DEF First
      <3>4. slot => Len(hotSeg[s].data) = writer.end
        BY <1>1, <1>3, <3>2, <3>3 DEF ArchiveInv, WriterTrue
      <3> QED
        BY <1>2, <3>1, <3>4
    <2>4. ASSUME First(s)', ~writer'.astray
          PROVE  Len(hotSeg'[s].data) = writer'.end + 1 /\ writer'.putting # None
      <3>1. writer'.putting # None /\ (slot => ~writer.astray) /\ hotSeg'[s].there
        BY <1>1, <1>3, <2>4 DEF First
      <3>2. slot => First(s)
        BY <1>1, <1>2, <2>4 DEF First
      <3>3. slot => Len(hotSeg[s].data) = writer.end
        BY <1>1, <1>3, <3>1, <3>2 DEF ArchiveInv, WriterTrue
      <3> QED
        BY <1>2, <3>1, <3>3
    <2>5. hotSeg'[s].there \/ Settled(s)'
      BY <1>1, <1>2, <1>3 DEF ArchiveInv, WriterTrue, Settled
    <2> QED
      BY <1>1, <1>2, <1>3, <2>1, <2>2, <2>3, <2>4, <2>5 DEF WriterTrue
  <1>11. TieredSettled'
    <2>1. \A t \in Segs : Settled(t)' = Settled(t)
      BY <1>1 DEF Settled
    <2>2. ASSUME NEW t \in Segs, t # s
          PROVE  /\ coldSeg'[t].there \/ t \in deleted' \cup reopened' => Settled(t)
                 /\ hotIdx'[t].there /\ ~hotSeg'[t].there => Settled(t)
                 /\ coldIdx'[t].there => coldSeg'[t].there
                 /\ t \in recorded' => coldIdx'[t].there \/ t \in reopened'
                 /\ t \in reopened' => coldIdx'[t].there \/ t \in deleted'
                 /\ First(t)' => hotIdx'[t].there /\ t \notin deleted'
      BY <1>1, <1>2, <1>5, <2>2 DEF ArchiveInv, TieredSettled
    <2>3. /\ coldSeg'[s].there \/ s \in deleted' \cup reopened' => Settled(s)
          /\ coldIdx'[s].there => coldSeg'[s].there
          /\ s \in recorded' => coldIdx'[s].there \/ s \in reopened'
          /\ s \in reopened' => coldIdx'[s].there \/ s \in deleted'
      BY <1>1, <1>3, <1>4 DEF ArchiveInv, TieredSettled
    <2>4. hotIdx'[s].there /\ ~hotSeg'[s].there => Settled(s)
      BY <1>2, <1>3 DEF ArchiveInv, TieredSettled
    <2>5. First(s)' => hotIdx'[s].there /\ s \notin deleted'
      <3>1. CASE First(s)
        BY <1>1, <1>2, <1>3, <3>1 DEF ArchiveInv, TieredSettled
      <3>2. CASE First(s)' /\ New(s)
        BY <1>1, <1>2, <3>2 DEF First, New
      <3> QED
        BY <1>4, <3>1, <3>2
    <2>6. again' \subseteq fetched'
      BY <1>1 DEF ArchiveInv, TieredSettled
    <2> QED
      BY <2>1, <2>2, <2>3, <2>4, <2>5, <2>6 DEF TieredSettled
  <1>12. PassTrue'
    <2>1. pass.todo \subseteq Segs /\ (pass.pc \in Handling => pass.at \in pass.todo)
      BY PassBounds DEF ArchiveInv, PassTrue
    <2>2. \A t \in pass.todo : hotSeg[t].there => hotSeg'[t].there
      BY <1>6, <2>1 DEF HotOn
    <2>3. ASSUME pass.pc \in Handling, pass.at \notin reopened' PROVE InHand(pass.at)'
      <3> DEFINE t == pass.at
      <3>1. t \in Segs /\ t \notin reopened /\ InHand(t)
        BY <1>1, <2>1, <2>3 DEF ArchiveInv, PassTrue
      <3>2. ASSUME pass.pc = "copied" PROVE CopyFits(t)'
        <4>1. CopyFits(t)
          BY <3>1, <3>2 DEF InHand
        <4>2. ASSUME NEW c \in Blocks \ torn', segment_index(c) = t, writer'.putting = c
              PROVE  FALSE
          <5>1. c = b /\ TornBy(b) \subseteq torn'
            BY <1>1, <1>3, <4>2
          <5>2. TornBy(b) = {b}
            BY <3>2, <4>2, <5>1 DEF TornBy
          <5> QED
            BY <4>2, <5>1, <5>2
        <4>3. \A c : EntriesOf(hotIdx'[t], c) = EntriesOf(hotIdx[t], c)
          BY <1>2, <3>1 DEF EntriesOf
        <4> QED
          BY <1>1, <4>1, <4>2, <4>3 DEF CopyFits, IsLast, Points
      <3>3. ASSUME pass.pc = "removed" PROVE ~hotSeg'[t].there
        <4>1. ~hotSeg[t].there
          BY <3>1, <3>3 DEF InHand
        <4>2. CASE t = s
          <5>1. Settled(s)
            BY <2>3, <3>1, <4>2, PassBounds DEF ArchiveInv, PassTrue, Settled, Handling
          <5>2. ~New(s)
            BY <1>3, <5>1, PassBounds DEF New, Settled
          <5> QED
            BY <1>2, <1>4, <2>3, <4>1, <4>2, <5>2
        <4>3. CASE t # s
          BY <1>2, <3>1, <4>1, <4>3
        <4> QED
          BY <4>2, <4>3
      <3> QED
        BY <1>1, <3>1, <3>2, <3>3 DEF InHand
    <2> QED
      BY <1>1, <2>1, <2>2, <2>3 DEF ArchiveInv, PassTrue
  <1>13. TieredInOrder'
    <2> SUFFICES ASSUME NEW t \in Segs, First(t)'
                 PROVE  /\ archiveMark < segment_end(t)
                        /\ pass.pc # "idle" /\ t \notin pass.todo =>
                             pass.digested < segment_end(t)
      BY <1>1 DEF TieredInOrder
    <2>1. CASE First(t)
      BY <2>1 DEF ArchiveInv, TieredInOrder
    <2>2. CASE New(t)
      <3>1. digestMark < segment_end(t) /\ (pass.pc # "idle" => pass.digested <= digestMark)
        BY <2>2 DEF New, ArchiveInv, PassTrue
      <3> QED
        BY <3>1, PassBounds
    <2> QED
      BY <1>4, <1>5, <2>1, <2>2
  <1> QED
    BY <1>7, <1>8, <1>9, <1>10, <1>11, <1>12, <1>13 DEF ArchiveInv

(* The entry: the block is put.                                             *)
LEMMA PutEntryStep ==
  ASSUME ArchiveInv, PutEntry
  PROVE  ArchiveInv'
  <1> DEFINE s == writer.segment
             c == writer.putting
             end == writer.end
  <1>1. /\ UNCHANGED <<hotSeg, coldSeg, coldIdx, fetched, fetchMark, digestMark, archiveMark,
                       recorded, pass, policy, deleted, reopened, torn, cut>>
        /\ c # None
        /\ hotIdx' = IF hotIdx[s].there
                     THEN [hotIdx EXCEPT ![s] = Appended(hotIdx[s], Entry(c, end + 1))]
                     ELSE hotIdx
        /\ writer' = [writer EXCEPT !.end = end + 1, !.putting = None]
        /\ fresh' = fresh \cup {c} /\ again' = again \cup ({c} \cap fetched)
    BY DEF PutEntry, cold, marks
  <1>2. /\ s \in Segs /\ c \in Blocks /\ segment_index(c) = s /\ s # None /\ end < MaxFrames
        /\ hotIdx \in [Segs -> Files(Entries)] /\ writer \in Writers /\ end \in Nat
        /\ hotIdx[s] \in Files(Entries) /\ IsFile(hotIdx[s], Entries) /\ InOrder(hotIdx[s])
        /\ fetched \subseteq Blocks /\ fresh \subseteq Blocks
        /\ \A b \in Blocks : segment_index(b) \in Segs /\ b # None
    BY <1>1, FileFacts DEF ArchiveInv, WriterTrue
  <1>3. /\ hotIdx[s].there => Len(hotIdx[s].data) = end
        /\ First(s) => hotIdx[s].there /\ (c \notin torn => Points(hotSeg[s], end + 1, c))
        /\ hotSeg[s].there \/ Settled(s)
    BY <1>1, <1>2 DEF ArchiveInv, WriterTrue, TieredSettled
  <1>4. /\ hotIdx' \in [Segs -> Files(Entries)]
        /\ \A t \in Segs : /\ IsFile(hotIdx'[t], Entries) /\ InOrder(hotIdx'[t])
                           /\ hotIdx'[t].there = hotIdx[t].there
                           /\ hotIdx'[t].synced = hotIdx[t].synced
                           /\ Stays(hotSeg[t], hotIdx[t], hotSeg[t], hotIdx'[t])
                           /\ \A b : b # c => EntriesOf(hotIdx'[t], b) = EntriesOf(hotIdx[t], b)
                           /\ \A b : EntriesOf(hotIdx[t], b) \subseteq EntriesOf(hotIdx'[t], b)
        /\ \A t \in Segs \ {s} : hotIdx'[t] = hotIdx[t]
        /\ IF hotIdx[s].there
             THEN /\ Len(hotIdx'[s].data) = end + 1
                  /\ DOMAIN hotIdx[s].data = 1..end /\ DOMAIN hotIdx'[s].data = 1..(end + 1)
                  /\ hotIdx'[s].data[end + 1].block = c
                  /\ \A i : IsLast(hotIdx'[s], c, i) <=> i = end + 1
             ELSE hotIdx'[s] = hotIdx[s]
    <2>1. CASE hotIdx[s].there
      <3> DEFINE own == hotIdx[s]
                 after == Appended(own, Entry(c, Len(own.data) + 1))
      <3>1. /\ own \in Files(Entries) /\ IsFile(own, Entries) /\ InOrder(own)
            /\ c \in Blocks /\ Len(own.data) < MaxFrames /\ Len(own.data) = end
        BY <1>2, <1>3, <2>1
      <3>2. /\ after \in Files(Entries) /\ IsFile(after, Entries) /\ InOrder(after)
            /\ after.there /\ Len(after.data) = Len(own.data) + 1
            /\ DOMAIN own.data = 1..Len(own.data) /\ DOMAIN after.data = 1..(Len(own.data) + 1)
            /\ after.data[Len(own.data) + 1].block = c
            /\ after.synced = own.synced
            /\ \A i : IsLast(after, c, i) <=> i = Len(own.data) + 1
            /\ EntriesOf(own, c) \subseteq EntriesOf(after, c)
            /\ \A b : b # c => EntriesOf(after, b) = EntriesOf(own, b)
            /\ \A seg : Stays(seg, own, seg, after)
        <4> HIDE DEF own, after, c
        <4> QED
          BY <3>1, EntryLast DEF after
      <3>3. hotIdx' = [hotIdx EXCEPT ![s] = after]
        BY <1>1, <2>1, <3>1
      <3> HIDE DEF after
      <3>4. hotIdx'[s] = after /\ \A t \in Segs \ {s} : hotIdx'[t] = hotIdx[t]
        BY <1>2, <3>3
      <3>5. hotIdx' \in [Segs -> Files(Entries)]
        BY <1>2, <3>2, <3>3
      <3>6. \A t \in Segs : IsFile(hotIdx[t], Entries) /\ InOrder(hotIdx[t])
        BY FileFacts
      <3>7. \A t \in Segs : Stays(hotSeg[t], hotIdx[t], hotSeg[t], hotIdx[t])
        BY DEF Stays
      <3>8. after.there = hotIdx[s].there
        <4>1. after.there \in BOOLEAN /\ hotIdx[s].there \in BOOLEAN
          BY <1>2, <3>2 DEF Files
        <4> QED
          BY <2>1, <3>2, <4>1
      <3>9. \A b : EntriesOf(hotIdx[s], b) \subseteq EntriesOf(after, b)
        BY <3>2
      <3>10. ASSUME NEW t \in Segs
             PROVE  /\ IsFile(hotIdx'[t], Entries) /\ InOrder(hotIdx'[t])
                    /\ hotIdx'[t].there = hotIdx[t].there
                    /\ hotIdx'[t].synced = hotIdx[t].synced
                    /\ Stays(hotSeg[t], hotIdx[t], hotSeg[t], hotIdx'[t])
                    /\ \A b : b # c => EntriesOf(hotIdx'[t], b) = EntriesOf(hotIdx[t], b)
                    /\ \A b : EntriesOf(hotIdx[t], b) \subseteq EntriesOf(hotIdx'[t], b)
        <4>1. CASE t = s
          BY <3>2, <3>4, <3>8, <3>9, <4>1
        <4>2. CASE t # s
          BY <3>4, <3>6, <3>7, <4>2
        <4> QED
          BY <4>1, <4>2
      <3> QED
        BY <2>1, <3>1, <3>2, <3>4, <3>5, <3>10
    <2>2. CASE ~hotIdx[s].there
      BY <1>1, <2>2, FileFacts DEF Stays
    <2> QED
      BY <2>1, <2>2
  <1>5. /\ writer'.segment = s /\ writer'.end = end + 1 /\ writer'.putting = None
        /\ writer'.astray = writer.astray /\ writer' \in Writers
    <2>1. end + 1 \in Nat
      BY <1>2
    <2> QED
      BY <1>1, <1>2, <2>1 DEF Writers
  <1>6. Lasting' \subseteq Lasting /\ c \notin Lasting'
    BY <1>1 DEF Lasting
  <1>7. \A t \in Segs : First(t)' <=> First(t)
    BY <1>1 DEF First
  <1>8. ASSUME NEW t \in Segs, First(t), NEW b,
               \/ b = c /\ t = s /\ c \notin torn
               \/ b # c /\ Holds(hotSeg[t], hotIdx[t], hotIdx[t], b, Lasting)
        PROVE  Holds(hotSeg[t], hotIdx'[t], hotIdx'[t], b, Lasting')
    <2>1. CASE b = c /\ t = s /\ c \notin torn
      <3>1. hotIdx[s].there /\ Points(hotSeg[s], end + 1, c)
        BY <1>3, <1>8, <2>1
      <3>2. IsLast(hotIdx'[s], c, end + 1) /\ end + 1 \in DOMAIN hotIdx'[s].data
        BY <1>2, <1>4, <3>1
      <3>3. end + 1 \in EntriesOf(hotIdx'[s], c)
        BY <3>2 DEF IsLast
      <3> QED
        BY <1>6, <2>1, <3>1, <3>2, <3>3 DEF Holds
    <2>2. CASE b # c /\ Holds(hotSeg[t], hotIdx[t], hotIdx[t], b, Lasting)
      <3>1. Holds(hotSeg[t], hotIdx'[t], hotIdx[t], b, Lasting')
        <4>1. b \in Lasting' => b \in Lasting
          BY <1>6
        <4>2. Stays(hotSeg[t], hotIdx[t], hotSeg[t], hotIdx'[t])
          BY <1>4
        <4> QED
          BY <2>2, <4>1, <4>2, HoldsOn
      <3>2. EntriesOf(hotIdx'[t], b) = EntriesOf(hotIdx[t], b)
        BY <1>4, <2>2
      <3> QED
        BY <3>1, <3>2 DEF Holds, IsLast
    <2> QED
      BY <1>8, <2>1, <2>2
  <1>a. WellFormed'
    <2>1. fresh' \subseteq Blocks /\ again' \subseteq Blocks
      BY <1>1, <1>2 DEF ArchiveInv, WellFormed
    <2> QED
      BY <1>1, <1>4, <1>5, <2>1 DEF ArchiveInv, WellFormed
  <1>b. Marks'
    BY <1>1 DEF ArchiveInv, Marks
  <1>c. IndexesInOrder'
    BY <1>1, <1>4 DEF ArchiveInv, IndexesInOrder
  <1>d. WriterTrue'
    <2>1. hotIdx'[s].there => Len(hotIdx'[s].data) = end + 1
      BY <1>2, <1>4
    <2>2. First(s) /\ ~writer.astray => Len(hotSeg[s].data) = end + 1
      BY <1>1, <1>2 DEF ArchiveInv, WriterTrue
    <2>3. writer'.putting = None
      BY <1>5
    <2>4. writer.astray => "full" \in Faults
      BY DEF ArchiveInv, WriterTrue
    <2> QED
      BY <1>1, <1>2, <1>3, <1>5, <1>7, <2>1, <2>2, <2>3, <2>4 DEF WriterTrue, Settled
  <1>e. FreshHeld'
    <2> SUFFICES ASSUME NEW b \in fresh \cup {c}
                 PROVE  LET t == segment_index(b)
                        IN /\ hotSeg[t].there \/ b \in fetched
                           /\ First(t) =>
                                /\ EntriesOf(hotIdx'[t], b) # {}
                                /\ b \notin torn =>
                                     Holds(hotSeg[t], hotIdx'[t], hotIdx'[t], b, Lasting')
                                /\ s # t => Whole(hotSeg[t]) /\ Whole(hotIdx'[t])
      BY <1>1, <1>2, <1>5, <1>7 DEF FreshHeld, Whole
    <2> DEFINE t == segment_index(b)
    <2>1. t \in Segs
      BY <1>2
    <2>2. CASE b = c
      <3>1. t = s
        BY <1>2, <2>2
      <3>2. hotSeg[t].there \/ b \in fetched
        BY <1>2, <1>3, <2>2, <3>1, SettledFetched
      <3>3. ASSUME First(t)
            PROVE  /\ EntriesOf(hotIdx'[t], b) # {}
                   /\ b \notin torn => Holds(hotSeg[t], hotIdx'[t], hotIdx'[t], b, Lasting')
        <4>1. hotIdx[s].there /\ IsLast(hotIdx'[s], c, end + 1)
          BY <1>3, <1>4, <3>1, <3>3
        <4>2. EntriesOf(hotIdx'[t], b) # {}
          BY <2>2, <3>1, <4>1 DEF IsLast
        <4> QED
          BY <1>8, <2>1, <2>2, <3>1, <3>3, <4>2
      <3> QED
        BY <3>1, <3>2, <3>3
    <2>3. CASE b # c
      <3>1. /\ hotSeg[t].there \/ b \in fetched
            /\ First(t) =>
                 /\ EntriesOf(hotIdx[t], b) # {}
                 /\ b \notin torn => Holds(hotSeg[t], hotIdx[t], hotIdx[t], b, Lasting)
                 /\ s # t => Whole(hotSeg[t]) /\ Whole(hotIdx[t])
        BY <2>3 DEF ArchiveInv, FreshHeld
      <3>2. First(t) /\ b \notin torn => Holds(hotSeg[t], hotIdx'[t], hotIdx'[t], b, Lasting')
        BY <1>8, <2>1, <2>3, <3>1
      <3> QED
        BY <1>4, <2>1, <2>3, <3>1, <3>2
    <2> QED
      BY <2>2, <2>3
  <1>f. HotHeld'
    <2> SUFFICES ASSUME NEW b \in fetched, First(segment_index(b))
                 PROVE  LET t == segment_index(b)
                        IN /\ \E i \in EntriesOf(hotIdx'[t], b) : i <= hotIdx'[t].synced
                           /\ b \notin torn =>
                                Holds(hotSeg[t], hotIdx'[t], hotIdx'[t], b, Lasting')
      BY <1>1, <1>2, <1>7 DEF HotHeld
    <2> DEFINE t == segment_index(b)
    <2>1. /\ t \in Segs
          /\ \E i \in EntriesOf(hotIdx[t], b) : i <= hotIdx[t].synced
          /\ b \notin torn => Holds(hotSeg[t], hotIdx[t], hotIdx[t], b, Lasting)
      BY <1>2 DEF ArchiveInv, HotHeld
    <2>2. \E i \in EntriesOf(hotIdx'[t], b) : i <= hotIdx'[t].synced
      BY <1>4, <2>1
    <2>3. b = c => t = s
      BY <1>2
    <2>4. b \notin torn => Holds(hotSeg[t], hotIdx'[t], hotIdx'[t], b, Lasting')
      <3>1. CASE b = c
        BY <1>8, <2>1, <2>3, <3>1
      <3>2. CASE b # c
        BY <1>8, <2>1, <3>2
      <3> QED
        BY <3>1, <3>2
    <2> QED
      BY <2>2, <2>4
  <1>g. ColdHeld'
    <2> SUFFICES ASSUME NEW b \in fetched, coldIdx[segment_index(b)].there,
                        segment_index(b) \notin reopened
                 PROVE  LET t == segment_index(b)
                        IN /\ EntriesOf(coldIdx[t], b) # {}
                           /\ b \notin torn =>
                                /\ Reads(coldSeg[t], coldIdx[t], b)
                                /\ First(t) =>
                                     Holds(hotSeg[t], hotIdx'[t], coldIdx[t], b, Lasting')
      BY <1>1, <1>2, <1>7 DEF ColdHeld
    <2> DEFINE t == segment_index(b)
    <2>1. /\ t \in Segs /\ EntriesOf(coldIdx[t], b) # {}
          /\ b \notin torn => /\ Reads(coldSeg[t], coldIdx[t], b)
                              /\ First(t) => Holds(hotSeg[t], hotIdx[t], coldIdx[t], b, Lasting)
      BY <1>2 DEF ArchiveInv, ColdHeld
    <2>2. b \in Lasting' => b \in Lasting
      BY <1>6
    <2>3. Stays(hotSeg[t], hotIdx[t], hotSeg[t], hotIdx'[t])
      BY <1>4, <2>1
    <2>4. Holds(hotSeg[t], hotIdx[t], coldIdx[t], b, Lasting) =>
            Holds(hotSeg[t], hotIdx'[t], coldIdx[t], b, Lasting')
      BY <2>2, <2>3, HoldsOn
    <2> QED
      BY <2>1, <2>4
  <1>h. SomeTier'
    BY <1>1 DEF ArchiveInv, SomeTier
  <1>i. TieredSettled'
    <2>1. again' \subseteq fetched'
      BY <1>1 DEF ArchiveInv, TieredSettled
    <2> QED
      BY <1>1, <1>4, <1>7, <2>1 DEF ArchiveInv, TieredSettled, Settled
  <1>j. NotTorn'
    <2> SUFFICES ASSUME ~cut, NEW t \in Segs, First(t), NEW i \in DOMAIN hotIdx'[t].data,
                        hotIdx'[t].data[i].block \notin torn
                 PROVE  Points(hotSeg[t], i, hotIdx'[t].data[i].block)
      BY <1>1, <1>7 DEF NotTorn
    <2>1. CASE t = s /\ i = end + 1
      BY <1>3, <1>4, <2>1
    <2>2. CASE ~(t = s /\ i = end + 1)
      <3>1. i \in DOMAIN hotIdx[t].data
        BY <1>2, <1>3, <1>4, <2>2
      <3>2. hotIdx'[t].data[i] = hotIdx[t].data[i]
        BY <1>4, <3>1 DEF Stays
      <3> QED
        BY <3>1, <3>2 DEF ArchiveInv, NotTorn
    <2> QED
      BY <2>1, <2>2
  <1>k. PassTrue'
    <2>1. ASSUME pass.pc \in Handling, pass.at \notin reopened PROVE InHand(pass.at)'
      <3> DEFINE t == pass.at
      <3>1. t \in pass.todo /\ t \in Segs /\ InHand(t)
        BY <2>1, PassBounds DEF ArchiveInv, PassTrue
      <3>2. ASSUME pass.pc = "copied" PROVE CopyFits(t)'
        <4>1. CopyFits(t) /\ First(t)
          BY <2>1, <3>1, <3>2 DEF InHand, ArchiveInv, PassTrue, First
        <4> SUFFICES ASSUME NEW b \in Blocks \ torn, segment_index(b) = t
                     PROVE  \A i \in Nat : IsLast(hotIdx'[t], b, i) => Points(coldSeg[t], i, b)
          BY <1>1, <1>2, <1>5 DEF CopyFits, IsLast
        <4>2. CASE b = c
          <5>1. t = s /\ hotIdx[s].there
            BY <1>2, <1>3, <4>1, <4>2
          <5>2. Points(coldSeg[t], end + 1, b)
            BY <4>1, <4>2 DEF CopyFits
          <5> QED
            BY <1>4, <4>2, <5>1, <5>2
        <4>3. CASE b # c
          BY <1>4, <3>1, <4>1, <4>3 DEF CopyFits, IsLast
        <4> QED
          BY <4>2, <4>3
      <3> QED
        BY <1>1, <3>1, <3>2 DEF InHand
    <2> QED
      BY <1>1, <2>1 DEF ArchiveInv, PassTrue
  <1>l. TieredInOrder'
    BY <1>1, <1>7 DEF ArchiveInv, TieredInOrder
  <1> QED
    BY <1>a, <1>b, <1>c, <1>d, <1>e, <1>f, <1>g, <1>h, <1>i, <1>j, <1>k, <1>l DEF ArchiveInv

LEMMA SyncStep ==
  ASSUME ArchiveInv, Sync
  PROVE  ArchiveInv'
  <1>1. /\ UNCHANGED <<coldSeg, coldIdx, writer, fetchMark, digestMark, archiveMark,
                       recorded, pass, policy, deleted, reopened, torn, cut>>
        /\ hotSeg' = Sealed(hotSeg, None) /\ hotIdx' = Sealed(hotIdx, None)
        /\ fetched' = fetched \cup fresh /\ again' = again \ fresh
        /\ fresh' = {} /\ writer.putting = None
    BY DEF Sync, cold, marks
  <1>2. /\ hotSeg' \in [Segs -> Files(Frames)] /\ hotIdx' \in [Segs -> Files(Entries)]
        /\ \A t \in Segs :
             /\ IsFile(hotSeg'[t], Frames) /\ IsFile(hotIdx'[t], Entries)
             /\ hotSeg'[t] \in Files(Frames) /\ hotIdx'[t] \in Files(Entries)
             /\ Stays(hotSeg[t], hotIdx[t], hotSeg'[t], hotIdx'[t])
             /\ hotSeg'[t].there = hotSeg[t].there /\ hotSeg'[t].data = hotSeg[t].data
             /\ hotIdx'[t].there = hotIdx[t].there /\ hotIdx'[t].data = hotIdx[t].data
             /\ IF writer.segment = t
                  THEN Whole(hotSeg'[t]) /\ Whole(hotIdx'[t])
                  ELSE hotSeg'[t] = hotSeg[t] /\ hotIdx'[t] = hotIdx[t]
    BY <1>1, SealedFiles, FileFacts
  <1>3. /\ fetched \subseteq Blocks /\ fresh \subseteq Blocks /\ fetched' \subseteq Blocks
        /\ \A b \in Blocks : segment_index(b) \in Segs
    BY <1>1, FileFacts
  <1>4. \A t \in Segs : First(t)' <=> First(t)
    BY <1>1, <1>2 DEF First
  <1>5. \A t \in Segs : \A b : EntriesOf(hotIdx'[t], b) = EntriesOf(hotIdx[t], b)
    BY <1>2 DEF EntriesOf
  <1>6. \A b \in Lasting' : b \in fresh \/ b \in Lasting
    BY <1>1 DEF Lasting
  <1>7. ASSUME NEW b \in fresh, First(segment_index(b))
        PROVE  LET t == segment_index(b) IN Whole(hotSeg'[t]) /\ Whole(hotIdx'[t])
    <2> DEFINE t == segment_index(b)
    <2>1. writer.segment # t => Whole(hotSeg[t]) /\ Whole(hotIdx[t])
      BY <1>7 DEF ArchiveInv, FreshHeld
    <2> QED
      BY <1>2, <1>3, <2>1
  <1>8. ASSUME NEW b \in fetched \cup fresh, First(segment_index(b)), NEW idx, NEW idxAfter,
               idxAfter.data = idx.data,
               Holds(hotSeg[segment_index(b)], hotIdx[segment_index(b)], idx, b, Lasting)
        PROVE  Holds(hotSeg'[segment_index(b)], hotIdx'[segment_index(b)], idxAfter, b, Lasting')
    <2> DEFINE t == segment_index(b)
    <2>1. t \in Segs /\ Stays(hotSeg[t], hotIdx[t], hotSeg'[t], hotIdx'[t])
          /\ hotSeg'[t] \in Files(Frames) /\ hotIdx'[t] \in Files(Entries)
      BY <1>2, <1>3
    <2>2. CASE b \in fresh
      <3>1. Holds(hotSeg'[t], hotIdx'[t], idxAfter, b, {})
        BY <1>8, <2>1, HoldsOn
      <3>2. Whole(hotSeg'[t]) /\ Whole(hotIdx'[t])
        BY <1>7, <1>8, <2>2
      <3> QED
        BY <2>1, <3>1, <3>2, HoldsWhole
    <2>3. CASE b \notin fresh
      <3>1. b \in Lasting' => b \in Lasting
        BY <1>6, <2>3
      <3> QED
        BY <1>8, <2>1, <3>1, HoldsOn
    <2> QED
      BY <2>2, <2>3
  <1>a. WellFormed'
    <2>1. again' \subseteq Blocks
      BY <1>1 DEF ArchiveInv, WellFormed
    <2> QED
      BY <1>1, <1>2, <1>3, <2>1 DEF ArchiveInv, WellFormed
  <1>b. Marks'
    BY <1>1 DEF ArchiveInv, Marks
  <1>c. IndexesInOrder'
    BY <1>1, <1>2 DEF ArchiveInv, IndexesInOrder, InOrder
  <1>d. WriterTrue'
    BY <1>1, <1>2, <1>4 DEF ArchiveInv, WriterTrue, Settled, Points
  <1>e. FreshHeld'
    BY <1>1 DEF FreshHeld
  <1>f. HotHeld'
    <2> SUFFICES ASSUME NEW b \in fetched \cup fresh, First(segment_index(b))
                 PROVE  LET t == segment_index(b)
                        IN /\ \E i \in EntriesOf(hotIdx'[t], b) : i <= hotIdx'[t].synced
                           /\ b \notin torn =>
                                Holds(hotSeg'[t], hotIdx'[t], hotIdx'[t], b, Lasting')
      BY <1>1, <1>3, <1>4 DEF HotHeld
    <2> DEFINE t == segment_index(b)
    <2>1. t \in Segs /\ hotIdx'[t].data = hotIdx[t].data
      BY <1>2, <1>3
    <2>2. b \notin torn => Holds(hotSeg[t], hotIdx[t], hotIdx[t], b, Lasting)
      BY DEF ArchiveInv, HotHeld, FreshHeld
    <2>3. \E i \in EntriesOf(hotIdx'[t], b) : i <= hotIdx'[t].synced
      <3>1. CASE b \in fresh
        <4>1. EntriesOf(hotIdx'[t], b) # {}
          BY <1>5, <2>1, <3>1 DEF ArchiveInv, FreshHeld
        <4>2. hotIdx'[t].synced = Len(hotIdx'[t].data) /\ hotIdx'[t] \in Files(Entries)
          BY <1>2, <1>7, <2>1, <3>1 DEF Whole
        <4>3. \A i \in EntriesOf(hotIdx'[t], b) : i <= hotIdx'[t].synced
          BY <4>2 DEF EntriesOf, Files
        <4> QED
          BY <4>1, <4>3
      <3>2. CASE b \in fetched
        <4>1. \E i \in EntriesOf(hotIdx[t], b) : i <= hotIdx[t].synced
          BY <3>2 DEF ArchiveInv, HotHeld
        <4>2. Stays(hotSeg[t], hotIdx[t], hotSeg'[t], hotIdx'[t])
          BY <1>2, <2>1
        <4> QED
          BY <1>5, <2>1, <4>1, <4>2 DEF EntriesOf, Stays
      <3> QED
        BY <3>1, <3>2
    <2> QED
      BY <1>8, <2>1, <2>2, <2>3
  <1>g. ColdHeld'
    <2> SUFFICES ASSUME NEW b \in fetched \cup fresh, coldIdx[segment_index(b)].there,
                        segment_index(b) \notin reopened
                 PROVE  LET t == segment_index(b)
                        IN /\ EntriesOf(coldIdx[t], b) # {}
                           /\ b \notin torn =>
                                /\ Reads(coldSeg[t], coldIdx[t], b)
                                /\ First(t) =>
                                     Holds(hotSeg'[t], hotIdx'[t], coldIdx[t], b, Lasting')
      BY <1>1, <1>3, <1>4 DEF ColdHeld
    <2> DEFINE t == segment_index(b)
    <2>1. b \in fetched
      BY <1>3, SettledFetched DEF ArchiveInv, TieredSettled
    <2>2. /\ EntriesOf(coldIdx[t], b) # {}
          /\ b \notin torn => /\ Reads(coldSeg[t], coldIdx[t], b)
                              /\ First(t) => Holds(hotSeg[t], hotIdx[t], coldIdx[t], b, Lasting)
      BY <2>1 DEF ArchiveInv, ColdHeld
    <2> QED
      BY <1>8, <2>2
  <1>h. SomeTier'
    <2> SUFFICES ASSUME NEW b \in fetched \cup fresh
                 PROVE  LET t == segment_index(b)
                        IN hotSeg'[t].there \/ coldIdx[t].there \/ t \in deleted
      BY <1>1 DEF SomeTier
    <2>1. CASE b \in fetched
      BY <1>2, <1>3, <2>1 DEF ArchiveInv, SomeTier
    <2>2. CASE b \in fresh \ fetched
      BY <1>2, <1>3, <2>2 DEF ArchiveInv, FreshHeld
    <2> QED
      BY <2>1, <2>2
  <1>i. TieredSettled'
    <2>1. again' \subseteq fetched'
      BY <1>1 DEF ArchiveInv, TieredSettled
    <2> QED
      BY <1>1, <1>2, <1>4, <2>1 DEF ArchiveInv, TieredSettled, Settled
  <1>j. NotTorn'
    BY <1>1, <1>2, <1>4 DEF ArchiveInv, NotTorn, Points
  <1>k. PassTrue'
    <2>1. pass.todo \subseteq Segs
      BY PassBounds
    <2>2. ASSUME pass.pc \in Handling PROVE InHand(pass.at)' <=> InHand(pass.at)
      <3>1. pass.at \in Segs
        BY <2>1, <2>2 DEF ArchiveInv, PassTrue
      <3>2. CopyFits(pass.at)' <=> CopyFits(pass.at)
        BY <1>1, <1>5, <3>1 DEF CopyFits, IsLast
      <3> QED
        BY <1>1, <1>2, <3>1, <3>2 DEF InHand
    <2> QED
      BY <1>1, <1>2, <2>1, <2>2 DEF ArchiveInv, PassTrue
  <1>l. TieredInOrder'
    BY <1>1, <1>4 DEF ArchiveInv, TieredInOrder
  <1> QED
    BY <1>a, <1>b, <1>c, <1>d, <1>e, <1>f, <1>g, <1>h, <1>i, <1>j, <1>k, <1>l DEF ArchiveInv

(* Steps that leave the files alone.                                        *)
LEMMA FilesKept ==
  ASSUME ArchiveInv, UNCHANGED <<hotSeg, hotIdx, coldSeg, coldIdx, writer, fresh, fetched,
                                 deleted, reopened, again, torn, cut>>
  PROVE  /\ IndexesInOrder' /\ FreshHeld' /\ HotHeld' /\ ColdHeld' /\ SomeTier' /\ NotTorn'
         /\ \A t \in Segs : (First(t)' <=> First(t)) /\ (CopyFits(t)' <=> CopyFits(t))
  BY DEF ArchiveInv, IndexesInOrder, FreshHeld, HotHeld, ColdHeld, SomeTier, NotTorn,
         First, CopyFits, Lasting

LEMMA MarkSteps ==
  ASSUME ArchiveInv, NEW n \in Blocks, Publish(n) \/ Digest(n)
  PROVE  ArchiveInv'
  <1>1. /\ UNCHANGED <<hotSeg, hotIdx, coldSeg, coldIdx, writer, fresh, fetched, archiveMark,
                       recorded, pass, policy, deleted, reopened, again, torn, cut>>
        /\ fetchMark' \in Int /\ digestMark' \in Int
        /\ digestMark <= digestMark' /\ digestMark' <= fetchMark' /\ fetchMark' <= LastBlock
        /\ StartBlock..fetchMark' \subseteq fetched
    <2>1. digestMark \in Int /\ fetchMark \in Int /\ digestMark <= fetchMark /\ fetchMark <= LastBlock
          /\ StartBlock..fetchMark \subseteq fetched /\ n \in Nat /\ n <= LastBlock
      BY ArchiveAssumption DEF ArchiveInv, Marks, Blocks
    <2>2. CASE Publish(n)
      BY <2>1, <2>2 DEF Publish, hot, cold, history
    <2>3. CASE Digest(n)
      BY <2>1, <2>3 DEF Digest, hot, cold, history
    <2> QED
      BY <2>2, <2>3
  <1>2. archiveMark \in Int /\ digestMark \in Int /\ pass.digested \in Int
        /\ \A s \in Segs : segment_end(s) \in Int
    BY PassBounds
  <1>3. \A s \in Segs : Settled(s) => Settled(s)'
    BY <1>1, <1>2 DEF Settled
  <1>4. /\ IndexesInOrder' /\ FreshHeld' /\ HotHeld' /\ ColdHeld' /\ SomeTier' /\ NotTorn'
        /\ \A t \in Segs : (First(t)' <=> First(t)) /\ (CopyFits(t)' <=> CopyFits(t))
    BY <1>1, FilesKept
  <1>a. WellFormed' /\ TieredInOrder'
    BY <1>1, <1>4 DEF ArchiveInv, WellFormed, TieredInOrder
  <1>b. Marks'
    BY <1>1, <1>2, ArchiveAssumption DEF ArchiveInv, Marks
  <1>c. TieredSettled'
    BY <1>1, <1>3, <1>4 DEF ArchiveInv, TieredSettled
  <1>d. WriterTrue'
    BY <1>1, <1>3, <1>4 DEF ArchiveInv, WriterTrue
  <1>e. PassTrue'
    <2>1. pass.digested <= digestMark => pass.digested <= digestMark'
      BY <1>1, <1>2
    <2>2. pass.pc \in Handling => (InHand(pass.at)' <=> InHand(pass.at))
      BY <1>1, <1>4, PassBounds DEF InHand, ArchiveInv, PassTrue
    <2> QED
      BY <1>1, <2>1, <2>2 DEF ArchiveInv, PassTrue
  <1> QED
    BY <1>4, <1>a, <1>b, <1>c, <1>d, <1>e DEF ArchiveInv

LEMMA PassStartsStep ==
  ASSUME ArchiveInv, PassStarts
  PROVE  ArchiveInv'
  <1> DEFINE todo == {s \in Segs : hotSeg[s].there}
  <1>1. /\ UNCHANGED <<hotSeg, hotIdx, coldSeg, coldIdx, writer, fresh, fetched, fetchMark,
                       digestMark, archiveMark, recorded, policy, deleted, reopened, again,
                       torn, cut>>
        /\ digestMark >= 0
        /\ pass' = [pc |-> "pick", todo |-> todo, digested |-> digestMark, at |-> None,
                    highest |-> None]
    BY DEF PassStarts, hot, cold, marks, history, Idle
  <1>2. digestMark \in Int /\ \A s \in Segs : segment_end(s) \in Nat
    BY PassBounds
  <1>3. IndexesInOrder' /\ FreshHeld' /\ HotHeld' /\ ColdHeld' /\ SomeTier' /\ NotTorn'
    BY <1>1, FilesKept
  <1>a. WellFormed'
    <2>1. pass' \in Passes
      BY <1>1, <1>2 DEF Passes, PassPcs, None
    <2> QED
      BY <1>1, <2>1 DEF ArchiveInv, WellFormed
  <1>b. Marks' /\ WriterTrue' /\ TieredSettled'
    BY <1>1 DEF ArchiveInv, Marks, WriterTrue, TieredSettled, Settled, First
  <1>c. PassTrue'
    BY <1>1, <1>2 DEF PassTrue, Handling, None
  <1>d. TieredInOrder'
    BY <1>1 DEF ArchiveInv, TieredInOrder, First
  <1> QED
    BY <1>3, <1>a, <1>b, <1>c, <1>d DEF ArchiveInv

LEMMA RecordSegmentStep ==
  ASSUME ArchiveInv, NEW s \in Segs, RecordSegment(s)
  PROVE  ArchiveInv'
  <1>1. /\ UNCHANGED <<hotSeg, hotIdx, coldSeg, coldIdx, writer, fresh, fetched, fetchMark,
                       digestMark, archiveMark, policy, deleted, reopened, again, torn, cut>>
        /\ pass.pc = "indexed" /\ pass.at = s /\ recorded' = recorded \cup {s}
        /\ pass' = [pass EXCEPT !.pc = "recorded"]
    BY DEF RecordSegment, hot, cold, marks, history
  <1>2. coldIdx[s].there \/ s \in reopened
    BY <1>1 DEF ArchiveInv, PassTrue, Handling, InHand
  <1>3. pass' \in Passes /\ pass'.pc = "recorded" /\ pass'.todo = pass.todo
        /\ pass'.digested = pass.digested /\ pass'.at = pass.at /\ pass'.highest = pass.highest
    BY <1>1, PassBounds DEF Passes, PassPcs
  <1>4. IndexesInOrder' /\ FreshHeld' /\ HotHeld' /\ ColdHeld' /\ SomeTier' /\ NotTorn'
    BY <1>1, FilesKept
  <1>a. WellFormed'
    BY <1>1, <1>3 DEF ArchiveInv, WellFormed
  <1>b. Marks' /\ WriterTrue'
    BY <1>1 DEF ArchiveInv, Marks, WriterTrue, Settled, First
  <1>c. TieredSettled'
    BY <1>1, <1>2 DEF ArchiveInv, TieredSettled, Settled, First
  <1>d. PassTrue'
    BY <1>1, <1>2, <1>3 DEF ArchiveInv, PassTrue, Handling, InHand
  <1>e. TieredInOrder'
    BY <1>1, <1>3 DEF ArchiveInv, TieredInOrder, First
  <1> QED
    BY <1>4, <1>a, <1>b, <1>c, <1>d, <1>e DEF ArchiveInv

LEMMA PassOverStep ==
  ASSUME ArchiveInv, PassEnds \/ PassFails
  PROVE  ArchiveInv'
  <1>1. /\ UNCHANGED <<hotSeg, hotIdx, coldSeg, coldIdx, writer, fresh, fetched, fetchMark,
                       digestMark, recorded, policy, deleted, reopened, again, torn, cut>>
        /\ pass' = Idle
    BY DEF PassEnds, PassFails, hot, cold, marks, history
  <1>2. /\ archiveMark' \in Int /\ -1 <= archiveMark' /\ archiveMark' <= digestMark
        /\ \A s \in Segs : First(s) => archiveMark' < segment_end(s)
    <2>1. CASE PassFails
      BY <2>1, PassBounds DEF PassFails, marks, ArchiveInv, TieredInOrder
    <2>2. CASE PassEnds
      <3>1. pass.pc = "pick" /\ archiveMark' = NewArchiveMark
        BY <2>2 DEF PassEnds
      <3>2. CASE pass.highest > archiveMark
        <4>1. archiveMark' = pass.highest
          BY <3>1, <3>2 DEF NewArchiveMark
        <4>2. pass.highest <= digestMark /\ pass.highest <= pass.digested
          BY <3>1, PassBounds DEF ArchiveInv, PassTrue
        <4>3. ASSUME NEW s \in Segs, First(s) PROVE pass.highest < segment_end(s)
          <5>1. s \in pass.todo => pass.highest < segment_end(s)
            BY DEF ArchiveInv, PassTrue
          <5>2. s \notin pass.todo => pass.digested < segment_end(s)
            BY <3>1, <4>3 DEF ArchiveInv, TieredInOrder
          <5> QED
            BY <4>2, <5>1, <5>2, PassBounds
        <4> QED
          BY <3>2, <4>1, <4>2, <4>3, PassBounds
      <3>3. CASE ~(pass.highest > archiveMark)
        BY <3>1, <3>3, PassBounds DEF NewArchiveMark, ArchiveInv, TieredInOrder
      <3> QED
        BY <3>2, <3>3
    <2> QED
      BY <2>1, <2>2
  <1>3. Idle \in Passes /\ Idle.pc = "idle" /\ Idle.todo = {}
    BY DEF Idle, Passes, PassPcs, None
  <1>4. IndexesInOrder' /\ FreshHeld' /\ HotHeld' /\ ColdHeld' /\ SomeTier' /\ NotTorn'
    BY <1>1, FilesKept
  <1>a. WellFormed'
    BY <1>1, <1>3 DEF ArchiveInv, WellFormed
  <1>b. Marks'
    BY <1>1, <1>2 DEF ArchiveInv, Marks
  <1>c. WriterTrue' /\ TieredSettled'
    BY <1>1 DEF ArchiveInv, WriterTrue, TieredSettled, Settled, First
  <1>d. PassTrue'
    BY <1>1, <1>3 DEF PassTrue, Handling
  <1>e. TieredInOrder'
    BY <1>1, <1>2, <1>3 DEF TieredInOrder, First
  <1> QED
    BY <1>4, <1>a, <1>b, <1>c, <1>d, <1>e DEF ArchiveInv

LEMMA KillStep ==
  ASSUME ArchiveInv, Kill
  PROVE  ArchiveInv'
  <1>1. /\ UNCHANGED <<hotSeg, hotIdx, coldSeg, coldIdx, fetched, fetchMark,
                       digestMark, archiveMark, recorded, deleted, reopened, again, torn, cut>>
        /\ writer' = Closed /\ fresh' = {} /\ pass' = Idle /\ policy' \in Policies
    BY DEF Kill, Restart, hot, cold, marks
  <1>2. Idle \in Passes /\ Idle.pc = "idle" /\ Idle.todo = {}
    BY DEF Idle, Passes, PassPcs, None
  <1>3. Closed \in Writers /\ Closed.segment = None /\ Closed.putting = None /\ ~Closed.astray
    BY DEF Closed, Writers
  <1>a. WellFormed'
    BY <1>1, <1>2, <1>3 DEF ArchiveInv, WellFormed
  <1>b. Marks' /\ IndexesInOrder' /\ HotHeld' /\ ColdHeld' /\ SomeTier' /\ TieredSettled' /\ NotTorn'
    BY <1>1 DEF ArchiveInv, Marks, IndexesInOrder, HotHeld, ColdHeld,
                SomeTier, TieredSettled, NotTorn, Settled, First, Lasting
  <1>c. WriterTrue' /\ FreshHeld'
    BY <1>1, <1>3, SegmentOrder DEF WriterTrue, FreshHeld, None
  <1>d. PassTrue'
    BY <1>1, <1>2 DEF PassTrue, Handling
  <1>e. TieredInOrder'
    BY <1>1, <1>2 DEF ArchiveInv, TieredInOrder, First
  <1> QED
    BY <1>a, <1>b, <1>c, <1>d, <1>e DEF ArchiveInv

(* Steps of the pass that copy.                                             *)
LEMMA LastUnique ==
  ASSUME NEW idx \in Files(Entries), NEW b, NEW i, NEW j, IsLast(idx, b, i), IsLast(idx, b, j)
  PROVE  i = j
  <1>1. i \in Nat /\ j \in Nat
    BY DEF IsLast, EntriesOf, Files
  <1>2. i <= j /\ j <= i
    BY DEF IsLast
  <1> QED
    BY <1>1, <1>2

LEMMA CopySegStep ==
  ASSUME ArchiveInv, NEW s \in Segs, CopySeg(s)
  PROVE  ArchiveInv'
  <1> DEFINE copy == FileOf(hotSeg[s].data)
  <1>1. /\ UNCHANGED <<hotSeg, hotIdx, coldIdx, writer, fresh, fetched, fetchMark, digestMark,
                       archiveMark, recorded, policy, deleted, reopened, again, torn, cut>>
        /\ pass.pc = "pick" /\ s \in pass.todo /\ segment_end(s) <= pass.digested
        /\ \A t \in pass.todo : s <= t
        /\ coldSeg' = [coldSeg EXCEPT ![s] = copy]
        /\ pass' = [pass EXCEPT !.pc = "copied", !.at = s]
    BY DEF CopySeg, Eligible, Digested, hot, cold, marks, history
  <1>2. hotSeg[s].there /\ Settled(s)
    BY <1>1, PassBounds DEF ArchiveInv, PassTrue, Settled
  <1>3. pass' \in Passes /\ pass'.pc = "copied" /\ pass'.todo = pass.todo
        /\ pass'.digested = pass.digested /\ pass'.at = s /\ pass'.highest = pass.highest
    BY <1>1, PassBounds DEF Passes, PassPcs
  <1>4. /\ hotSeg[s] \in Files(Frames) /\ IsFile(hotSeg[s], Frames)
        /\ coldSeg \in [Segs -> Files(Frames)] /\ hotIdx[s] \in Files(Entries)
        /\ InOrder(coldIdx[s])
        /\ \A b \in Blocks : segment_index(b) \in Segs /\ b # None
        /\ fetched \subseteq Blocks
    BY FileFacts
  <1>5. /\ copy \in Files(Frames) /\ IsFile(copy, Frames)
        /\ copy.there /\ copy.data = hotSeg[s].data
    BY <1>4, KeptFile DEF FileOf
  <1> HIDE DEF copy
  <1>6. /\ coldSeg' \in [Segs -> Files(Frames)] /\ coldSeg'[s] = copy
        /\ \A t \in Segs \ {s} : coldSeg'[t] = coldSeg[t]
    BY <1>1, <1>4, <1>5
  <1>a. WellFormed'
    BY <1>1, <1>3, <1>5, <1>6 DEF ArchiveInv, WellFormed
  <1>b. Marks' /\ IndexesInOrder' /\ WriterTrue' /\ FreshHeld' /\ HotHeld' /\ SomeTier' /\ NotTorn'
    BY <1>1 DEF ArchiveInv, Marks, IndexesInOrder, WriterTrue, FreshHeld, HotHeld,
                SomeTier, NotTorn, Settled, First, Lasting
  <1>c. ColdHeld'
    <2> SUFFICES ASSUME NEW b \in fetched, coldIdx[segment_index(b)].there,
                        segment_index(b) \notin reopened
                 PROVE  LET t == segment_index(b)
                        IN /\ EntriesOf(coldIdx[t], b) # {}
                           /\ b \notin torn =>
                                /\ Reads(coldSeg'[t], coldIdx[t], b)
                                /\ First(t) =>
                                     Holds(hotSeg[t], hotIdx[t], coldIdx[t], b, Lasting)
      BY <1>1 DEF ColdHeld, First, Lasting
    <2> DEFINE t == segment_index(b)
    <2>1. /\ t \in Segs /\ EntriesOf(coldIdx[t], b) # {}
          /\ b \notin torn => /\ Reads(coldSeg[t], coldIdx[t], b)
                              /\ First(t) => Holds(hotSeg[t], hotIdx[t], coldIdx[t], b, Lasting)
      BY <1>4 DEF ArchiveInv, ColdHeld
    <2>2. ASSUME b \notin torn PROVE Reads(coldSeg'[t], coldIdx[t], b)
      <3>1. CASE t = s
        <4>1. Holds(hotSeg[s], hotIdx[s], coldIdx[s], b, Lasting)
          BY <1>2, <2>1, <2>2, <3>1 DEF First
        <4>2. Reads(hotSeg[s], coldIdx[s], b)
          BY <1>4, <4>1, HoldsReads
        <4> QED
          BY <1>5, <1>6, <3>1, <4>2 DEF Reads
      <3>2. CASE t # s
        BY <1>6, <2>1, <2>2, <3>2
      <3> QED
        BY <3>1, <3>2
    <2> QED
      BY <2>1, <2>2
  <1>d. TieredSettled'
    BY <1>1, <1>2, <1>5, <1>6 DEF ArchiveInv, TieredSettled, Settled, First
  <1>e. PassTrue'
    <2>1. ASSUME s \notin reopened PROVE CopyFits(s)'
      <3> SUFFICES ASSUME NEW b \in Blocks \ torn, segment_index(b) = s
                   PROVE  /\ \A i \in Nat : IsLast(hotIdx[s], b, i) => Points(copy, i, b)
                          /\ writer.putting = b => Points(copy, writer.end + 1, b)
        BY <1>1, <1>6 DEF CopyFits
      <3>1. First(s) /\ b \in fetched
        BY <1>2, <2>1, SettledFetched DEF First
      <3>2. PICK i : IsLast(hotIdx[s], b, i) /\ Points(hotSeg[s], i, b)
        BY <3>1 DEF ArchiveInv, HotHeld, Holds
      <3>3. \A j : IsLast(hotIdx[s], b, j) => j = i
        BY <1>4, <3>2, LastUnique
      <3>4. writer.putting = b => Points(hotSeg[s], writer.end + 1, b)
        BY <1>4, <3>1 DEF ArchiveInv, WriterTrue
      <3> QED
        BY <1>5, <3>2, <3>3, <3>4 DEF Points
    <2>2. s \notin reopened => InHand(s)'
      BY <1>3, <2>1 DEF InHand
    <2> QED
      BY <1>1, <1>2, <1>3, <1>5, <1>6, <2>2 DEF ArchiveInv, PassTrue, Handling
  <1>f. TieredInOrder'
    BY <1>1, <1>3 DEF ArchiveInv, TieredInOrder, First
  <1> QED
    BY <1>a, <1>b, <1>c, <1>d, <1>e, <1>f DEF ArchiveInv

LEMMA CopyIdxStep ==
  ASSUME ArchiveInv, NEW s \in Segs, CopyIdx(s)
  PROVE  ArchiveInv'
  <1> DEFINE copy == FileOf(hotIdx[s].data)
  <1>1. /\ UNCHANGED <<hotSeg, hotIdx, coldSeg, writer, fresh, fetched, fetchMark, digestMark,
                       archiveMark, recorded, policy, deleted, reopened, again, torn, cut>>
        /\ pass.pc = "copied" /\ pass.at = s
        /\ coldIdx' = IF hotIdx[s].there THEN [coldIdx EXCEPT ![s] = copy] ELSE coldIdx
        /\ pass' = [pass EXCEPT !.pc = "indexed"]
    BY DEF CopyIdx, hot, cold, marks, history
  <1>2. /\ s \in pass.todo /\ hotSeg[s].there /\ coldSeg[s].there /\ Settled(s)
        /\ s \notin reopened => CopyFits(s) /\ First(s) /\ hotIdx[s].there
    BY <1>1, PassBounds DEF ArchiveInv, PassTrue, Handling, InHand, Settled, First, TieredSettled
  <1>3. pass' \in Passes /\ pass'.pc = "indexed" /\ pass'.todo = pass.todo
        /\ pass'.digested = pass.digested /\ pass'.at = pass.at /\ pass'.highest = pass.highest
    BY <1>1, PassBounds DEF Passes, PassPcs
  <1>4. /\ hotIdx[s] \in Files(Entries) /\ IsFile(hotIdx[s], Entries) /\ InOrder(hotIdx[s])
        /\ coldIdx \in [Segs -> Files(Entries)] /\ fetched \subseteq Blocks
        /\ \A t \in Segs : IsFile(coldIdx[t], Entries) /\ InOrder(coldIdx[t])
        /\ \A b \in Blocks : segment_index(b) \in Segs
    BY FileFacts
  <1>5. /\ copy \in Files(Entries) /\ IsFile(copy, Entries)
        /\ copy.there /\ copy.data = hotIdx[s].data
    BY <1>4, KeptFile DEF FileOf
  <1> HIDE DEF copy
  <1>6. InOrder(copy)
    BY <1>4, <1>5 DEF InOrder
  <1>7. /\ coldIdx' \in [Segs -> Files(Entries)]
        /\ IF hotIdx[s].there THEN coldIdx'[s] = copy ELSE coldIdx'[s] = coldIdx[s]
        /\ \A t \in Segs \ {s} : coldIdx'[t] = coldIdx[t]
    BY <1>1, <1>4, <1>5
  <1>8. \A t \in Segs : IsFile(coldIdx'[t], Entries) /\ InOrder(coldIdx'[t])
                        /\ (coldIdx[t].there => coldIdx'[t].there)
    BY <1>4, <1>5, <1>6, <1>7
  <1>a. WellFormed'
    BY <1>1, <1>3, <1>7, <1>8 DEF ArchiveInv, WellFormed
  <1>b. Marks' /\ WriterTrue' /\ FreshHeld' /\ HotHeld' /\ NotTorn'
    BY <1>1 DEF ArchiveInv, Marks, WriterTrue, FreshHeld, HotHeld, NotTorn, Settled, First, Lasting
  <1>c. IndexesInOrder'
    BY <1>1, <1>8 DEF ArchiveInv, IndexesInOrder
  <1>d. ColdHeld'
    <2> SUFFICES ASSUME NEW b \in fetched, coldIdx'[segment_index(b)].there,
                        segment_index(b) \notin reopened
                 PROVE  LET t == segment_index(b)
                        IN /\ EntriesOf(coldIdx'[t], b) # {}
                           /\ b \notin torn =>
                                /\ Reads(coldSeg[t], coldIdx'[t], b)
                                /\ First(t) =>
                                     Holds(hotSeg[t], hotIdx[t], coldIdx'[t], b, Lasting)
      BY <1>1 DEF ColdHeld, First, Lasting
    <2> DEFINE t == segment_index(b)
    <2>1. t \in Segs
      BY <1>4
    <2>2. CASE t = s
      <3>1. CopyFits(s) /\ First(s) /\ coldIdx'[s] = copy
        BY <1>2, <1>7, <2>2
      <3>2. EntriesOf(copy, b) = EntriesOf(hotIdx[s], b)
        BY <1>5 DEF EntriesOf
      <3>3. EntriesOf(hotIdx[s], b) # {}
        BY <2>2, <3>1 DEF ArchiveInv, HotHeld
      <3>4. ASSUME b \notin torn
            PROVE  Reads(coldSeg[s], copy, b) /\ Holds(hotSeg[s], hotIdx[s], copy, b, Lasting)
        <4>1. Holds(hotSeg[s], hotIdx[s], hotIdx[s], b, Lasting)
          BY <2>2, <3>1, <3>4 DEF ArchiveInv, HotHeld
        <4>2. Holds(hotSeg[s], hotIdx[s], copy, b, Lasting)
          BY <3>2, <4>1 DEF Holds, IsLast
        <4>3. PICK i \in EntriesOf(hotIdx[s], b) : IsLast(hotIdx[s], b, i)
          BY <4>1 DEF Holds
        <4>4. i \in Nat /\ b \in Blocks
          BY <1>4, <4>3 DEF EntriesOf, Files
        <4>5. Points(coldSeg[s], i, b)
          BY <2>2, <3>1, <3>4, <4>3, <4>4 DEF CopyFits
        <4>6. copy.data[i].at = i
          BY <1>5, <1>6, <4>3 DEF InOrder, EntriesOf
        <4>7. Reads(coldSeg[s], copy, b)
          BY <3>2, <4>3, <4>5, <4>6 DEF Reads, Points, IsLast
        <4> QED
          BY <4>2, <4>7
      <3> QED
        BY <2>2, <3>1, <3>2, <3>3, <3>4
    <2>3. CASE t # s
      BY <1>7, <2>1, <2>3 DEF ArchiveInv, ColdHeld
    <2> QED
      BY <2>2, <2>3
  <1>e. SomeTier'
    BY <1>1, <1>4, <1>8 DEF ArchiveInv, SomeTier
  <1>f. TieredSettled'
    BY <1>1, <1>2, <1>7, <1>8 DEF ArchiveInv, TieredSettled, Settled, First
  <1>g. PassTrue'
    <2>1. s \notin reopened => InHand(s)'
      BY <1>2, <1>3, <1>5, <1>7 DEF InHand
    <2> QED
      BY <1>1, <1>2, <1>3, <2>1 DEF ArchiveInv, PassTrue, Handling
  <1>h. TieredInOrder'
    BY <1>1, <1>3 DEF ArchiveInv, TieredInOrder, First
  <1> QED
    BY <1>a, <1>b, <1>c, <1>d, <1>e, <1>f, <1>g, <1>h DEF ArchiveInv

(* And those that give up the hot files: what is copied, or to be deleted.  *)
LEMMA CloseWriterStep ==
  ASSUME ArchiveInv, NEW s \in Segs, CloseWriter(s)
  PROVE  ArchiveInv'
  <1> DEFINE mine == writer.segment = s
  <1>1. /\ UNCHANGED <<coldSeg, coldIdx, fresh, fetched, fetchMark, digestMark, archiveMark,
                       recorded, policy, deleted, reopened, again, torn, cut>>
        /\ Droppable(s) /\ writer.putting = None
        /\ writer' = IF mine THEN Closed ELSE writer
        /\ hotSeg' = IF mine THEN Sealed(hotSeg, None) ELSE hotSeg
        /\ hotIdx' = IF mine THEN Sealed(hotIdx, None) ELSE hotIdx
        /\ pass' = [pass EXCEPT !.pc = "closed", !.at = s]
    BY DEF CloseWriter, cold, marks, history
  <1>2. /\ s \in pass.todo /\ segment_end(s) <= pass.digested /\ \A t \in pass.todo : s <= t
        /\ pass.digested <= digestMark /\ pass.highest <= pass.digested /\ pass.pc # "idle"
        /\ \A t \in pass.todo : pass.highest < segment_end(t) /\ hotSeg[t].there
        /\ policy = "delete" \/ s \in recorded
    <2>1. CASE pass.pc = "recorded" /\ pass.at = s
      BY <2>1 DEF ArchiveInv, PassTrue, Handling
    <2>2. CASE pass.pc = "pick" /\ policy = "delete" /\ Eligible(s)
      BY <2>2 DEF ArchiveInv, PassTrue, Handling, Eligible, Digested
    <2> QED
      BY <1>1, <2>1, <2>2 DEF Droppable
  <1>3. pass' \in Passes /\ pass'.pc = "closed" /\ pass'.todo = pass.todo
        /\ pass'.digested = pass.digested /\ pass'.at = s /\ pass'.highest = pass.highest
    BY <1>1, PassBounds DEF Passes, PassPcs
  <1>4. /\ Closed \in Writers /\ Closed.segment = None /\ Closed.putting = None /\ ~Closed.astray
        /\ \A t \in Segs : t # None
    BY FileFacts DEF Closed, Writers
  <1>5. /\ hotSeg' \in [Segs -> Files(Frames)] /\ hotIdx' \in [Segs -> Files(Entries)]
        /\ \A t \in Segs :
             /\ IsFile(hotSeg'[t], Frames) /\ IsFile(hotIdx'[t], Entries)
             /\ Stays(hotSeg[t], hotIdx[t], hotSeg'[t], hotIdx'[t])
             /\ hotSeg'[t].there = hotSeg[t].there /\ hotSeg'[t].data = hotSeg[t].data
             /\ hotIdx'[t].there = hotIdx[t].there /\ hotIdx'[t].data = hotIdx[t].data
             /\ IF mine /\ t = s
                  THEN Whole(hotSeg'[t]) /\ Whole(hotIdx'[t])
                  ELSE hotSeg'[t] = hotSeg[t] /\ hotIdx'[t] = hotIdx[t]
    <2>1. CASE mine
      BY <1>1, <1>4, <2>1, SealedFiles
    <2>2. CASE ~mine
      BY <1>1, <2>2, FileFacts DEF Stays
    <2> QED
      BY <2>1, <2>2
  <1>6. \A t \in Segs : (First(t)' <=> First(t)) /\ HotOn(t)
    <2> TAKE t \in Segs
    <2>1. First(t)' <=> First(t)
      BY <1>1, <1>5 DEF First
    <2>2. writer'.segment # t =>
            \/ Whole(hotSeg'[t]) /\ Whole(hotIdx'[t])
            \/ writer.segment # t /\ hotSeg'[t] = hotSeg[t] /\ hotIdx'[t] = hotIdx[t]
      BY <1>1, <1>5
    <2> QED
      BY <1>5, <2>1, <2>2 DEF HotOn
  <1>7. FreshHeld' /\ HotHeld' /\ ColdHeld' /\ SomeTier' /\ NotTorn'
    BY <1>1, <1>6, HeldOn
  <1>a. WellFormed'
    BY <1>1, <1>3, <1>4, <1>5 DEF ArchiveInv, WellFormed
  <1>b. Marks' /\ IndexesInOrder'
    BY <1>1, <1>5 DEF ArchiveInv, Marks, IndexesInOrder, InOrder
  <1>c. WriterTrue'
    <2>1. CASE mine
      BY <1>1, <1>4, <2>1 DEF WriterTrue
    <2>2. CASE ~mine
      BY <1>1, <2>2 DEF ArchiveInv, WriterTrue, Settled, First
    <2> QED
      BY <2>1, <2>2
  <1>d. TieredSettled'
    BY <1>1, <1>5, <1>6 DEF ArchiveInv, TieredSettled, Settled
  <1>e. PassTrue'
    <2>1. s \notin reopened => InHand(s)'
      BY <1>1, <1>2, <1>3 DEF InHand, ArchiveInv, TieredSettled
    <2>2. \A t \in pass.todo : hotSeg'[t].there
      BY <1>2, <1>5, PassBounds
    <2> QED
      BY <1>1, <1>2, <1>3, <2>1, <2>2 DEF PassTrue, Handling
  <1>f. TieredInOrder'
    BY <1>1, <1>2, <1>3, <1>6 DEF ArchiveInv, TieredInOrder
  <1> QED
    BY <1>7, <1>a, <1>b, <1>c, <1>d, <1>e, <1>f DEF ArchiveInv

LEMMA DropSegStep ==
  ASSUME ArchiveInv, NEW s \in Segs, DropSeg(s)
  PROVE  ArchiveInv'
  <1>1. /\ UNCHANGED <<hotIdx, coldSeg, coldIdx, writer, fresh, fetched, fetchMark, digestMark,
                       archiveMark, recorded, policy, reopened, again, torn, cut>>
        /\ pass.pc = "closed" /\ pass.at = s
        /\ hotSeg' = [hotSeg EXCEPT ![s] = NoFile]
        /\ pass' = [pass EXCEPT !.pc = "removed"]
        /\ deleted' = IF policy = "delete" THEN deleted \cup {s} ELSE deleted
    BY DEF DropSeg, cold, marks
  <1>2. /\ s \in pass.todo /\ segment_end(s) <= pass.digested /\ \A t \in pass.todo : s <= t
        /\ pass.digested <= digestMark /\ pass.highest <= pass.digested
        /\ \A t \in pass.todo : pass.highest < segment_end(t) /\ hotSeg[t].there
        /\ s \notin reopened => policy = "delete" \/ coldIdx[s].there
    BY <1>1 DEF ArchiveInv, PassTrue, Handling, InHand
  <1>3. pass' \in Passes /\ pass'.pc = "removed" /\ pass'.todo = pass.todo
        /\ pass'.digested = pass.digested /\ pass'.at = s /\ pass'.highest = pass.highest
    BY <1>1, PassBounds DEF Passes, PassPcs
  <1>4. Settled(s)
    BY <1>2, PassBounds DEF Settled
  <1>5. /\ hotSeg \in [Segs -> Files(Frames)] /\ fetched \subseteq Blocks /\ fresh \subseteq Blocks
        /\ \A b \in Blocks : segment_index(b) \in Segs
    BY FileFacts
  <1>6. /\ hotSeg' \in [Segs -> Files(Frames)] /\ hotSeg'[s] = NoFile
        /\ \A t \in Segs \ {s} : hotSeg'[t] = hotSeg[t]
    BY <1>1, <1>5, NoFileIsFile
  <1>7. ~hotSeg'[s].there /\ IsFile(hotSeg'[s], Frames)
    BY <1>6, NoFileIsFile
  <1>8. \A t \in Segs : First(t)' => t # s /\ First(t) /\ hotSeg'[t] = hotSeg[t]
    BY <1>1, <1>6, <1>7 DEF First
  <1>9. deleted' \subseteq deleted \cup {s} /\ deleted \subseteq deleted'
    BY <1>1
  <1>a. WellFormed'
    <2>1. deleted' \subseteq Segs
      BY <1>9 DEF ArchiveInv, WellFormed
    <2>2. \A t \in Segs : IsFile(hotSeg'[t], Frames)
      BY <1>6, <1>7 DEF ArchiveInv, WellFormed
    <2> QED
      BY <1>1, <1>3, <1>6, <2>1, <2>2 DEF ArchiveInv, WellFormed
  <1>b. Marks' /\ IndexesInOrder'
    BY <1>1 DEF ArchiveInv, Marks, IndexesInOrder
  <1>c. WriterTrue'
    <2>1. \A t \in Segs : hotSeg[t].there \/ Settled(t) => hotSeg'[t].there \/ Settled(t)
      BY <1>4, <1>6
    <2> QED
      BY <1>1, <1>8, <2>1 DEF ArchiveInv, WriterTrue, Settled
  <1>d. FreshHeld'
    <2>1. ASSUME NEW b \in fresh PROVE hotSeg'[segment_index(b)].there \/ b \in fetched
      <3>1. CASE segment_index(b) = s
        BY <1>4, <1>5, <3>1, SettledFetched
      <3>2. CASE segment_index(b) # s
        BY <1>5, <1>6, <3>2 DEF ArchiveInv, FreshHeld
      <3> QED
        BY <3>1, <3>2
    <2> QED
      BY <1>1, <1>5, <1>8, <2>1 DEF ArchiveInv, FreshHeld, Lasting
  <1>e. HotHeld' /\ ColdHeld'
    BY <1>1, <1>5, <1>8 DEF ArchiveInv, HotHeld, ColdHeld, Lasting
  <1>f. SomeTier'
    <2>1. coldIdx[s].there \/ s \in deleted'
      BY <1>1, <1>2, <1>9 DEF ArchiveInv, TieredSettled
    <2> QED
      BY <1>1, <1>5, <1>6, <1>9, <2>1 DEF ArchiveInv, SomeTier
  <1>g. TieredSettled'
    <2>1. again \subseteq fetched /\ again' = again /\ fetched' = fetched
      BY <1>1 DEF ArchiveInv, TieredSettled
    <2>2. ASSUME NEW t \in Segs
          PROVE  /\ coldSeg[t].there \/ t \in deleted' \cup reopened => Settled(t)
                 /\ hotIdx[t].there /\ ~hotSeg'[t].there => Settled(t)
                 /\ coldIdx[t].there => coldSeg[t].there
                 /\ t \in recorded => coldIdx[t].there \/ t \in reopened
                 /\ t \in reopened => coldIdx[t].there \/ t \in deleted'
                 /\ First(t)' => hotIdx[t].there /\ t \notin deleted'
      BY <1>4, <1>6, <1>8, <1>9 DEF ArchiveInv, TieredSettled
    <2> QED
      BY <1>1, <2>1, <2>2 DEF TieredSettled, Settled
  <1>h. NotTorn'
    BY <1>1, <1>8 DEF ArchiveInv, NotTorn
  <1>i. PassTrue'
    <2>1. pass.todo \subseteq Segs
      BY PassBounds
    <2>2. \A t \in pass.todo : hotSeg'[t].there \/ t = s
      BY <1>2, <1>6, <2>1
    <2>3. policy = "delete" => s \in deleted'
      BY <1>1
    <2> QED
      BY <1>1, <1>2, <1>3, <1>7, <2>2, <2>3 DEF PassTrue, Handling, InHand
  <1>j. TieredInOrder'
    BY <1>1, <1>3, <1>8 DEF ArchiveInv, TieredInOrder
  <1> QED
    BY <1>a, <1>b, <1>c, <1>d, <1>e, <1>f, <1>g, <1>h, <1>i, <1>j DEF ArchiveInv

LEMMA DropIdxStep ==
  ASSUME ArchiveInv, NEW s \in Segs, DropIdx(s)
  PROVE  ArchiveInv'
  <1>1. /\ UNCHANGED <<hotSeg, coldSeg, coldIdx, writer, fresh, fetched, fetchMark, digestMark,
                       archiveMark, policy, deleted, reopened, again, torn, cut>>
        /\ pass.pc = "removed" /\ pass.at = s
        /\ hotIdx' = [hotIdx EXCEPT ![s] = NoFile]
        /\ recorded' \subseteq recorded
        /\ pass' = [pass EXCEPT !.pc = "pick", !.todo = pass.todo \ {s}, !.at = None,
                                !.highest = segment_end(s)]
    BY DEF DropIdx, cold, marks, history
  <1>2. /\ s \in pass.todo /\ segment_end(s) <= pass.digested /\ \A t \in pass.todo : s <= t
        /\ pass.digested <= digestMark /\ ~First(s)
        /\ \A t \in pass.todo \ {s} : hotSeg[t].there
    BY <1>1 DEF ArchiveInv, PassTrue, Handling, InHand, First
  <1>3. pass' \in Passes /\ pass'.pc = "pick" /\ pass'.todo = pass.todo \ {s}
        /\ pass'.digested = pass.digested /\ pass'.at = None /\ pass'.highest = segment_end(s)
    <2>1. segment_end(s) \in Int /\ pass.todo \ {s} \in SUBSET Segs
      BY PassBounds
    <2> QED
      BY <1>1, <2>1, PassBounds DEF Passes, PassPcs
  <1>4. /\ hotIdx \in [Segs -> Files(Entries)]
        /\ \A b \in Blocks : segment_index(b) \in Segs
        /\ fetched \subseteq Blocks /\ fresh \subseteq Blocks
    BY FileFacts
  <1>5. /\ hotIdx' \in [Segs -> Files(Entries)] /\ hotIdx'[s] = NoFile
        /\ \A t \in Segs \ {s} : hotIdx'[t] = hotIdx[t]
    BY <1>1, <1>4, NoFileIsFile
  <1>6. ~hotIdx'[s].there /\ IsFile(hotIdx'[s], Entries) /\ hotIdx'[s].data = <<>>
    BY <1>5, NoFileIsFile
  <1>7. \A t \in Segs : /\ First(t)' <=> First(t)
                        /\ First(t) => t # s /\ hotIdx'[t] = hotIdx[t]
    BY <1>1, <1>2, <1>5 DEF First
  <1>a. WellFormed'
    <2>1. recorded' \subseteq Segs
      BY <1>1 DEF ArchiveInv, WellFormed
    <2>2. \A t \in Segs : IsFile(hotIdx'[t], Entries)
      BY <1>5, <1>6 DEF ArchiveInv, WellFormed
    <2> QED
      BY <1>1, <1>3, <1>5, <2>1, <2>2 DEF ArchiveInv, WellFormed
  <1>b. Marks' /\ SomeTier'
    BY <1>1 DEF ArchiveInv, Marks, SomeTier
  <1>c. IndexesInOrder'
    BY <1>1, <1>5, <1>6 DEF ArchiveInv, IndexesInOrder, InOrder
  <1>d. WriterTrue'
    BY <1>1, <1>5, <1>6, <1>7 DEF ArchiveInv, WriterTrue, Settled
  <1>e. FreshHeld' /\ HotHeld' /\ ColdHeld'
    BY <1>1, <1>4, <1>7 DEF ArchiveInv, FreshHeld, HotHeld, ColdHeld, Lasting
  <1>f. TieredSettled'
    BY <1>1, <1>5, <1>6, <1>7 DEF ArchiveInv, TieredSettled, Settled
  <1>g. NotTorn'
    BY <1>1, <1>7 DEF ArchiveInv, NotTorn
  <1>h. PassTrue'
    <2>1. \A t \in pass.todo \ {s} : segment_end(s) < segment_end(t)
      <3> TAKE t \in pass.todo \ {s}
      <3>1. s \in Nat /\ t \in Nat /\ t \in Segs /\ s <= t /\ s # t
        BY <1>2, PassBounds, SegmentOrder
      <3> QED
        BY <3>1, SegmentOrder
    <2> QED
      BY <1>1, <1>2, <1>3, <2>1 DEF PassTrue, Handling
  <1>i. TieredInOrder'
    BY <1>1, <1>2, <1>3, <1>7 DEF ArchiveInv, TieredInOrder
  <1> QED
    BY <1>a, <1>b, <1>c, <1>d, <1>e, <1>f, <1>g, <1>h, <1>i DEF ArchiveInv

LEMMA PowerFailureStep ==
  ASSUME ArchiveInv, PowerFailure
  PROVE  ArchiveInv'
  <1>1. /\ UNCHANGED <<coldSeg, coldIdx, fetched, fetchMark, digestMark, archiveMark, recorded,
                       deleted, reopened>>
        /\ hotSeg' \in Survivors(hotSeg) /\ hotIdx' \in Survivors(hotIdx)
        /\ writer' = Closed /\ fresh' = {} /\ pass' = Idle /\ policy' \in Policies
        /\ torn' = torn \cup again /\ again' = {} /\ cut' = TRUE
    BY DEF PowerFailure, Restart, cold, marks
  <1>2. /\ \A t \in Segs : /\ hotSeg[t] \in Files(Frames) /\ IsFile(hotSeg[t], Frames)
                           /\ hotIdx[t] \in Files(Entries) /\ IsFile(hotIdx[t], Entries)
        /\ \A b \in fetched : segment_index(b) \in Segs
    BY FileFacts
  <1>3. \A t \in Segs : hotSeg'[t] \in Remains(hotSeg[t]) /\ hotIdx'[t] \in Remains(hotIdx[t])
    BY <1>1 DEF Survivors
  <1>4. DOMAIN hotSeg' = Segs /\ hotSeg' = [t \in Segs |-> hotSeg'[t]]
        /\ DOMAIN hotIdx' = Segs /\ hotIdx' = [t \in Segs |-> hotIdx'[t]]
    BY <1>1 DEF Survivors
  <1>5. \A t \in Segs :
          /\ hotSeg'[t] \in Files(Frames) /\ IsFile(hotSeg'[t], Frames)
          /\ hotIdx'[t] \in Files(Entries) /\ IsFile(hotIdx'[t], Entries)
          /\ hotSeg'[t].there = hotSeg[t].there /\ hotIdx'[t].there = hotIdx[t].there
    BY <1>2, <1>3, RemainingFile
  <1>6. \A t \in Segs :
          /\ hotIdx'[t].synced = hotIdx[t].synced
          /\ \A i \in DOMAIN hotIdx'[t].data :
               i \in DOMAIN hotIdx[t].data /\ hotIdx'[t].data[i] = hotIdx[t].data[i]
          /\ \A i \in DOMAIN hotIdx[t].data :
               i <= hotIdx[t].synced => i \in DOMAIN hotIdx'[t].data
    BY <1>2, <1>3, RemainingFile
  <1>7. ASSUME NEW b \in fetched, b \notin torn', NEW idx,
               Holds(hotSeg[segment_index(b)], hotIdx[segment_index(b)], idx, b, Lasting)
        PROVE  LET t == segment_index(b)
               IN /\ Holds(hotSeg'[t], hotIdx'[t], idx, b, Lasting')
                  /\ idx = hotIdx[t] => Holds(hotSeg'[t], hotIdx'[t], hotIdx'[t], b, Lasting')
    <2>1. b \in Lasting
      BY <1>1, <1>7 DEF Lasting
    <2> QED
      BY <1>2, <1>3, <1>7, <2>1, RemainingHolds
  <1>8. \A t \in Segs : First(t)' <=> First(t)
    BY <1>1, <1>5 DEF First
  <1>9. Idle \in Passes /\ Idle.pc = "idle" /\ Idle.todo = {}
    BY DEF Idle, Passes, PassPcs, None
  <1>10. Closed \in Writers /\ Closed.segment = None /\ Closed.putting = None /\ ~Closed.astray
    BY DEF Closed, Writers
  <1>a. WellFormed'
    <2>1. hotSeg' \in [Segs -> Files(Frames)] /\ hotIdx' \in [Segs -> Files(Entries)]
      BY <1>4, <1>5
    <2>2. torn' \subseteq Blocks /\ again' \subseteq Blocks
      BY <1>1 DEF ArchiveInv, WellFormed
    <2> QED
      BY <1>1, <1>5, <1>9, <1>10, <2>1, <2>2 DEF ArchiveInv, WellFormed
  <1>b. Marks'
    BY <1>1 DEF ArchiveInv, Marks
  <1>c. IndexesInOrder'
    BY <1>1, <1>6 DEF ArchiveInv, IndexesInOrder, InOrder
  <1>d. WriterTrue' /\ FreshHeld'
    BY <1>1, <1>10, SegmentOrder DEF WriterTrue, FreshHeld, None
  <1>e. HotHeld'
    <2> SUFFICES ASSUME NEW b \in fetched, First(segment_index(b))
                 PROVE  LET t == segment_index(b)
                        IN /\ \E i \in EntriesOf(hotIdx'[t], b) : i <= hotIdx'[t].synced
                           /\ b \notin torn' =>
                                Holds(hotSeg'[t], hotIdx'[t], hotIdx'[t], b, Lasting')
      BY <1>1, <1>2, <1>8 DEF HotHeld
    <2> DEFINE t == segment_index(b)
    <2>1. /\ t \in Segs
          /\ \E i \in EntriesOf(hotIdx[t], b) : i <= hotIdx[t].synced
          /\ b \notin torn => Holds(hotSeg[t], hotIdx[t], hotIdx[t], b, Lasting)
      BY <1>2 DEF ArchiveInv, HotHeld
    <2>2. \E i \in EntriesOf(hotIdx'[t], b) : i <= hotIdx'[t].synced
      BY <1>6, <2>1 DEF EntriesOf
    <2>3. b \notin torn' => b \notin torn
      BY <1>1
    <2> QED
      BY <1>7, <2>1, <2>2, <2>3
  <1>f. ColdHeld'
    <2> SUFFICES ASSUME NEW b \in fetched, coldIdx[segment_index(b)].there,
                        segment_index(b) \notin reopened
                 PROVE  LET t == segment_index(b)
                        IN /\ EntriesOf(coldIdx[t], b) # {}
                           /\ b \notin torn' =>
                                /\ Reads(coldSeg[t], coldIdx[t], b)
                                /\ First(t) =>
                                     Holds(hotSeg'[t], hotIdx'[t], coldIdx[t], b, Lasting')
      BY <1>1, <1>2, <1>8 DEF ColdHeld
    <2> DEFINE t == segment_index(b)
    <2>1. /\ EntriesOf(coldIdx[t], b) # {}
          /\ b \notin torn => /\ Reads(coldSeg[t], coldIdx[t], b)
                              /\ First(t) => Holds(hotSeg[t], hotIdx[t], coldIdx[t], b, Lasting)
      BY DEF ArchiveInv, ColdHeld
    <2>2. b \notin torn' => b \notin torn
      BY <1>1
    <2> QED
      BY <1>7, <2>1, <2>2
  <1>g. SomeTier'
    BY <1>1, <1>2, <1>5 DEF ArchiveInv, SomeTier
  <1>h. TieredSettled'
    BY <1>1, <1>5, <1>8 DEF ArchiveInv, TieredSettled, Settled
  <1>i. NotTorn'
    BY <1>1 DEF NotTorn
  <1>j. PassTrue'
    BY <1>1, <1>9 DEF PassTrue, Handling
  <1>k. TieredInOrder'
    BY <1>1, <1>8, <1>9 DEF ArchiveInv, TieredInOrder
  <1> QED
    BY <1>a, <1>b, <1>c, <1>d, <1>e, <1>f, <1>g, <1>h, <1>i, <1>j, <1>k DEF ArchiveInv

LEMMA InvNext == ArchiveInv /\ [Next]_vars => ArchiveInv'
  <1> SUFFICES ASSUME ArchiveInv, [Next]_vars PROVE ArchiveInv'
    OBVIOUS
  <1>1. ASSUME NEW b \in Blocks, PutFrame(b) \/ AppendFails(b) PROVE ArchiveInv'
    BY <1>1, WriteFrameStep DEF PutFrame, AppendFails, Frames
  <1>2. ASSUME NEW b \in Blocks, Publish(b) \/ Digest(b) PROVE ArchiveInv'
    BY <1>2, MarkSteps
  <1>3. CASE PutEntry
    BY <1>3, PutEntryStep
  <1>4. CASE Sync
    BY <1>4, SyncStep
  <1>5. CASE PassStep
    <2>1. ASSUME NEW s \in Segs, CopySeg(s) \/ CopyIdx(s) \/ RecordSegment(s)
          PROVE  ArchiveInv'
      BY <2>1, CopySegStep, CopyIdxStep, RecordSegmentStep
    <2>2. ASSUME NEW s \in Segs, CloseWriter(s) \/ DropSeg(s) \/ DropIdx(s)
          PROVE  ArchiveInv'
      BY <2>2, CloseWriterStep, DropSegStep, DropIdxStep
    <2> QED
      BY <1>5, <2>1, <2>2, PassStartsStep, PassOverStep DEF PassStep
  <1>6. CASE Kill \/ PowerFailure
    BY <1>6, KillStep, PowerFailureStep
  <1>7. CASE UNCHANGED vars
    <2>1. UNCHANGED <<hotSeg, hotIdx, coldSeg, coldIdx, writer, fresh, fetched, fetchMark,
                      digestMark, archiveMark, recorded, pass, policy, deleted, reopened, again,
                      torn, cut>>
      BY <1>7 DEF vars, hot, cold, marks, history
    <2>2. IndexesInOrder' /\ FreshHeld' /\ HotHeld' /\ ColdHeld' /\ SomeTier' /\ NotTorn'
      BY <2>1, FilesKept
    <2>3. WellFormed' /\ Marks' /\ WriterTrue' /\ TieredSettled' /\ TieredInOrder'
      BY <2>1 DEF ArchiveInv, WellFormed, Marks, WriterTrue, TieredSettled, TieredInOrder,
                  Settled, First, Points
    <2>4. PassTrue'
      <3>1. pass.pc \in Handling => (InHand(pass.at)' <=> InHand(pass.at))
        BY <2>1 DEF InHand, CopyFits, IsLast, EntriesOf, Points
      <3> QED
        BY <2>1, <3>1 DEF ArchiveInv, PassTrue
    <2> QED
      BY <2>2, <2>3, <2>4 DEF ArchiveInv
  <1> QED
    BY <1>1, <1>2, <1>3, <1>4, <1>5, <1>6, <1>7 DEF Next

LEMMA Invariance == Spec => []ArchiveInv
  BY InvInit, InvNext, PTL DEF Spec

--------------------------------------------------------------------------------
(* What the invariant means to a reader of the archive.                     *)

LEMMA LastEntry ==
  ASSUME NEW idx \in Files(Entries), NEW b, EntriesOf(idx, b) # {}
  PROVE  \E i \in EntriesOf(idx, b) : \A j \in EntriesOf(idx, b) : j <= i
  <1> DEFINE end == Len(idx.data)
             FromEnd == {end - i : i \in EntriesOf(idx, b)}
             R == OpToRel(<, Nat)
  <1>1. end \in Nat /\ \A i \in EntriesOf(idx, b) : i \in 1..end
    BY DEF Files, EntriesOf
  <1>2. FromEnd \subseteq Nat /\ FromEnd # {}
    BY <1>1
  <1>3. PICK k \in FromEnd : \A l \in FromEnd : ~(<<l, k>> \in R)
    <2> HIDE DEF FromEnd, R
    <2>1. IsWellFoundedOn(R, Nat)
      BY NatLessThanWellFounded DEF R
    <2> QED
      BY <1>2, <2>1, WFMin
  <1>4. \A l \in FromEnd : ~(l < k)
    BY <1>2, <1>3 DEF OpToRel
  <1>5. PICK i \in EntriesOf(idx, b) : k = end - i
    BY <1>3
  <1>6. ASSUME NEW j \in EntriesOf(idx, b) PROVE j <= i
    <2>1. end - j \in FromEnd
      OBVIOUS
    <2>2. ~(end - j < end - i)
      BY <1>4, <1>5, <2>1
    <2>3. end \in Int /\ i \in Int /\ j \in Int
      BY <1>1
    <2> HIDE DEF end, FromEnd, R
    <2> QED
      BY <2>2, <2>3
  <1> QED
    BY <1>5, <1>6

(* Every block that was put and synced is indexed, and can be read, but for *)
(* the exceptions that ReadsBack names.                                     *)
LEMMA FetchedFound ==
  ASSUME ArchiveInv, NEW b \in fetched, segment_index(b) \notin deleted \cup reopened
  PROVE  Indexed(b) /\ (b \notin torn => Found(b))
  <1> DEFINE s == segment_index(b)
  <1>1. s \in Segs /\ InOrder(hotIdx[s])
    BY FileFacts
  <1>2. CASE hotSeg[s].there
    <2>1. /\ EntriesOf(hotIdx[s], b) # {}
          /\ b \notin torn => Holds(hotSeg[s], hotIdx[s], hotIdx[s], b, Lasting)
      BY <1>2 DEF ArchiveInv, HotHeld, First
    <2>2. b \notin torn => Reads(hotSeg[s], hotIdx[s], b)
      BY <1>1, <2>1, HoldsReads
    <2> QED
      BY <1>2, <2>1, <2>2 DEF Found, Indexed
  <1>3. CASE ~hotSeg[s].there
    <2>1. coldIdx[s].there /\ coldSeg[s].there
      BY <1>1, <1>3 DEF ArchiveInv, SomeTier, TieredSettled
    <2>2. /\ EntriesOf(coldIdx[s], b) # {}
          /\ b \notin torn => Reads(coldSeg[s], coldIdx[s], b)
      BY <2>1 DEF ArchiveInv, ColdHeld
    <2> QED
      BY <1>3, <2>1, <2>2 DEF Found, Indexed
  <1> QED
    BY <1>2, <1>3

(* As long as power holds, what is indexed can be read.                     *)
LEMMA IndexedFound ==
  ASSUME ArchiveInv, ~cut, NEW s \in Segs, First(s),
         NEW b, b \notin torn, EntriesOf(hotIdx[s], b) # {}
  PROVE  Reads(hotSeg[s], hotIdx[s], b)
  <1>1. hotIdx[s] \in Files(Entries) /\ InOrder(hotIdx[s])
    BY FileFacts
  <1>2. PICK i \in EntriesOf(hotIdx[s], b) : \A j \in EntriesOf(hotIdx[s], b) : j <= i
    BY <1>1, LastEntry
  <1>3. i \in DOMAIN hotIdx[s].data /\ hotIdx[s].data[i].block = b
    BY <1>2 DEF EntriesOf
  <1>4. i \in DOMAIN hotSeg[s].data /\ hotSeg[s].data[i] = b
    BY <1>3 DEF ArchiveInv, NotTorn, Points
  <1> QED
    BY <1>1, <1>2, <1>3, <1>4 DEF Reads, InOrder

LEMMA InvTypeOK == ArchiveInv => ArchiveTypeOK
  <1> SUFFICES ASSUME ArchiveInv PROVE ArchiveTypeOK
    OBVIOUS
  <1>1. \A s \in Segs :
          /\ IsFile(hotSeg[s], Blocks \cup {Hole}) /\ IsFile(coldSeg[s], Blocks \cup {Hole})
          /\ IsFile(hotIdx[s], [block : Blocks, at : 1..MaxFrames])
          /\ IsFile(coldIdx[s], [block : Blocks, at : 1..MaxFrames])
    BY DEF ArchiveInv, WellFormed, Frames, Entries
  <1>2. fetchMark \in (StartBlock - 1)..LastBlock
        /\ archiveMark <= digestMark /\ digestMark <= fetchMark
    BY ArchiveAssumption DEF ArchiveInv, Marks
  <1> QED
    BY <1>1, <1>2 DEF ArchiveTypeOK, ArchiveInv, WellFormed, Passes, Writers

LEMMA InvReadsBack == ArchiveInv => ReadsBack
  BY FetchedFound DEF ReadsBack

LEMMA InvRecordsTrue == ArchiveInv => RecordsTrue
  <1> SUFFICES ASSUME ArchiveInv, NEW b \in fetched \ torn,
                      segment_index(b) \in recorded \ reopened
               PROVE  Reads(coldSeg[segment_index(b)], coldIdx[segment_index(b)], b)
    BY DEF RecordsTrue
  <1>1. segment_index(b) \in Segs
    BY FileFacts
  <1> QED
    BY <1>1 DEF ArchiveInv, TieredSettled, ColdHeld

LEMMA InvArchivedPrefix == ArchiveInv => ArchivedPrefix
  BY PassBounds DEF ArchivedPrefix, ArchiveInv, TieredInOrder, First

LEMMA InvTornReadsAbsent == ArchiveInv => TornReadsAbsent
  <1> SUFFICES ASSUME ArchiveInv, ~cut, NEW s \in Segs \ reopened, hotSeg[s].there,
                      NEW i \in DOMAIN hotIdx[s].data, hotIdx[s].data[i].block \notin torn
               PROVE  Reads(hotSeg[s], hotIdx[s], hotIdx[s].data[i].block)
    BY DEF TornReadsAbsent
  <1>1. i \in EntriesOf(hotIdx[s], hotIdx[s].data[i].block) /\ First(s)
    BY DEF EntriesOf, First
  <1> QED
    BY <1>1, IndexedFound

LEMMA InvStatusTrue == ArchiveInv => StatusTrue
  <1> SUFFICES ASSUME ArchiveInv PROVE StatusTrue
    OBVIOUS
  <1>1. /\ StartBlock \in Nat /\ LastBlock \in Nat /\ SegmentSize \in Nat \ {0}
        /\ StartBlock <= LastBlock /\ StartBlock \in Blocks
        /\ fetchMark \in Int /\ fetchMark <= LastBlock /\ StartBlock..fetchMark \subseteq fetched
    BY ArchiveAssumption DEF ArchiveInv, Marks, Blocks
  <1>2. ASSUME NEW b \in StartBlock..fetchMark,
               \A s \in Segs : s <= segment_index(b) => s \notin deleted \cup reopened
        PROVE  b \in Replayable
    <2> DEFINE low == segment_index(StartBlock)
    <2>1. b \in Blocks
      BY <1>1 DEF Blocks
    <2>2. ASSUME NEW c \in StartBlock..b PROVE Indexed(c)
      <3>1. c \in fetched /\ c \in Blocks /\ c \in Nat /\ b \in Nat /\ c <= b
        BY <1>1, <2>1 DEF Blocks
      <3>2. c \div SegmentSize <= b \div SegmentSize
        BY <1>1, <3>1
      <3>3. segment_index(c) \in Segs /\ segment_index(c) <= segment_index(b)
        BY <3>1, <3>2, SegmentArithmetic DEF segment_index
      <3> QED
        BY <1>2, <3>1, <3>3, FetchedFound
    <2>3. StartBlock \in StartBlock..b /\ Indexed(StartBlock)
      BY <1>1, <2>2
    <2>4. low \in Segs /\ low \in Nat /\ \A t \in Segs : t \in Nat /\ low <= t
      <3>1. low \in Segs /\ Segs \subseteq Nat
        BY <1>1, SegmentArithmetic, SegmentOrder
      <3>2. \A t \in Segs : low <= t
        BY <3>1 DEF Segs
      <3> QED
        BY <3>1, <3>2
    <2>5. low \in Held
      <3>1. ~hotSeg[low].there => coldSeg[low].there
        BY <2>3 DEF Indexed
      <3> QED
        BY <2>4, <3>1 DEF Held
    <2>6. {s \in Held : \A t \in Held : s <= t} = {low}
      BY <2>4, <2>5 DEF Held
    <2>7. StartBlock \in first_number
      <3> DEFINE first == {c \in Blocks : segment_index(c) \in {low} /\ Indexed(c)}
      <3>1. StartBlock \in first
        BY <1>1, <2>3
      <3>2. \A c \in first : StartBlock <= c
        BY <1>1 DEF Blocks
      <3>3. first_number = {c \in first : \A d \in first : c <= d}
        BY <2>6 DEF first_number
      <3> QED
        BY <3>1, <3>2, <3>3
    <2> QED
      BY <1>1, <2>1, <2>2, <2>7 DEF Replayable
  <1>3. ASSUME ~cut, NEW b \in Replayable \ torn, segment_index(b) \notin reopened
        PROVE  Found(b)
    <2> DEFINE s == segment_index(b)
    <2>1. b \in Blocks /\ Indexed(b)
      <3>1. PICK from \in first_number : from <= b /\ \A c \in from..b : Indexed(c)
        BY <1>3 DEF Replayable
      <3>2. b \in Blocks /\ from \in Blocks
        BY <1>3, <3>1 DEF Replayable, first_number
      <3>3. b \in from..b
        BY <1>1, <3>1, <3>2 DEF Blocks
      <3> QED
        BY <3>1, <3>2, <3>3
    <2>2. s \in Segs
      BY <2>1, SegmentArithmetic
    <2>3. CASE hotSeg[s].there
      <3>1. EntriesOf(hotIdx[s], b) # {} /\ First(s)
        BY <1>3, <2>1, <2>3 DEF Indexed, First
      <3> QED
        BY <1>3, <2>2, <2>3, <3>1, IndexedFound DEF Found
    <2>4. CASE ~hotSeg[s].there
      <3>1. EntriesOf(coldIdx[s], b) # {}
        BY <2>1, <2>4 DEF Indexed
      <3>2. IsFile(coldIdx[s], Entries)
        BY <2>2, FileFacts
      <3>3. coldIdx[s].there
        <4>1. coldIdx[s].data = <<>> => EntriesOf(coldIdx[s], b) = {}
          BY DEF EntriesOf
        <4> QED
          BY <3>1, <3>2, <4>1 DEF IsFile
      <3>4. Settled(s)
        BY <2>2, <3>3 DEF ArchiveInv, TieredSettled
      <3>5. b \in fetched
        BY <2>1, <3>4, SettledFetched
      <3> QED
        BY <1>3, <2>4, <3>3, <3>5 DEF ArchiveInv, ColdHeld, Found
    <2> QED
      BY <2>3, <2>4
  <1> QED
    BY <1>2, <1>3 DEF StatusTrue

--------------------------------------------------------------------------------
(* The refinement: what can be read is the archive that is promised.        *)
Kept == {b \in fetched : Found(b)}

Spoiled == torn \cup {b \in Blocks : segment_index(b) \in reopened}

AbstractVars == <<Kept, Spoiled, fetchMark, digestMark, policy>>

LEMMA ReadsBackNext == ArchiveInv' => ReadsBack'
  BY InvReadsBack, PTL

(* Nothing is lost by a step that deletes nothing, but what is spoiled.     *)
LEMMA KeptStays ==
  ASSUME ArchiveInv, ArchiveInv', deleted' = deleted, fetched \subseteq fetched',
         torn \subseteq torn', reopened \subseteq reopened',
         \A s \in deleted \ reopened : coldSeg'[s] = coldSeg[s] /\ coldIdx'[s] = coldIdx[s]
  PROVE  /\ Kept' \subseteq Blocks /\ Kept \ Kept' \subseteq Spoiled'
         /\ Spoiled \subseteq Spoiled' /\ Spoiled' \subseteq Blocks
  <1>1. /\ deleted \subseteq Segs /\ fetched' \subseteq Blocks /\ fetched \subseteq Blocks
        /\ torn' \subseteq Blocks
    BY DEF ArchiveInv, WellFormed
  <1>2. ASSUME NEW b \in Kept, b \notin Kept' PROVE b \in Spoiled'
    <2> DEFINE s == segment_index(b)
    <2>1. b \in fetched /\ b \in fetched' /\ b \in Blocks /\ Found(b) /\ ~Found(b)'
      BY <1>1, <1>2 DEF Kept
    <2>2. b \in torn' \/ s \in deleted \/ s \in reopened'
      <3>1. ReadsBack'
        BY ReadsBackNext
      <3> QED
        BY <2>1, <3>1 DEF ReadsBack
    <2>3. CASE b \in torn' \/ s \in reopened'
      BY <2>1, <2>3 DEF Spoiled, Blocks
    <2>4. CASE s \in deleted \ reopened'
      <3>1. s \in Segs /\ s \notin reopened /\ s \in deleted'
        BY <1>1, <2>4
      <3>2. ~hotSeg[s].there
        BY <3>1, <2>4 DEF ArchiveInv, TieredSettled, First
      <3>3. ~hotSeg'[s].there
        BY <3>1, <2>4 DEF ArchiveInv, TieredSettled, First
      <3>4. coldSeg'[s] = coldSeg[s] /\ coldIdx'[s] = coldIdx[s]
        BY <2>4, <3>1
      <3>5. Found(b)' = Found(b)
        BY <3>2, <3>3, <3>4 DEF Found, Reads, EntriesOf
      <3> QED
        BY <2>1, <3>5
    <2> QED
      BY <2>2, <2>3, <2>4
  <1>3. Spoiled \subseteq Spoiled' /\ Spoiled' \subseteq Blocks
    BY <1>1 DEF Spoiled, Blocks
  <1> QED
    BY <1>1, <1>2, <1>3 DEF Kept

(* Past the digest nothing is deleted, and no segment is opened once more.  *)
LEMMA Beyond ==
  ASSUME ArchiveInv, NEW b \in Blocks, ~(b <= digestMark)
  PROVE  segment_index(b) \notin deleted \cup reopened
  BY SettledFetched, FileFacts DEF ArchiveInv, TieredSettled

LEMMA Promised ==
  ASSUME ArchiveInv, NEW n \in Blocks, StartBlock..n \subseteq fetched
  PROVE  (digestMark + 1)..n \subseteq fetched \cap (Kept \cup Spoiled)
  <1> SUFFICES ASSUME NEW b \in (digestMark + 1)..n PROVE b \in fetched \cap (Kept \cup Spoiled)
    OBVIOUS
  <1>1. /\ StartBlock \in Nat /\ digestMark \in Int /\ StartBlock - 1 <= digestMark
        /\ n \in Nat /\ n <= LastBlock /\ LastBlock \in Nat
    BY ArchiveAssumption DEF ArchiveInv, Marks, Blocks
  <1>2. b \in Blocks /\ b \in fetched /\ ~(b <= digestMark)
    BY <1>1 DEF Blocks
  <1>3. segment_index(b) \notin deleted \cup reopened
    BY <1>2, Beyond
  <1> QED
    BY <1>2, <1>3, FetchedFound DEF Kept, Spoiled

LEMMA AbstractInit == Init => A!Init
  BY DEF Init, A!Init

(* A block is spoiled as it is put, or when power fails before the run that *)
(* put it again has synced.                                                 *)
LEMMA WriteSpoils ==
  ASSUME ArchiveInv, NEW b \in Blocks, PutFrame(b) \/ AppendFails(b)
  PROVE  /\ torn \subseteq torn' /\ reopened \subseteq reopened'
         /\ "full" \in Faults \/ Spoiled' \ Spoiled \subseteq StartBlock..digestMark
  <1> DEFINE s == segment_index(b)
  <1>1. /\ torn' = torn \/ torn' = torn \cup TornBy(b)
        /\ \/ reopened' = reopened
           \/ reopened' = reopened \cup {s} /\ (coldSeg[s].there \/ s \in deleted)
    BY DEF PutFrame, AppendFails, WriteFrame
  <1>2. s \in Segs
    BY FileFacts
  <1>3. ASSUME NEW c \in Blocks, segment_index(c) = s, Settled(s)
        PROVE  c \in StartBlock..digestMark
    <2>1. c <= digestMark
      BY <1>3, SettledFetched
    <2>2. digestMark \in Int /\ c \in Nat /\ StartBlock \in Nat /\ StartBlock <= c
      BY ArchiveAssumption, PassBounds DEF Blocks
    <2> QED
      BY <2>1, <2>2
  <1>4. ASSUME "full" \notin Faults, NEW c \in TornBy(b) PROVE c \in StartBlock..digestMark
    <2>1. /\ c = b
          /\ \/ writer.segment = s /\ writer.astray
             \/ pass.pc = "copied" /\ pass.at = s
      BY <1>4 DEF TornBy
    <2>2. ~writer.astray
      BY <1>4 DEF ArchiveInv, WriterTrue
    <2>3. Settled(s)
      BY <1>2, <2>1, <2>2, PassBounds DEF ArchiveInv, PassTrue, Handling, Settled
    <2> QED
      BY <1>3, <2>1, <2>3
  <1>5. coldSeg[s].there \/ s \in deleted => Settled(s)
    BY <1>2 DEF ArchiveInv, TieredSettled
  <1>6. "full" \in Faults \/ Spoiled' \ Spoiled \subseteq StartBlock..digestMark
    <2> SUFFICES ASSUME "full" \notin Faults, NEW c \in Spoiled', c \notin Spoiled
                 PROVE  c \in StartBlock..digestMark
      OBVIOUS
    <2>1. CASE c \in torn'
      BY <1>1, <1>4, <2>1 DEF Spoiled
    <2>2. CASE c \in Blocks /\ segment_index(c) \in reopened'
      BY <1>1, <1>3, <1>5, <2>2 DEF Spoiled
    <2> QED
      BY <2>1, <2>2 DEF Spoiled, Blocks
  <1> QED
    BY <1>1, <1>6

LEMMA PowerSpoils ==
  ASSUME ArchiveInv, NEW b \in again, b \notin Spoiled
  PROVE  b \in Kept \cup StartBlock..digestMark
  <1>1. b \in fetched /\ b \in Blocks /\ b \notin torn /\ segment_index(b) \notin reopened
    BY DEF ArchiveInv, WellFormed, TieredSettled, Spoiled
  <1>2. CASE segment_index(b) \notin deleted
    BY <1>1, <1>2, FetchedFound DEF Kept
  <1>3. CASE segment_index(b) \in deleted
    <2>1. b <= digestMark
      BY <1>1, <1>3, Beyond
    <2>2. digestMark \in Int /\ b \in Nat /\ StartBlock \in Nat /\ StartBlock <= b
      BY <1>1, ArchiveAssumption, PassBounds DEF Blocks
    <2> QED
      BY <2>1, <2>2
  <1> QED
    BY <1>2, <1>3

LEMMA AbstractStep ==
  ASSUME ArchiveInv, ArchiveInv', [Next]_vars
  PROVE  [A!Next]_AbstractVars
  <1>1. ASSUME deleted' = deleted, fetched \subseteq fetched',
               torn \subseteq torn', reopened \subseteq reopened',
               \A s \in deleted \ reopened : coldSeg'[s] = coldSeg[s] /\ coldIdx'[s] = coldIdx[s],
               "full" \in Faults \/ Spoiled' \ Spoiled \subseteq Kept \cup StartBlock..digestMark
        PROVE  A!Change
    BY <1>1, KeptStays DEF A!Change, Kept, Spoiled, Blocks
  <1>2. ASSUME NEW b \in Blocks, PutFrame(b) \/ AppendFails(b) PROVE A!Next
    <2>1. UNCHANGED <<coldSeg, coldIdx, fetched, fetchMark, digestMark, policy, deleted>>
      BY <1>2 DEF PutFrame, AppendFails, WriteFrame, cold, marks
    <2>2. A!Change
      BY <1>1, <1>2, <2>1, WriteSpoils
    <2> QED
      BY <2>1, <2>2 DEF A!Keep, A!Next
  <1>3. ASSUME UNCHANGED <<fetchMark, digestMark, policy, deleted, torn, reopened>>,
               fetched \subseteq fetched',
               \A s \in deleted \ reopened : coldSeg'[s] = coldSeg[s] /\ coldIdx'[s] = coldIdx[s]
        PROVE  A!Next
    <2>1. Spoiled' = Spoiled
      BY <1>3 DEF Spoiled
    <2> QED
      BY <1>1, <1>3, <2>1 DEF A!Keep, A!Next
  <1>4. CASE PutEntry \/ Sync
    BY <1>3, <1>4 DEF PutEntry, Sync, cold, marks
  <1>5. ASSUME NEW n \in Blocks, Publish(n) PROVE A!Next
    <2>1. /\ n > fetchMark /\ fetchMark' = n /\ StartBlock..n \subseteq fetched
          /\ UNCHANGED <<Kept, Spoiled, digestMark, policy>>
      BY <1>5 DEF Publish, Kept, Spoiled, Found, hot, cold, history
    <2>2. (digestMark + 1)..n \subseteq Kept \cup Spoiled
      BY <2>1, Promised
    <2>3. fetchMark < n
      BY <2>1 DEF ArchiveInv, Marks
    <2>4. A!Publish(n)
      BY <2>1, <2>2, <2>3 DEF A!Publish, Kept, Spoiled
    <2> QED
      BY <2>4 DEF A!Next, Blocks
  <1>6. ASSUME NEW n \in Blocks, Digest(n) PROVE A!Next
    <2>1. /\ n \in (digestMark + 1)..fetchMark /\ digestMark' = n
          /\ \A b \in (digestMark + 1)..n : Found(b)
          /\ UNCHANGED <<Kept, Spoiled, fetchMark, policy>>
      BY <1>6 DEF Digest, Kept, Spoiled, Found, hot, cold, history
    <2>2. digestMark < n /\ n <= fetchMark
      BY <2>1 DEF ArchiveInv, Marks
    <2>3. StartBlock..n \subseteq fetched
      BY <2>2 DEF ArchiveInv, Marks, Blocks
    <2>4. (digestMark + 1)..n \subseteq Kept
      BY <2>1, <2>3, Promised DEF Kept
    <2>5. A!Digest(n)
      BY <2>1, <2>2, <2>4 DEF A!Digest, Kept, Spoiled
    <2> QED
      BY <2>5 DEF A!Next, Blocks
  <1>7. CASE PassStarts \/ PassEnds \/ PassFails
    BY <1>3, <1>7 DEF PassStarts, PassEnds, PassFails, cold, marks, history
  <1>8. ASSUME NEW s \in Segs, CopySeg(s) \/ CopyIdx(s) PROVE A!Next
    <2>1. s \in pass.todo /\ (pass.pc = "removed" => pass.at # s)
      BY <1>8 DEF CopySeg, CopyIdx, Eligible, ArchiveInv, PassTrue, Handling
    <2>2. hotSeg[s].there
      BY <1>8, <2>1 DEF CopySeg, CopyIdx, ArchiveInv, PassTrue
    <2>3. s \notin deleted \ reopened
      BY <2>2 DEF ArchiveInv, TieredSettled, First
    <2>4. \A t \in deleted \ reopened : coldSeg'[t] = coldSeg[t] /\ coldIdx'[t] = coldIdx[t]
      BY <1>8, <2>3 DEF CopySeg, CopyIdx, ArchiveInv, WellFormed
    <2> QED
      BY <1>3, <1>8, <2>4 DEF CopySeg, CopyIdx, marks, history
  <1>9. ASSUME NEW s \in Segs, RecordSegment(s) \/ CloseWriter(s) \/ DropIdx(s) PROVE A!Next
    BY <1>3, <1>9 DEF RecordSegment, CloseWriter, DropIdx, cold, marks, history
  <1>10. ASSUME NEW s \in Segs, DropSeg(s) PROVE A!Next
    <2>1. /\ UNCHANGED <<coldSeg, coldIdx, fetched, fetchMark, digestMark, policy, torn, reopened>>
          /\ deleted' = IF policy = "delete" THEN deleted \cup {s} ELSE deleted
      BY <1>10 DEF DropSeg, cold, marks
    <2>2. CASE policy # "delete"
      BY <1>3, <2>1, <2>2
    <2>3. CASE policy = "delete"
      <3>1. fetched \subseteq Blocks /\ deleted' \subseteq Segs
        BY <2>1 DEF ArchiveInv, WellFormed
      <3>2. Kept' \subseteq Blocks /\ Spoiled' = Spoiled
        BY <2>1, <3>1 DEF Kept, Spoiled
      <3>3. Kept \ Kept' \subseteq StartBlock..digestMark \cup Spoiled
        <4> SUFFICES ASSUME NEW b \in fetched, ~Found(b)', b \notin Spoiled
                     PROVE  b \in StartBlock..digestMark
          BY <2>1 DEF Kept
        <4>1. ReadsBack'
          BY ReadsBackNext
        <4>2. segment_index(b) \in deleted'
          BY <2>1, <3>1, <4>1 DEF ReadsBack, Spoiled
        <4>3. b <= digestMark
          <5>1. Settled(segment_index(b))
            BY <2>1, <3>1, <4>2 DEF ArchiveInv, TieredSettled, Settled
          <5> QED
            BY <3>1, <5>1, SettledFetched
        <4>4. digestMark \in Int /\ b \in Nat /\ StartBlock \in Nat /\ StartBlock <= b
          BY <3>1, ArchiveAssumption, PassBounds DEF Blocks
        <4> QED
          BY <4>3, <4>4
      <3>4. A!GiveUp
        BY <2>1, <2>3, <3>2, <3>3 DEF A!GiveUp, Kept, Spoiled, Blocks
      <3> QED
        BY <3>4 DEF A!Next
    <2> QED
      BY <2>2, <2>3
  <1>11. CASE Kill \/ PowerFailure
    <2>1. /\ UNCHANGED <<coldSeg, coldIdx, fetched, fetchMark, digestMark, deleted, reopened>>
          /\ policy' \in Policies /\ torn' \subseteq torn \cup again /\ torn \subseteq torn'
      BY <1>11 DEF Kill, PowerFailure, Restart, cold, marks
    <2>2. Spoiled' \ Spoiled \subseteq Kept \cup StartBlock..digestMark
      <3>1. Spoiled' \ Spoiled \subseteq again
        BY <2>1 DEF Spoiled
      <3> QED
        BY <3>1, PowerSpoils
    <2>3. A!Change
      BY <1>1, <2>1, <2>2
    <2>4. A!Configure
      BY <2>1, <2>3 DEF A!Configure
    <2> QED
      BY <2>4 DEF A!Next
  <1>12. CASE UNCHANGED vars
    <2>1. UNCHANGED AbstractVars
      BY <1>12 DEF vars, hot, cold, marks, history, AbstractVars, Kept, Spoiled, Found, Reads,
                   EntriesOf
    <2> QED
      BY <2>1
  <1> QED
    BY <1>2, <1>4, <1>5, <1>6, <1>7, <1>8, <1>9, <1>10, <1>11, <1>12 DEF Next, PassStep

--------------------------------------------------------------------------------
(* Files are files, and no watermark overtakes the one before it.           *)
THEOREM ArchiveTypeCorrect == Spec => []ArchiveTypeOK
  BY InvTypeOK, Invariance, PTL

(* Copy, verify, record, then delete: what was synced can be read for ever, *)
(* on one tier or the other, whatever a pass, a kill, a power failure or a  *)
(* full disk has left half done and however often blocks are put again,     *)
(* unless the block was spoiled by that (torn, reopened) or deleted.        *)
THEOREM ReadsBackForEver == Spec => []ReadsBack
  BY InvReadsBack, Invariance, PTL

(* A row of `segments' stands for a whole copy on the cold tier, of all     *)
(* blocks but spoiled ones, also while late blocks are put between the      *)
(* steps of a pass.                                                         *)
THEOREM RecordsAreTrue == Spec => []RecordsTrue
  BY InvRecordsTrue, Invariance, PTL

(* No segment at or below the archive watermark is left on the hot tier,    *)
(* but the new files that late puts made there after it was tiered.         *)
THEOREM ArchivedInOrder == Spec => []ArchivedPrefix
  BY InvArchivedPrefix, Invariance, PTL

(* As long as power holds, a torn append reads as absent, never as present  *)
(* but wrong, if no error has led the writer astray and the block was not   *)
(* put into a segment that was just copied, or tiered.                      *)
THEOREM TornAppendsAbsent == Spec => []TornReadsAbsent
  BY InvTornReadsAbsent, Invariance, PTL

(* `pif store status' agrees with the fetch watermark as long as no segment *)
(* was deleted or opened again.                                             *)
THEOREM StatusIsTrue == Spec => []StatusTrue
  BY InvStatusTrue, Invariance, PTL

(* Files, tiers, passes, faults and late puts implement the archive that    *)
(* the two stages can rely on: a set of readable blocks that loses only     *)
(* what was given up and what was spoiled, and spoils, as long as the disk  *)
(* does not fill up, only what it had already or what was digested.         *)
THEOREM ImplementsArchive == Spec => ImplementsBlockArchive
  <1>1. ArchiveInv /\ ArchiveInv' /\ [Next]_vars => [A!Next]_(A!vars)
    BY AbstractStep DEF AbstractVars, A!vars, Kept, Spoiled
  <1> QED
    BY <1>1, AbstractInit, Invariance, PTL DEF Spec, ImplementsBlockArchive, A!Spec
================================================================================
