------------------------------ MODULE SegmentFile ------------------------------
(***************************************************************************)
(* One segment of the archive (crates/pif-store/src/segment.rs): a file of *)
(* frames and its index.  A frame is the number of the block it holds, or  *)
(* Hole for what a lost write leaves in its place; an index entry says at  *)
(* which frame a block is.  Offsets are counted in frames: an offset that  *)
(* is not the start of the right frame reads as garbage, which the number  *)
(* and the checksum of the frame give away.                                *)
(*                                                                         *)
(* A file keeps the length that was synced: a power failure may take what  *)
(* comes after it.                                                         *)
(***************************************************************************)
EXTENDS Integers, Sequences

CONSTANT Hole

ASSUME HoleAssumption == Hole \notin Nat

Entry(b, at) == [block |-> b, at |-> at]

NoFile == [there |-> FALSE, data |-> <<>>, synced |-> 0]

(* A file whose contents were synced as it was made. *)
FileOf(data) == [there |-> TRUE, data |-> data, synced |-> Len(data)]

IsFile(file, unit) ==
  /\ file.there \in BOOLEAN
  /\ file.data \in Seq(unit)
  /\ file.synced \in 0..Len(file.data)
  /\ ~file.there => file.data = <<>>

Lesser(a, b) == IF a < b THEN a ELSE b

Appended(file, unit) == [file EXCEPT !.there = TRUE, !.data = Append(@, unit)]

Synced(file) == [file EXCEPT !.synced = Len(file.data)]

(* What a power failure can leave of a file. *)
Remains(file) ==
  {[file EXCEPT !.data = SubSeq(@, 1, n)] : n \in file.synced..Len(file.data)}

(* The offset at which the index ends, where SegmentWriter::open goes on. *)
IndexedEnd(idx) == IF idx.data = <<>> THEN 0 ELSE idx.data[Len(idx.data)].at

(* Not the code: a tail without index entries is kept. *)
OpenedKeepingTail(seg, idx) == [seg EXCEPT !.there = TRUE]

(***************************************************************************)
(* SegmentWriter::open on the data file: it is cut at the indexed end.  A  *)
(* file that is shorter is extended by the first write behind it; reads    *)
(* fail alike before and after that, so that it is extended here.          *)
(***************************************************************************)
Opened(seg, idx) ==
  LET end == IndexedEnd(idx)
  IN [there |-> TRUE,
      data |-> [i \in 1..end |-> IF i <= Len(seg.data) THEN seg.data[i] ELSE Hole],
      synced |-> Lesser(seg.synced, end)]

EntriesOf(idx, b) == {i \in DOMAIN idx.data : idx.data[i].block = b}

(***************************************************************************)
(* SegmentReader::read: of several entries of a block the last one counts, *)
(* as the reader inserts them into its map in file order.  When a block    *)
(* has an entry and this is false, read returns Corrupt.                   *)
(***************************************************************************)
Reads(seg, idx, b) ==
  \E i \in EntriesOf(idx, b) :
    /\ \A j \in EntriesOf(idx, b) : j <= i
    /\ idx.data[i].at \in DOMAIN seg.data
    /\ seg.data[idx.data[i].at] = b
================================================================================
