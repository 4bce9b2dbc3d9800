------------------------------- MODULE Capture -------------------------------
(***************************************************************************)
(* What the fetch stage archives so that a block can be decoded without a  *)
(* node: the block under the runtime that executed it, and once a runtime, *)
(* its metadata (`capture', `ensure_metadata', metadata.rs).  The digest   *)
(* decodes from these alone (archive.rs, `decode_stored').                 *)
(*                                                                         *)
(* A runtime is its spec version.  A chunk is one block.                   *)
(***************************************************************************)
EXTENDS Integers, FiniteSets

CONSTANTS
    Fetchers,      \* workers of the fetch stage
    LastBlock,
    Upgrades,      \* blocks that carry `set_code'
    Offers(_),     \* metadata formats a runtime serves through its API
    Readable,      \* formats this build decodes
    MaxCrashes,    \* bound: kills and power failures, each with a restart
    MaxErrors      \* bound: errors of calls to the node or the disk

Legacy == 14       \* what state_getMetadata answers
NoFile == 0        \* no metadata file
Torn   == -1       \* a metadata file that is empty or cut short
Blocks == 0 .. LastBlock
Specs  == 1 .. Cardinality(Upgrades) + 1

ASSUME CaptureAssumption ==
    /\ LastBlock \in Nat /\ Upgrades \subseteq Blocks
    /\ Legacy \in Readable /\ Readable \subseteq Nat
    /\ \A S \in SUBSET Readable : S # {} => \E f \in S : \A g \in S : g <= f
    /\ MaxCrashes \in Nat /\ MaxErrors \in Nat

VARIABLES
    chunk,     \* state of each block's chunk
    seen,      \* seen_runtimes of the running backfill
    blobs,     \* metadata files: the format kept for a runtime, NoFile or Torn
    unwritten, \* runtimes whose file the disk may not have yet
    rows,      \* runtime_versions: the format recorded, 0 for a row without, -1 for no row
    saved,     \* the runtime a block is archived under, 0 for none
    fetcher,   \* what each worker does
    client,    \* the runtime the digest's offline client is for, 0 for none
    loaded,    \* runtimes whose metadata the digest holds decoded
    decoded,   \* the runtime whose metadata decoded each block, 0 for none
    crashes, errors,
    unfetched, \* history: runtimes whose metadata a worker failed to fetch or store
    taken      \* history: runtimes whose file a power failure tore, or removed
               \*          when no block of theirs was left to capture

captureVars == <<chunk, seen, blobs, unwritten, rows, saved, fetcher, client, loaded,
                 decoded, crashes, errors, unfetched, taken>>
reading == <<client, loaded, decoded>>
files   == <<blobs, unwritten>>
history == <<crashes, errors, unfetched, taken>>

Largest(S) == CHOOSE x \in S : \A y \in S : y <= x
Smallest(S) == CHOOSE x \in S : \A y \in S : x <= y

(***************************************************************************)
(* The runtime of a block's post-state, which is what a node reports for   *)
(* it, and the one that executed it: its parent's.                         *)
(***************************************************************************)
Reported(b)  == 1 + Cardinality({u \in Upgrades : u <= b})
Executing(b) == IF b = 0 THEN Reported(0) ELSE Reported(b - 1)

Idle == [at |-> "idle", block |-> 0, spec |-> 0, format |-> 0]

CaptureInit ==
    /\ chunk = [b \in Blocks |-> "pending"] /\ seen = {}
    /\ blobs = [s \in Specs |-> NoFile] /\ unwritten = {} /\ rows = [s \in Specs |-> -1]
    /\ saved = [b \in Blocks |-> 0] /\ fetcher = [w \in Fetchers |-> Idle]
    /\ client = 0 /\ loaded = {} /\ decoded = [b \in Blocks |-> 0]
    /\ crashes = 0 /\ errors = 0 /\ unfetched = {} /\ taken = {}

Moves(w, to) == fetcher' = [fetcher EXCEPT ![w].at = to]

ClaimBlock(w) ==
    /\ fetcher[w].at = "idle"
    /\ \E b \in Blocks :
         /\ chunk[b] = "pending"
         /\ \A c \in Blocks : chunk[c] = "pending" => b <= c
         /\ chunk' = [chunk EXCEPT ![b] = "leased"]
         /\ fetcher' = [fetcher EXCEPT ![w] = [Idle EXCEPT !.at = "runtime", !.block = b]]
    /\ UNCHANGED <<seen, files, rows, saved, reading, history>>

\* The runtime the node reports for the block itself.
ResolveReported(w) ==
    /\ fetcher[w].at = "runtime"
    /\ fetcher' = [fetcher EXCEPT ![w].at = "meet", ![w].spec = Reported(fetcher[w].block)]
    /\ UNCHANGED <<chunk, seen, files, rows, saved, reading, history>>

(***************************************************************************)
(* `executing_runtime'.                                                    *)
(***************************************************************************)
ResolveRuntime(w) ==
    /\ fetcher[w].at = "runtime"
    /\ fetcher' = [fetcher EXCEPT ![w].at = "meet", ![w].spec = Executing(fetcher[w].block)]
    /\ UNCHANGED <<chunk, seen, files, rows, saved, reading, history>>

(***************************************************************************)
(* `ensure_metadata', step by step.  A runtime that was met before is not  *)
(* looked at again, whatever became of its metadata.                       *)
(***************************************************************************)
Meet(w) ==
    /\ fetcher[w].at = "meet"
    /\ seen' = seen \cup {fetcher[w].spec}
    /\ Moves(w, IF fetcher[w].spec \in seen THEN "bytes" ELSE "lookup")
    /\ UNCHANGED <<chunk, files, rows, saved, reading, history>>

Lookup(w) ==
    /\ fetcher[w].at = "lookup"
    /\ Moves(w, IF blobs[fetcher[w].spec] # NoFile THEN "bytes" ELSE "download")
    /\ UNCHANGED <<chunk, seen, files, rows, saved, reading, history>>

(***************************************************************************)
(* `fetch_at': the richest format offered that this build can read, else   *)
(* the legacy one.  A call that fails counts as a format not offered.      *)
(***************************************************************************)
Kept(answers) ==
    LET usable == {f \in answers : f >= Legacy /\ f \in Readable}
    IN  IF usable = {} THEN Legacy ELSE Largest(usable)

\* A runtime whose metadata cannot be had is logged and passed over.
DownloadOrPass(w) ==
    /\ fetcher[w].at = "download"
    /\ \E to \in {"store", "bytes"} :
         fetcher' = [fetcher EXCEPT ![w].at = to,
                                    ![w].format = Kept(Offers(fetcher[w].spec))]
    /\ UNCHANGED <<chunk, seen, files, rows, saved, reading, history>>

Download(w) ==
    LET s == fetcher[w].spec
    IN  /\ fetcher[w].at = "download"
        /\ \E answers \in SUBSET Offers(s) :
             /\ answers # Offers(s) => errors < MaxErrors
             /\ errors' = errors + (IF answers = Offers(s) THEN 0 ELSE 1)
             /\ fetcher' = [fetcher EXCEPT ![w].at = "store",
                                           ![w].format = Kept(answers)]
        /\ UNCHANGED <<chunk, seen, files, rows, saved, reading, crashes, unfetched, taken>>

StoreMetadata(w) ==
    /\ fetcher[w].at = "store"
    /\ blobs' = [blobs EXCEPT ![fetcher[w].spec] = fetcher[w].format]
    /\ unwritten' = unwritten \cup {fetcher[w].spec}
    /\ Moves(w, "record")
    /\ UNCHANGED <<chunk, seen, rows, saved, reading, history>>

RecordRuntime(w) ==
    /\ fetcher[w].at = "record"
    /\ rows' = [rows EXCEPT ![fetcher[w].spec] = fetcher[w].format]
    /\ Moves(w, "bytes")
    /\ UNCHANGED <<chunk, seen, files, saved, reading, history>>

(***************************************************************************)
(* Events and extrinsics, as bytes, and the record with the runtime; the   *)
(* chunk is synced and done.                                               *)
(***************************************************************************)
PutBlock(w) ==
    /\ fetcher[w].at = "bytes"
    /\ saved' = [saved EXCEPT ![fetcher[w].block] = fetcher[w].spec]
    /\ chunk' = [chunk EXCEPT ![fetcher[w].block] = "done"]
    /\ fetcher' = [fetcher EXCEPT ![w] = Idle]
    /\ UNCHANGED <<seen, files, rows, reading, history>>

(***************************************************************************)
(* Any call of `capture' fails, and the chunk goes back to the queue.      *)
(***************************************************************************)
CaptureFails(w) ==
    /\ fetcher[w].at \in {"runtime", "lookup", "download", "store", "record", "bytes"}
    /\ errors < MaxErrors /\ errors' = errors + 1
    /\ unfetched' = unfetched \cup
         (IF fetcher[w].at \in {"lookup", "download", "store"} THEN {fetcher[w].spec} ELSE {})
    /\ chunk' = [chunk EXCEPT ![fetcher[w].block] = "pending"]
    /\ fetcher' = [fetcher EXCEPT ![w] = Idle]
    /\ UNCHANGED <<seen, files, rows, saved, reading, crashes, taken>>

(***************************************************************************)
(* Each backfill, and the head follower, begins with an empty set.         *)
(***************************************************************************)
NewBackfill ==
    /\ \A w \in Fetchers : fetcher[w].at = "idle"
    /\ seen # {} /\ seen' = {}
    /\ UNCHANGED <<chunk, files, rows, saved, fetcher, reading, history>>

Restart ==
    /\ crashes < MaxCrashes /\ crashes' = crashes + 1
    /\ chunk' = [b \in Blocks |-> IF chunk[b] = "leased" THEN "pending" ELSE chunk[b]]
    /\ seen' = {} /\ fetcher' = [w \in Fetchers |-> Idle]
    /\ client' = 0 /\ loaded' = {}
    /\ UNCHANGED <<rows, saved, decoded, errors, unfetched>>

\* A kill leaves the disk as the processes saw it.
CrashRestart == Restart /\ UNCHANGED <<files, taken>>

(***************************************************************************)
(* `put_metadata' syncs neither the file nor the directory: of what was    *)
(* written since the last start, a power failure removes some files and    *)
(* leaves others under their name without their bytes.  Blocks are synced  *)
(* before their chunk is done, and rows are Postgres' own.                 *)
(***************************************************************************)
PowerFailure ==
    /\ Restart
    /\ \E gone, cut \in SUBSET unwritten :
         /\ gone \cap cut = {}
         /\ blobs' = [s \in Specs |-> IF s \in gone THEN NoFile
                                     ELSE IF s \in cut THEN Torn ELSE blobs[s]]
         /\ taken' = taken \cup cut \cup
              {s \in gone : \A c \in Blocks : Executing(c) = s => chunk[c] = "done"}
    /\ unwritten' = {}

(***************************************************************************)
(* `insert_runtime_versions' of the digest: a row that is there stays.     *)
(***************************************************************************)
Noted(s) == [rows EXCEPT ![s] = IF @ = -1 THEN 0 ELSE @]

(***************************************************************************)
(* The digest decodes the next block below the mark: `ensure_client' and   *)
(* `load_metadata', which fails where the metadata is not archived or is    *)
(* not all there.                                                          *)
(***************************************************************************)
NextDecoded == Smallest({b \in Blocks : decoded[b] = 0})

\* The client of the first runtime serves for all.
DecodeStale ==
    /\ \E b \in Blocks : decoded[b] = 0
    /\ chunk[NextDecoded] = "done"
    /\ LET s == saved[NextDecoded]
       IN  /\ client # 0 \/ blobs[s] > 0
           /\ client' = IF client = 0 THEN s ELSE client
           /\ loaded' = loaded \cup {client'}
           /\ rows' = Noted(s)
    /\ decoded' = [decoded EXCEPT ![NextDecoded] = client']
    /\ UNCHANGED <<chunk, seen, files, saved, fetcher, history>>

Decode ==
    /\ \E b \in Blocks : decoded[b] = 0
    /\ chunk[NextDecoded] = "done"
    /\ LET s == saved[NextDecoded]
       IN  /\ client = s \/ s \in loaded \/ blobs[s] > 0
           /\ client' = s /\ loaded' = loaded \cup {s}
           /\ rows' = Noted(s)
    /\ decoded' = [decoded EXCEPT ![NextDecoded] = client']
    /\ UNCHANGED <<chunk, seen, files, saved, fetcher, history>>

CaptureStep(w) ==
    \/ ClaimBlock(w) \/ ResolveRuntime(w) \/ Meet(w) \/ Lookup(w) \/ Download(w)
    \/ StoreMetadata(w) \/ RecordRuntime(w) \/ PutBlock(w) \/ CaptureFails(w)

CaptureNext ==
    \/ \E w \in Fetchers : CaptureStep(w)
    \/ NewBackfill \/ CrashRestart \/ PowerFailure \/ Decode

-----------------------------------------------------------------------------
(***************************************************************************)
(* Every block is decoded with the metadata of the runtime that executed   *)
(* it, at the blocks of an upgrade too, whichever worker archived it and   *)
(* in whatever order (`executing_runtime', `ensure_client').               *)
(***************************************************************************)
DecodesTrue == \A b \in Blocks : decoded[b] # 0 => decoded[b] = Executing(b)

(***************************************************************************)
(* An archived block whose runtime has no readable metadata will get it: a *)
(* block of that runtime is still to be captured, by a process that has    *)
(* not met it.  So it is after kills, and after a power failure that took  *)
(* the file while blocks of the runtime were queued.  Two cases are left   *)
(* out, for the code loses them: a worker failed to fetch or store the     *)
(* metadata, and a power failure tore the file, or took it from a runtime  *)
(* that nothing asks for any more (`ensure_metadata', `put_metadata').     *)
(***************************************************************************)
DecodableUnlessFailed ==
    \A b \in Blocks :
        saved[b] # 0 /\ blobs[saved[b]] \in {NoFile, Torn} =>
            \/ saved[b] \in unfetched \cup taken
            \/ \E c \in Blocks : chunk[c] # "done" /\ Executing(c) = saved[b]

(***************************************************************************)
(* Not so without the exceptions (`ensure_metadata': "Archive a          *)
(* runtime's metadata the first time a block executed by it appears").     *)
(***************************************************************************)
MetadataArchived ==
    \A b \in Blocks :
        saved[b] # 0 /\ blobs[saved[b]] \in {NoFile, Torn} =>
            \E c \in Blocks : chunk[c] # "done" /\ Executing(c) = saved[b]

(***************************************************************************)
(* Not so after a power failure: a metadata file that is there is whole    *)
(* (`put_metadata': "a reader never sees a half-written runtime").         *)
(***************************************************************************)
NeverHalfWritten == \A s \in Specs : blobs[s] # Torn

(***************************************************************************)
(* Not so after a call that went unanswered: what is kept of a runtime is  *)
(* the best of what it offers that this build can decode, the legacy       *)
(* format only where it offers none (`fetch_at').                          *)
(***************************************************************************)
BestOffered == \A s \in Specs : blobs[s] > 0 => blobs[s] = Kept(Offers(s))
=============================================================================
