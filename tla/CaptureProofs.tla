---------------------------- MODULE CaptureProofs ----------------------------
(***************************************************************************)
(* What the fetch stage archives can be decoded, for any number of workers *)
(* and blocks, any upgrades and any formats a runtime may offer.           *)
(***************************************************************************)
EXTENDS Capture, FiniteSetTheorems, Recursion

CaptureSpec == CaptureInit /\ [][CaptureNext]_captureVars

(* The steps of `ensure_metadata' that only the worker that met a runtime  *)
(* first takes, and those before it knows the format.                      *)
Fetching == {"lookup", "download", "store"}
Keeping  == Fetching \cup {"record"}
Steps    == {"idle", "runtime", "meet", "bytes"} \cup Keeping

CaptureTypeOK ==
  /\ DOMAIN chunk = Blocks /\ DOMAIN saved = Blocks /\ DOMAIN decoded = Blocks
  /\ blobs \in [Specs -> Nat \cup {Torn}]
  /\ fetcher \in [Fetchers -> [at : Steps, block : Blocks, spec : Specs \cup {0}, format : Nat]]

(* A worker holds the chunk of its block, alone, and knows its runtime.    *)
Leases ==
  \A w \in Fetchers : fetcher[w].at # "idle" =>
    /\ chunk[fetcher[w].block] = "leased"
    /\ \A v \in Fetchers \ {w} :
         fetcher[v].at # "idle" => fetcher[v].block # fetcher[w].block
    /\ fetcher[w].at # "runtime" => fetcher[w].spec = Executing(fetcher[w].block)

(* One worker at a time sees to a runtime, and has met it.                 *)
SeesTo ==
  \A w \in Fetchers :
    /\ fetcher[w].at \in Keeping \cup {"bytes"} => fetcher[w].spec \in seen
    /\ fetcher[w].at \in Keeping =>
         \A v \in Fetchers \ {w} :
           fetcher[v].at \in Keeping => fetcher[v].spec # fetcher[w].spec

(* A runtime that is being fetched has no file yet, and what is in hand    *)
(* for it is a real format.                                                *)
InHand ==
  \A w \in Fetchers :
    /\ fetcher[w].at \in {"download", "store"} => blobs[fetcher[w].spec] = NoFile
    /\ fetcher[w].at = "store" => fetcher[w].format # NoFile

(* A file that is not all there is a power failure's doing.                *)
TornTaken == \A s \in Specs : blobs[s] = Torn => s \in taken

(* A block that is done is archived under its own runtime.                 *)
SavedTrue ==
  \A b \in Blocks :
    /\ saved[b] # 0 => saved[b] = Executing(b)
    /\ chunk[b] = "done" => saved[b] = Executing(b)

(* The metadata of a runtime that was met is there, or given up, or some   *)
(* worker is at it.                                                        *)
MetIsSeenTo ==
  \A s \in seen :
    blobs[s] = NoFile /\ s \notin unfetched =>
      \E w \in Fetchers : fetcher[w].at \in Fetching /\ fetcher[w].spec = s

CaptureInv ==
  /\ CaptureTypeOK /\ Leases /\ SeesTo /\ InHand /\ TornTaken /\ SavedTrue /\ MetIsSeenTo
  /\ DecodesTrue /\ DecodableUnlessFailed

-----------------------------------------------------------------------------
(* The format that is kept is a real one.                                  *)
LEMMA KeptIsReal == ASSUME NEW answers PROVE Kept(answers) \in Nat \ {0}
<1> DEFINE usable == {f \in answers : f >= Legacy /\ f \in Readable}
<1>1. CASE usable = {}
  BY <1>1 DEF Kept, Legacy
<1>2. CASE usable # {}
  <2>1. usable \in SUBSET Readable
    OBVIOUS
  <2>2. \E f \in usable : \A g \in usable : g <= f
    BY <1>2, <2>1, CaptureAssumption
  <2>3. Largest(usable) \in usable
    <3> HIDE DEF usable
    <3> QED BY <2>2 DEF Largest
  <2>4. Kept(answers) = Largest(usable)
    BY <1>2 DEF Kept
  <2>5. Largest(usable) \in Nat /\ Largest(usable) >= Legacy
    <3> DEFINE f == Largest(usable)
    <3>1. f \in usable
      BY <2>3
    <3>2. f >= Legacy /\ f \in Readable
      BY <3>1
    <3> QED BY <3>2, CaptureAssumption
  <2> HIDE DEF usable
  <2> QED BY <2>4, <2>5 DEF Legacy
<1> QED BY <1>1, <1>2

LEMMA ExecutingIsARuntime == ASSUME NEW b \in Blocks PROVE Executing(b) \in Specs
<1>1. IsFiniteSet(Upgrades)
  <2>1. IsFiniteSet(Blocks)
    BY FS_Interval, CaptureAssumption DEF Blocks
  <2> QED BY <2>1, FS_Subset, CaptureAssumption
<1>2. ASSUME NEW c PROVE Reported(c) \in Specs
  <2> DEFINE before == {u \in Upgrades : u <= c}
  <2>1. /\ Cardinality(before) \in Nat /\ Cardinality(Upgrades) \in Nat
        /\ Cardinality(before) <= Cardinality(Upgrades)
    BY <1>1, FS_Subset, FS_CardinalityType
  <2> HIDE DEF before
  <2>2. 1 + Cardinality(before) \in 1 .. Cardinality(Upgrades) + 1
    BY <2>1
  <2> QED BY <2>2 DEF Reported, Specs, before
<1> QED BY <1>2 DEF Executing

LEMMA CaptureStarts == CaptureInit => CaptureInv
<1> SUFFICES ASSUME CaptureInit PROVE CaptureInv
  OBVIOUS
<1>1. CaptureTypeOK
  <2>1. Idle \in [at : Steps, block : Blocks, spec : Specs \cup {0}, format : Nat]
    BY CaptureAssumption DEF Idle, Steps, Blocks
  <2> QED BY <2>1 DEF CaptureInit, CaptureTypeOK, NoFile
<1>2. \A w \in Fetchers : fetcher[w].at = "idle"
  BY DEF CaptureInit, Idle
<1>3. Leases /\ SeesTo /\ InHand
  BY <1>2 DEF Leases, SeesTo, InHand, Keeping, Fetching
<1>4. SavedTrue /\ MetIsSeenTo /\ DecodesTrue /\ DecodableUnlessFailed /\ TornTaken
  BY DEF CaptureInit, SavedTrue, MetIsSeenTo, DecodesTrue, DecodableUnlessFailed, TornTaken, NoFile, Torn
<1> QED BY <1>1, <1>3, <1>4 DEF CaptureInv

-----------------------------------------------------------------------------
(* A worker takes the next block that nobody has.                          *)
LEMMA Claims ==
  ASSUME CaptureInv, NEW w \in Fetchers, ClaimBlock(w) PROVE CaptureInv'
<1> USE DEF CaptureInv, NoFile, Torn
<1>1. PICK b \in Blocks :
        /\ chunk[b] = "pending"
        /\ chunk' = [chunk EXCEPT ![b] = "leased"]
        /\ fetcher' = [fetcher EXCEPT ![w] = [Idle EXCEPT !.at = "runtime", !.block = b]]
  BY DEF ClaimBlock
<1>2. /\ fetcher'[w].at = "runtime" /\ fetcher'[w].block = b
      /\ \A v \in Fetchers \ {w} : fetcher'[v] = fetcher[v]
  BY <1>1 DEF CaptureTypeOK, Idle
<1>3. UNCHANGED <<seen, blobs, unwritten, rows, saved, client, loaded, decoded,
                  crashes, errors, unfetched, taken>>
  BY DEF ClaimBlock, reading, history, files
<1>4. fetcher[w].at = "idle"
  BY DEF ClaimBlock
<1>5. /\ chunk'[b] = "leased" /\ \A c \in Blocks \ {b} : chunk'[c] = chunk[c]
  BY <1>1 DEF CaptureTypeOK
<1>6. CaptureTypeOK'
  BY <1>1, <1>3 DEF CaptureTypeOK, Idle, Steps
<1>7. Leases'
  BY <1>1, <1>2, <1>5 DEF Leases, CaptureTypeOK
<1>8. SeesTo' /\ InHand'
  BY <1>2, <1>3, <1>4 DEF SeesTo, InHand, Keeping, Fetching
<1>9. MetIsSeenTo'
  BY <1>2, <1>3, <1>4 DEF MetIsSeenTo, Fetching
<1>10. SavedTrue' /\ DecodableUnlessFailed'
  BY <1>1, <1>3, <1>5 DEF SavedTrue, DecodableUnlessFailed
<1>11. DecodesTrue' /\ TornTaken'
  BY <1>3 DEF DecodesTrue, TornTaken
<1> QED BY <1>6, <1>7, <1>8, <1>9, <1>10, <1>11

(* A step of a worker that stays with its block: where it goes, and what   *)
(* it keeps.                                                               *)
LEMMA Stays ==
  ASSUME CaptureTypeOK, Leases, NEW w \in Fetchers, NEW r,
         r \in [at : Steps, block : Blocks, spec : Specs \cup {0}, format : Nat],
         fetcher' = [fetcher EXCEPT ![w] = r], chunk' = chunk,
         fetcher[w].at # "idle", r.block = fetcher[w].block, r.at \notin {"idle", "runtime"},
         r.spec = Executing(r.block)
  PROVE  /\ fetcher' \in [Fetchers -> [at : Steps, block : Blocks, spec : Specs \cup {0}, format : Nat]]
         /\ fetcher'[w] = r /\ \A v \in Fetchers \ {w} : fetcher'[v] = fetcher[v]
         /\ Leases'
<1>1. fetcher'[w] = r /\ \A v \in Fetchers \ {w} : fetcher'[v] = fetcher[v]
  BY DEF CaptureTypeOK
<1>2. Leases'
  BY <1>1 DEF Leases
<1> QED BY <1>1, <1>2 DEF CaptureTypeOK

LEMMA Resolves ==
  ASSUME CaptureInv, NEW w \in Fetchers, ResolveRuntime(w) PROVE CaptureInv'
<1> USE DEF CaptureInv, NoFile, Torn
<1> DEFINE r == [fetcher[w] EXCEPT !.at = "meet", !.spec = Executing(fetcher[w].block)]
<1>1. /\ fetcher[w].at = "runtime" /\ fetcher' = [fetcher EXCEPT ![w] = r]
      /\ UNCHANGED <<chunk, seen, blobs, unwritten, rows, saved, client, loaded, decoded,
                     crashes, errors, unfetched, taken>>
  BY DEF ResolveRuntime, reading, history, files, CaptureTypeOK
<1>2. /\ r \in [at : Steps, block : Blocks, spec : Specs \cup {0}, format : Nat]
      /\ r.at = "meet" /\ r.block = fetcher[w].block /\ r.spec = Executing(r.block)
  BY ExecutingIsARuntime DEF CaptureTypeOK, Steps
<1> HIDE DEF r
<1>3. /\ fetcher' \in [Fetchers -> [at : Steps, block : Blocks, spec : Specs \cup {0}, format : Nat]]
      /\ fetcher'[w] = r /\ \A v \in Fetchers \ {w} : fetcher'[v] = fetcher[v]
      /\ Leases'
  BY <1>1, <1>2, Stays
<1>4. CaptureTypeOK'
  BY <1>1, <1>3 DEF CaptureTypeOK
<1>5. SeesTo' /\ InHand'
  BY <1>1, <1>2, <1>3 DEF SeesTo, InHand, Keeping, Fetching
<1>6. MetIsSeenTo'
  BY <1>1, <1>2, <1>3 DEF MetIsSeenTo, Fetching
<1>7. TornTaken' /\ SavedTrue' /\ DecodesTrue' /\ DecodableUnlessFailed'
  BY <1>1 DEF TornTaken, SavedTrue, DecodesTrue, DecodableUnlessFailed
<1> QED BY <1>3, <1>4, <1>5, <1>6, <1>7

LEMMA Meets ==
  ASSUME CaptureInv, NEW w \in Fetchers, Meet(w) PROVE CaptureInv'
<1> USE DEF CaptureInv, NoFile, Torn
<1> DEFINE r == [fetcher[w] EXCEPT !.at = IF fetcher[w].spec \in seen THEN "bytes" ELSE "lookup"]
<1>1. /\ fetcher[w].at = "meet" /\ fetcher' = [fetcher EXCEPT ![w] = r]
      /\ seen' = seen \cup {fetcher[w].spec}
      /\ UNCHANGED <<chunk, blobs, unwritten, rows, saved, client, loaded, decoded,
                     crashes, errors, unfetched, taken>>
  BY DEF Meet, Moves, reading, history, files, CaptureTypeOK
<1>2. /\ r \in [at : Steps, block : Blocks, spec : Specs \cup {0}, format : Nat]
      /\ r.block = fetcher[w].block /\ r.spec = fetcher[w].spec /\ r.spec = Executing(r.block)
      /\ r.at = IF fetcher[w].spec \in seen THEN "bytes" ELSE "lookup"
  BY <1>1 DEF CaptureTypeOK, Steps, Keeping, Fetching, Leases
<1> HIDE DEF r
<1>3. /\ fetcher' \in [Fetchers -> [at : Steps, block : Blocks, spec : Specs \cup {0}, format : Nat]]
      /\ fetcher'[w] = r /\ \A v \in Fetchers \ {w} : fetcher'[v] = fetcher[v]
      /\ Leases'
  BY <1>1, <1>2, Stays
<1>4. CaptureTypeOK'
  BY <1>1, <1>3 DEF CaptureTypeOK
<1>5. SeesTo'
  <2>1. \A v \in Fetchers \ {w} :
          fetcher[v].at \in Keeping /\ r.at = "lookup" => fetcher[v].spec # r.spec
    BY <1>2 DEF SeesTo
  <2> QED BY <1>1, <1>2, <1>3, <2>1 DEF SeesTo, Keeping, Fetching
<1>6. InHand'
  BY <1>1, <1>2, <1>3 DEF InHand
<1>7. MetIsSeenTo'
  <2> SUFFICES ASSUME NEW s \in seen', blobs[s] = 0, s \notin unfetched
               PROVE  \E v \in Fetchers : fetcher'[v].at \in Fetching /\ fetcher'[v].spec = s
    BY <1>1 DEF MetIsSeenTo
  <2>1. CASE s \in seen
    <3>1. PICK v \in Fetchers : fetcher[v].at \in Fetching /\ fetcher[v].spec = s
      BY <2>1 DEF MetIsSeenTo
    <3>2. v # w
      BY <1>1, <3>1 DEF Fetching
    <3> QED BY <1>3, <3>1, <3>2
  <2>2. CASE s \notin seen
    BY <1>1, <1>2, <1>3, <2>2 DEF Fetching
  <2> QED BY <2>1, <2>2
<1>8. TornTaken' /\ SavedTrue' /\ DecodesTrue' /\ DecodableUnlessFailed'
  BY <1>1 DEF TornTaken, SavedTrue, DecodesTrue, DecodableUnlessFailed
<1> QED BY <1>3, <1>4, <1>5, <1>6, <1>7, <1>8

LEMMA Looks ==
  ASSUME CaptureInv, NEW w \in Fetchers, Lookup(w) PROVE CaptureInv'
<1> USE DEF CaptureInv, NoFile, Torn
<1> DEFINE r == [fetcher[w] EXCEPT !.at = IF blobs[fetcher[w].spec] # 0 THEN "bytes" ELSE "download"]
<1>1. /\ fetcher[w].at = "lookup" /\ fetcher' = [fetcher EXCEPT ![w] = r]
      /\ UNCHANGED <<chunk, seen, blobs, unwritten, rows, saved, client, loaded, decoded,
                     crashes, errors, unfetched, taken>>
  BY DEF Lookup, Moves, reading, history, files, CaptureTypeOK
<1>2. /\ r \in [at : Steps, block : Blocks, spec : Specs \cup {0}, format : Nat]
      /\ r.block = fetcher[w].block /\ r.spec = fetcher[w].spec /\ r.spec = Executing(r.block)
      /\ r.at = IF blobs[fetcher[w].spec] # 0 THEN "bytes" ELSE "download"
  BY <1>1 DEF CaptureTypeOK, Steps, Keeping, Fetching, Leases
<1> HIDE DEF r
<1>3. /\ fetcher' \in [Fetchers -> [at : Steps, block : Blocks, spec : Specs \cup {0}, format : Nat]]
      /\ fetcher'[w] = r /\ \A v \in Fetchers \ {w} : fetcher'[v] = fetcher[v]
      /\ Leases'
  BY <1>1, <1>2, Stays
<1>4. CaptureTypeOK'
  BY <1>1, <1>3 DEF CaptureTypeOK
<1>5. SeesTo' /\ InHand'
  <2>1. r.at \in {"bytes", "download"} /\ (r.at = "download" => blobs[r.spec] = 0)
    BY <1>2
  <2>2. SeesTo'
    <3>1. /\ fetcher[w].at \in Keeping /\ r.spec \in seen
          /\ \A v \in Fetchers \ {w} :
               fetcher[v].at \in Keeping => fetcher[v].spec # r.spec
      BY <1>1, <1>2 DEF SeesTo, Keeping, Fetching
    <3> QED BY <1>1, <1>2, <1>3, <3>1 DEF SeesTo
  <2>3. InHand'
    BY <1>1, <1>2, <1>3, <2>1 DEF InHand
  <2> QED BY <2>2, <2>3
<1>6. MetIsSeenTo'
  <2> SUFFICES ASSUME NEW s \in seen, blobs[s] = 0, s \notin unfetched
               PROVE  \E v \in Fetchers : fetcher'[v].at \in Fetching /\ fetcher'[v].spec = s
    BY <1>1 DEF MetIsSeenTo
  <2>1. PICK v \in Fetchers : fetcher[v].at \in Fetching /\ fetcher[v].spec = s
    BY DEF MetIsSeenTo
  <2> QED BY <1>2, <1>3, <2>1 DEF Fetching
<1>7. TornTaken' /\ SavedTrue' /\ DecodesTrue' /\ DecodableUnlessFailed'
  BY <1>1 DEF TornTaken, SavedTrue, DecodesTrue, DecodableUnlessFailed
<1> QED BY <1>3, <1>4, <1>5, <1>6, <1>7

LEMMA Downloads ==
  ASSUME CaptureInv, NEW w \in Fetchers, Download(w) PROVE CaptureInv'
<1> USE DEF CaptureInv, NoFile, Torn
<1> DEFINE s == fetcher[w].spec
<1>1. PICK answers \in SUBSET Offers(s) :
        fetcher' = [fetcher EXCEPT ![w].at = "store", ![w].format = Kept(answers)]
  BY DEF Download
<1> DEFINE r == [fetcher[w] EXCEPT !.at = "store", !.format = Kept(answers)]
<1>2. /\ fetcher[w].at = "download" /\ fetcher' = [fetcher EXCEPT ![w] = r]
      /\ UNCHANGED <<chunk, seen, blobs, unwritten, rows, saved, client, loaded, decoded, crashes, unfetched, taken>>
  BY <1>1 DEF Download, reading, files, CaptureTypeOK
<1>3. /\ r \in [at : Steps, block : Blocks, spec : Specs \cup {0}, format : Nat]
      /\ r.block = fetcher[w].block /\ r.spec = s /\ r.spec = Executing(r.block)
      /\ r.at = "store" /\ r.format = Kept(answers) /\ r.format # 0
  <2>1. Kept(answers) \in Nat /\ Kept(answers) # 0
    BY KeptIsReal
  <2>2. /\ fetcher[w] \in [at : Steps, block : Blocks, spec : Specs \cup {0}, format : Nat]
        /\ s = Executing(fetcher[w].block)
    BY <1>2 DEF CaptureTypeOK, Leases
  <2> QED BY <2>1, <2>2 DEF Steps, Keeping, Fetching
<1> HIDE DEF r, s
<1>6. /\ fetcher' \in [Fetchers -> [at : Steps, block : Blocks, spec : Specs \cup {0}, format : Nat]]
      /\ fetcher'[w] = r /\ \A v \in Fetchers \ {w} : fetcher'[v] = fetcher[v]
      /\ Leases'
  <2>1. r.at \notin {"idle", "runtime"} /\ fetcher[w].at # "idle"
    BY <1>2, <1>3
  <2>2. chunk' = chunk
    BY <1>2
  <2> QED BY <1>2, <1>3, <2>1, <2>2, Stays
<1>7. CaptureTypeOK'
  BY <1>2, <1>6 DEF CaptureTypeOK
<1>8. fetcher[w].spec = s
  BY DEF s
<1>9. SeesTo'
  BY <1>2, <1>3, <1>6, <1>8 DEF SeesTo, Keeping, Fetching
<1>10. InHand'
  BY <1>2, <1>3, <1>6, <1>8 DEF InHand
<1>11. MetIsSeenTo'
  BY <1>2, <1>3, <1>6, <1>8 DEF MetIsSeenTo, Fetching
<1>12. TornTaken' /\ SavedTrue' /\ DecodesTrue' /\ DecodableUnlessFailed'
  BY <1>2 DEF TornTaken, SavedTrue, DecodesTrue, DecodableUnlessFailed
<1> QED BY <1>6, <1>7, <1>9, <1>10, <1>11, <1>12

LEMMA Stores ==
  ASSUME CaptureInv, NEW w \in Fetchers, StoreMetadata(w) PROVE CaptureInv'
<1> USE DEF CaptureInv, NoFile, Torn
<1> DEFINE s == fetcher[w].spec
           r == [fetcher[w] EXCEPT !.at = "record"]
<1>1. /\ fetcher[w].at = "store" /\ fetcher' = [fetcher EXCEPT ![w] = r]
      /\ blobs' = [blobs EXCEPT ![s] = fetcher[w].format]
      /\ UNCHANGED <<chunk, seen, rows, saved, client, loaded, decoded,
                     crashes, errors, unfetched, taken>>
  BY DEF StoreMetadata, Moves, reading, history, files, CaptureTypeOK
<1>2. /\ r \in [at : Steps, block : Blocks, spec : Specs \cup {0}, format : Nat]
      /\ r.block = fetcher[w].block /\ r.spec = s /\ r.spec = Executing(r.block)
      /\ r.at = "record" /\ r.format = fetcher[w].format
  BY <1>1 DEF CaptureTypeOK, Steps, Keeping, Fetching, Leases
<1>3. s \in Specs /\ blobs[s] = 0 /\ r.format \in Nat \ {0}
  BY <1>1, <1>2, ExecutingIsARuntime DEF InHand, CaptureTypeOK
<1>4. /\ blobs' \in [Specs -> Nat \cup {Torn}] /\ blobs'[s] = r.format
      /\ \A x : x # s => blobs'[x] = blobs[x]
  BY <1>1, <1>2, <1>3 DEF CaptureTypeOK
<1>5. \A v \in Fetchers \ {w} : fetcher[v].at \in Keeping => fetcher[v].spec # s
  BY <1>1 DEF SeesTo, Keeping, Fetching
<1> HIDE DEF r, s
<1>6. /\ fetcher' \in [Fetchers -> [at : Steps, block : Blocks, spec : Specs \cup {0}, format : Nat]]
      /\ fetcher'[w] = r /\ \A v \in Fetchers \ {w} : fetcher'[v] = fetcher[v]
      /\ Leases'
  BY <1>1, <1>2, Stays
<1>7. CaptureTypeOK'
  BY <1>1, <1>4, <1>6 DEF CaptureTypeOK
<1>8. fetcher[w].spec = s
  BY DEF s
<1>9. SeesTo'
  BY <1>1, <1>2, <1>6, <1>8 DEF SeesTo, Keeping, Fetching
<1>10. InHand'
  BY <1>1, <1>2, <1>4, <1>5, <1>6 DEF InHand, Keeping, Fetching
<1>11. MetIsSeenTo'
  <2> SUFFICES ASSUME NEW x \in seen, blobs'[x] = 0, x \notin unfetched
               PROVE  \E v \in Fetchers : fetcher'[v].at \in Fetching /\ fetcher'[v].spec = x
    BY <1>1 DEF MetIsSeenTo
  <2>1. x # s /\ blobs[x] = 0
    BY <1>3, <1>4
  <2>2. PICK v \in Fetchers : fetcher[v].at \in Fetching /\ fetcher[v].spec = x
    BY <2>1 DEF MetIsSeenTo
  <2> QED BY <1>6, <1>8, <2>1, <2>2
<1>12. SavedTrue' /\ DecodesTrue'
  BY <1>1 DEF SavedTrue, DecodesTrue
<1>13. DecodableUnlessFailed'
  BY <1>1, <1>3, <1>4 DEF DecodableUnlessFailed
<1>14. TornTaken'
  BY <1>1, <1>3, <1>4 DEF TornTaken
<1> QED BY <1>6, <1>7, <1>9, <1>10, <1>11, <1>12, <1>13, <1>14

LEMMA Records ==
  ASSUME CaptureInv, NEW w \in Fetchers, RecordRuntime(w) PROVE CaptureInv'
<1> USE DEF CaptureInv, NoFile, Torn
<1> DEFINE s == fetcher[w].spec
           r == [fetcher[w] EXCEPT !.at = "bytes"]
<1>1. /\ fetcher[w].at = "record" /\ fetcher' = [fetcher EXCEPT ![w] = r]
      /\ UNCHANGED <<chunk, seen, blobs, unwritten, saved, client, loaded, decoded,
                     crashes, errors, unfetched, taken>>
  BY DEF RecordRuntime, Moves, reading, history, files, CaptureTypeOK
<1>2. /\ r \in [at : Steps, block : Blocks, spec : Specs \cup {0}, format : Nat]
      /\ r.block = fetcher[w].block /\ r.spec = s /\ r.spec = Executing(r.block) /\ r.at = "bytes"
  BY <1>1 DEF CaptureTypeOK, Steps, Keeping, Fetching, Leases
<1> HIDE DEF r, s
<1>5. /\ fetcher' \in [Fetchers -> [at : Steps, block : Blocks, spec : Specs \cup {0}, format : Nat]]
      /\ fetcher'[w] = r /\ \A v \in Fetchers \ {w} : fetcher'[v] = fetcher[v]
      /\ Leases'
  BY <1>1, <1>2, Stays
<1>6. CaptureTypeOK'
  BY <1>1, <1>5 DEF CaptureTypeOK
<1>7. fetcher[w].spec = s
  BY DEF s
<1>8. SeesTo' /\ InHand'
  BY <1>1, <1>2, <1>5, <1>7 DEF SeesTo, InHand, Keeping, Fetching
<1>9. MetIsSeenTo'
  BY <1>1, <1>5 DEF MetIsSeenTo, Fetching
<1>10. SavedTrue' /\ DecodesTrue' /\ DecodableUnlessFailed'
  BY <1>1 DEF SavedTrue, DecodesTrue, DecodableUnlessFailed
<1>11. TornTaken'
  BY <1>1 DEF TornTaken
<1> QED BY <1>5, <1>6, <1>8, <1>9, <1>10, <1>11

(* A worker gives its chunk up, done or not.                               *)
LEMMA LetsGo ==
  ASSUME CaptureTypeOK, Leases, SeesTo, InHand, NEW w \in Fetchers, NEW c,
         fetcher[w].at # "idle", c \in {"done", "pending"},
         fetcher' = [fetcher EXCEPT ![w] = Idle],
         chunk' = [chunk EXCEPT ![fetcher[w].block] = c],
         UNCHANGED <<seen, blobs, decoded>>, DOMAIN saved' = Blocks
  PROVE  /\ CaptureTypeOK' /\ Leases' /\ SeesTo' /\ InHand'
         /\ fetcher'[w].at = "idle" /\ \A v \in Fetchers \ {w} : fetcher'[v] = fetcher[v]
         /\ fetcher[w].block \in Blocks /\ chunk'[fetcher[w].block] = c
         /\ \A b \in Blocks \ {fetcher[w].block} : chunk'[b] = chunk[b]
<1>1. /\ fetcher'[w] = Idle /\ \A v \in Fetchers \ {w} : fetcher'[v] = fetcher[v]
      /\ fetcher[w].block \in Blocks /\ chunk'[fetcher[w].block] = c
      /\ \A b \in Blocks \ {fetcher[w].block} : chunk'[b] = chunk[b]
  BY DEF CaptureTypeOK
<1>2. Idle \in [at : Steps, block : Blocks, spec : Specs \cup {0}, format : Nat] /\ Idle.at = "idle"
  BY CaptureAssumption DEF Idle, Steps, Blocks
<1>3. CaptureTypeOK'
  BY <1>2 DEF CaptureTypeOK
<1>4. Leases'
  <2>1. \A v \in Fetchers \ {w} :
          fetcher[v].at # "idle" => fetcher[v].block # fetcher[w].block /\ fetcher[v].block \in Blocks
    BY DEF Leases, CaptureTypeOK
  <2> QED BY <1>1, <1>2, <2>1 DEF Leases
<1>5. SeesTo' /\ InHand'
  BY <1>1, <1>2 DEF SeesTo, InHand, Keeping, Fetching
<1> QED BY <1>1, <1>2, <1>3, <1>4, <1>5

LEMMA Puts ==
  ASSUME CaptureInv, NEW w \in Fetchers, PutBlock(w) PROVE CaptureInv'
<1> USE DEF CaptureInv, NoFile, Torn
<1> DEFINE b == fetcher[w].block
           s == fetcher[w].spec
<1>1. /\ fetcher[w].at = "bytes" /\ fetcher' = [fetcher EXCEPT ![w] = Idle]
      /\ chunk' = [chunk EXCEPT ![b] = "done"] /\ saved' = [saved EXCEPT ![b] = s]
      /\ UNCHANGED <<seen, blobs, unwritten, rows, client, loaded, decoded,
                     crashes, errors, unfetched, taken>>
  BY DEF PutBlock, reading, history, files
<1>2. /\ CaptureTypeOK' /\ Leases' /\ SeesTo' /\ InHand'
      /\ fetcher'[w].at = "idle" /\ \A v \in Fetchers \ {w} : fetcher'[v] = fetcher[v]
      /\ b \in Blocks /\ chunk'[b] = "done" /\ \A c \in Blocks \ {b} : chunk'[c] = chunk[c]
  <2>1. DOMAIN saved' = Blocks
    BY <1>1 DEF CaptureTypeOK
  <2> QED BY <1>1, <2>1, LetsGo
<1>3. /\ s = Executing(b) /\ s \in seen /\ saved'[b] = s
      /\ \A c \in Blocks \ {b} : saved'[c] = saved[c]
  BY <1>1, <1>2 DEF Leases, SeesTo, CaptureTypeOK
<1>4. ASSUME blobs[s] = 0, s \notin unfetched
      PROVE  \E c \in Blocks : chunk'[c] # "done" /\ Executing(c) = s
  <2>1. PICK v \in Fetchers : fetcher[v].at \in Fetching /\ fetcher[v].spec = s
    BY <1>3, <1>4 DEF MetIsSeenTo
  <2>2. v # w /\ fetcher[v].at \notin {"idle", "runtime"}
    BY <1>1, <2>1 DEF Fetching
  <2>3. /\ fetcher[v].block \in Blocks /\ fetcher[v].block # b
        /\ chunk[fetcher[v].block] = "leased" /\ Executing(fetcher[v].block) = s
    BY <1>1, <2>1, <2>2 DEF Leases, CaptureTypeOK
  <2> QED BY <1>2, <2>3
<1> HIDE DEF b, s
<1>5. SavedTrue'
  BY <1>2, <1>3 DEF SavedTrue
<1>6. MetIsSeenTo'
  BY <1>1, <1>2 DEF MetIsSeenTo, Fetching
<1>7. DecodesTrue' /\ TornTaken'
  BY <1>1 DEF DecodesTrue, TornTaken
<1>8. DecodableUnlessFailed'
  <2> SUFFICES ASSUME NEW x \in Blocks, saved'[x] # 0,
                      blobs[saved'[x]] \in {NoFile, Torn},
                      saved'[x] \notin unfetched \cup taken
               PROVE  \E c \in Blocks : chunk'[c] # "done" /\ Executing(c) = saved'[x]
    BY <1>1 DEF DecodableUnlessFailed
  <2>1. CASE saved'[x] = s
    <3>1. s \in Specs
      BY <1>2, <1>3, ExecutingIsARuntime
    <3>2. blobs[s] = 0
      BY <2>1, <3>1 DEF TornTaken
    <3> QED BY <1>4, <2>1, <3>2
  <2>2. CASE saved'[x] # s
    <3>1. x # b /\ saved'[x] = saved[x]
      BY <1>3, <2>2
    <3>2. PICK c \in Blocks : chunk[c] # "done" /\ Executing(c) = saved[x]
      BY <3>1 DEF DecodableUnlessFailed
    <3>3. c # b
      BY <1>3, <2>2, <3>1, <3>2
    <3> QED BY <1>2, <3>1, <3>2, <3>3
  <2> QED BY <2>1, <2>2
<1> QED BY <1>2, <1>5, <1>6, <1>7, <1>8

LEMMA Fails ==
  ASSUME CaptureInv, NEW w \in Fetchers, CaptureFails(w) PROVE CaptureInv'
<1> USE DEF CaptureInv, NoFile, Torn
<1> DEFINE b == fetcher[w].block
<1>1. /\ fetcher[w].at # "idle" /\ fetcher' = [fetcher EXCEPT ![w] = Idle]
      /\ chunk' = [chunk EXCEPT ![b] = "pending"]
      /\ unfetched' = unfetched \cup (IF fetcher[w].at \in Fetching THEN {fetcher[w].spec} ELSE {})
      /\ UNCHANGED <<seen, blobs, unwritten, rows, saved, client, loaded, decoded, taken>>
  BY DEF CaptureFails, Fetching, reading, files
<1>2. /\ CaptureTypeOK' /\ Leases' /\ SeesTo' /\ InHand'
      /\ fetcher'[w].at = "idle" /\ \A v \in Fetchers \ {w} : fetcher'[v] = fetcher[v]
      /\ b \in Blocks /\ chunk'[b] = "pending" /\ \A c \in Blocks \ {b} : chunk'[c] = chunk[c]
  <2>1. DOMAIN saved' = Blocks
    BY <1>1 DEF CaptureTypeOK
  <2> QED BY <1>1, <2>1, LetsGo
<1> HIDE DEF b
<1>3. unfetched \subseteq unfetched' /\ (fetcher[w].at \in Fetching => fetcher[w].spec \in unfetched')
  BY <1>1
<1>4. SavedTrue' /\ DecodableUnlessFailed'
  BY <1>1, <1>2, <1>3 DEF SavedTrue, DecodableUnlessFailed
<1>5. MetIsSeenTo'
  BY <1>1, <1>2, <1>3 DEF MetIsSeenTo
<1>6. DecodesTrue' /\ TornTaken'
  BY <1>1 DEF DecodesTrue, TornTaken
<1> QED BY <1>2, <1>4, <1>5, <1>6

LEMMA BeginsAnew ==
  ASSUME CaptureInv, NewBackfill \/ CrashRestart \/ PowerFailure PROVE CaptureInv'
<1> USE DEF CaptureInv, NoFile, Torn
<1>1. /\ seen' = {} /\ \A w \in Fetchers : fetcher'[w].at = "idle"
      /\ UNCHANGED <<saved, decoded, unfetched>>
      /\ DOMAIN chunk' = Blocks
      /\ \A b \in Blocks : chunk'[b] = "done" <=> chunk[b] = "done"
      /\ fetcher' \in [Fetchers -> [at : Steps, block : Blocks, spec : Specs \cup {0}, format : Nat]]
  <2>1. CASE NewBackfill
    BY <2>1 DEF NewBackfill, CaptureTypeOK, reading, history
  <2>2. CASE Restart
    <3>1. Idle \in [at : Steps, block : Blocks, spec : Specs \cup {0}, format : Nat] /\ Idle.at = "idle"
      BY CaptureAssumption DEF Idle, Steps, Blocks
    <3>2. \A b \in Blocks : chunk'[b] = IF chunk[b] = "leased" THEN "pending" ELSE chunk[b]
      BY <2>2 DEF Restart
    <3> QED BY <2>2, <3>1, <3>2 DEF Restart, CaptureTypeOK
  <2> QED BY <2>1, <2>2 DEF CrashRestart, PowerFailure
<1>2. Leases' /\ SeesTo' /\ InHand' /\ MetIsSeenTo'
  BY <1>1 DEF Leases, SeesTo, InHand, MetIsSeenTo, Keeping, Fetching
<1>3. SavedTrue' /\ DecodesTrue'
  BY <1>1 DEF SavedTrue, DecodesTrue
<1>4. CASE UNCHANGED <<blobs, taken>>
  <2>1. CaptureTypeOK' /\ TornTaken' /\ DecodableUnlessFailed'
    BY <1>1, <1>4 DEF CaptureTypeOK, TornTaken, DecodableUnlessFailed
  <2> QED BY <1>2, <1>3, <2>1
<1>5. CASE PowerFailure
  <2>1. PICK gone \in SUBSET unwritten, cut \in SUBSET unwritten :
          /\ gone \cap cut = {}
          /\ blobs' = [s \in Specs |-> IF s \in gone THEN NoFile
                                      ELSE IF s \in cut THEN Torn ELSE blobs[s]]
          /\ taken' = taken \cup cut \cup
               {s \in gone : \A c \in Blocks : Executing(c) = s => chunk[c] = "done"}
    BY <1>5 DEF PowerFailure
  <2>2. CaptureTypeOK'
    BY <1>1, <2>1 DEF CaptureTypeOK
  <2>3. TornTaken'
    BY <2>1 DEF TornTaken
  <2>4. DecodableUnlessFailed'
    <3> SUFFICES ASSUME NEW b \in Blocks, saved[b] # 0, blobs'[saved[b]] \in {NoFile, Torn},
                        saved[b] \notin unfetched \cup taken'
                 PROVE  \E c \in Blocks : chunk'[c] # "done" /\ Executing(c) = saved[b]
      BY <1>1 DEF DecodableUnlessFailed
    <3>1. saved[b] \in Specs
      BY ExecutingIsARuntime DEF SavedTrue
    <3>2. CASE saved[b] \in gone
      BY <1>1, <2>1, <3>2
    <3>3. CASE saved[b] \notin gone
      <4>1. blobs'[saved[b]] = blobs[saved[b]] /\ saved[b] \notin taken
        BY <2>1, <3>1, <3>3
      <4> QED BY <1>1, <4>1 DEF DecodableUnlessFailed
    <3> QED BY <3>2, <3>3
  <2> QED BY <1>2, <1>3, <2>2, <2>3, <2>4
<1> QED BY <1>4, <1>5 DEF NewBackfill, CrashRestart, history, files

LEMMA Decodes ==
  ASSUME CaptureInv, Decode PROVE CaptureInv'
<1> USE DEF CaptureInv, NoFile, Torn
<1> DEFINE b == NextDecoded
           s == saved[b]
<1>1. /\ chunk[b] = "done" /\ client' = s
      /\ decoded' = [decoded EXCEPT ![b] = client']
      /\ UNCHANGED <<chunk, seen, blobs, unwritten, saved, fetcher, crashes, errors, unfetched, taken>>
  BY DEF Decode, history, files
<1> HIDE DEF b
<1>3. CaptureTypeOK'
  BY <1>1 DEF CaptureTypeOK
<1>4. Leases' /\ SeesTo' /\ InHand' /\ SavedTrue' /\ MetIsSeenTo' /\ DecodableUnlessFailed'
  BY <1>1 DEF Leases, SeesTo, InHand, SavedTrue, MetIsSeenTo, DecodableUnlessFailed
<1>5. DecodesTrue'
  <2>1. \A x \in Blocks \ {b} : decoded'[x] = decoded[x]
    BY <1>1 DEF CaptureTypeOK
  <2>2. b \in Blocks => decoded'[b] = Executing(b)
    BY <1>1 DEF CaptureTypeOK, SavedTrue
  <2> QED BY <2>1, <2>2 DEF DecodesTrue
<1>6. TornTaken'
  BY <1>1 DEF TornTaken
<1> QED BY <1>3, <1>4, <1>5, <1>6

-----------------------------------------------------------------------------
LEMMA CaptureSteps == CaptureInv /\ [CaptureNext]_captureVars => CaptureInv'
<1> SUFFICES ASSUME CaptureInv, [CaptureNext]_captureVars PROVE CaptureInv'
  OBVIOUS
<1>1. ASSUME NEW w \in Fetchers, CaptureStep(w) PROVE CaptureInv'
  BY <1>1, Claims, Resolves, Meets, Looks, Downloads, Stores, Records, Puts, Fails DEF CaptureStep
<1>2. CASE UNCHANGED captureVars
  BY <1>2 DEF captureVars, reading, history, files, CaptureInv, TornTaken, CaptureTypeOK, Leases, SeesTo, InHand,
              SavedTrue, MetIsSeenTo, DecodesTrue, DecodableUnlessFailed
<1> QED BY <1>1, <1>2, BeginsAnew, Decodes DEF CaptureNext

(***************************************************************************)
(* Blocks are decoded under the runtime that executed them, and the        *)
(* metadata of an archived block comes, after kills and power failures     *)
(* too, but for the two losses that DecodableUnlessFailed names: `capture' *)
(* and `ensure_metadata', for any workers, blocks, upgrades and formats.   *)
(***************************************************************************)
THEOREM CaptureCorrect == CaptureSpec => []CaptureInv
<1> QED BY CaptureStarts, CaptureSteps, PTL DEF CaptureSpec

(* Both properties the runs check are among the conjuncts.                 *)
LEMMA WhatCaptureKeeps == CaptureInv => DecodesTrue /\ DecodableUnlessFailed
BY DEF CaptureInv

(* Where the tables and the sets of runtimes stay; a done block is the     *)
(* reason that what the digest decodes with is a runtime.                  *)
CaptureRange ==
  /\ chunk \in [Blocks -> {"pending", "leased", "done"}]
  /\ seen \subseteq Specs /\ loaded \subseteq Specs
  /\ saved \in [Blocks -> {0} \cup Specs] /\ decoded \in [Blocks -> {0} \cup Specs]

LEMMA NextIsABlock == ASSUME \E b \in Blocks : decoded[b] = 0 PROVE NextDecoded \in Blocks
<1> DEFINE S == {b \in Blocks : decoded[b] = 0}
<1>1. S \in SUBSET Nat /\ S # {}
  BY CaptureAssumption DEF Blocks
<1>2. NextDecoded = Smallest(S)
  BY DEF NextDecoded
<1> HIDE DEF S
<1>3. \E x \in S : \A y \in S : x <= y
  BY <1>1, LeastOf
<1>4. Smallest(S) \in S
  BY <1>3 DEF Smallest
<1> QED BY <1>2, <1>4 DEF S

LEMMA RangeStarts == CaptureInit => CaptureRange
  BY DEF CaptureInit, CaptureRange

LEMMA RangeSteps == CaptureInv /\ CaptureRange /\ [CaptureNext]_captureVars => CaptureRange'
<1> SUFFICES ASSUME CaptureInv, CaptureRange, [CaptureNext]_captureVars PROVE CaptureRange'
  OBVIOUS
<1>1. ASSUME NEW w \in Fetchers, CaptureStep(w) PROVE CaptureRange'
  <2>1. /\ fetcher[w].spec \in Specs \cup {0}
        /\ fetcher[w].at = "meet" => fetcher[w].spec \in Specs
    BY ExecutingIsARuntime DEF CaptureInv, CaptureTypeOK, Leases
  <2>2. CASE ClaimBlock(w) \/ CaptureFails(w) \/ PutBlock(w)
    BY <2>1, <2>2 DEF ClaimBlock, CaptureFails, PutBlock, CaptureRange, reading
  <2>3. CASE Meet(w)
    BY <2>1, <2>3 DEF Meet, CaptureRange, reading
  <2>4. CASE \/ ResolveRuntime(w) \/ Lookup(w) \/ Download(w) \/ StoreMetadata(w)
             \/ RecordRuntime(w)
    BY <2>4 DEF ResolveRuntime, Lookup, Download, StoreMetadata, RecordRuntime, CaptureRange,
                reading
  <2> QED BY <1>1, <2>2, <2>3, <2>4 DEF CaptureStep
<1>2. CASE NewBackfill \/ CrashRestart \/ PowerFailure
  BY <1>2 DEF NewBackfill, CrashRestart, PowerFailure, Restart, CaptureRange, reading
<1>3. CASE Decode
  <2>1. NextDecoded \in Blocks /\ chunk[NextDecoded] = "done" /\ client' = saved[NextDecoded]
    BY <1>3, NextIsABlock DEF Decode
  <2>2. client' \in Specs
    BY <2>1, ExecutingIsARuntime DEF CaptureInv, SavedTrue
  <2>3. /\ UNCHANGED <<chunk, seen, saved>> /\ loaded' = loaded \cup {client'}
        /\ decoded' = [decoded EXCEPT ![NextDecoded] = client']
    BY <1>3, <2>1 DEF Decode
  <2> QED BY <2>1, <2>2, <2>3 DEF CaptureRange
<1>4. CASE UNCHANGED captureVars
  BY <1>4 DEF captureVars, reading, CaptureRange
<1> QED BY <1>1, <1>2, <1>3, <1>4 DEF CaptureNext

THEOREM CaptureInRange == CaptureSpec => []CaptureRange
  BY CaptureStarts, CaptureSteps, RangeStarts, RangeSteps, PTL DEF CaptureSpec
=============================================================================
