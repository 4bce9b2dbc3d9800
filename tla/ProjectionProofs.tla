--------------------------- MODULE ProjectionProofs ---------------------------
(***************************************************************************)
(* The archive of reads keeps what a replay needs, the tables tell the     *)
(* history of every account, the unique indexes refuse nothing but names   *)
(* granted again, and at the last block indexed the tables answer as the   *)
(* node does, for any accounts, names, registrations, calls, batches and   *)
(* number of blocks: first the archive, then rows, tables, folds and the   *)
(* pallet, then the invariant of the history, then the owners of names     *)
(* and the invariant of the indexes, and at last the agreement of every    *)
(* table with the pallet.                                                  *)
(***************************************************************************)
EXTENDS Projection, Recursion, FiniteSetTheorems, TLAPS

(* The chain only grows, what is indexed is on it, and the digest never    *)
(* runs ahead of it.                                                       *)
Heights ==
  /\ \E S : chain \in Seq(S)
  /\ Height <= MaxBlock
  /\ at \in Int /\ at <= Height /\ (source = "rpc" => at >= 0)
  /\ indexed \subseteq 1 .. Height
  /\ DOMAIN reads = CacheBlocks /\ DOMAIN flushed = CacheBlocks

ReadsInv == Heights /\ ReadsKept

-----------------------------------------------------------------------------
LEMMA ReadsStart == Init => ReadsInv
<1> SUFFICES ASSUME Init PROVE ReadsInv
  OBVIOUS
<1>1. chain \in Seq({}) /\ Height = 0
  BY DEF Init, Height
<1>2. Heights
  BY <1>1, ProjectionAssumption DEF Init, Heights, CacheInit
<1> QED BY <1>2 DEF Init, ReadsInv, ReadsKept

(* What a block needs is settled once it is finalized.                     *)
LEMMA BlocksGrow ==
  ASSUME Heights, NEW c, Produce(c)
  PROVE  /\ \E S : chain' \in Seq(S)
         /\ Height' = Height + 1 /\ Height \in Nat
         /\ \A b \in 1 .. Height : Needed(b)' = Needed(b)
<1> DEFINE e == [call |-> c, state |-> After(c, StateAt(Height))]
<1>1. chain' = Append(chain, e) /\ origin' = origin
  BY DEF Produce, chainVars
<1>2. PICK S : chain \in Seq(S)
  BY DEF Heights
<1> HIDE DEF e
<1>3. chain \in Seq(S \cup {e})
  BY <1>2
<1>4. /\ chain' \in Seq(S \cup {e}) /\ Len(chain') = Len(chain) + 1 /\ Len(chain) \in Nat
      /\ \A b \in 1 .. Len(chain) : chain'[b] = chain[b]
  BY <1>1, <1>3
<1>5. ASSUME NEW b \in 1 .. Height PROVE Needed(b)' = Needed(b)
  <2>1. chain'[b] = chain[b] /\ (b # 1 => chain'[b - 1] = chain[b - 1])
    BY <1>4, <1>5 DEF Height
  <2>2. StateAt(b)' = StateAt(b) /\ StateAt(b - 1)' = StateAt(b - 1)
    BY <1>1, <1>4, <1>5, <2>1 DEF StateAt, Height
  <2> QED BY <2>1, <2>2 DEF Needed, Touched, Renamed
<1> QED BY <1>4, <1>5 DEF Height

LEMMA Produces == ASSUME ReadsInv, NEW c, Produce(c) PROVE ReadsInv'
<1>1. /\ Height < MaxBlock /\ source' = source /\ at' = at /\ indexed' = indexed
      /\ unsaved' = unsaved /\ lost' = lost /\ reads' = reads /\ flushed' = flushed
  BY DEF Produce, tableVars, processVars, cacheVars
<1>2. /\ \E S : chain' \in Seq(S)
      /\ Height' = Height + 1 /\ Height \in Nat
      /\ \A b \in 1 .. Height : Needed(b)' = Needed(b)
  BY BlocksGrow DEF ReadsInv
<1>3. Heights'
  <2>1. Height' \in Nat /\ Height' <= MaxBlock /\ Height <= Height'
    <3> DEFINE h == Height'
    <3>1. h = Height + 1
      BY <1>2
    <3> HIDE DEF h
    <3>2. h \in Nat /\ h <= MaxBlock /\ Height <= h
      BY <1>1, <1>2, <3>1, ProjectionAssumption
    <3> QED BY <3>2 DEF h
  <2>2. CacheBlocks' = CacheBlocks
    BY DEF CacheBlocks
  <2>3. at <= Height' /\ indexed \subseteq 1 .. Height'
    <3> DEFINE h == Height'
    <3>1. h \in Nat /\ Height <= h
      BY <2>1
    <3> HIDE DEF h
    <3>2. at <= h /\ indexed \subseteq 1 .. h
      BY <1>2, <3>1 DEF ReadsInv, Heights
    <3> QED BY <3>2 DEF h
  <2> QED BY <1>1, <1>2, <2>1, <2>2, <2>3 DEF ReadsInv, Heights
<1>4. ReadsKept'
  BY <1>1, <1>2 DEF ReadsInv, Heights, ReadsKept, Archived
<1> QED BY <1>3, <1>4 DEF ReadsInv

(* Without a new block, what the blocks need stays the same.               *)
LEMMA SameChain == ASSUME UNCHANGED <<origin, chain>> PROVE \A b : Needed(b)' = Needed(b)
BY DEF Needed, Touched, Renamed, StateAt

LEMMA Commits == ASSUME ReadsInv, NEW to, CommitBatch(to) PROVE ReadsInv'
<1>1. /\ source = "rpc" /\ to \in (at + 1) .. Height /\ unsaved = {}
      /\ UNCHANGED <<origin, chain, source, lost, reads, flushed>>
      /\ \/ UNCHANGED <<at, indexed, unsaved>>
         \/ /\ at' = to /\ indexed' = indexed \cup ((at + 1) .. to)
            /\ unsaved' = LearnedIn(at + 1, to)
  BY DEF CommitBatch, chainVars, cacheVars
<1>2. \A b : Needed(b)' = Needed(b)
  BY <1>1, SameChain
<1>3. Height' = Height /\ Height \in Nat
  BY <1>1 DEF Height, ReadsInv, Heights
<1>4. CASE UNCHANGED <<at, indexed, unsaved>>
  BY <1>1, <1>2, <1>3, <1>4 DEF ReadsInv, Heights, ReadsKept, Archived, CacheBlocks
<1>5. CASE /\ at' = to /\ indexed' = indexed \cup ((at + 1) .. to)
           /\ unsaved' = LearnedIn(at + 1, to)
  <2>1. Heights'
    BY <1>1, <1>3, <1>5 DEF ReadsInv, Heights, CacheBlocks
  <2>2. ASSUME NEW b \in indexed', b \notin unsaved', b \notin lost
        PROVE  Needed(b) \subseteq reads[b]
    <3>1. CASE b \in (at + 1) .. to
      BY <1>5, <2>2, <3>1 DEF LearnedIn, Archived
    <3>2. CASE b \in indexed
      BY <1>1, <2>2, <3>2 DEF ReadsInv, ReadsKept, Archived
    <3> QED BY <1>5, <3>1, <3>2
  <2>3. ReadsKept'
    BY <1>1, <1>2, <2>2 DEF ReadsKept, Archived
  <2> QED BY <2>1, <2>3 DEF ReadsInv
<1> QED BY <1>1, <1>4, <1>5

LEMMA Persists == ASSUME ReadsInv, PersistReads PROVE ReadsInv'
<1>1. PICK b : /\ reads' = [reads EXCEPT ![b] = @ \cup Needed(b)] /\ unsaved' = unsaved \ {b}
  BY DEF PersistReads, Persist, Learned
<1>2. UNCHANGED <<origin, chain, source, at, indexed, lost, flushed>>
  BY DEF PersistReads, chainVars, tableVars
<1>3. \A c : Needed(c)' = Needed(c)
  BY <1>2, SameChain
<1>4. Heights'
  BY <1>1, <1>2 DEF ReadsInv, Heights, Height, CacheBlocks
<1>5. indexed \subseteq DOMAIN reads
  BY ProjectionAssumption DEF ReadsInv, Heights, CacheBlocks, Height
<1>6. ASSUME source = "rpc", NEW c \in indexed, c \notin unsaved', c \notin lost
      PROVE  Needed(c) \subseteq reads'[c]
  <2>1. CASE c = b
    BY <1>1, <1>5, <1>6, <2>1
  <2>2. CASE c # b
    BY <1>1, <1>5, <1>6, <2>2 DEF ReadsInv, ReadsKept, Archived
  <2> QED BY <2>1, <2>2
<1>7. ReadsKept'
  BY <1>2, <1>3, <1>6 DEF ReadsKept, Archived
<1> QED BY <1>4, <1>7 DEF ReadsInv

(* What is not on disk is counted as lost.                                 *)
LEMMA GoesDown == ASSUME ReadsInv, Kill \/ PowerCut PROVE ReadsInv'
<1>1. UNCHANGED <<origin, chain, source, at, indexed>> /\ lost \cup unsaved \subseteq lost'
  BY DEF Kill, PowerCut, chainVars, tableVars
<1>2. \A b \in CacheBlocks : b \in lost' \/ reads'[b] = reads[b]
  BY DEF Kill, PowerCut, PowerFailure, cacheVars
<1>3. DOMAIN reads' = CacheBlocks /\ DOMAIN flushed' = CacheBlocks
  BY DEF Kill, PowerCut, PowerFailure, cacheVars, ReadsInv, Heights
<1>4. \A b : Needed(b)' = Needed(b)
  BY <1>1, SameChain
<1>5. Heights'
  <2>1. CacheBlocks' = CacheBlocks /\ Height' = Height /\ \E S : chain' \in Seq(S)
    BY <1>1 DEF ReadsInv, Heights, CacheBlocks, Height
  <2> QED BY <1>1, <1>3, <2>1 DEF ReadsInv, Heights
<1>6. indexed \subseteq CacheBlocks
  BY ProjectionAssumption DEF ReadsInv, Heights, CacheBlocks, Height
<1>7. ReadsKept'
  BY <1>1, <1>2, <1>4, <1>6 DEF ReadsInv, ReadsKept, Archived
<1> QED BY <1>5, <1>7 DEF ReadsInv

(* The steps that leave the archive and what is indexed alone.             *)
LEMMA OthersKeep ==
  ASSUME ReadsInv, UNCHANGED <<origin, chain, source, at, indexed, lost, unsaved, reads>>,
         flushed' \in {flushed, reads}
  PROVE  ReadsInv'
<1>1. \A b : Needed(b)' = Needed(b)
  BY SameChain
<1>2. Heights'
  BY DEF ReadsInv, Heights, Height, CacheBlocks
<1>3. ReadsKept'
  BY <1>1 DEF ReadsInv, ReadsKept, Archived
<1> QED BY <1>2, <1>3 DEF ReadsInv

LEMMA ReadsFollowHead ==
  ASSUME ReadsInv, NEW n \in 1 .. Height, FollowHead(n) PROVE ReadsInv'
<1>1. /\ source = "light" /\ UNCHANGED <<origin, chain, source, reads, flushed>>
      /\ \/ UNCHANGED <<at, indexed>>
         \/ at' = n /\ indexed' = indexed \cup {n}
  BY DEF FollowHead, chainVars, cacheVars
<1>2. Heights'
  <2>1. CacheBlocks' = CacheBlocks /\ Height' = Height /\ \E S : chain' \in Seq(S)
    BY <1>1 DEF ReadsInv, Heights, CacheBlocks, Height
  <2>2. Height \in Nat /\ n \in 1 .. Height /\ source # "rpc"
    BY <1>1 DEF ReadsInv, Heights, Height
  <2>3. at' \in Int /\ at' <= Height /\ indexed' \subseteq 1 .. Height
    <3> HIDE DEF Height
    <3>1. at \in Int /\ at <= Height /\ indexed \subseteq 1 .. Height
      BY DEF ReadsInv, Heights
    <3>2. CASE UNCHANGED <<at, indexed>>
      BY <3>1, <3>2
    <3>3. CASE at' = n /\ indexed' = indexed \cup {n}
      BY <2>2, <3>1, <3>3
    <3> QED BY <1>1, <3>2, <3>3
  <2> QED BY <1>1, <2>1, <2>2, <2>3 DEF ReadsInv, Heights
<1> QED BY <1>1, <1>2 DEF ReadsInv, ReadsKept

LEMMA ReadsSteps == ReadsInv /\ [Next]_vars => ReadsInv'
<1> SUFFICES ASSUME ReadsInv, [Next]_vars PROVE ReadsInv'
  OBVIOUS
<1>1. CASE \/ Start \/ SweepIdentities \/ SweepUsernames \/ SweepPrimaries \/ SweepSubs
           \/ FinishBootstrap \/ CaughtUp \/ UNCHANGED vars
           \/ \E from, to \in 1 .. Height : Replay(from, to)
  <2>1. /\ UNCHANGED <<origin, chain, source, at, indexed, lost, unsaved, reads>>
        /\ flushed' \in {flushed, reads}
    <3>1. CASE Start
      BY <3>1 DEF Start, chainVars, tableVars, cacheVars
    <3>2. CASE SweepIdentities
      BY <3>2 DEF SweepIdentities, Swept, chainVars, cacheVars
    <3>3. CASE SweepUsernames
      BY <3>3 DEF SweepUsernames, Swept, chainVars, cacheVars
    <3>4. CASE SweepPrimaries
      BY <3>4 DEF SweepPrimaries, Swept, chainVars, cacheVars
    <3>5. CASE SweepSubs
      BY <3>5 DEF SweepSubs, Swept, chainVars, cacheVars
    <3>6. CASE FinishBootstrap
      BY <3>6 DEF FinishBootstrap, chainVars, cacheVars
    <3>7. CASE CaughtUp
      BY <3>7 DEF CaughtUp, SyncReads, chainVars, tableVars, processVars
    <3>8. CASE UNCHANGED vars
      BY <3>8 DEF vars, chainVars, tableVars, processVars, cacheVars
    <3>9. CASE \E from, to \in 1 .. Height : Replay(from, to)
      BY <3>9 DEF Replay, chainVars, processVars, cacheVars
    <3> QED BY <1>1, <3>1, <3>2, <3>3, <3>4, <3>5, <3>6, <3>7, <3>8, <3>9
  <2> QED BY <2>1, OthersKeep
<1> QED BY <1>1, Produces, Commits, Persists, GoesDown, ReadsFollowHead DEF Next

(***************************************************************************)
(* What a replay needs of an indexed block is in the archive unless a      *)
(* crash came between the commit and the sync of its reads, whatever the   *)
(* blocks do and however they are batched (`persist', `fetch').            *)
(***************************************************************************)
THEOREM ReadsStay == Spec => []ReadsKept
<1>1. ReadsInv => ReadsKept
  BY DEF ReadsInv
<1> QED BY <1>1, ReadsStart, ReadsSteps, PTL DEF Spec

-----------------------------------------------------------------------------
(***************************************************************************)
(* The rows of one account, and what put_identity makes of them.           *)
(***************************************************************************)
IdentityRow == [account : Accounts, from : Nat, to : Int \cup {None}, raw : Raws]

Rows(t, a) == {r \in t.identities : r.account = a}

Covers(r, x) == r.from <= x /\ (r.to = None \/ r.to >= x)

(* At block x the rows say v: those that cover it, and there is one if v is *)
(* a registration.                                                          *)
Tells(R, x, v) ==
  /\ \A r \in R : Covers(r, x) => r.raw = v
  /\ v # None => \E r \in R : Covers(r, x)

OpenTells(R, v) ==
  /\ \A r \in R : r.to = None => r.raw = v
  /\ v # None => \E r \in R : r.to = None

OneOpen(R) == \A r, q \in R : r.to = None /\ q.to = None => r = q

(* Nothing begins after block x, and what is closed ended before it.       *)
Before(R, x) == \A r \in R : r.from <= x /\ (r.to # None => r.to < x)

CutRow(r, b) == IF r.to = None /\ r.from < b THEN [r EXCEPT !.to = b - 1] ELSE r

Others(R, b) == {r \in {CutRow(q, b) : q \in R} : r.from # b}

OpenRow(a, b, raw) == [account |-> a, from |-> b, to |-> None, raw |-> raw]

PutRows(a, R, b, raw) ==
  IF raw = None THEN Others(R, b)
  ELSE IF \E r \in R : r.to = None /\ r.raw = raw THEN R
  ELSE Others(R, b) \cup {OpenRow(a, b, raw)}

LEMMA CutRows ==
  ASSUME NEW r \in IdentityRow, NEW b \in Nat
  PROVE  /\ CutRow(r, b) \in IdentityRow
         /\ CutRow(r, b).account = r.account /\ CutRow(r, b).from = r.from
         /\ CutRow(r, b).raw = r.raw
         /\ CutRow(r, b).to = IF r.to = None /\ r.from < b THEN b - 1 ELSE r.to
BY DEF CutRow, IdentityRow

LEMMA OthersFrom ==
  ASSUME NEW R \in SUBSET IdentityRow, NEW b \in Nat
  PROVE  /\ Others(R, b) \subseteq IdentityRow
         /\ \A q \in Others(R, b) : \E r \in R : r.from # b /\ q = CutRow(r, b)
         /\ \A r \in R : r.from # b => CutRow(r, b) \in Others(R, b)
BY CutRows DEF Others

(* What is put is of its account and open at most once.                    *)
LEMMA PutTyped ==
  ASSUME NEW a \in Accounts, NEW R \in SUBSET IdentityRow, NEW b \in Nat,
         NEW raw \in Raws \cup {None}
  PROVE  PutRows(a, R, b, raw) \in SUBSET IdentityRow
<1>1. raw # None => OpenRow(a, b, raw) \in IdentityRow
  BY DEF OpenRow, IdentityRow
<1> QED BY <1>1, OthersFrom DEF PutRows

LEMMA NoneIsNoBlock == None \notin Int /\ None \notin Raws /\ None \notin Accounts /\ None \notin Names
BY IdentityAssumption

(***************************************************************************)
(* A block after all others: the open rows say what was put, and of the    *)
(* blocks before it the rows say what they said.                           *)
(***************************************************************************)
LEMMA PutAfter ==
  ASSUME NEW a \in Accounts, NEW R \in SUBSET IdentityRow, NEW b \in Nat,
         NEW raw \in Raws \cup {None}, OneOpen(R), Before(R, b)
  PROVE  LET S == PutRows(a, R, b, raw)
         IN  /\ OneOpen(S) /\ Before(S, b) /\ OpenTells(S, raw)
             /\ \A v : \A x \in Int : x < b /\ Tells(R, x, v) => Tells(S, x, v)
<1> DEFINE S == PutRows(a, R, b, raw)
           new == OpenRow(a, b, raw)
<1> USE NoneIsNoBlock
<1>1. \A r \in R : r \in IdentityRow /\ r.from \in Nat /\ r.to \in Int \cup {None} /\ r.raw \in Raws
  BY DEF IdentityRow
<1>2. /\ new.account = a /\ new.from = b /\ new.to = None /\ new.raw = raw
  BY DEF OpenRow
<1> HIDE DEF new
<1>3. CASE raw # None /\ \E r \in R : r.to = None /\ r.raw = raw
  <2>1. S = R
    BY <1>3 DEF PutRows
  <2>2. OpenTells(R, raw)
    BY <1>3 DEF OneOpen, OpenTells
  <2> HIDE DEF S
  <2> QED BY <2>1, <2>2 DEF S
<1>4. CASE ~(raw # None /\ \E r \in R : r.to = None /\ r.raw = raw)
  <2>1. /\ \A q \in S : q \in Others(R, b) \/ (raw # None /\ q = new)
        /\ Others(R, b) \subseteq S
        /\ raw # None => new \in S
    BY <1>4 DEF PutRows, new
  <2> HIDE DEF S
  <2>2. ASSUME NEW q \in Others(R, b)
        PROVE  /\ q.to # None /\ q.from < b /\ q.to < b /\ q.to \in Int /\ q.from \in Nat
               /\ \E r \in R : q.raw = r.raw /\ \A x \in Int : x < b => (Covers(q, x) <=> Covers(r, x))
    <3>1. PICK r \in R : r.from # b /\ q = CutRow(r, b)
      BY OthersFrom
    <3>2. /\ q.from = r.from /\ q.raw = r.raw
          /\ q.to = IF r.to = None /\ r.from < b THEN b - 1 ELSE r.to
      BY <1>1, <3>1, CutRows
    <3>3. r.from < b
      BY <1>1, <3>1 DEF Before
    <3>4. q.to # None /\ q.to < b /\ q.to \in Int
      BY <1>1, <3>2, <3>3 DEF Before
    <3>5. \A x \in Int : x < b => (Covers(q, x) <=> Covers(r, x))
      BY <1>1, <3>2, <3>3 DEF Covers
    <3> QED BY <1>1, <3>2, <3>3, <3>4, <3>5
  <2>3. OneOpen(S) /\ OpenTells(S, raw)
    BY <1>2, <2>1, <2>2 DEF OneOpen, OpenTells
  <2>4. Before(S, b)
    BY <1>2, <2>1, <2>2 DEF Before
  <2>5. ASSUME NEW x \in Int, NEW v, x < b, Tells(R, x, v) PROVE Tells(S, x, v)
    <3>1. ASSUME NEW q \in S, Covers(q, x) PROVE q.raw = v
      <4>1. q # new
        BY <1>2, <2>5, <3>1 DEF Covers
      <4> QED BY <2>1, <2>2, <2>5, <3>1, <4>1 DEF Tells
    <3>2. ASSUME v # None PROVE \E q \in S : Covers(q, x)
      <4>1. PICK r \in R : Covers(r, x)
        BY <2>5, <3>2 DEF Tells
      <4>2. r.from # b
        BY <1>1, <2>5, <4>1 DEF Covers
      <4> DEFINE q == CutRow(r, b)
      <4>3. q \in Others(R, b)
        BY <4>2, OthersFrom
      <4>4. /\ q.from = r.from /\ q.to = IF r.to = None /\ r.from < b THEN b - 1 ELSE r.to
        BY <1>1, CutRows
      <4> HIDE DEF q
      <4>5. Covers(q, x)
        BY <1>1, <2>5, <4>1, <4>4 DEF Covers
      <4> QED BY <2>1, <4>3, <4>5
    <3> QED BY <3>1, <3>2 DEF Tells
  <2>6. \A v : \A x \in Int : x < b /\ Tells(R, x, v) => Tells(S, x, v)
    BY <2>5
  <2> QED BY <2>3, <2>4, <2>6 DEF S
<1> QED BY <1>3, <1>4

(* A block that touches no row is told what the open rows say.             *)
LEMMA OpenTellsNext ==
  ASSUME NEW R \in SUBSET IdentityRow, NEW b \in Nat, NEW v, Before(R, b), OpenTells(R, v)
  PROVE  Tells(R, b, v)
<1>1. \A r \in R : r.from \in Nat /\ r.to \in Int \cup {None}
  BY DEF IdentityRow
<1>2. \A r \in R : Covers(r, b) <=> r.to = None
  BY <1>1, NoneIsNoBlock DEF Before, Covers
<1> QED BY <1>2 DEF OpenTells, Tells

-----------------------------------------------------------------------------
(***************************************************************************)
(* Blocks that are handled again.  T is what was true of the account, m    *)
(* the last block, p the last one handled again.  A row that is open holds *)
(* to the end, or was opened by the replay and holds so far.               *)
(***************************************************************************)
HoldsTo(r, T, x) == \A y \in 1 .. x : r.from <= y => T[y] = r.raw

Rewritten(R, T, m, p) ==
  /\ \A r \in R : r.from <= m /\ (r.to # None => r.to < m /\ HoldsTo(r, T, r.to))
  /\ \A r \in R : r.to = None => HoldsTo(r, T, m) \/ (r.from \in 1 .. p /\ HoldsTo(r, T, p))
  /\ \A x \in 1 .. m : T[x] # None =>
       \E r \in R : Covers(r, x) /\ r.raw = T[x] /\ (r.to = None => HoldsTo(r, T, x))

LEMMA RowFields ==
  ASSUME NEW R \in SUBSET IdentityRow, NEW r \in R
  PROVE  /\ r \in IdentityRow /\ r.account \in Accounts /\ r.from \in Nat
         /\ r.to \in Int \cup {None} /\ r.raw \in Raws /\ r.raw # None
         /\ r.to # None => r.to \in Int
BY NoneIsNoBlock DEF IdentityRow

LEMMA RewriteStarts ==
  ASSUME NEW R \in SUBSET IdentityRow, NEW m \in Nat, NEW T, NEW p \in 0 .. m,
         Before(R, m), \A x \in 1 .. m : Tells(R, x, T[x])
  PROVE  Rewritten(R, T, m, p)
<1>1. \A r \in R : r.from \in Nat /\ r.to \in Int \cup {None} /\ (r.to # None => r.to \in Int)
  BY RowFields
<1>2. \A r \in R : \A x \in 1 .. m : Covers(r, x) => r.raw = T[x]
  BY DEF Tells
<1>3. ASSUME NEW r \in R, r.to # None PROVE r.to < m /\ HoldsTo(r, T, r.to)
  BY <1>1, <1>2, <1>3 DEF Before, HoldsTo, Covers
<1>4. ASSUME NEW r \in R, r.to = None, NEW x \in 1 .. m PROVE HoldsTo(r, T, x)
  BY <1>1, <1>2, <1>4 DEF HoldsTo, Covers
<1>5. ASSUME NEW r \in R, r.to = None PROVE HoldsTo(r, T, m)
  BY <1>1, <1>2, <1>5 DEF HoldsTo, Covers
<1>6. ASSUME NEW x \in 1 .. m, T[x] # None
      PROVE  \E r \in R : Covers(r, x) /\ r.raw = T[x] /\ (r.to = None => HoldsTo(r, T, x))
  <2>1. PICK r \in R : Covers(r, x)
    BY <1>6 DEF Tells
  <2> QED BY <1>2, <1>4, <2>1
<1>7. \A r \in R : r.from <= m
  BY DEF Before
<1> QED BY <1>3, <1>5, <1>6, <1>7 DEF Rewritten

LEMMA RewriteEnds ==
  ASSUME NEW R \in SUBSET IdentityRow, NEW m \in Nat, NEW T, Rewritten(R, T, m, m)
  PROVE  Before(R, m) /\ \A x \in 1 .. m : Tells(R, x, T[x])
<1>1. \A r \in R : r.from \in Nat /\ r.to \in Int \cup {None} /\ (r.to # None => r.to \in Int)
  BY RowFields
<1>2. Before(R, m)
  BY DEF Rewritten, Before
<1>3. ASSUME NEW x \in 1 .. m PROVE Tells(R, x, T[x])
  <2>1. ASSUME NEW r \in R, Covers(r, x) PROVE r.raw = T[x]
    <3>1. CASE r.to = None
      <4>1. HoldsTo(r, T, m)
        BY <3>1 DEF Rewritten
      <4> QED BY <1>1, <1>3, <2>1, <4>1 DEF HoldsTo, Covers
    <3>2. CASE r.to # None
      <4>1. HoldsTo(r, T, r.to) /\ r.to \in Int
        BY <1>1, <3>2 DEF Rewritten
      <4> QED BY <1>1, <1>3, <2>1, <3>2, <4>1 DEF HoldsTo, Covers
    <3> QED BY <3>1, <3>2
  <2>2. T[x] # None => \E r \in R : Covers(r, x)
    BY <1>3 DEF Rewritten
  <2> QED BY <2>1, <2>2 DEF Tells
<1> QED BY <1>2, <1>3

LEMMA RewriteSkips ==
  ASSUME NEW R \in SUBSET IdentityRow, NEW m \in Nat, NEW T, NEW p \in Nat, p < m,
         Rewritten(R, T, m, p), T[p + 1] = T[p]
  PROVE  Rewritten(R, T, m, p + 1)
<1>1. \A r \in R : r.from \in Nat
  BY RowFields
<1>2. ASSUME NEW r \in R, r.from \in 1 .. p, HoldsTo(r, T, p)
      PROVE  r.from \in 1 .. p + 1 /\ HoldsTo(r, T, p + 1)
  <2>1. T[p] = r.raw
    BY <1>2 DEF HoldsTo
  <2>2. ASSUME NEW y \in 1 .. p + 1, r.from <= y PROVE T[y] = r.raw
    BY <1>2, <2>1, <2>2 DEF HoldsTo
  <2> QED BY <1>2, <2>2 DEF HoldsTo
<1> QED BY <1>2 DEF Rewritten

(* The block after p is handled again, and this account is synced.         *)
LEMMA RewritePuts ==
  ASSUME NEW a \in Accounts, NEW R \in SUBSET IdentityRow, NEW m \in Nat,
         NEW T \in [0 .. m -> Raws \cup {None}], NEW p \in Nat, p < m, Rewritten(R, T, m, p),
         OneOpen(R)
  PROVE  Rewritten(PutRows(a, R, p + 1, T[p + 1]), T, m, p + 1)
<1> DEFINE b == p + 1
           v == T[b]
           S == PutRows(a, R, b, v)
           new == OpenRow(a, b, v)
<1> USE NoneIsNoBlock
<1>0. b \in 1 .. m /\ b \in Nat /\ p = b - 1 /\ v \in Raws \cup {None} /\ v = T[b]
  OBVIOUS
<1>1. \A r \in R : /\ r \in IdentityRow /\ r.from \in Nat /\ r.to \in Int \cup {None}
                   /\ r.raw \in Raws /\ r.raw # None /\ (r.to # None => r.to \in Int)
  BY RowFields
<1>2. new.account = a /\ new.from = b /\ new.to = None /\ new.raw = v
  BY DEF OpenRow
<1> HIDE DEF new, b, v
<1>3. CASE v # None /\ \E r \in R : r.to = None /\ r.raw = v
  <2>1. S = R
    BY <1>3 DEF PutRows
  <2>2. ASSUME NEW r \in R, r.to = None, r.from \in 1 .. p, HoldsTo(r, T, p)
        PROVE  r.from \in 1 .. b /\ HoldsTo(r, T, b)
    <3>1. r.raw = T[b]
      BY <1>0, <1>3, <2>2 DEF OneOpen
    <3> QED BY <1>0, <2>2, <3>1 DEF HoldsTo
  <2>3. Rewritten(R, T, m, b)
    BY <2>2 DEF Rewritten
  <2> QED BY <2>1, <2>3 DEF S, b, v
<1>4. CASE ~(v # None /\ \E r \in R : r.to = None /\ r.raw = v)
  <2>1. /\ \A q \in S : q \in Others(R, b) \/ (v # None /\ q = new)
        /\ Others(R, b) \subseteq S
        /\ v # None => new \in S
    BY <1>4 DEF PutRows, new
  <2> HIDE DEF S
  <2>2. ASSUME NEW r \in R, r.to = None, HoldsTo(r, T, m) PROVE r.from > b
    BY <1>0, <1>1, <1>4, <2>2 DEF HoldsTo
  <2>3. ASSUME NEW r \in R, r.to = None, r.from <= b
        PROVE  r.from \in 1 .. p /\ HoldsTo(r, T, p) /\ r.from < b /\ r.raw # v
    <3>1. ~ HoldsTo(r, T, m)
      BY <1>0, <1>1, <2>2, <2>3
    <3>2. r.from \in 1 .. p /\ HoldsTo(r, T, p)
      BY <2>3, <3>1 DEF Rewritten
    <3> QED BY <1>0, <1>1, <1>4, <2>3, <3>2
  <2>4. ASSUME NEW q \in Others(R, b)
        PROVE  /\ q.from <= m
               /\ q.to # None => q.to < m /\ HoldsTo(q, T, q.to)
               /\ q.to = None => HoldsTo(q, T, m)
    <3>1. PICK r \in R : r.from # b /\ q = CutRow(r, b)
      BY <1>0, OthersFrom
    <3>2. /\ q.from = r.from /\ q.raw = r.raw
          /\ q.to = IF r.to = None /\ r.from < b THEN b - 1 ELSE r.to
      BY <1>0, <1>1, <3>1, CutRows
    <3>3. CASE r.to = None /\ r.from < b
      <4>1. HoldsTo(r, T, p) /\ q.to = p
        BY <1>0, <1>1, <2>3, <3>2, <3>3
      <4> QED BY <1>0, <1>1, <3>2, <3>3, <4>1 DEF HoldsTo, Rewritten
    <3>4. CASE ~(r.to = None /\ r.from < b)
      <4>1. /\ r.from <= m /\ (r.to # None => r.to < m /\ HoldsTo(r, T, r.to))
            /\ r.to = None => HoldsTo(r, T, m) \/ r.from \in 1 .. p
        BY DEF Rewritten
      <4>2. r.to = None => HoldsTo(r, T, m)
        BY <1>0, <1>1, <3>1, <3>4, <4>1
      <4> QED BY <3>2, <3>4, <4>1, <4>2 DEF HoldsTo
    <3> QED BY <3>3, <3>4
  <2>5. new.from <= m /\ new.from \in 1 .. b /\ HoldsTo(new, T, b)
    BY <1>0, <1>2 DEF HoldsTo
  <2>6. ASSUME NEW x \in 1 .. m, T[x] # None
        PROVE  \E q \in S : Covers(q, x) /\ q.raw = T[x] /\ (q.to = None => HoldsTo(q, T, x))
    <3>1. PICK r \in R : Covers(r, x) /\ r.raw = T[x] /\ (r.to = None => HoldsTo(r, T, x))
      BY <2>6 DEF Rewritten
    <3>2. CASE r.from # b
      <4> DEFINE q == CutRow(r, b)
      <4>1. q \in Others(R, b)
        BY <1>0, <3>2, OthersFrom
      <4>2. /\ q.from = r.from /\ q.raw = r.raw
            /\ q.to = IF r.to = None /\ r.from < b THEN b - 1 ELSE r.to
        BY <1>0, <1>1, CutRows
      <4> HIDE DEF q
      <4>3. ASSUME r.to = None, r.from < b PROVE x <= p
        <5>1. r.raw # v
          BY <1>0, <1>1, <2>3, <4>3
        <5>2. ~(b <= x)
          BY <1>0, <1>1, <3>1, <4>3, <5>1 DEF HoldsTo
        <5> QED BY <1>0, <5>2
      <4>4. Covers(q, x)
        BY <1>0, <1>1, <3>1, <4>2, <4>3 DEF Covers
      <4>5. q.to = None => HoldsTo(q, T, x)
        BY <1>0, <1>1, <3>1, <4>2 DEF HoldsTo
      <4> QED BY <2>1, <3>1, <4>1, <4>2, <4>4, <4>5
    <3>3. CASE r.from = b
      <4>1. x >= b
        BY <3>1, <3>3 DEF Covers
      <4>2. ASSUME r.to # None PROVE \A y \in b .. x : T[y] = r.raw
        <5>1. HoldsTo(r, T, r.to) /\ r.to >= x /\ r.to \in Int
          BY <1>1, <3>1, <4>2 DEF Rewritten, Covers
        <5> QED BY <1>0, <3>3, <5>1 DEF HoldsTo
      <4>3. \A y \in b .. x : T[y] = r.raw
        BY <1>0, <3>1, <3>3, <4>2 DEF HoldsTo
      <4>4. v = r.raw /\ v # None
        BY <1>0, <1>1, <4>1, <4>3
      <4>5. new \in S /\ Covers(new, x) /\ new.raw = T[x]
        BY <1>2, <2>1, <3>1, <4>1, <4>4 DEF Covers
      <4>6. HoldsTo(new, T, x)
        BY <1>0, <1>2, <4>3, <4>4 DEF HoldsTo
      <4> QED BY <4>5, <4>6
    <3> QED BY <3>2, <3>3
  <2>7. \A q \in S : q.from <= m /\ (q.to # None => q.to < m /\ HoldsTo(q, T, q.to))
    BY <1>2, <2>1, <2>4, <2>5
  <2>8. \A q \in S : q.to = None => HoldsTo(q, T, m) \/ (q.from \in 1 .. b /\ HoldsTo(q, T, b))
    BY <1>2, <2>1, <2>4, <2>5
  <2>9. Rewritten(S, T, m, b)
    BY <2>6, <2>7, <2>8 DEF Rewritten
  <2> QED BY <2>9 DEF S, b, v
<1> QED BY <1>3, <1>4

-----------------------------------------------------------------------------
(***************************************************************************)
(* The statements on the tables.                                           *)
(***************************************************************************)
NameRow ==
  [account : Accounts \cup {None}, primary : BOOLEAN,
   status : {"absent", "pending", "active", "unbinding", "removed"}]

TableType ==
  [identities : SUBSET IdentityRow, usernames : [Names -> NameRow],
   subs : [Accounts -> Accounts \cup {None}], ok : BOOLEAN]

(* What a transaction may hold: finite tables, and one open row of an      *)
(* account unless an index was broken.                                     *)
GoodTables ==
  {t \in TableType : /\ IsFiniteSet(t.identities)
                     /\ t.ok => \A a \in Accounts : OneOpen(Rows(t, a))}

(* A statement that does not look at identities.                           *)
Beside(t, u) == u \in GoodTables /\ u.identities = t.identities /\ (u.ok => t.ok)

Closed(t, a, b) == {r \in ClosedAt(t, a, b, b - 1) : r.account # a \/ r.from # b}

LEMMA TwoAreMore ==
  ASSUME NEW S, IsFiniteSet(S), Cardinality(S) <= 1, NEW x \in S, NEW y \in S
  PROVE  x = y
<1> SUFFICES ASSUME x # y PROVE FALSE
  OBVIOUS
<1>1. IsFiniteSet({x}) /\ Cardinality({x}) = 1
  BY FS_Singleton
<1>2. Cardinality({x} \cup {y}) = 2
  <2>1. y \notin {x}
    OBVIOUS
  <2>2. Cardinality({x} \cup {y}) = Cardinality({x}) + 1
    BY <1>1, <2>1, FS_AddElement, Zenon
  <2> QED BY <1>1, <2>2
<1>3. {x} \cup {y} \in SUBSET S
  OBVIOUS
<1>4. Cardinality({x} \cup {y}) <= Cardinality(S)
  BY <1>3, FS_Subset
<1>5. Cardinality(S) \in Nat
  BY FS_CardinalityType
<1> QED BY <1>2, <1>4, <1>5

LEMMA IndexedGood ==
  ASSUME NEW t \in TableType, IsFiniteSet(t.identities)
  PROVE  /\ Indexed(t) \in GoodTables
         /\ Indexed(t).identities = t.identities /\ (Indexed(t).ok => t.ok)
<1> DEFINE u == Indexed(t)
<1>1. /\ u \in TableType /\ u.identities = t.identities /\ (u.ok => t.ok)
      /\ u.ok => \A a \in Accounts : Cardinality(OpenRows(t, a)) <= 1
  BY DEF Indexed, TableType
<1> HIDE DEF u
<1>2. ASSUME u.ok, NEW a \in Accounts PROVE OneOpen(Rows(u, a))
  <2>1. OpenRows(t, a) \in SUBSET t.identities
    BY DEF OpenRows
  <2>2. IsFiniteSet(OpenRows(t, a)) /\ Cardinality(OpenRows(t, a)) <= 1
    BY <1>1, <1>2, <2>1, FS_Subset
  <2>3. ASSUME NEW r \in Rows(u, a), NEW q \in Rows(u, a), r.to = None, q.to = None PROVE r = q
    <3>1. r \in OpenRows(t, a) /\ q \in OpenRows(t, a)
      BY <1>1, <2>3 DEF OpenRows, Rows
    <3> QED BY <2>2, <3>1, TwoAreMore
  <2> QED BY <2>3 DEF OneOpen
<1> QED BY <1>1, <1>2 DEF GoodTables, u

(* Fields other than identities may change.                                *)
LEMMA SameRowsGood ==
  ASSUME NEW t \in GoodTables, NEW u \in TableType, u.identities = t.identities, u.ok => t.ok
  PROVE  Beside(t, u)
BY DEF GoodTables, Beside, Rows

LEMMA BesideIndexed ==
  ASSUME NEW t \in GoodTables, NEW u \in TableType, Beside(t, u)
  PROVE  Beside(t, Indexed(u))
BY IndexedGood DEF GoodTables, Beside

LEMMA PutUsernameBeside ==
  ASSUME NEW t \in GoodTables, NEW n \in Names, NEW account \in Accounts \cup {None},
         NEW status \in {"absent", "pending", "active", "unbinding", "removed"}
  PROVE  Beside(t, PutUsername(t, n, account, status))
<1> DEFINE u == [t EXCEPT !.usernames[n] = [@ EXCEPT !.account = account, !.status = status]]
<1>1. t \in TableType
  BY DEF GoodTables
<1>2. u \in TableType /\ u.identities = t.identities /\ u.ok = t.ok
  <2>1. [t.usernames[n] EXCEPT !.account = account, !.status = status] \in NameRow
    BY <1>1 DEF TableType, NameRow
  <2> QED BY <1>1, <2>1 DEF TableType
<1> HIDE DEF u
<1>3. Beside(t, u)
  BY <1>2, SameRowsGood
<1> QED BY <1>2, <1>3, BesideIndexed DEF PutUsername, u

LEMMA DemotedBeside ==
  ASSUME NEW t \in GoodTables, NEW a \in Accounts
  PROVE  Beside(t, Demoted(t, a)) /\ Demoted(t, a) \in TableType
<1>1. t \in TableType
  BY DEF GoodTables
<1>2. \A n \in Names : [t.usernames[n] EXCEPT !.primary = FALSE] \in NameRow
  BY <1>1 DEF TableType, NameRow
<1>3. Demoted(t, a) \in TableType /\ Demoted(t, a).identities = t.identities /\ Demoted(t, a).ok = t.ok
  BY <1>1, <1>2 DEF TableType, Demoted
<1> QED BY <1>3, SameRowsGood

LEMMA PromotedBeside ==
  ASSUME NEW t \in GoodTables, NEW a \in Accounts, NEW n \in Names \cup {None}
  PROVE  Beside(t, Promoted(t, a, n))
<1>0. t \in TableType /\ Beside(t, t)
  BY DEF GoodTables, Beside
<1>1. CASE n = None
  BY <1>0, <1>1 DEF Promoted
<1>2. CASE n # None
  <2> DEFINE row == [account |-> a, primary |-> TRUE,
                     status |-> IF t.usernames[n].status = "absent" THEN "active"
                                ELSE t.usernames[n].status]
             u == [t EXCEPT !.usernames[n] = row]
  <2>1. row \in NameRow
    BY <1>0, <1>2 DEF NameRow, TableType
  <2>2. Promoted(t, a, n) = Indexed(u)
    BY <1>2 DEF Promoted
  <2> HIDE DEF row
  <2>3. u \in TableType /\ u.identities = t.identities /\ u.ok = t.ok
    BY <1>0, <2>1 DEF TableType
  <2> HIDE DEF u
  <2>4. Beside(t, u)
    BY <2>3, SameRowsGood
  <2> QED BY <2>2, <2>3, <2>4, BesideIndexed
<1> QED BY <1>1, <1>2

LEMMA BesideTwice ==
  ASSUME NEW t, NEW u, NEW w, Beside(t, u), Beside(u, w)
  PROVE  Beside(t, w)
BY DEF Beside

LEMMA SetPrimaryBeside ==
  ASSUME NEW t \in GoodTables, NEW a \in Accounts, NEW n \in Names \cup {None}
  PROVE  Beside(t, SetPrimaryUsername(t, a, n))
<1>1. Beside(t, Demoted(t, a)) /\ Demoted(t, a) \in GoodTables
  BY DemotedBeside DEF Beside
<1>2. Beside(Demoted(t, a), Promoted(Demoted(t, a), a, n))
  BY <1>1, PromotedBeside
<1> QED BY <1>1, <1>2, BesideTwice DEF SetPrimaryUsername

LEMMA PutSubBeside ==
  ASSUME NEW t \in GoodTables, NEW a \in Accounts, NEW super \in Accounts \cup {None}
  PROVE  Beside(t, PutSub(t, a, super))
<1>1. t \in TableType
  BY DEF GoodTables
<1>2. /\ PutSub(t, a, super) \in TableType /\ PutSub(t, a, super).ok = t.ok
      /\ PutSub(t, a, super).identities = t.identities
  BY <1>1 DEF TableType, PutSub
<1> QED BY <1>2, SameRowsGood

LEMMA RetainSubsBeside ==
  ASSUME NEW t \in GoodTables, NEW a \in Accounts, NEW keep
  PROVE  Beside(t, RetainSubs(t, a, keep))
<1>1. t \in TableType
  BY DEF GoodTables
<1>2. /\ RetainSubs(t, a, keep) \in TableType /\ RetainSubs(t, a, keep).ok = t.ok
      /\ RetainSubs(t, a, keep).identities = t.identities
  BY <1>1 DEF TableType, RetainSubs
<1> QED BY <1>2, SameRowsGood

(* Closing the open row of an account.                                     *)
LEMMA ClosedRows ==
  ASSUME NEW t \in TableType, NEW a \in Accounts, NEW b \in Nat
  PROVE  /\ Closed(t, a, b) \subseteq IdentityRow
         /\ {r \in Closed(t, a, b) : r.account = a} = Others(Rows(t, a), b)
         /\ \A c \in Accounts \ {a} : {r \in Closed(t, a, b) : r.account = c} = Rows(t, c)
<1> DEFINE cut(r) == IF r.account = a /\ r.to = None /\ r.from < b THEN [r EXCEPT !.to = b - 1] ELSE r
           C == {cut(r) : r \in t.identities}
<1>1. t.identities \subseteq IdentityRow
  BY DEF TableType
<1>2. \A r \in t.identities : cut(r) \in IdentityRow /\ cut(r).account = r.account /\ cut(r).from = r.from
  BY <1>1 DEF IdentityRow
<1>3. \A r \in t.identities : /\ r.account = a => cut(r) = CutRow(r, b)
                              /\ r.account # a => cut(r) = r
  BY DEF CutRow
<1>4. Closed(t, a, b) = {r \in C : r.account # a \/ r.from # b}
  BY DEF Closed, ClosedAt
<1> HIDE DEF cut
<1>5. \A q \in C : \E r \in t.identities : q = cut(r)
  OBVIOUS
<1>6. \A r \in t.identities : cut(r) \in C
  OBVIOUS
<1> HIDE DEF C
<1>7. Closed(t, a, b) \subseteq IdentityRow
  BY <1>2, <1>4, <1>5
<1>8. ASSUME NEW q
      PROVE  q \in {r \in Closed(t, a, b) : r.account = a} <=> q \in Others(Rows(t, a), b)
  <2>1. ASSUME q \in Closed(t, a, b), q.account = a PROVE q \in Others(Rows(t, a), b)
    <3>1. PICK r \in t.identities : q = cut(r)
      BY <1>4, <1>5, <2>1
    <3>2. r \in Rows(t, a) /\ q = CutRow(r, b) /\ q.from # b
      BY <1>2, <1>3, <1>4, <2>1, <3>1 DEF Rows
    <3> QED BY <3>2 DEF Others
  <2>2. ASSUME q \in Others(Rows(t, a), b) PROVE q \in Closed(t, a, b) /\ q.account = a
    <3>1. PICK r \in Rows(t, a) : q = CutRow(r, b)
      BY <2>2 DEF Others
    <3>2. r \in t.identities /\ r.account = a /\ q.from # b
      BY <2>2, <3>1 DEF Rows, Others
    <3>3. q = cut(r)
      BY <1>3, <3>1, <3>2
    <3> QED BY <1>2, <1>4, <1>6, <3>2, <3>3
  <2> QED BY <2>1, <2>2
<1>9. ASSUME NEW c \in Accounts \ {a}, NEW q
      PROVE  q \in {r \in Closed(t, a, b) : r.account = c} <=> q \in Rows(t, c)
  <2>1. ASSUME q \in Closed(t, a, b), q.account = c PROVE q \in Rows(t, c)
    <3>1. PICK r \in t.identities : q = cut(r)
      BY <1>4, <1>5, <2>1
    <3>2. q = r
      BY <1>2, <1>3, <2>1, <3>1
    <3> QED BY <2>1, <3>2 DEF Rows
  <2>2. ASSUME q \in Rows(t, c) PROVE q \in Closed(t, a, b) /\ q.account = c
    <3>1. q \in t.identities /\ q.account = c
      BY <2>2 DEF Rows
    <3>2. q = cut(q)
      BY <1>3, <3>1
    <3> QED BY <1>4, <1>6, <3>1, <3>2
  <2> QED BY <2>1, <2>2
<1> QED BY <1>7, <1>8, <1>9, Zenon

LEMMA ClosedFinite ==
  ASSUME NEW t \in TableType, IsFiniteSet(t.identities), NEW a \in Accounts, NEW b \in Nat
  PROVE  IsFiniteSet(Closed(t, a, b))
<1> DEFINE cut == [r \in t.identities |->
                     IF r.account = a /\ r.to = None /\ r.from < b THEN [r EXCEPT !.to = b - 1] ELSE r]
           C == ClosedAt(t, a, b, b - 1)
<1>1. C = {cut[r] : r \in t.identities}
  BY DEF ClosedAt
<1>2. \A q \in C : \E r \in t.identities : cut[r] = q
  BY <1>1
<1>3. cut \in [t.identities -> C]
  BY <1>1
<1> HIDE DEF cut, C
<1>4. cut \in Surjection(t.identities, C)
  BY <1>2, <1>3 DEF Surjection
<1>5. IsFiniteSet(C)
  BY <1>4, FS_Surjection
<1>6. Closed(t, a, b) \in SUBSET C
  BY DEF Closed, C
<1> QED BY <1>5, <1>6, FS_Subset

LEMMA OthersOpen ==
  ASSUME NEW R \in SUBSET IdentityRow, NEW b \in Nat, OneOpen(R)
  PROVE  OneOpen(Others(R, b))
<1>1. ASSUME NEW q \in Others(R, b), q.to = None PROVE q \in R
  <2>1. PICK r \in R : q = CutRow(r, b)
    BY OthersFrom
  <2>2. q.to = IF r.to = None /\ r.from < b THEN b - 1 ELSE r.to
    BY <2>1, CutRows
  <2>3. ~(r.to = None /\ r.from < b)
    BY <1>1, <2>2, NoneIsNoBlock
  <2> QED BY <2>1, <2>3 DEF CutRow
<1> QED BY <1>1 DEF OneOpen

LEMMA PutIdentityRows ==
  ASSUME NEW t \in GoodTables, NEW a \in Accounts, NEW b \in Nat, NEW raw \in Raws \cup {None}
  PROVE  LET u == PutIdentity(t, a, b, raw)
         IN  /\ u \in GoodTables /\ (u.ok => t.ok)
             /\ Rows(u, a) = PutRows(a, Rows(t, a), b, raw)
             /\ \A c \in Accounts \ {a} : Rows(u, c) = Rows(t, c)
<1> DEFINE u == PutIdentity(t, a, b, raw)
           I == Closed(t, a, b)
<1>1. t \in TableType /\ IsFiniteSet(t.identities) /\ \A c \in Accounts : Rows(t, c) \in SUBSET IdentityRow
  BY DEF GoodTables, TableType, Rows
<1>2. /\ I \subseteq IdentityRow /\ IsFiniteSet(I)
      /\ {r \in I : r.account = a} = Others(Rows(t, a), b)
      /\ \A c \in Accounts \ {a} : {r \in I : r.account = c} = Rows(t, c)
  BY <1>1, ClosedRows, ClosedFinite
<1>3. CASE raw = None
  <2>1. u = [t EXCEPT !.identities = I]
    BY <1>3 DEF PutIdentity, Closed
  <2> HIDE DEF I, u
  <2>2. u \in TableType /\ u.identities = I /\ u.ok = t.ok
    BY <1>1, <1>2, <2>1 DEF TableType
  <2>3. Rows(u, a) = PutRows(a, Rows(t, a), b, raw) /\ \A c \in Accounts \ {a} : Rows(u, c) = Rows(t, c)
    BY <1>2, <1>3, <2>2 DEF Rows, PutRows
  <2>4. ASSUME u.ok, NEW c \in Accounts PROVE OneOpen(Rows(u, c))
    <3>1. OneOpen(Rows(t, c))
      BY <2>2, <2>4 DEF GoodTables
    <3>2. CASE c = a
      BY <1>1, <1>3, <2>3, <3>1, <3>2, OthersOpen DEF PutRows
    <3>3. CASE c # a
      BY <2>3, <3>1, <3>3
    <3> QED BY <3>2, <3>3
  <2>5. u \in GoodTables
    BY <1>2, <2>2, <2>4 DEF GoodTables
  <2> QED BY <2>2, <2>3, <2>5 DEF u
<1>4. CASE raw # None /\ \E r \in OpenRows(t, a) : r.raw = raw
  <2>1. u = t
    BY <1>4 DEF PutIdentity
  <2>2. \E r \in Rows(t, a) : r.to = None /\ r.raw = raw
    BY <1>4 DEF OpenRows, Rows
  <2>3. PutRows(a, Rows(t, a), b, raw) = Rows(t, a)
    BY <1>4, <2>2 DEF PutRows
  <2> QED BY <2>1, <2>3
<1>5. CASE raw # None /\ ~ \E r \in OpenRows(t, a) : r.raw = raw
  <2> DEFINE J == I \cup {OpenRow(a, b, raw)}
             w == [t EXCEPT !.identities = J]
  <2>1. u = Indexed(w)
    BY <1>5 DEF PutIdentity, Closed, OpenRow
  <2>2. ~ \E r \in Rows(t, a) : r.to = None /\ r.raw = raw
    BY <1>5 DEF OpenRows, Rows
  <2>3. PutRows(a, Rows(t, a), b, raw) = Others(Rows(t, a), b) \cup {OpenRow(a, b, raw)}
    BY <1>5, <2>2 DEF PutRows
  <2>4. OpenRow(a, b, raw) \in IdentityRow /\ OpenRow(a, b, raw).account = a
    BY <1>5 DEF OpenRow, IdentityRow
  <2> HIDE DEF I, u
  <2>5. J \in SUBSET IdentityRow /\ IsFiniteSet(J)
    BY <1>2, <2>4, FS_AddElement
  <2>6. /\ {r \in J : r.account = a} = Others(Rows(t, a), b) \cup {OpenRow(a, b, raw)}
        /\ \A c \in Accounts \ {a} : {r \in J : r.account = c} = Rows(t, c)
    BY <1>2, <2>4
  <2> HIDE DEF J
  <2>7. w \in TableType /\ w.identities = J /\ w.ok = t.ok
    BY <1>1, <2>5 DEF TableType
  <2> HIDE DEF w
  <2>8. u \in GoodTables /\ u.identities = J /\ (u.ok => t.ok)
    BY <2>1, <2>5, <2>7, IndexedGood
  <2>9. Rows(u, a) = PutRows(a, Rows(t, a), b, raw) /\ \A c \in Accounts \ {a} : Rows(u, c) = Rows(t, c)
    BY <2>3, <2>6, <2>8 DEF Rows
  <2> QED BY <2>8, <2>9 DEF u
<1> QED BY <1>3, <1>4, <1>5

-----------------------------------------------------------------------------
(***************************************************************************)
(* `sync': the accounts of the queue, then the names.                      *)
(***************************************************************************)
(* The accounts of q are put at block b with their registrations in s.     *)
PutAll(t, u, s, q, b) ==
  /\ u \in GoodTables /\ (u.ok => t.ok)
  /\ \A c \in Accounts : Rows(u, c) = IF c \in q THEN PutRows(c, Rows(t, c), b, s.identity[c])
                                      ELSE Rows(t, c)

LEMMA StateFields ==
  ASSUME NEW s \in PalletState
  PROVE  /\ \A a \in Accounts : /\ s.identity[a] \in Raws \cup {None}
                                /\ s.primary[a] \in Names \cup {None}
                                /\ s.super[a] \in Accounts \cup {None}
         /\ \A n \in Names : s.owner[n] \in Accounts \cup {None} /\ s.queued[n] \in Accounts \cup {None}
BY DEF PalletState

LEMMA SyncAccountPuts ==
  ASSUME NEW t \in GoodTables, NEW s \in PalletState, NEW a \in Accounts, NEW b \in Nat
  PROVE  PutAll(t, SyncAccount(t, s, a, b), s, {a}, b)
<1> DEFINE u == PutIdentity(t, a, b, s.identity[a])
           v == SetPrimaryUsername(u, a, s.primary[a])
           w == PutSub(v, a, s.super[a])
           z == RetainSubs(w, a, SubsOf(s, a))
<1>1. /\ u \in GoodTables /\ (u.ok => t.ok)
      /\ Rows(u, a) = PutRows(a, Rows(t, a), b, s.identity[a])
      /\ \A c \in Accounts \ {a} : Rows(u, c) = Rows(t, c)
  BY StateFields, PutIdentityRows
<1> HIDE DEF u
<1>2. Beside(u, v)
  BY <1>1, StateFields, SetPrimaryBeside
<1>3. v \in GoodTables
  BY <1>2 DEF Beside
<1> HIDE DEF v
<1>4. Beside(v, w)
  BY <1>3, StateFields, PutSubBeside
<1>5. w \in GoodTables
  BY <1>4 DEF Beside
<1> HIDE DEF w
<1>6. Beside(w, z)
  BY <1>5, RetainSubsBeside
<1> HIDE DEF z
<1>7. Beside(u, z)
  BY <1>2, <1>4, <1>6, BesideTwice
<1>8. SyncAccount(t, s, a, b) = z
  BY DEF SyncAccount, u, v, w, z
<1>9. \A c \in Accounts : Rows(z, c) = Rows(u, c)
  BY <1>7 DEF Beside, Rows
<1> QED BY <1>1, <1>7, <1>8, <1>9 DEF PutAll, Beside

LEMMA SyncUsernameBeside ==
  ASSUME NEW t \in GoodTables, NEW s \in PalletState, NEW n \in Names
  PROVE  Beside(t, SyncUsername(t, s, n))
<1>1. s.owner[n] \in Accounts \cup {None} /\ s.queued[n] \in Accounts \cup {None}
  BY StateFields
<1> QED BY <1>1, PutUsernameBeside DEF SyncUsername

SyncAccountsFolded(t, s, Q, b) ==
  {f[Q] : f \in {f \in [SUBSET Q -> GoodTables] :
                  /\ f[{}] = t
                  /\ \A q \in SUBSET Q : q # {} => f[q] = SyncAccount(f[Rest(q)], s, (CHOOSE x \in q : TRUE), b)}}

LEMMA SyncAccountsFold ==
  ASSUME NEW t \in GoodTables, NEW s \in PalletState, NEW b \in Nat, NEW Q \in SUBSET Accounts
  PROVE  FoldSet(LAMBDA a, u : SyncAccount(u, s, a, b), t, Q) \in SyncAccountsFolded(t, s, Q, b)
<1> DEFINE Is(f) == f = [q \in SUBSET Q |->
                           IF q = {} THEN t
                           ELSE SyncAccount(f[q \ {CHOOSE x \in q : TRUE}], s, (CHOOSE x \in q : TRUE), b)]
           step == [a \in Q |-> [u \in GoodTables |-> SyncAccount(u, s, a, b)]]
           f == CHOOSE f : Is(f)
<1>1. FoldSet(LAMBDA a, u : SyncAccount(u, s, a, b), t, Q) = f[Q]
  BY DEF FoldSet, MapThenFoldSet
<1>2. IsFiniteSet(Q)
  BY IdentityAssumption, FS_Subset
<1>3. \A a \in Q, u \in GoodTables : SyncAccount(u, s, a, b) \in GoodTables
  BY SyncAccountPuts DEF PutAll
<1>4. PICK g \in [SUBSET Q -> GoodTables] : Unfolds(g, Q, t, step)
  <2>1. step \in [Q -> [GoodTables -> GoodTables]]
    BY <1>3
  <2> HIDE DEF step
  <2> QED BY <1>2, <2>1, FoldExists
<1>5. Is(g)
  <2>1. ASSUME NEW q \in SUBSET Q
        PROVE  g[q] = IF q = {} THEN t
                      ELSE SyncAccount(g[q \ {CHOOSE x \in q : TRUE}], s, (CHOOSE x \in q : TRUE), b)
    <3>1. g[q] = IF q = {} THEN t ELSE step[CHOOSE x \in q : TRUE][g[Rest(q)]]
      BY <1>4 DEF Unfolds
    <3>2. CASE q # {}
      <4>1. (CHOOSE x \in q : TRUE) \in Q /\ g[Rest(q)] \in GoodTables
        BY <1>4, <3>2 DEF Rest
      <4> QED BY <3>1, <3>2, <4>1 DEF Rest
    <3> QED BY <3>1, <3>2
  <2>2. g = [q \in SUBSET Q |-> g[q]]
    BY <1>4
  <2> QED BY <2>1, <2>2, Zenon
<1>6. Is(f)
  BY <1>5
<1>7. \A q \in SUBSET Q : f[q] = IF q = {} THEN t ELSE SyncAccount(f[Rest(q)], s, (CHOOSE x \in q : TRUE), b)
  BY <1>6 DEF Rest
<1> HIDE DEF f
<1>8. f = [q \in SUBSET Q |-> f[q]]
  BY <1>6, Zenon
<1> DEFINE G == {q \in SUBSET Q : f[q] \in GoodTables}
<1>9. {} \in G
  BY <1>7
<1>10. ASSUME NEW q \in SUBSET Q, q # {}, Rest(q) \in G PROVE q \in G
  <2>1. (CHOOSE x \in q : TRUE) \in Q
    BY <1>10
  <2> QED BY <1>3, <1>7, <1>10, <2>1
<1> HIDE DEF G
<1>11. SUBSET Q \subseteq G
  BY <1>2, <1>9, <1>10, SubsetInduction
<1>12. f \in [SUBSET Q -> GoodTables]
  BY <1>8, <1>11 DEF G
<1> QED BY <1>1, <1>7, <1>12 DEF SyncAccountsFolded

LEMMA SyncAccountsPut ==
  ASSUME NEW t \in GoodTables, NEW s \in PalletState, NEW b \in Nat, NEW Q \in SUBSET Accounts
  PROVE  PutAll(t, FoldSet(LAMBDA a, u : SyncAccount(u, s, a, b), t, Q), s, Q, b)
<1> DEFINE fold == FoldSet(LAMBDA a, u : SyncAccount(u, s, a, b), t, Q)
<1>0. fold \in SyncAccountsFolded(t, s, Q, b)
  BY SyncAccountsFold
<1> HIDE DEF fold
<1>1. PICK f \in [SUBSET Q -> GoodTables] :
        /\ f[Q] = fold
        /\ f[{}] = t
        /\ \A q \in SUBSET Q : q # {} => f[q] = SyncAccount(f[Rest(q)], s, (CHOOSE x \in q : TRUE), b)
  BY <1>0 DEF SyncAccountsFolded
<1>2. IsFiniteSet(Q)
  BY IdentityAssumption, FS_Subset
<1> DEFINE G == {q \in SUBSET Q : PutAll(t, f[q], s, q, b)}
<1>3. {} \in G
  BY <1>1 DEF PutAll
<1>4. ASSUME NEW q \in SUBSET Q, q # {}, Rest(q) \in G PROVE q \in G
  <2> DEFINE a == CHOOSE x \in q : TRUE
             v == f[Rest(q)]
  <2>1. a \in q /\ a \in Q /\ Rest(q) = q \ {a}
    BY <1>4 DEF Rest
  <2>2. f[q] = SyncAccount(v, s, a, b) /\ v \in GoodTables
    BY <1>1, <1>4, <2>1
  <2>3. PutAll(t, v, s, q \ {a}, b)
    BY <1>4, <2>1
  <2> HIDE DEF a, v
  <2>4. PutAll(v, f[q], s, {a}, b)
    BY <2>1, <2>2, SyncAccountPuts DEF PutAll
  <2> QED BY <2>1, <2>3, <2>4 DEF PutAll
<1> HIDE DEF G
<1>5. SUBSET Q \subseteq G
  BY <1>2, <1>3, <1>4, SubsetInduction
<1> QED BY <1>1, <1>5 DEF G, fold

(* Folds of statements that leave identities alone.                        *)
SyncUsernamesFolded(t, s, Q) ==
  {f[Q] : f \in {f \in [SUBSET Q -> GoodTables] :
                  /\ f[{}] = t
                  /\ \A q \in SUBSET Q : q # {} => f[q] = SyncUsername(f[Rest(q)], s, (CHOOSE x \in q : TRUE))}}

LEMMA SyncUsernamesFold ==
  ASSUME NEW t \in GoodTables, NEW s \in PalletState, NEW Q \in SUBSET Names
  PROVE  FoldSet(LAMBDA n, u : SyncUsername(u, s, n), t, Q) \in SyncUsernamesFolded(t, s, Q)
<1> DEFINE Is(f) == f = [q \in SUBSET Q |->
                           IF q = {} THEN t
                           ELSE SyncUsername(f[q \ {CHOOSE x \in q : TRUE}], s, (CHOOSE x \in q : TRUE))]
           step == [n \in Q |-> [u \in GoodTables |-> SyncUsername(u, s, n)]]
           f == CHOOSE f : Is(f)
<1>1. FoldSet(LAMBDA n, u : SyncUsername(u, s, n), t, Q) = f[Q]
  BY DEF FoldSet, MapThenFoldSet
<1>2. IsFiniteSet(Q)
  BY IdentityAssumption, FS_Subset
<1>3. \A n \in Q, u \in GoodTables : SyncUsername(u, s, n) \in GoodTables
  BY SyncUsernameBeside DEF Beside
<1>4. PICK g \in [SUBSET Q -> GoodTables] : Unfolds(g, Q, t, step)
  <2>1. step \in [Q -> [GoodTables -> GoodTables]]
    BY <1>3
  <2> HIDE DEF step
  <2> QED BY <1>2, <2>1, FoldExists
<1>5. Is(g)
  <2>1. ASSUME NEW q \in SUBSET Q
        PROVE  g[q] = IF q = {} THEN t
                      ELSE SyncUsername(g[q \ {CHOOSE x \in q : TRUE}], s, (CHOOSE x \in q : TRUE))
    <3>1. g[q] = IF q = {} THEN t ELSE step[CHOOSE x \in q : TRUE][g[Rest(q)]]
      BY <1>4 DEF Unfolds
    <3>2. CASE q # {}
      <4>1. (CHOOSE x \in q : TRUE) \in Q /\ g[Rest(q)] \in GoodTables
        BY <1>4, <3>2 DEF Rest
      <4> QED BY <3>1, <3>2, <4>1 DEF Rest
    <3> QED BY <3>1, <3>2
  <2>2. g = [q \in SUBSET Q |-> g[q]]
    BY <1>4
  <2> QED BY <2>1, <2>2, Zenon
<1>6. Is(f)
  BY <1>5
<1>7. \A q \in SUBSET Q : f[q] = IF q = {} THEN t ELSE SyncUsername(f[Rest(q)], s, (CHOOSE x \in q : TRUE))
  BY <1>6 DEF Rest
<1> HIDE DEF f
<1>8. f = [q \in SUBSET Q |-> f[q]]
  BY <1>6, Zenon
<1> DEFINE G == {q \in SUBSET Q : f[q] \in GoodTables}
<1>9. {} \in G
  BY <1>7
<1>10. ASSUME NEW q \in SUBSET Q, q # {}, Rest(q) \in G PROVE q \in G
  <2>1. (CHOOSE x \in q : TRUE) \in Q
    BY <1>10
  <2> QED BY <1>3, <1>7, <1>10, <2>1
<1> HIDE DEF G
<1>11. SUBSET Q \subseteq G
  BY <1>2, <1>9, <1>10, SubsetInduction
<1>12. f \in [SUBSET Q -> GoodTables]
  BY <1>8, <1>11 DEF G
<1> QED BY <1>1, <1>7, <1>12 DEF SyncUsernamesFolded

LEMMA SyncUsernamesBeside ==
  ASSUME NEW t \in GoodTables, NEW s \in PalletState, NEW Q \in SUBSET Names
  PROVE  Beside(t, FoldSet(LAMBDA n, u : SyncUsername(u, s, n), t, Q))
<1> DEFINE fold == FoldSet(LAMBDA n, u : SyncUsername(u, s, n), t, Q)
<1>0. fold \in SyncUsernamesFolded(t, s, Q)
  BY SyncUsernamesFold
<1> HIDE DEF fold
<1>1. PICK f \in [SUBSET Q -> GoodTables] :
        /\ f[Q] = fold
        /\ f[{}] = t
        /\ \A q \in SUBSET Q : q # {} => f[q] = SyncUsername(f[Rest(q)], s, (CHOOSE x \in q : TRUE))
  BY <1>0 DEF SyncUsernamesFolded
<1>2. IsFiniteSet(Q)
  BY IdentityAssumption, FS_Subset
<1> DEFINE G == {q \in SUBSET Q : Beside(t, f[q])}
<1>3. {} \in G
  BY <1>1 DEF Beside
<1>4. ASSUME NEW q \in SUBSET Q, q # {}, Rest(q) \in G PROVE q \in G
  <2> DEFINE n == CHOOSE x \in q : TRUE
             v == f[Rest(q)]
  <2>1. n \in q /\ n \in Q /\ Rest(q) = q \ {n}
    BY <1>4 DEF Rest
  <2>2. f[q] = SyncUsername(v, s, n) /\ v \in GoodTables
    BY <1>1, <1>4, <2>1
  <2>3. Beside(t, v)
    BY <1>4, <2>1
  <2> HIDE DEF n, v
  <2>4. Beside(v, f[q])
    BY <2>1, <2>2, SyncUsernameBeside DEF Beside
  <2> QED BY <2>1, <2>3, <2>4 DEF Beside
<1> HIDE DEF G
<1>5. SUBSET Q \subseteq G
  BY <1>2, <1>3, <1>4, SubsetInduction
<1> QED BY <1>1, <1>5 DEF G, fold

PutUsernamesFolded(t, s, Q) ==
  {f[Q] : f \in {f \in [SUBSET Q -> GoodTables] :
                  /\ f[{}] = t
                  /\ \A q \in SUBSET Q : q # {} => f[q] = PutUsername(f[Rest(q)], (CHOOSE x \in q : TRUE), s.owner[(CHOOSE x \in q : TRUE)], "active")}}

LEMMA PutUsernamesFold ==
  ASSUME NEW t \in GoodTables, NEW s \in PalletState, NEW Q \in SUBSET Names
  PROVE  FoldSet(LAMBDA n, u : PutUsername(u, n, s.owner[n], "active"), t, Q) \in PutUsernamesFolded(t, s, Q)
<1> DEFINE Is(f) == f = [q \in SUBSET Q |->
                           IF q = {} THEN t
                           ELSE PutUsername(f[q \ {CHOOSE x \in q : TRUE}], (CHOOSE x \in q : TRUE), s.owner[(CHOOSE x \in q : TRUE)], "active")]
           step == [n \in Q |-> [u \in GoodTables |-> PutUsername(u, n, s.owner[n], "active")]]
           f == CHOOSE f : Is(f)
<1>1. FoldSet(LAMBDA n, u : PutUsername(u, n, s.owner[n], "active"), t, Q) = f[Q]
  BY DEF FoldSet, MapThenFoldSet
<1>2. IsFiniteSet(Q)
  BY IdentityAssumption, FS_Subset
<1>3. \A n \in Q, u \in GoodTables : PutUsername(u, n, s.owner[n], "active") \in GoodTables
  BY PutUsernameBeside, StateFields DEF Beside
<1>4. PICK g \in [SUBSET Q -> GoodTables] : Unfolds(g, Q, t, step)
  <2>1. step \in [Q -> [GoodTables -> GoodTables]]
    BY <1>3
  <2> HIDE DEF step
  <2> QED BY <1>2, <2>1, FoldExists
<1>5. Is(g)
  <2>1. ASSUME NEW q \in SUBSET Q
        PROVE  g[q] = IF q = {} THEN t
                      ELSE PutUsername(g[q \ {CHOOSE x \in q : TRUE}], (CHOOSE x \in q : TRUE), s.owner[(CHOOSE x \in q : TRUE)], "active")
    <3>1. g[q] = IF q = {} THEN t ELSE step[CHOOSE x \in q : TRUE][g[Rest(q)]]
      BY <1>4 DEF Unfolds
    <3>2. CASE q # {}
      <4>1. (CHOOSE x \in q : TRUE) \in Q /\ g[Rest(q)] \in GoodTables
        BY <1>4, <3>2 DEF Rest
      <4> QED BY <3>1, <3>2, <4>1 DEF Rest
    <3> QED BY <3>1, <3>2
  <2>2. g = [q \in SUBSET Q |-> g[q]]
    BY <1>4
  <2> QED BY <2>1, <2>2, Zenon
<1>6. Is(f)
  BY <1>5
<1>7. \A q \in SUBSET Q : f[q] = IF q = {} THEN t ELSE PutUsername(f[Rest(q)], (CHOOSE x \in q : TRUE), s.owner[(CHOOSE x \in q : TRUE)], "active")
  BY <1>6 DEF Rest
<1> HIDE DEF f
<1>8. f = [q \in SUBSET Q |-> f[q]]
  BY <1>6, Zenon
<1> DEFINE G == {q \in SUBSET Q : f[q] \in GoodTables}
<1>9. {} \in G
  BY <1>7
<1>10. ASSUME NEW q \in SUBSET Q, q # {}, Rest(q) \in G PROVE q \in G
  <2>1. (CHOOSE x \in q : TRUE) \in Q
    BY <1>10
  <2> QED BY <1>3, <1>7, <1>10, <2>1
<1> HIDE DEF G
<1>11. SUBSET Q \subseteq G
  BY <1>2, <1>9, <1>10, SubsetInduction
<1>12. f \in [SUBSET Q -> GoodTables]
  BY <1>8, <1>11 DEF G
<1> QED BY <1>1, <1>7, <1>12 DEF PutUsernamesFolded

LEMMA PutUsernamesBeside ==
  ASSUME NEW t \in GoodTables, NEW s \in PalletState, NEW Q \in SUBSET Names
  PROVE  Beside(t, FoldSet(LAMBDA n, u : PutUsername(u, n, s.owner[n], "active"), t, Q))
<1> DEFINE fold == FoldSet(LAMBDA n, u : PutUsername(u, n, s.owner[n], "active"), t, Q)
<1>0. fold \in PutUsernamesFolded(t, s, Q)
  BY PutUsernamesFold
<1> HIDE DEF fold
<1>1. PICK f \in [SUBSET Q -> GoodTables] :
        /\ f[Q] = fold
        /\ f[{}] = t
        /\ \A q \in SUBSET Q : q # {} => f[q] = PutUsername(f[Rest(q)], (CHOOSE x \in q : TRUE), s.owner[(CHOOSE x \in q : TRUE)], "active")
  BY <1>0 DEF PutUsernamesFolded
<1>2. IsFiniteSet(Q)
  BY IdentityAssumption, FS_Subset
<1> DEFINE G == {q \in SUBSET Q : Beside(t, f[q])}
<1>3. {} \in G
  BY <1>1 DEF Beside
<1>4. ASSUME NEW q \in SUBSET Q, q # {}, Rest(q) \in G PROVE q \in G
  <2> DEFINE n == CHOOSE x \in q : TRUE
             v == f[Rest(q)]
  <2>1. n \in q /\ n \in Q /\ Rest(q) = q \ {n}
    BY <1>4 DEF Rest
  <2>2. f[q] = PutUsername(v, n, s.owner[n], "active") /\ v \in GoodTables
    BY <1>1, <1>4, <2>1
  <2>3. Beside(t, v)
    BY <1>4, <2>1
  <2> HIDE DEF n, v
  <2>4. Beside(v, f[q])
    BY <2>1, <2>2, PutUsernameBeside, StateFields DEF Beside
  <2> QED BY <2>1, <2>3, <2>4 DEF Beside
<1> HIDE DEF G
<1>5. SUBSET Q \subseteq G
  BY <1>2, <1>3, <1>4, SubsetInduction
<1> QED BY <1>1, <1>5 DEF G, fold

SetPrimariesFolded(t, s, Q) ==
  {f[Q] : f \in {f \in [SUBSET Q -> GoodTables] :
                  /\ f[{}] = t
                  /\ \A q \in SUBSET Q : q # {} => f[q] = SetPrimaryUsername(f[Rest(q)], (CHOOSE x \in q : TRUE), s.primary[(CHOOSE x \in q : TRUE)])}}

LEMMA SetPrimariesFold ==
  ASSUME NEW t \in GoodTables, NEW s \in PalletState, NEW Q \in SUBSET Accounts
  PROVE  FoldSet(LAMBDA a, u : SetPrimaryUsername(u, a, s.primary[a]), t, Q) \in SetPrimariesFolded(t, s, Q)
<1> DEFINE Is(f) == f = [q \in SUBSET Q |->
                           IF q = {} THEN t
                           ELSE SetPrimaryUsername(f[q \ {CHOOSE x \in q : TRUE}], (CHOOSE x \in q : TRUE), s.primary[(CHOOSE x \in q : TRUE)])]
           step == [a \in Q |-> [u \in GoodTables |-> SetPrimaryUsername(u, a, s.primary[a])]]
           f == CHOOSE f : Is(f)
<1>1. FoldSet(LAMBDA a, u : SetPrimaryUsername(u, a, s.primary[a]), t, Q) = f[Q]
  BY DEF FoldSet, MapThenFoldSet
<1>2. IsFiniteSet(Q)
  BY IdentityAssumption, FS_Subset
<1>3. \A a \in Q, u \in GoodTables : SetPrimaryUsername(u, a, s.primary[a]) \in GoodTables
  BY SetPrimaryBeside, StateFields DEF Beside
<1>4. PICK g \in [SUBSET Q -> GoodTables] : Unfolds(g, Q, t, step)
  <2>1. step \in [Q -> [GoodTables -> GoodTables]]
    BY <1>3
  <2> HIDE DEF step
  <2> QED BY <1>2, <2>1, FoldExists
<1>5. Is(g)
  <2>1. ASSUME NEW q \in SUBSET Q
        PROVE  g[q] = IF q = {} THEN t
                      ELSE SetPrimaryUsername(g[q \ {CHOOSE x \in q : TRUE}], (CHOOSE x \in q : TRUE), s.primary[(CHOOSE x \in q : TRUE)])
    <3>1. g[q] = IF q = {} THEN t ELSE step[CHOOSE x \in q : TRUE][g[Rest(q)]]
      BY <1>4 DEF Unfolds
    <3>2. CASE q # {}
      <4>1. (CHOOSE x \in q : TRUE) \in Q /\ g[Rest(q)] \in GoodTables
        BY <1>4, <3>2 DEF Rest
      <4> QED BY <3>1, <3>2, <4>1 DEF Rest
    <3> QED BY <3>1, <3>2
  <2>2. g = [q \in SUBSET Q |-> g[q]]
    BY <1>4
  <2> QED BY <2>1, <2>2, Zenon
<1>6. Is(f)
  BY <1>5
<1>7. \A q \in SUBSET Q : f[q] = IF q = {} THEN t ELSE SetPrimaryUsername(f[Rest(q)], (CHOOSE x \in q : TRUE), s.primary[(CHOOSE x \in q : TRUE)])
  BY <1>6 DEF Rest
<1> HIDE DEF f
<1>8. f = [q \in SUBSET Q |-> f[q]]
  BY <1>6, Zenon
<1> DEFINE G == {q \in SUBSET Q : f[q] \in GoodTables}
<1>9. {} \in G
  BY <1>7
<1>10. ASSUME NEW q \in SUBSET Q, q # {}, Rest(q) \in G PROVE q \in G
  <2>1. (CHOOSE x \in q : TRUE) \in Q
    BY <1>10
  <2> QED BY <1>3, <1>7, <1>10, <2>1
<1> HIDE DEF G
<1>11. SUBSET Q \subseteq G
  BY <1>2, <1>9, <1>10, SubsetInduction
<1>12. f \in [SUBSET Q -> GoodTables]
  BY <1>8, <1>11 DEF G
<1> QED BY <1>1, <1>7, <1>12 DEF SetPrimariesFolded

LEMMA SetPrimariesBeside ==
  ASSUME NEW t \in GoodTables, NEW s \in PalletState, NEW Q \in SUBSET Accounts
  PROVE  Beside(t, FoldSet(LAMBDA a, u : SetPrimaryUsername(u, a, s.primary[a]), t, Q))
<1> DEFINE fold == FoldSet(LAMBDA a, u : SetPrimaryUsername(u, a, s.primary[a]), t, Q)
<1>0. fold \in SetPrimariesFolded(t, s, Q)
  BY SetPrimariesFold
<1> HIDE DEF fold
<1>1. PICK f \in [SUBSET Q -> GoodTables] :
        /\ f[Q] = fold
        /\ f[{}] = t
        /\ \A q \in SUBSET Q : q # {} => f[q] = SetPrimaryUsername(f[Rest(q)], (CHOOSE x \in q : TRUE), s.primary[(CHOOSE x \in q : TRUE)])
  BY <1>0 DEF SetPrimariesFolded
<1>2. IsFiniteSet(Q)
  BY IdentityAssumption, FS_Subset
<1> DEFINE G == {q \in SUBSET Q : Beside(t, f[q])}
<1>3. {} \in G
  BY <1>1 DEF Beside
<1>4. ASSUME NEW q \in SUBSET Q, q # {}, Rest(q) \in G PROVE q \in G
  <2> DEFINE a == CHOOSE x \in q : TRUE
             v == f[Rest(q)]
  <2>1. a \in q /\ a \in Q /\ Rest(q) = q \ {a}
    BY <1>4 DEF Rest
  <2>2. f[q] = SetPrimaryUsername(v, a, s.primary[a]) /\ v \in GoodTables
    BY <1>1, <1>4, <2>1
  <2>3. Beside(t, v)
    BY <1>4, <2>1
  <2> HIDE DEF a, v
  <2>4. Beside(v, f[q])
    BY <2>1, <2>2, SetPrimaryBeside, StateFields DEF Beside
  <2> QED BY <2>1, <2>3, <2>4 DEF Beside
<1> HIDE DEF G
<1>5. SUBSET Q \subseteq G
  BY <1>2, <1>3, <1>4, SubsetInduction
<1> QED BY <1>1, <1>5 DEF G, fold

PutSubsFolded(t, s, Q) ==
  {f[Q] : f \in {f \in [SUBSET Q -> GoodTables] :
                  /\ f[{}] = t
                  /\ \A q \in SUBSET Q : q # {} => f[q] = PutSub(f[Rest(q)], (CHOOSE x \in q : TRUE), s.super[(CHOOSE x \in q : TRUE)])}}

LEMMA PutSubsFold ==
  ASSUME NEW t \in GoodTables, NEW s \in PalletState, NEW Q \in SUBSET Accounts
  PROVE  FoldSet(LAMBDA a, u : PutSub(u, a, s.super[a]), t, Q) \in PutSubsFolded(t, s, Q)
<1> DEFINE Is(f) == f = [q \in SUBSET Q |->
                           IF q = {} THEN t
                           ELSE PutSub(f[q \ {CHOOSE x \in q : TRUE}], (CHOOSE x \in q : TRUE), s.super[(CHOOSE x \in q : TRUE)])]
           step == [a \in Q |-> [u \in GoodTables |-> PutSub(u, a, s.super[a])]]
           f == CHOOSE f : Is(f)
<1>1. FoldSet(LAMBDA a, u : PutSub(u, a, s.super[a]), t, Q) = f[Q]
  BY DEF FoldSet, MapThenFoldSet
<1>2. IsFiniteSet(Q)
  BY IdentityAssumption, FS_Subset
<1>3. \A a \in Q, u \in GoodTables : PutSub(u, a, s.super[a]) \in GoodTables
  BY PutSubBeside, StateFields DEF Beside
<1>4. PICK g \in [SUBSET Q -> GoodTables] : Unfolds(g, Q, t, step)
  <2>1. step \in [Q -> [GoodTables -> GoodTables]]
    BY <1>3
  <2> HIDE DEF step
  <2> QED BY <1>2, <2>1, FoldExists
<1>5. Is(g)
  <2>1. ASSUME NEW q \in SUBSET Q
        PROVE  g[q] = IF q = {} THEN t
                      ELSE PutSub(g[q \ {CHOOSE x \in q : TRUE}], (CHOOSE x \in q : TRUE), s.super[(CHOOSE x \in q : TRUE)])
    <3>1. g[q] = IF q = {} THEN t ELSE step[CHOOSE x \in q : TRUE][g[Rest(q)]]
      BY <1>4 DEF Unfolds
    <3>2. CASE q # {}
      <4>1. (CHOOSE x \in q : TRUE) \in Q /\ g[Rest(q)] \in GoodTables
        BY <1>4, <3>2 DEF Rest
      <4> QED BY <3>1, <3>2, <4>1 DEF Rest
    <3> QED BY <3>1, <3>2
  <2>2. g = [q \in SUBSET Q |-> g[q]]
    BY <1>4
  <2> QED BY <2>1, <2>2, Zenon
<1>6. Is(f)
  BY <1>5
<1>7. \A q \in SUBSET Q : f[q] = IF q = {} THEN t ELSE PutSub(f[Rest(q)], (CHOOSE x \in q : TRUE), s.super[(CHOOSE x \in q : TRUE)])
  BY <1>6 DEF Rest
<1> HIDE DEF f
<1>8. f = [q \in SUBSET Q |-> f[q]]
  BY <1>6, Zenon
<1> DEFINE G == {q \in SUBSET Q : f[q] \in GoodTables}
<1>9. {} \in G
  BY <1>7
<1>10. ASSUME NEW q \in SUBSET Q, q # {}, Rest(q) \in G PROVE q \in G
  <2>1. (CHOOSE x \in q : TRUE) \in Q
    BY <1>10
  <2> QED BY <1>3, <1>7, <1>10, <2>1
<1> HIDE DEF G
<1>11. SUBSET Q \subseteq G
  BY <1>2, <1>9, <1>10, SubsetInduction
<1>12. f \in [SUBSET Q -> GoodTables]
  BY <1>8, <1>11 DEF G
<1> QED BY <1>1, <1>7, <1>12 DEF PutSubsFolded

LEMMA PutSubsBeside ==
  ASSUME NEW t \in GoodTables, NEW s \in PalletState, NEW Q \in SUBSET Accounts
  PROVE  Beside(t, FoldSet(LAMBDA a, u : PutSub(u, a, s.super[a]), t, Q))
<1> DEFINE fold == FoldSet(LAMBDA a, u : PutSub(u, a, s.super[a]), t, Q)
<1>0. fold \in PutSubsFolded(t, s, Q)
  BY PutSubsFold
<1> HIDE DEF fold
<1>1. PICK f \in [SUBSET Q -> GoodTables] :
        /\ f[Q] = fold
        /\ f[{}] = t
        /\ \A q \in SUBSET Q : q # {} => f[q] = PutSub(f[Rest(q)], (CHOOSE x \in q : TRUE), s.super[(CHOOSE x \in q : TRUE)])
  BY <1>0 DEF PutSubsFolded
<1>2. IsFiniteSet(Q)
  BY IdentityAssumption, FS_Subset
<1> DEFINE G == {q \in SUBSET Q : Beside(t, f[q])}
<1>3. {} \in G
  BY <1>1 DEF Beside
<1>4. ASSUME NEW q \in SUBSET Q, q # {}, Rest(q) \in G PROVE q \in G
  <2> DEFINE a == CHOOSE x \in q : TRUE
             v == f[Rest(q)]
  <2>1. a \in q /\ a \in Q /\ Rest(q) = q \ {a}
    BY <1>4 DEF Rest
  <2>2. f[q] = PutSub(v, a, s.super[a]) /\ v \in GoodTables
    BY <1>1, <1>4, <2>1
  <2>3. Beside(t, v)
    BY <1>4, <2>1
  <2> HIDE DEF a, v
  <2>4. Beside(v, f[q])
    BY <2>1, <2>2, PutSubBeside, StateFields DEF Beside
  <2> QED BY <2>1, <2>3, <2>4 DEF Beside
<1> HIDE DEF G
<1>5. SUBSET Q \subseteq G
  BY <1>2, <1>3, <1>4, SubsetInduction
<1> QED BY <1>1, <1>5 DEF G, fold

LEMMA PutIdentityPuts ==
  ASSUME NEW t \in GoodTables, NEW s \in PalletState, NEW a \in Accounts, NEW b \in Nat
  PROVE  PutAll(t, PutIdentity(t, a, b, s.identity[a]), s, {a}, b)
BY StateFields, PutIdentityRows DEF PutAll

PutIdentitiesFolded(t, s, Q, b) ==
  {f[Q] : f \in {f \in [SUBSET Q -> GoodTables] :
                  /\ f[{}] = t
                  /\ \A q \in SUBSET Q : q # {} => f[q] = PutIdentity(f[Rest(q)], (CHOOSE x \in q : TRUE), b, s.identity[(CHOOSE x \in q : TRUE)])}}

LEMMA PutIdentitiesFold ==
  ASSUME NEW t \in GoodTables, NEW s \in PalletState, NEW b \in Nat, NEW Q \in SUBSET Accounts
  PROVE  FoldSet(LAMBDA a, u : PutIdentity(u, a, b, s.identity[a]), t, Q) \in PutIdentitiesFolded(t, s, Q, b)
<1> DEFINE Is(f) == f = [q \in SUBSET Q |->
                           IF q = {} THEN t
                           ELSE PutIdentity(f[q \ {CHOOSE x \in q : TRUE}], (CHOOSE x \in q : TRUE), b, s.identity[(CHOOSE x \in q : TRUE)])]
           step == [a \in Q |-> [u \in GoodTables |-> PutIdentity(u, a, b, s.identity[a])]]
           f == CHOOSE f : Is(f)
<1>1. FoldSet(LAMBDA a, u : PutIdentity(u, a, b, s.identity[a]), t, Q) = f[Q]
  BY DEF FoldSet, MapThenFoldSet
<1>2. IsFiniteSet(Q)
  BY IdentityAssumption, FS_Subset
<1>3. \A a \in Q, u \in GoodTables : PutIdentity(u, a, b, s.identity[a]) \in GoodTables
  BY PutIdentityPuts DEF PutAll
<1>4. PICK g \in [SUBSET Q -> GoodTables] : Unfolds(g, Q, t, step)
  <2>1. step \in [Q -> [GoodTables -> GoodTables]]
    BY <1>3
  <2> HIDE DEF step
  <2> QED BY <1>2, <2>1, FoldExists
<1>5. Is(g)
  <2>1. ASSUME NEW q \in SUBSET Q
        PROVE  g[q] = IF q = {} THEN t
                      ELSE PutIdentity(g[q \ {CHOOSE x \in q : TRUE}], (CHOOSE x \in q : TRUE), b, s.identity[(CHOOSE x \in q : TRUE)])
    <3>1. g[q] = IF q = {} THEN t ELSE step[CHOOSE x \in q : TRUE][g[Rest(q)]]
      BY <1>4 DEF Unfolds
    <3>2. CASE q # {}
      <4>1. (CHOOSE x \in q : TRUE) \in Q /\ g[Rest(q)] \in GoodTables
        BY <1>4, <3>2 DEF Rest
      <4> QED BY <3>1, <3>2, <4>1 DEF Rest
    <3> QED BY <3>1, <3>2
  <2>2. g = [q \in SUBSET Q |-> g[q]]
    BY <1>4
  <2> QED BY <2>1, <2>2, Zenon
<1>6. Is(f)
  BY <1>5
<1>7. \A q \in SUBSET Q : f[q] = IF q = {} THEN t ELSE PutIdentity(f[Rest(q)], (CHOOSE x \in q : TRUE), b, s.identity[(CHOOSE x \in q : TRUE)])
  BY <1>6 DEF Rest
<1> HIDE DEF f
<1>8. f = [q \in SUBSET Q |-> f[q]]
  BY <1>6, Zenon
<1> DEFINE G == {q \in SUBSET Q : f[q] \in GoodTables}
<1>9. {} \in G
  BY <1>7
<1>10. ASSUME NEW q \in SUBSET Q, q # {}, Rest(q) \in G PROVE q \in G
  <2>1. (CHOOSE x \in q : TRUE) \in Q
    BY <1>10
  <2> QED BY <1>3, <1>7, <1>10, <2>1
<1> HIDE DEF G
<1>11. SUBSET Q \subseteq G
  BY <1>2, <1>9, <1>10, SubsetInduction
<1>12. f \in [SUBSET Q -> GoodTables]
  BY <1>8, <1>11 DEF G
<1> QED BY <1>1, <1>7, <1>12 DEF PutIdentitiesFolded

LEMMA PutIdentitiesPut ==
  ASSUME NEW t \in GoodTables, NEW s \in PalletState, NEW b \in Nat, NEW Q \in SUBSET Accounts
  PROVE  PutAll(t, FoldSet(LAMBDA a, u : PutIdentity(u, a, b, s.identity[a]), t, Q), s, Q, b)
<1> DEFINE fold == FoldSet(LAMBDA a, u : PutIdentity(u, a, b, s.identity[a]), t, Q)
<1>0. fold \in PutIdentitiesFolded(t, s, Q, b)
  BY PutIdentitiesFold
<1> HIDE DEF fold
<1>1. PICK f \in [SUBSET Q -> GoodTables] :
        /\ f[Q] = fold
        /\ f[{}] = t
        /\ \A q \in SUBSET Q : q # {} => f[q] = PutIdentity(f[Rest(q)], (CHOOSE x \in q : TRUE), b, s.identity[(CHOOSE x \in q : TRUE)])
  BY <1>0 DEF PutIdentitiesFolded
<1>2. IsFiniteSet(Q)
  BY IdentityAssumption, FS_Subset
<1> DEFINE G == {q \in SUBSET Q : PutAll(t, f[q], s, q, b)}
<1>3. {} \in G
  BY <1>1 DEF PutAll
<1>4. ASSUME NEW q \in SUBSET Q, q # {}, Rest(q) \in G PROVE q \in G
  <2> DEFINE a == CHOOSE x \in q : TRUE
             v == f[Rest(q)]
  <2>1. a \in q /\ a \in Q /\ Rest(q) = q \ {a}
    BY <1>4 DEF Rest
  <2>2. f[q] = PutIdentity(v, a, b, s.identity[a]) /\ v \in GoodTables
    BY <1>1, <1>4, <2>1
  <2>3. PutAll(t, v, s, q \ {a}, b)
    BY <1>4, <2>1
  <2> HIDE DEF a, v
  <2>4. PutAll(v, f[q], s, {a}, b)
    BY <2>1, <2>2, PutIdentityPuts DEF PutAll
  <2> QED BY <2>1, <2>3, <2>4 DEF PutAll
<1> HIDE DEF G
<1>5. SUBSET Q \subseteq G
  BY <1>2, <1>3, <1>4, SubsetInduction
<1> QED BY <1>1, <1>5 DEF G, fold

(* The queue holds the accounts it was given and their subs.               *)
LEMMA QueueHolds ==
  ASSUME NEW s \in PalletState, NEW A \in SUBSET Accounts
  PROVE  /\ A \subseteq Queued(A, s) /\ Queued(A, s) \subseteq Accounts
         /\ \A a \in A : SubsOf(s, a) \subseteq Queued(A, s)
<1> DEFINE N == Cardinality(Accounts)
           X == 0 .. N
           subs(S) == UNION {SubsOf(s, a) : a \in S}
           Is(f) == f = [i \in X |-> IF i = 0 THEN A ELSE f[i - 1] \cup subs(f[i - 1])]
           rank == [i \in X |-> i]
           prev == [i \in X |-> IF i = 0 THEN 0 ELSE i - 1]
           base == [i \in X |-> A]
           step == [i \in X |-> [S \in SUBSET Accounts |-> S \cup subs(S)]]
           f == CHOOSE f : Is(f)
<1>1. Queued(A, s) = f[N]
  BY DEF Queued
<1>2. N \in Nat
  BY IdentityAssumption, FS_CardinalityType
<1> HIDE DEF N
<1>3. Ranked(X, rank, prev)
  BY <1>2 DEF Ranked
<1>4. /\ \A i \in X : rank[i] = i /\ base[i] = A /\ (i # 0 => prev[i] = i - 1 /\ i - 1 \in X)
      /\ 0 \in X /\ N \in X
  BY <1>2
<1>5. /\ \A S \in SUBSET Accounts : subs(S) \in SUBSET Accounts
      /\ \A S, T \in SUBSET Accounts : S \subseteq T => subs(S) \subseteq subs(T)
      /\ \A a \in A : SubsOf(s, a) \subseteq subs(A)
      /\ A # {} => N # 0
  <2>1. A # {} => Cardinality(Accounts) # 0
    BY IdentityAssumption, FS_EmptySet
  <2> QED BY <2>1 DEF SubsOf, N
<1> HIDE DEF subs
<1>6. base \in [X -> SUBSET Accounts] /\ step \in [X -> [SUBSET Accounts -> SUBSET Accounts]]
  BY <1>5
<1>7. \A i \in X, S \in SUBSET Accounts : step[i][S] = S \cup subs(S)
  OBVIOUS
<1> HIDE DEF X, rank, prev, base, step
<1>8. PICK g \in [X -> SUBSET Accounts] : \A i \in X : Follows(X, rank, prev, base, step, g, i)
  BY <1>3, <1>6, RankRecursion
<1>9. Is(g)
  <2>1. ASSUME NEW i \in X PROVE g[i] = IF i = 0 THEN A ELSE g[i - 1] \cup subs(g[i - 1])
    <3>1. g[i] = IF i = 0 THEN A ELSE step[i][g[prev[i]]]
      BY <1>4, <1>8 DEF Follows
    <3>2. CASE i # 0
      <4>1. prev[i] = i - 1 /\ i - 1 \in X
        BY <1>4, <3>2
      <4>2. g[i - 1] \in SUBSET Accounts
        BY <1>8, <4>1
      <4>3. step[i][g[i - 1]] = g[i - 1] \cup subs(g[i - 1])
        BY <1>7, <4>2
      <4> QED BY <3>1, <3>2, <4>1, <4>3
    <3> QED BY <3>1, <3>2
  <2>2. g = [i \in X |-> g[i]]
    BY <1>8
  <2> QED BY <2>1, <2>2, Zenon
<1>10. Is(f)
  BY <1>9
<1> HIDE DEF f
<1>11. \A i \in X : f[i] = IF i = 0 THEN A ELSE f[i - 1] \cup subs(f[i - 1])
  BY <1>10
<1> DEFINE G == {i \in X : /\ A \subseteq f[i] /\ f[i] \in SUBSET Accounts
                           /\ i # 0 => subs(A) \subseteq f[i]}
<1>12. \A i \in X : rank[i] = 0 => i \in G
  BY <1>4, <1>11
<1>13. ASSUME NEW i \in X, rank[i] # 0, prev[i] \in G PROVE i \in G
  <2>1. i # 0 /\ i - 1 \in X /\ i - 1 \in G
    BY <1>4, <1>13
  <2>2. f[i] = f[i - 1] \cup subs(f[i - 1]) /\ A \subseteq f[i - 1] /\ f[i - 1] \in SUBSET Accounts
    BY <1>11, <2>1
  <2>3. subs(A) \subseteq subs(f[i - 1]) /\ subs(f[i - 1]) \in SUBSET Accounts
    BY <1>5, <2>2
  <2> QED BY <2>2, <2>3
<1> HIDE DEF G
<1>14. X \subseteq G
  BY <1>3, <1>12, <1>13, RankInduction
<1>15. N \in G
  BY <1>4, <1>14
<1> QED BY <1>1, <1>5, <1>15 DEF G

LEMMA SyncPuts ==
  ASSUME NEW t \in GoodTables, NEW s \in PalletState, NEW A \in SUBSET Accounts,
         NEW B \in SUBSET Names, NEW b \in Nat
  PROVE  PutAll(t, Sync(t, s, A, B, b), s, Queued(A, s), b)
<1> DEFINE Q == Queued(A, s)
           u == FoldSet(LAMBDA a, v : SyncAccount(v, s, a, b), t, Q)
           w == FoldSet(LAMBDA n, v : SyncUsername(v, s, n), u, B)
<1>1. Q \in SUBSET Accounts
  BY QueueHolds
<1> HIDE DEF Q
<1>2. PutAll(t, u, s, Q, b)
  BY <1>1, SyncAccountsPut
<1>3. Sync(t, s, A, B, b) = w
  BY DEF Sync, Q
<1> HIDE DEF u
<1>4. u \in GoodTables
  BY <1>2 DEF PutAll
<1>5. Beside(u, w)
  BY <1>4, SyncUsernamesBeside
<1> HIDE DEF w
<1> QED BY <1>2, <1>3, <1>5 DEF PutAll, Beside, Rows, Q

-----------------------------------------------------------------------------
(***************************************************************************)
(* The pallet.                                                             *)
(***************************************************************************)
LEMMA CallFields ==
  ASSUME NEW c \in PalletCalls
  PROVE  /\ c.op \in {"idle", "set", "clear", "subs", "quit", "grant", "queue", "prefer",
                      "expire", "unbind", "remove"}
         /\ c.op \in {"set", "clear", "subs", "quit", "grant", "queue", "prefer"} => c.who \in Accounts
         /\ c.op \in {"grant", "queue", "prefer", "expire", "unbind", "remove"} => c.name \in Names
         /\ c.op = "set" => c.raw \in Raws
BY DEF PalletCalls, IdleCall, IdentityCalls, SubCalls, NameCalls

LEMMA AfterTyped ==
  ASSUME NEW s \in PalletState, NEW c \in PalletCalls, Allowed(c, s)
  PROVE  After(c, s) \in PalletState
<1>1. CASE c.op \in {"idle", "set", "queue", "expire", "unbind", "prefer", "quit"}
  BY <1>1, CallFields DEF After, PalletState
<1>2. CASE c.op \in {"clear", "subs"}
  <2>1. \A list : SetSubs(s, c.who, list) \in [Accounts -> Accounts \cup {None}]
    BY <1>2, CallFields DEF SetSubs, PalletState
  <2> QED BY <1>2, <2>1, CallFields DEF After, PalletState
<1>3. CASE c.op = "grant"
  BY <1>3, CallFields DEF After, PalletState
<1>4. CASE c.op = "remove"
  BY <1>4, CallFields DEF After, PalletState
<1> QED BY <1>1, <1>2, <1>3, <1>4, CallFields

LEMMA TouchedTyped ==
  ASSUME NEW s \in PalletState, NEW c \in PalletCalls, Allowed(c, s)
  PROVE  TouchedAccounts(c, s) \in SUBSET Accounts /\ TouchedNames(c) \in SUBSET Names
<1>1. TouchedAccounts(c, s) \in SUBSET Accounts
  BY CallFields, StateFields DEF TouchedAccounts, Allowed
<1>2. TouchedNames(c) \in SUBSET Names
  BY CallFields DEF TouchedNames
<1> QED BY <1>1, <1>2

(* A registration changes in a block that touches its account.             *)
LEMMA ChangeTouches ==
  ASSUME NEW s \in PalletState, NEW c \in PalletCalls, NEW a \in Accounts,
         a \notin TouchedAccounts(c, s)
  PROVE  After(c, s).identity[a] = s.identity[a]
<1>1. CASE c.op \in {"set", "clear"}
  BY <1>1, CallFields DEF After, PalletState, TouchedAccounts
<1>2. CASE c.op \notin {"set", "clear"}
  BY <1>2, CallFields DEF After, PalletState
<1> QED BY <1>1, <1>2

(***************************************************************************)
(* The chain: every block's call was allowed and left its state.           *)
(***************************************************************************)
OnChain ==
  /\ origin \in PalletState
  /\ chain \in Seq([call : PalletCalls, state : PalletState])
  /\ \A b \in 1 .. Height : /\ Allowed(chain[b].call, StateAt(b - 1))
                            /\ chain[b].state = After(chain[b].call, StateAt(b - 1))

TrueOf(x, a) == StateAt(x).identity[a]

LEMMA BlocksTyped ==
  ASSUME OnChain
  PROVE  /\ Height \in Nat
         /\ \A b \in 0 .. Height : StateAt(b) \in PalletState
         /\ \A b \in 0 .. Height, a \in Accounts : TrueOf(b, a) \in Raws \cup {None}
         /\ \A b \in 1 .. Height : /\ chain[b].call \in PalletCalls
                                   /\ Touched(b) \in SUBSET Accounts /\ Renamed(b) \in SUBSET Names
<1>1. Height \in Nat /\ \A b \in 1 .. Height : chain[b] \in [call : PalletCalls, state : PalletState]
  <2> DEFINE E == [call : PalletCalls, state : PalletState]
  <2>1. chain \in Seq(E)
    BY DEF OnChain
  <2> HIDE DEF E
  <2>2. Len(chain) \in Nat /\ \A b \in 1 .. Len(chain) : chain[b] \in E
    BY <2>1
  <2> QED BY <2>2 DEF E, Height
<1>2. \A b \in 0 .. Height : StateAt(b) \in PalletState
  BY <1>1 DEF OnChain, StateAt
<1>3. \A b \in 1 .. Height : /\ chain[b].call \in PalletCalls
                             /\ Touched(b) \in SUBSET Accounts /\ Renamed(b) \in SUBSET Names
  <2> SUFFICES ASSUME NEW b \in 1 .. Height
               PROVE  /\ chain[b].call \in PalletCalls
                      /\ Touched(b) \in SUBSET Accounts /\ Renamed(b) \in SUBSET Names
    OBVIOUS
  <2>1. chain[b].call \in PalletCalls /\ b - 1 \in 0 .. Height /\ Allowed(chain[b].call, StateAt(b - 1))
    BY <1>1 DEF OnChain
  <2>2. StateAt(b - 1) \in PalletState
    BY <1>2, <2>1
  <2> QED BY <2>1, <2>2, TouchedTyped DEF Touched, Renamed
<1>4. \A b \in 0 .. Height, a \in Accounts : TrueOf(b, a) \in Raws \cup {None}
  BY <1>2, StateFields DEF TrueOf
<1> QED BY <1>1, <1>2, <1>3, <1>4

LEMMA UntouchedBlock ==
  ASSUME OnChain, NEW b \in 1 .. Height, NEW a \in Accounts, a \notin Touched(b)
  PROVE  TrueOf(b, a) = TrueOf(b - 1, a)
<1>1. chain[b].call \in PalletCalls /\ b - 1 \in 0 .. Height /\ b # 0
  BY BlocksTyped
<1>2. StateAt(b - 1) \in PalletState
  BY <1>1, BlocksTyped
<1>3. StateAt(b) = After(chain[b].call, StateAt(b - 1))
  BY <1>1 DEF OnChain, StateAt
<1> QED BY <1>1, <1>2, <1>3, ChangeTouches DEF TrueOf, Touched

LEMMA SameBetween ==
  ASSUME OnChain, NEW x \in Nat, NEW y \in Nat, x <= y, y <= Height, NEW a \in Accounts,
         \A m \in (x + 1) .. y : a \notin Touched(m)
  PROVE  TrueOf(y, a) = TrueOf(x, a)
<1> DEFINE S == {n \in Nat : x + n <= y => TrueOf(x + n, a) = TrueOf(x, a)}
<1>1. 0 \in S
  OBVIOUS
<1>2. ASSUME NEW n \in Nat, n \in S PROVE n + 1 \in S
  <2> SUFFICES ASSUME x + (n + 1) <= y PROVE TrueOf(x + (n + 1), a) = TrueOf(x, a)
    OBVIOUS
  <2> DEFINE b == x + (n + 1)
  <2>1. b \in 1 .. Height /\ b \in (x + 1) .. y /\ b - 1 = x + n /\ x + n <= y
    BY BlocksTyped
  <2> HIDE DEF b
  <2>2. TrueOf(b, a) = TrueOf(b - 1, a)
    BY <2>1, UntouchedBlock
  <2> QED BY <1>2, <2>1, <2>2 DEF b
<1> HIDE DEF S
<1>3. y - x \in S
  BY <1>1, <1>2, SetInduction
<1> QED BY <1>3 DEF S

-----------------------------------------------------------------------------
(***************************************************************************)
(* The handling of blocks.                                                 *)
(***************************************************************************)
LEMMA HandledPuts ==
  ASSUME OnChain, NEW t \in GoodTables, NEW b \in 1 .. Height
  PROVE  \E Q : Touched(b) \subseteq Q /\ PutAll(t, Handled(t, b), StateAt(b), Q, b)
<1>1. Touched(b) \in SUBSET Accounts /\ Renamed(b) \in SUBSET Names /\ StateAt(b) \in PalletState /\ b \in Nat
  BY BlocksTyped
<1>2. PutAll(t, Handled(t, b), StateAt(b), Queued(Touched(b), StateAt(b)), b)
  BY <1>1, SyncPuts DEF Handled
<1> QED BY <1>1, <1>2, QueueHolds

(* A block after all others, for one account.                              *)
LEMMA PutOrKept ==
  ASSUME OnChain, NEW t \in GoodTables, NEW u, NEW Q, NEW n \in 0 .. Height, NEW a \in Accounts,
         PutAll(t, u, StateAt(n), Q, n), OneOpen(Rows(t, a)), Before(Rows(t, a), n)
  PROVE  /\ OneOpen(Rows(u, a)) /\ Before(Rows(u, a), n)
         /\ \A v : \A x \in Int : x < n /\ Tells(Rows(t, a), x, v) => Tells(Rows(u, a), x, v)
         /\ a \in Q \/ OpenTells(Rows(t, a), TrueOf(n, a)) =>
              OpenTells(Rows(u, a), TrueOf(n, a)) /\ Tells(Rows(u, a), n, TrueOf(n, a))
<1> DEFINE R == Rows(t, a)
           S == Rows(u, a)
           v == TrueOf(n, a)
<1>1. n \in Nat /\ v \in Raws \cup {None} /\ R \in SUBSET IdentityRow /\ S \in SUBSET IdentityRow
  BY BlocksTyped DEF GoodTables, TableType, PutAll, Rows
<1>2. S = IF a \in Q THEN PutRows(a, R, n, v) ELSE R
  BY DEF PutAll, TrueOf
<1> HIDE DEF R, S, v
<1>3. OneOpen(R) /\ Before(R, n)
  BY DEF R
<1>4. CASE a \in Q
  <2>1. OneOpen(S) /\ Before(S, n) /\ OpenTells(S, v)
    BY <1>1, <1>2, <1>3, <1>4, PutAfter
  <2>2. \A w : \A x \in Int : x < n /\ Tells(R, x, w) => Tells(S, x, w)
    BY <1>1, <1>2, <1>3, <1>4, PutAfter
  <2>3. Tells(S, n, v)
    BY <1>1, <2>1, OpenTellsNext
  <2> QED BY <2>1, <2>2, <2>3 DEF R, S, v
<1>5. CASE a \notin Q
  <2>1. OpenTells(R, v) => Tells(R, n, v)
    BY <1>1, <1>3, OpenTellsNext
  <2>2. S = R
    BY <1>2, <1>5
  <2> QED BY <1>3, <1>5, <2>1, <2>2 DEF R, S, v
<1> QED BY <1>4, <1>5

(* The handler goes block by block.                                        *)
LEMMA HandledInTurn ==
  ASSUME OnChain, tables \in GoodTables, NEW from \in 1 .. Height, NEW to \in from .. Height
  PROVE  \E h \in [(from - 1) .. to -> GoodTables] :
            /\ HandledTo(from, to) = h[to] /\ h[from - 1] = tables
            /\ \A b \in from .. to : h[b] = Handled(h[b - 1], b)
<1> DEFINE X == (from - 1) .. to
           Is(f) == f = [b \in X |-> IF b < from THEN tables ELSE Handled(f[b - 1], b)]
           rank == [b \in X |-> b - (from - 1)]
           prev == [b \in X |-> IF b < from THEN b ELSE b - 1]
           base == [b \in X |-> tables]
           step == [b \in X |-> [t \in GoodTables |-> IF b < from THEN t ELSE Handled(t, b)]]
           f == CHOOSE f : Is(f)
<1>1. HandledTo(from, to) = f[to]
  BY DEF HandledTo
<1>2. from \in Int /\ to \in Int /\ Height \in Nat /\ from <= to
  BY BlocksTyped
<1>3. Ranked(X, rank, prev)
  BY <1>2 DEF Ranked
<1>4. \A b \in X : /\ rank[b] = 0 <=> b < from
                   /\ base[b] = tables
                   /\ ~(b < from) => prev[b] = b - 1 /\ b - 1 \in X /\ b \in 1 .. Height
  BY <1>2
<1>5. ASSUME NEW b \in X, NEW t \in GoodTables, ~(b < from) PROVE Handled(t, b) \in GoodTables
  BY <1>4, <1>5, HandledPuts DEF PutAll
<1>6. base \in [X -> GoodTables] /\ step \in [X -> [GoodTables -> GoodTables]]
  BY <1>5
<1>7. \A b \in X, t \in GoodTables : ~(b < from) => step[b][t] = Handled(t, b)
  OBVIOUS
<1> HIDE DEF X, rank, prev, base, step
<1>8. PICK g \in [X -> GoodTables] : \A b \in X : Follows(X, rank, prev, base, step, g, b)
  BY <1>3, <1>6, RankRecursion
<1>9. ASSUME NEW b \in X PROVE g[b] = IF b < from THEN tables ELSE Handled(g[b - 1], b)
  <2>1. g[b] = IF b < from THEN tables ELSE step[b][g[prev[b]]]
    BY <1>4, <1>8 DEF Follows
  <2>2. CASE ~(b < from)
    <3>1. prev[b] = b - 1 /\ g[b - 1] \in GoodTables
      BY <1>4, <1>8, <2>2
    <3>2. step[b][g[b - 1]] = Handled(g[b - 1], b)
      BY <1>7, <2>2, <3>1
    <3> QED BY <2>1, <2>2, <3>1, <3>2
  <2> QED BY <2>1, <2>2
<1>10. Is(g)
  <2>1. g = [b \in X |-> g[b]]
    BY <1>8
  <2> QED BY <1>9, <2>1, Zenon
<1>11. Is(f)
  BY <1>10
<1> HIDE DEF f
<1>12. \A b \in X : f[b] = IF b < from THEN tables ELSE Handled(f[b - 1], b)
  BY <1>11
<1> DEFINE G == {b \in X : f[b] \in GoodTables}
<1>13. \A b \in X : rank[b] = 0 => b \in G
  BY <1>4, <1>12
<1>14. \A b \in X : rank[b] # 0 /\ prev[b] \in G => b \in G
  BY <1>4, <1>5, <1>12
<1> HIDE DEF G
<1>15. X \subseteq G
  BY <1>3, <1>13, <1>14, RankInduction
<1>16. f \in [X -> GoodTables]
  <2>1. f = [b \in X |-> f[b]]
    BY <1>11, <1>12, Zenon
  <2>2. \A b \in X : f[b] \in GoodTables
    BY <1>15 DEF G
  <2> QED BY <2>1, <2>2
<1>17. f[from - 1] = tables /\ \A b \in from .. to : f[b] = Handled(f[b - 1], b)
  BY <1>2, <1>12 DEF X
<1> QED BY <1>1, <1>16, <1>17 DEF X

-----------------------------------------------------------------------------
(***************************************************************************)
(* The history.  Rows were last brought up to date at Edge: by the last    *)
(* block, or by a sweep before the first.                                  *)
(***************************************************************************)
Edge == IF at \in indexed THEN at ELSE snapshot

Phases ==
  /\ source \in {"rpc", "light"}
  /\ stage \in {"off", "identities", "names", "primaries", "subs", "finish", "run"}
  /\ stage \in {"identities", "names", "primaries", "subs", "finish"} => ~seeded
  /\ stage = "run" => seeded
  /\ ~seeded => indexed = {}
  /\ oldest # None => oldest \in 0 .. Edge
  /\ seeded \/ stage \in {"names", "primaries", "subs", "finish"} => oldest # None
  /\ snapshot \in 0 .. Height /\ at \in Int /\ at <= Height
  /\ source = "rpc" => /\ indexed = 1 .. at /\ at >= 0 /\ snapshot <= at
                       /\ oldest \in {None, 0}
  /\ source = "light" => IF indexed = {} THEN at = -1 ELSE at \in indexed /\ indexed \subseteq 1 .. at

(* What was indexed reads true; before that, the open rows are those of a  *)
(* block no older than the first sweep.                                    *)
Told(R, a) == \A x \in indexed : StaleAt(a, x) \/ Tells(R, x, TrueOf(x, a))

SweptRows(R, a) ==
  at \notin indexed =>
    \/ R = {} /\ stage \in {"off", "identities"} /\ ~seeded
    \/ oldest # None /\ \E q \in oldest .. snapshot : OpenTells(R, TrueOf(q, a))

AccountInv(a) ==
  LET R == Rows(tables, a) IN Before(R, Edge) /\ Told(R, a) /\ SweptRows(R, a)

HistoryInv ==
  /\ OnChain /\ Phases /\ tables \in GoodTables /\ tables.ok
  /\ \A a \in Accounts : AccountInv(a)

LEMMA AliasFound ==
  ASSUME NEW t \in GoodTables, NEW a \in Accounts, NEW b \in Nat, NEW v \in Raws \cup {None},
         Tells(Rows(t, a), b, v)
  PROVE  AliasAt(t, a, b) = v
<1> DEFINE rows == {r \in t.identities : r.account = a /\ r.from <= b /\ (r.to = None \/ r.to >= b)}
           F == {b - r.from : r \in rows}
<1>1. /\ \A r \in rows : r \in Rows(t, a) /\ Covers(r, b)
      /\ \A r \in Rows(t, a) : Covers(r, b) => r \in rows
  BY DEF Rows, Covers
<1>2. AliasAt(t, a, b) = IF rows = {} THEN None
                         ELSE (CHOOSE r \in rows : \A other \in rows : r.from >= other.from).raw
  BY DEF AliasAt
<1>3. \A r \in rows : r.raw = v /\ v # None /\ r.from \in Nat /\ r.from <= b
  <2>1. Rows(t, a) \in SUBSET IdentityRow
    BY DEF GoodTables, TableType, Rows
  <2> QED BY <1>1, <2>1, RowFields DEF Tells, Covers
<1>4. CASE rows = {}
  BY <1>1, <1>2, <1>4 DEF Tells
<1>5. CASE rows # {}
  <2>1. F \in SUBSET Nat /\ F # {}
    BY <1>3, <1>5
  <2>2. PICK least \in F : \A y \in F : least <= y
    BY <2>1, LeastOf
  <2> HIDE DEF rows
  <2>3. PICK r \in rows : least = b - r.from
    BY <2>2
  <2>4. \A other \in rows : r.from >= other.from
    <3>1. \A other \in rows : b - other.from \in F
      OBVIOUS
    <3>2. \A other \in rows : b - r.from <= b - other.from
      BY <2>2, <2>3, <3>1
    <3> QED BY <1>3, <3>2
  <2>5. (CHOOSE q \in rows : \A other \in rows : q.from >= other.from) \in rows
    BY <2>4
  <2> QED BY <1>2, <1>3, <1>5, <2>5
<1> QED BY <1>4, <1>5

LEMMA HistoryFollows == HistoryInv => HistoryTrue
<1> SUFFICES ASSUME HistoryInv, NEW b \in indexed, NEW a \in Accounts, ~StaleAt(a, b)
             PROVE  AliasAt(tables, a, b) = StateAt(b).identity[a]
  BY DEF HistoryTrue
<1>1. b \in 1 .. Height /\ b \in Nat
  BY BlocksTyped DEF HistoryInv, Phases
<1>2. Tells(Rows(tables, a), b, TrueOf(b, a)) /\ TrueOf(b, a) \in Raws \cup {None}
  BY <1>1, BlocksTyped DEF HistoryInv, AccountInv, Told
<1> QED BY <1>1, <1>2, AliasFound DEF HistoryInv, TrueOf

LEMMA HistoryStarts == Init => HistoryInv
<1> SUFFICES ASSUME Init PROVE HistoryInv
  OBVIOUS
<1>1. Height = 0 /\ chain = <<>>
  BY DEF Init, Height
<1>2. OnChain
  BY <1>1, ProjectionAssumption DEF Init, OnChain
<1>3. /\ oldest = None /\ snapshot = 0 /\ stage = "off" /\ seeded = FALSE /\ indexed = {}
      /\ source \in {"rpc", "light"} /\ at = IF source = "rpc" THEN 0 ELSE -1
  BY ProjectionAssumption DEF Init
<1>4. Phases
  BY <1>1, <1>3 DEF Phases, Edge
<1>5. EmptyTables \in TableType
  BY DEF EmptyTables, TableType, NameRow, NoName
<1>6. \A a \in Accounts : Rows(tables, a) = {}
  BY DEF Init, EmptyTables, Rows
<1>7. tables \in GoodTables /\ tables.ok
  <2>1. tables = EmptyTables /\ tables.identities = {} /\ tables.ok
    BY DEF Init, EmptyTables
  <2>2. IsFiniteSet(tables.identities)
    BY <2>1, FS_EmptySet
  <2>3. \A a \in Accounts : OneOpen(Rows(tables, a))
    BY <1>6 DEF OneOpen
  <2> QED BY <1>5, <2>1, <2>2, <2>3 DEF GoodTables
<1>8. \A a \in Accounts : AccountInv(a)
  BY <1>3, <1>6 DEF AccountInv, Before, Told, SweptRows
<1> QED BY <1>2, <1>4, <1>7, <1>8 DEF HistoryInv

LEMMA SameRows ==
  ASSUME NEW t, NEW u, u.identities = t.identities, NEW a
  PROVE  Rows(u, a) = Rows(t, a)
BY DEF Rows

LEMMA SameChainState ==
  ASSUME UNCHANGED <<origin, chain>>
  PROVE  /\ Height' = Height /\ (OnChain => OnChain')
         /\ \A b : StateAt(b)' = StateAt(b) /\ Touched(b)' = Touched(b)
         /\ \A b, a : TrueOf(b, a)' = TrueOf(b, a)
BY DEF Height, OnChain, StateAt, Touched, TrueOf

(* Steps that only move the process.                                       *)
LEMMA HistoryMoves ==
  ASSUME HistoryInv, UNCHANGED <<origin, chain, source, tables, at, indexed, oldest>>,
         Phases', snapshot <= snapshot',
         ~seeded /\ stage \in {"off", "identities"} => ~seeded' /\ stage' \in {"off", "identities"}
  PROVE  HistoryInv'
<1>1. OnChain' /\ \A b, a : TrueOf(b, a)' = TrueOf(b, a)
  BY SameChainState DEF HistoryInv
<1>2. \A a, b : StaleAt(a, b)' = StaleAt(a, b)
  BY SameChainState DEF StaleAt, Missed
<1>3. Edge \in Int /\ Edge' \in Int /\ Edge <= Edge' /\ snapshot \in Int /\ snapshot' \in Int
  BY BlocksTyped, SameChainState DEF HistoryInv, Phases, Edge
<1>4. ASSUME NEW a \in Accounts PROVE AccountInv(a)'
  <2> DEFINE R == Rows(tables, a)
  <2>1. R' = R /\ \A r \in R : r.from \in Nat /\ (r.to # None => r.to \in Int)
    <3>1. R \in SUBSET IdentityRow
      BY DEF HistoryInv, GoodTables, TableType, Rows
    <3> QED BY <3>1, RowFields
  <2>2. Before(R, Edge) /\ Told(R, a) /\ SweptRows(R, a)
    BY DEF HistoryInv, AccountInv
  <2> HIDE DEF R
  <2>3. Before(R', Edge')
    BY <1>3, <2>1, <2>2 DEF Before
  <2>4. Told(R, a)'
    BY <1>1, <1>2, <2>1, <2>2 DEF Told
  <2>5. SweptRows(R, a)'
    <3>1. CASE at \in indexed
      BY <3>1 DEF SweptRows
    <3>2. CASE at \notin indexed /\ R = {} /\ stage \in {"off", "identities"} /\ ~seeded
      BY <2>1, <3>2 DEF SweptRows
    <3>3. CASE oldest # None /\ \E q \in oldest .. snapshot : OpenTells(R, TrueOf(q, a))
      <4>1. PICK q \in oldest .. snapshot : OpenTells(R, TrueOf(q, a))
        BY <3>3
      <4>2. oldest \in Int
        BY <3>3 DEF HistoryInv, Phases
      <4>3. q \in oldest .. snapshot' /\ OpenTells(R, TrueOf(q, a)')
        BY <1>1, <1>3, <4>1, <4>2
      <4> QED BY <2>1, <3>3, <4>3 DEF SweptRows
    <3> QED BY <2>2, <3>1, <3>2, <3>3 DEF SweptRows
  <2> QED BY <2>1, <2>3, <2>4, <2>5 DEF AccountInv, R
<1> QED BY <1>1, <1>4 DEF HistoryInv

LEMMA HistoryKept ==
  ASSUME HistoryInv,
         Start \/ FinishBootstrap \/ PersistReads \/ CaughtUp \/ Kill \/ PowerCut \/ UNCHANGED vars
  PROVE  HistoryInv'
<1>1. UNCHANGED <<origin, chain, source, tables, at, indexed, oldest>>
  BY DEF Start, FinishBootstrap, PersistReads, CaughtUp, Kill, PowerCut, vars, chainVars, tableVars,
         processVars
<1>2. Height' = Height /\ Height \in Nat /\ Phases
  BY <1>1, SameChainState, BlocksTyped DEF HistoryInv
<1>3. CASE Start
  <2>1. /\ stage = "off" /\ stage' = (IF seeded THEN "run" ELSE "identities") /\ seeded' = seeded
        /\ snapshot' = IF source = "rpc" THEN at ELSE Height
    BY <1>3 DEF Start, tableVars
  <2>2. snapshot <= snapshot' /\ snapshot' \in 0 .. Height
    BY <1>2, <2>1 DEF Phases
  <2>3. Phases'
    BY <1>1, <1>2, <2>1, <2>2 DEF Phases, Edge
  <2> QED BY <1>1, <2>1, <2>2, <2>3, HistoryMoves
<1>4. CASE FinishBootstrap
  <2>1. stage = "finish" /\ stage' = "run" /\ seeded' = TRUE /\ snapshot' = snapshot
    BY <1>4 DEF FinishBootstrap
  <2>2. Phases' /\ snapshot <= snapshot'
    BY <1>1, <1>2, <2>1 DEF Phases, Edge
  <2> QED BY <1>1, <2>1, <2>2, HistoryMoves
<1>5. CASE PersistReads \/ CaughtUp \/ Kill \/ PowerCut \/ UNCHANGED vars
  <2>1. stage' \in {stage, "off"} /\ seeded' = seeded /\ snapshot' = snapshot
    BY <1>5 DEF PersistReads, CaughtUp, Kill, PowerCut, vars, tableVars, processVars
  <2>2. Phases' /\ snapshot <= snapshot'
    BY <1>1, <1>2, <2>1 DEF Phases, Edge
  <2> QED BY <1>1, <2>1, <2>2, HistoryMoves
<1> QED BY <1>3, <1>4, <1>5

-----------------------------------------------------------------------------
(***************************************************************************)
(* The sweeps.                                                             *)
(***************************************************************************)
LEMMA SweepPhases ==
  ASSUME HistoryInv, NEW t, NEW next, Swept(t, next),
         \/ stage = "identities" /\ next = "names"
         \/ stage = "names" /\ next = "primaries"
         \/ stage = "primaries" /\ next = "subs"
         \/ stage = "subs" /\ next = "finish"
  PROVE  /\ UNCHANGED <<origin, chain, source, at, indexed, seeded, snapshot>>
         /\ Phases' /\ OnChain' /\ indexed = {} /\ Edge = snapshot /\ Edge' = snapshot
         /\ oldest' # None /\ (oldest # None => oldest' = oldest) /\ (oldest = None => oldest' = snapshot)
         /\ oldest' \in 0 .. snapshot /\ snapshot \in 0 .. Height
         /\ t.ok => tables' = t /\ stage' = next
         /\ ~t.ok => tables' = tables /\ stage' = "off"
         /\ \A b, a : TrueOf(b, a)' = TrueOf(b, a)
<1>1. /\ UNCHANGED <<origin, chain, source, at, indexed, seeded, snapshot>>
      /\ oldest' = IF oldest = None THEN snapshot ELSE oldest
      /\ t.ok => tables' = t /\ stage' = next
      /\ ~t.ok => tables' = tables /\ stage' = "off"
  BY DEF Swept, chainVars
<1>2. Phases /\ ~seeded /\ indexed = {} /\ Edge = snapshot
  BY DEF HistoryInv, Phases, Edge
<1>3. /\ Height' = Height /\ Height \in Nat /\ OnChain'
      /\ \A b, a : TrueOf(b, a)' = TrueOf(b, a)
  BY <1>1, SameChainState, BlocksTyped DEF HistoryInv
<1>4. Edge' = snapshot
  BY <1>1, <1>2 DEF Edge
<1>5. oldest' \in 0 .. snapshot /\ oldest' # None /\ snapshot \in 0 .. Height
  BY <1>1, <1>2, NoneIsNoBlock DEF Phases
<1>6. source = "rpc" => oldest' = 0
  <2>1. source = "rpc" => at = 0
    BY <1>2 DEF Phases
  <2> QED BY <1>2, <1>5, <2>1 DEF Phases
<1>7. Phases'
  BY <1>1, <1>2, <1>3, <1>4, <1>5, <1>6 DEF Phases
<1> QED BY <1>1, <1>2, <1>3, <1>4, <1>5, <1>7

LEMMA SweepsIdentities == ASSUME HistoryInv, SweepIdentities PROVE HistoryInv'
<1> DEFINE s == StateAt(snapshot)
           Q == {a \in Accounts : s.identity[a] # None}
           t == FoldSet(LAMBDA a, u : PutIdentity(u, a, snapshot, s.identity[a]), tables, Q)
<1>1. stage = "identities" /\ Swept(t, "names")
  BY DEF SweepIdentities
<1> HIDE DEF t
<1>2. /\ UNCHANGED <<origin, chain, source, at, indexed, seeded, snapshot>>
      /\ Phases' /\ OnChain' /\ indexed = {} /\ Edge = snapshot /\ Edge' = snapshot
      /\ oldest' # None /\ (oldest # None => oldest' = oldest) /\ (oldest = None => oldest' = snapshot)
      /\ oldest' \in 0 .. snapshot /\ snapshot \in 0 .. Height
      /\ t.ok => tables' = t /\ stage' = "names"
      /\ ~t.ok => tables' = tables /\ stage' = "off"
      /\ \A b, a : TrueOf(b, a)' = TrueOf(b, a)
  BY <1>1, SweepPhases
<1>3. OnChain /\ tables \in GoodTables /\ tables.ok /\ s \in PalletState /\ snapshot \in Nat
  BY <1>2, BlocksTyped DEF HistoryInv
<1>4. PutAll(tables, t, s, Q, snapshot)
  <2>1. Q \in SUBSET Accounts
    OBVIOUS
  <2> HIDE DEF s, Q
  <2> QED BY <1>3, <2>1, PutIdentitiesPut DEF t
<1>5. tables' \in GoodTables /\ tables'.ok
  BY <1>2, <1>3, <1>4 DEF PutAll
<1>6. ASSUME NEW a \in Accounts PROVE AccountInv(a)'
  <2> DEFINE R == Rows(tables, a)
             v == TrueOf(snapshot, a)
  <2>0. PICK S : S = Rows(tables', a)
    OBVIOUS
  <2>1. Before(R, snapshot) /\ OneOpen(R) /\ SweptRows(R, a)
    BY <1>2, <1>3 DEF HistoryInv, AccountInv, GoodTables
  <2>2. Before(S, snapshot) /\ (a \in Q /\ t.ok => OpenTells(S, v))
    <3>1. CASE t.ok
      BY <1>2, <1>3, <1>4, <2>0, <2>1, <3>1, PutOrKept
    <3>2. CASE ~t.ok
      BY <1>2, <2>0, <2>1, <3>2
    <3> QED BY <3>1, <3>2
  <2>3. a \notin Q \/ ~t.ok => S = R
    BY <1>2, <1>4, <2>0 DEF PutAll
  <2>4. a \notin Q => v = None
    BY DEF TrueOf
  <2> HIDE DEF R, v, Q
  <2>5. \/ S = {} /\ stage' = "off" /\ ~seeded'
        \/ \E q \in oldest' .. snapshot : OpenTells(S, TrueOf(q, a))
    <3>1. CASE a \in Q /\ t.ok
      BY <1>2, <2>2, <3>1 DEF v
    <3>2. CASE (a \notin Q \/ ~t.ok) /\ R = {} /\ ~seeded
      <4>1. t.ok => OpenTells(S, v)
        BY <2>3, <2>4, <3>2 DEF OpenTells
      <4> QED BY <1>2, <2>3, <3>2, <4>1 DEF v
    <3>3. CASE (a \notin Q \/ ~t.ok) /\ oldest # None /\ \E q \in oldest .. snapshot : OpenTells(R, TrueOf(q, a))
      BY <1>2, <2>3, <3>3
    <3> QED BY <1>2, <2>1, <3>1, <3>2, <3>3 DEF SweptRows
  <2>6. SweptRows(S, a)'
    BY <1>2, <2>5 DEF SweptRows
  <2>7. Told(S, a)'
    BY <1>2 DEF Told
  <2> QED BY <1>2, <2>0, <2>2, <2>6, <2>7 DEF AccountInv, Rows
<1> QED BY <1>2, <1>5, <1>6 DEF HistoryInv

LEMMA SweepsOthers ==
  ASSUME HistoryInv, SweepUsernames \/ SweepPrimaries \/ SweepSubs
  PROVE  HistoryInv'
<1>1. PICK t, next : /\ Swept(t, next) /\ Beside(tables, t)
                     /\ \/ stage = "names" /\ next = "primaries"
                        \/ stage = "primaries" /\ next = "subs"
                        \/ stage = "subs" /\ next = "finish"
  <2> DEFINE s == StateAt(snapshot)
  <2>1. s \in PalletState /\ tables \in GoodTables
    BY BlocksTyped DEF HistoryInv, Phases
  <2>2. CASE SweepUsernames
    <3> DEFINE Q == {n \in Names : s.owner[n] # None}
               t == FoldSet(LAMBDA n, u : PutUsername(u, n, s.owner[n], "active"), tables, Q)
    <3>1. stage = "names" /\ Swept(t, "primaries")
      BY <2>2 DEF SweepUsernames
    <3>2. Beside(tables, t)
      <4>1. Q \in SUBSET Names
        OBVIOUS
      <4> HIDE DEF s, Q
      <4> QED BY <2>1, <4>1, PutUsernamesBeside
    <3> QED BY <3>1, <3>2
  <2>3. CASE SweepPrimaries
    <3> DEFINE Q == {a \in Accounts : s.primary[a] # None}
               t == FoldSet(LAMBDA a, u : SetPrimaryUsername(u, a, s.primary[a]), tables, Q)
    <3>1. stage = "primaries" /\ Swept(t, "subs")
      BY <2>3 DEF SweepPrimaries
    <3>2. Beside(tables, t)
      <4>1. Q \in SUBSET Accounts
        OBVIOUS
      <4> HIDE DEF s, Q
      <4> QED BY <2>1, <4>1, SetPrimariesBeside
    <3> QED BY <3>1, <3>2
  <2>4. CASE SweepSubs
    <3> DEFINE Q == {a \in Accounts : s.super[a] # None}
               t == FoldSet(LAMBDA a, u : PutSub(u, a, s.super[a]), tables, Q)
    <3>1. stage = "subs" /\ Swept(t, "finish")
      BY <2>4 DEF SweepSubs
    <3>2. Beside(tables, t)
      <4>1. Q \in SUBSET Accounts
        OBVIOUS
      <4> HIDE DEF s, Q
      <4> QED BY <2>1, <4>1, PutSubsBeside
    <3> QED BY <3>1, <3>2
  <2> QED BY <2>2, <2>3, <2>4
<1>2. /\ UNCHANGED <<origin, chain, source, at, indexed, seeded, snapshot>>
      /\ Phases' /\ OnChain' /\ indexed = {} /\ Edge = snapshot /\ Edge' = snapshot
      /\ oldest' # None /\ (oldest # None => oldest' = oldest)
      /\ t.ok => tables' = t /\ stage' = next
      /\ ~t.ok => tables' = tables /\ stage' = "off"
      /\ \A b, a : TrueOf(b, a)' = TrueOf(b, a)
  BY <1>1, SweepPhases
<1>3. tables' \in GoodTables /\ tables'.ok /\ tables'.identities = tables.identities
  BY <1>1, <1>2 DEF Beside, HistoryInv
<1>4. oldest # None /\ stage \notin {"off", "identities"}
  BY <1>1 DEF HistoryInv, Phases
<1>5. ASSUME NEW a \in Accounts PROVE AccountInv(a)'
  <2> DEFINE R == Rows(tables, a)
  <2>1. R' = R
    BY <1>3 DEF Rows
  <2>2. Before(R, snapshot) /\ SweptRows(R, a)
    BY <1>2 DEF HistoryInv, AccountInv
  <2> HIDE DEF R
  <2>3. \E q \in oldest' .. snapshot : OpenTells(R, TrueOf(q, a))
    BY <1>2, <1>4, <2>2 DEF SweptRows
  <2>4. SweptRows(R, a)'
    BY <1>2, <2>1, <2>3 DEF SweptRows
  <2>5. Told(R, a)'
    BY <1>2 DEF Told
  <2> QED BY <1>2, <2>1, <2>2, <2>4, <2>5 DEF AccountInv, R
<1> QED BY <1>2, <1>3, <1>5 DEF HistoryInv

-----------------------------------------------------------------------------
(***************************************************************************)
(* New blocks.                                                             *)
(***************************************************************************)
LEMMA IndexedOnChain ==
  ASSUME HistoryInv
  PROVE  /\ indexed \subseteq 1 .. Height /\ \A x \in indexed : x <= at
         /\ Missed \subseteq 1 .. Height /\ \A m \in Missed : m <= at
         /\ Edge \in 0 .. Height /\ at <= Edge
<1>1. Height \in Nat /\ Phases
  BY BlocksTyped DEF HistoryInv
<1>2. indexed \subseteq 1 .. Height /\ \A x \in indexed : x <= at
  BY <1>1 DEF Phases
<1>3. Edge \in 0 .. Height /\ at <= Edge
  <2>1. CASE at \in indexed
    BY <1>1, <1>2, <2>1 DEF Phases, Edge
  <2>2. CASE at \notin indexed
    BY <1>1, <1>2, <2>2 DEF Phases, Edge
  <2> QED BY <2>1, <2>2
<1>4. Missed \subseteq 1 .. Height /\ \A m \in Missed : m <= at
  BY <1>1, <1>2 DEF Phases, Missed
<1> QED BY <1>2, <1>3, <1>4

LEMMA HistoryGrows == ASSUME HistoryInv, NEW c \in Calls, Produce(c) PROVE HistoryInv'
<1> DEFINE E == [call : PalletCalls, state : PalletState]
           e == [call |-> c, state |-> After(c, StateAt(Height))]
<1>1. /\ chain' = Append(chain, e) /\ Allowed(c, StateAt(Height))
      /\ UNCHANGED <<origin, source, tables, at, indexed, seeded, stage, snapshot, oldest>>
  BY DEF Produce, tableVars, processVars
<1>2. Height \in Nat /\ StateAt(Height) \in PalletState /\ c \in PalletCalls /\ chain \in Seq(E)
  BY BlocksTyped, ProjectionAssumption DEF HistoryInv, OnChain
<1>3. e \in E /\ e.call = c /\ e.state = After(c, StateAt(Height))
  BY <1>1, <1>2, AfterTyped
<1> HIDE DEF E, e
<1>4. /\ chain' \in Seq(E) /\ Len(chain') = Len(chain) + 1 /\ chain'[Len(chain) + 1] = e
      /\ \A b \in 1 .. Len(chain) : chain'[b] = chain[b]
  BY <1>1, <1>2, <1>3
<1>5. Height' = Height + 1
  BY <1>4 DEF Height
<1>6. \A b \in 0 .. Height : StateAt(b)' = StateAt(b) /\ \A a : TrueOf(b, a)' = TrueOf(b, a)
  BY <1>1, <1>2, <1>4 DEF StateAt, TrueOf, Height
<1>7. \A b \in 1 .. Height : Touched(b)' = Touched(b)
  <2> SUFFICES ASSUME NEW b \in 1 .. Height PROVE Touched(b)' = Touched(b)
    OBVIOUS
  <2>1. chain'[b] = chain[b] /\ b - 1 \in 0 .. Height
    BY <1>2, <1>4 DEF Height
  <2> QED BY <1>6, <2>1 DEF Touched
<1>8. OnChain'
  <2>1. ASSUME NEW b \in 1 .. Height + 1
        PROVE  /\ Allowed(chain'[b].call, StateAt(b - 1)')
               /\ chain'[b].state = After(chain'[b].call, StateAt(b - 1)')
    <3>1. CASE b = Height + 1
      <4>1. chain'[b] = e /\ StateAt(b - 1)' = StateAt(Height)
        BY <1>2, <1>4, <1>6, <3>1 DEF Height
      <4> QED BY <1>1, <1>3, <4>1
    <3>2. CASE b # Height + 1
      <4>1. b \in 1 .. Height /\ b - 1 \in 0 .. Height
        BY <1>2, <3>2
      <4>2. chain'[b] = chain[b] /\ StateAt(b - 1)' = StateAt(b - 1)
        BY <1>4, <1>6, <4>1 DEF Height
      <4> QED BY <4>1, <4>2 DEF HistoryInv, OnChain
    <3> QED BY <3>1, <3>2
  <2>2. origin' \in PalletState
    BY <1>1 DEF HistoryInv, OnChain
  <2> QED BY <1>4, <1>5, <2>1, <2>2 DEF OnChain, E
<1>9. Phases' /\ Edge' = Edge
  BY <1>1, <1>2, <1>5 DEF HistoryInv, Phases, Edge
<1>10. ASSUME NEW a \in Accounts PROVE AccountInv(a)'
  <2> DEFINE R == Rows(tables, a)
  <2>1. R' = R
    BY <1>1
  <2>2. Before(R, Edge) /\ Told(R, a) /\ SweptRows(R, a)
    BY DEF HistoryInv, AccountInv
  <2> HIDE DEF R
  <2>3. \A x \in indexed : StaleAt(a, x) => StaleAt(a, x)'
    <3>1. Missed' = Missed /\ indexed' = indexed
      BY <1>1 DEF Missed
    <3>2. \A m \in Missed \cup indexed : Touched(m)' = Touched(m)
      BY <1>7, IndexedOnChain
    <3> QED BY <3>1, <3>2 DEF StaleAt
  <2>4. \A x \in indexed : TrueOf(x, a)' = TrueOf(x, a)
    BY <1>2, <1>6, IndexedOnChain
  <2>5. Told(R, a)'
    BY <1>1, <2>1, <2>2, <2>3, <2>4 DEF Told
  <2>6. oldest # None => \A q \in oldest .. snapshot : TrueOf(q, a)' = TrueOf(q, a)
    <3>1. oldest # None => oldest \in Nat /\ snapshot \in 0 .. Height
      BY IndexedOnChain DEF HistoryInv, Phases
    <3> QED BY <1>2, <1>6, <3>1
  <2>7. SweptRows(R, a)'
    BY <1>1, <2>1, <2>2, <2>6 DEF SweptRows
  <2> QED BY <1>9, <2>1, <2>2, <2>5, <2>7 DEF AccountInv, R
<1> QED BY <1>1, <1>8, <1>9, <1>10 DEF HistoryInv

(* Before a block is indexed, after the bootstrap: the open rows of an     *)
(* account are true of some block before it, or stale, and nothing between *)
(* the two was indexed.                                                    *)
LEMMA BeforeBlock ==
  ASSUME HistoryInv, stage = "run", NEW a \in Accounts
  PROVE  /\ OneOpen(Rows(tables, a)) /\ Before(Rows(tables, a), Edge) /\ oldest \in 0 .. Edge
         /\ \/ at \in indexed /\ StaleAt(a, at)
            \/ \E q \in oldest .. Edge : /\ OpenTells(Rows(tables, a), TrueOf(q, a))
                                         /\ \A x \in indexed : x <= q
<1> DEFINE R == Rows(tables, a)
<1>1. seeded /\ oldest \in 0 .. Edge /\ oldest # None
  BY DEF HistoryInv, Phases
<1>2. OneOpen(R) /\ Before(R, Edge) /\ Told(R, a) /\ SweptRows(R, a) /\ R \in SUBSET IdentityRow
  BY DEF HistoryInv, GoodTables, TableType, AccountInv, Rows
<1> HIDE DEF R
<1>3. CASE at \in indexed /\ ~StaleAt(a, at)
  <2>1. Tells(R, at, TrueOf(at, a)) /\ Edge = at
    BY <1>2, <1>3 DEF Told, Edge
  <2>2. \A r \in R : r.to = None <=> Covers(r, at)
    <3>1. \A r \in R : r.from \in Nat /\ (r.to # None => r.to \in Int)
      BY <1>2, RowFields
    <3>2. at \in Int
      BY DEF HistoryInv, Phases
    <3> QED BY <1>2, <2>1, <3>1, <3>2 DEF Before, Covers
  <2>3. OpenTells(R, TrueOf(at, a))
    BY <2>1, <2>2 DEF OpenTells, Tells
  <2>4. at \in oldest .. Edge /\ \A x \in indexed : x <= at
    BY <1>1, <2>1, IndexedOnChain
  <2> QED BY <1>1, <1>2, <2>3, <2>4 DEF R
<1>4. CASE at \notin indexed
  <2>1. PICK q \in oldest .. snapshot : OpenTells(R, TrueOf(q, a))
    BY <1>1, <1>2, <1>4 DEF SweptRows
  <2>2. Edge = snapshot /\ indexed = {}
    <3>1. source = "rpc" => indexed = {}
      BY <1>4, BlocksTyped DEF HistoryInv, Phases
    <3>2. source = "light" => indexed = {}
      BY <1>4 DEF HistoryInv, Phases
    <3> QED BY <1>4, <3>1, <3>2 DEF Edge, HistoryInv, Phases
  <2> QED BY <1>1, <1>2, <2>1, <2>2 DEF R
<1> QED BY <1>1, <1>2, <1>3, <1>4 DEF R

LEMMA HistoryFollowsHead == ASSUME HistoryInv, NEW n \in 1 .. Height, FollowHead(n) PROVE HistoryInv'
<1> DEFINE t == Handled(tables, n)
<1>1. /\ source = "light" /\ stage = "run" /\ n \in Expected .. Height
      /\ UNCHANGED <<origin, chain, source, seeded, snapshot, oldest>>
      /\ IF t.ok
         THEN tables' = t /\ at' = n /\ indexed' = indexed \cup {n} /\ stage' = stage
         ELSE stage' = "off" /\ tables' = tables /\ at' = at /\ indexed' = indexed
  BY DEF FollowHead, chainVars
<1>2. OnChain /\ tables \in GoodTables /\ Height \in Nat /\ Phases /\ n \in Nat /\ seeded
  BY <1>1, BlocksTyped DEF HistoryInv, Phases
<1>3. PICK Q : Touched(n) \subseteq Q /\ PutAll(tables, t, StateAt(n), Q, n)
  BY <1>2, HandledPuts
<1> HIDE DEF t
<1>4. Edge <= n /\ at < n /\ Edge \in Int /\ \A x \in indexed : x < n
  <2>1. CASE indexed = {}
    <3>1. at = -1 /\ Edge = snapshot /\ snapshot <= n
      BY <1>1, <1>2, <2>1 DEF Phases, Edge, Expected
    <3> QED BY <1>2, <2>1, <3>1, IndexedOnChain
  <2>2. CASE indexed # {}
    <3>1. at \in indexed /\ indexed \subseteq 1 .. at /\ Edge = at /\ at >= 1
      BY <1>1, <1>2, <2>2 DEF Phases, Edge
    <3>2. n >= at + 1
      BY <1>1, <3>1 DEF Expected
    <3> QED BY <1>2, <3>1, <3>2
  <2> QED BY <2>1, <2>2
<1>5. /\ Height' = Height /\ OnChain'
      /\ \A b : Touched(b)' = Touched(b)
      /\ \A b, a : TrueOf(b, a)' = TrueOf(b, a)
  BY <1>1, <1>2, SameChainState
<1>6. CASE ~t.ok
  <2>1. Phases' /\ UNCHANGED <<origin, chain, source, tables, at, indexed, oldest>> /\ snapshot <= snapshot'
    BY <1>1, <1>2, <1>5, <1>6 DEF Phases, Edge
  <2> QED BY <1>2, <2>1, HistoryMoves
<1>7. CASE t.ok
  <2>1. tables' = t /\ at' = n /\ indexed' = indexed \cup {n} /\ stage' = stage
    BY <1>1, <1>7
  <2>2. Edge' = n /\ at' \in indexed'
    BY <2>1 DEF Edge
  <2>3. Phases'
    BY <1>1, <1>2, <1>4, <1>5, <2>1, <2>2 DEF Phases
  <2>4. tables' \in GoodTables /\ tables'.ok
    BY <1>3, <1>7, <2>1 DEF PutAll
  <2>5. Missed' = ((oldest + 1) .. n) \ (indexed \cup {n})
    BY <1>1, <1>2, <2>1 DEF Missed, Phases
  <2>6. Missed \subseteq Missed' /\ \A m \in Missed : m < n
    BY <1>2, <1>4, <2>5, IndexedOnChain DEF Missed, Phases
  <2>7. ASSUME NEW a \in Accounts PROVE AccountInv(a)'
    <3> DEFINE R == Rows(tables, a)
    <3>0. PICK S : S = Rows(t, a)
      OBVIOUS
    <3>1. /\ OneOpen(R) /\ Before(R, Edge) /\ oldest \in 0 .. Edge
          /\ \/ at \in indexed /\ StaleAt(a, at)
             \/ \E q \in oldest .. Edge : OpenTells(R, TrueOf(q, a)) /\ \A x \in indexed : x <= q
      BY <1>1, BeforeBlock
    <3>2. Told(R, a) /\ R \in SUBSET IdentityRow
      BY DEF HistoryInv, AccountInv, GoodTables, TableType, Rows
    <3>3. Before(R, n)
      <4>1. \A r \in R : r.from \in Nat /\ (r.to # None => r.to \in Int)
        BY <3>2, RowFields
      <4> QED BY <1>2, <1>4, <3>1, <4>1 DEF Before
    <3>4. /\ Before(S, n)
          /\ \A v : \A x \in Int : x < n /\ Tells(R, x, v) => Tells(S, x, v)
          /\ a \in Q \/ OpenTells(R, TrueOf(n, a)) => Tells(S, n, TrueOf(n, a))
      BY <1>2, <1>3, <3>0, <3>1, <3>3, PutOrKept
    <3> HIDE DEF R
    <3>5. ASSUME NEW x \in indexed PROVE StaleAt(a, x)' \/ Tells(S, x, TrueOf(x, a)')
      <4>1. x < n /\ x \in Int
        BY <1>4, IndexedOnChain
      <4>2. StaleAt(a, x) => StaleAt(a, x)'
        BY <1>5, <2>1, <2>6, <4>1 DEF StaleAt
      <4> QED BY <1>5, <3>2, <3>4, <4>1, <4>2 DEF Told
    <3>6. StaleAt(a, n)' \/ Tells(S, n, TrueOf(n, a)')
      <4>1. CASE a \in Touched(n)
        BY <1>3, <1>5, <3>4, <4>1
      <4>2. CASE a \notin Touched(n) /\ at \in indexed /\ StaleAt(a, at)
        <5>1. PICK m \in Missed : /\ m <= at /\ a \in Touched(m)
                                  /\ \A c \in indexed : m < c /\ c <= at => a \notin Touched(c)
          BY <4>2 DEF StaleAt
        <5>2. m \in Missed' /\ m <= n
          BY <1>2, <1>4, <2>6, <5>1, IndexedOnChain
        <5>3. \A c \in indexed' : m < c /\ c <= n => a \notin Touched(c)
          BY <2>1, <4>2, <5>1, IndexedOnChain
        <5> QED BY <1>5, <5>1, <5>2, <5>3 DEF StaleAt
      <4>3. CASE /\ a \notin Touched(n)
                 /\ \E q \in oldest .. Edge : OpenTells(R, TrueOf(q, a)) /\ \A x \in indexed : x <= q
        <5>1. PICK q \in oldest .. Edge : OpenTells(R, TrueOf(q, a)) /\ \A x \in indexed : x <= q
          BY <4>3
        <5>2. q \in Nat /\ q <= n /\ oldest \in Nat
          BY <1>2, <1>4, <3>1
        <5>3. CASE \A m \in (q + 1) .. n : a \notin Touched(m)
          <6>1. TrueOf(n, a) = TrueOf(q, a)
            BY <1>2, <5>2, <5>3, SameBetween
          <6> QED BY <1>5, <3>4, <5>1, <6>1
        <5>4. ASSUME NEW m \in (q + 1) .. n, a \in Touched(m) PROVE StaleAt(a, n)'
          <6>1. m # n /\ m \notin indexed /\ m \in Int /\ m >= oldest + 1 /\ m <= n
            BY <1>2, <4>3, <5>1, <5>2, <5>4
          <6>2. m \in Missed'
            BY <2>5, <5>2, <6>1
          <6>3. \A c \in indexed' : m < c /\ c <= n => a \notin Touched(c)
            <7>1. \A c \in indexed : c \in Int /\ c < m
              BY <5>1, <5>2, <6>1, IndexedOnChain
            <7> QED BY <2>1, <4>3, <6>1, <7>1
          <6> QED BY <1>5, <5>4, <6>1, <6>2, <6>3 DEF StaleAt
        <5> QED BY <5>3, <5>4
      <4> QED BY <3>1, <4>1, <4>2, <4>3
    <3>7. Told(S, a)'
      BY <2>1, <3>5, <3>6 DEF Told
    <3>8. SweptRows(S, a)'
      BY <2>2 DEF SweptRows
    <3> QED BY <2>1, <2>2, <3>0, <3>4, <3>7, <3>8 DEF AccountInv, Rows
  <2> QED BY <1>5, <2>3, <2>4, <2>7 DEF HistoryInv
<1> QED BY <1>6, <1>7

(***************************************************************************)
(* A batch, and a whole replay, of a source that sees every block.         *)
(***************************************************************************)
Caught(t, p) ==
  \A a \in Accounts :
    LET R == Rows(t, a)
    IN  /\ OneOpen(R) /\ Before(R, p) /\ OpenTells(R, TrueOf(p, a))
        /\ \A x \in 1 .. p : Tells(R, x, TrueOf(x, a))

LEMMA NoneMissed ==
  ASSUME HistoryInv, source = "rpc"
  PROVE  /\ Missed = {} /\ (seeded => at = Edge) /\ indexed = 1 .. at /\ at \in 0 .. Height
         /\ \A a \in Accounts : \A x \in 1 .. at : Tells(Rows(tables, a), x, TrueOf(x, a))
<1>1. indexed = 1 .. at /\ at \in 0 .. Height /\ oldest \in {None, 0} /\ snapshot <= at /\ snapshot \in Nat
  BY BlocksTyped DEF HistoryInv, Phases
<1>2. Missed = {}
  BY <1>1 DEF Missed
<1>3. at = Edge
  BY <1>1, BlocksTyped DEF Edge
<1>4. \A a \in Accounts : \A x \in 1 .. at : Tells(Rows(tables, a), x, TrueOf(x, a))
  BY <1>1, <1>2 DEF HistoryInv, AccountInv, Told, StaleAt
<1> QED BY <1>1, <1>2, <1>3, <1>4

LEMMA CaughtNow == ASSUME HistoryInv, source = "rpc", stage = "run" PROVE Caught(tables, at)
<1> SUFFICES ASSUME NEW a \in Accounts
             PROVE  /\ OneOpen(Rows(tables, a)) /\ Before(Rows(tables, a), at)
                    /\ OpenTells(Rows(tables, a), TrueOf(at, a))
                    /\ \A x \in 1 .. at : Tells(Rows(tables, a), x, TrueOf(x, a))
  BY DEF Caught
<1>1. /\ Missed = {} /\ at = Edge /\ indexed = 1 .. at /\ at \in 0 .. Height
      /\ \A x \in 1 .. at : Tells(Rows(tables, a), x, TrueOf(x, a))
  BY NoneMissed DEF HistoryInv, Phases
<1>2. /\ OneOpen(Rows(tables, a)) /\ Before(Rows(tables, a), Edge) /\ oldest \in 0 .. Edge
      /\ \/ at \in indexed /\ StaleAt(a, at)
         \/ \E q \in oldest .. Edge : /\ OpenTells(Rows(tables, a), TrueOf(q, a))
                                      /\ \A x \in indexed : x <= q
  BY BeforeBlock
<1>3. PICK q \in oldest .. Edge : /\ OpenTells(Rows(tables, a), TrueOf(q, a))
                                  /\ \A x \in indexed : x <= q
  BY <1>1, <1>2 DEF StaleAt
<1>4. q = at
  BY <1>1, <1>2, <1>3
<1> QED BY <1>1, <1>2, <1>3, <1>4

LEMMA CaughtNext ==
  ASSUME OnChain, NEW t \in GoodTables, NEW b \in 1 .. Height, Caught(t, b - 1)
  PROVE  Caught(Handled(t, b), b)
<1>1. PICK Q : Touched(b) \subseteq Q /\ PutAll(t, Handled(t, b), StateAt(b), Q, b)
  BY HandledPuts
<1> DEFINE u == Handled(t, b)
<1> HIDE DEF u
<1>2. ASSUME NEW a \in Accounts
      PROVE  /\ OneOpen(Rows(u, a)) /\ Before(Rows(u, a), b)
             /\ OpenTells(Rows(u, a), TrueOf(b, a))
             /\ \A x \in 1 .. b : Tells(Rows(u, a), x, TrueOf(x, a))
  <2> DEFINE R == Rows(t, a)
  <2>1. /\ OneOpen(R) /\ Before(R, b - 1) /\ OpenTells(R, TrueOf(b - 1, a))
        /\ \A x \in 1 .. (b - 1) : Tells(R, x, TrueOf(x, a))
    BY DEF Caught
  <2>2. Before(R, b)
    <3>1. R \in SUBSET IdentityRow
      BY DEF GoodTables, TableType, Rows
    <3>2. \A r \in R : r.from \in Nat /\ (r.to # None => r.to \in Int)
      BY <3>1, RowFields
    <3> QED BY <2>1, <3>2 DEF Before
  <2>3. a \in Q \/ OpenTells(R, TrueOf(b, a))
    BY <1>1, <2>1, UntouchedBlock
  <2>4. b \in 0 .. Height /\ b \in Int
    OBVIOUS
  <2>5. /\ OneOpen(Rows(u, a)) /\ Before(Rows(u, a), b)
        /\ \A v : \A x \in Int : x < b /\ Tells(R, x, v) => Tells(Rows(u, a), x, v)
        /\ OpenTells(Rows(u, a), TrueOf(b, a)) /\ Tells(Rows(u, a), b, TrueOf(b, a))
    BY <1>1, <2>1, <2>2, <2>3, <2>4, PutOrKept DEF u
  <2> HIDE DEF R
  <2>6. ASSUME NEW x \in 1 .. b PROVE Tells(Rows(u, a), x, TrueOf(x, a))
    <3>1. CASE x = b
      BY <2>5, <3>1
    <3>2. CASE x # b
      <4>1. x \in 1 .. (b - 1) /\ x < b /\ x \in Int
        BY <2>4, <3>2
      <4> QED BY <2>1, <2>5, <4>1
    <3> QED BY <3>1, <3>2
  <2> QED BY <2>5, <2>6
<1> QED BY <1>2 DEF Caught, u

LEMMA HistoryCommits == ASSUME HistoryInv, NEW to \in 1 .. Height, CommitBatch(to) PROVE HistoryInv'
<1> DEFINE t == HandledTo(at + 1, to)
<1>1. /\ source = "rpc" /\ stage = "run" /\ to \in (at + 1) .. Height
      /\ UNCHANGED <<origin, chain, source, seeded, snapshot, oldest>>
      /\ IF t.ok
         THEN tables' = t /\ at' = to /\ indexed' = indexed \cup ((at + 1) .. to) /\ stage' = stage
         ELSE stage' = "off" /\ tables' = tables /\ at' = at /\ indexed' = indexed
  BY DEF CommitBatch, chainVars
<1>2. OnChain /\ tables \in GoodTables /\ Height \in Nat /\ Phases /\ seeded
  BY <1>1, BlocksTyped DEF HistoryInv, Phases
<1>3. Missed = {} /\ at = Edge /\ indexed = 1 .. at /\ at \in 0 .. Height /\ at \in Nat /\ oldest = 0
  BY <1>1, <1>2, NoneMissed DEF Phases
<1>4. at + 1 \in 1 .. Height /\ to \in Nat
  BY <1>1, <1>2, <1>3
<1>5. PICK h \in [at .. to -> GoodTables] :
        t = h[to] /\ h[at] = tables /\ \A b \in (at + 1) .. to : h[b] = Handled(h[b - 1], b)
  <2>1. (at + 1) - 1 = at
    BY <1>3
  <2>2. \E h \in [((at + 1) - 1) .. to -> GoodTables] :
          /\ HandledTo(at + 1, to) = h[to] /\ h[(at + 1) - 1] = tables
          /\ \A b \in (at + 1) .. to : h[b] = Handled(h[b - 1], b)
    <3> HIDE DEF t
    <3> DEFINE from == at + 1
    <3>1. from \in 1 .. Height /\ to \in from .. Height
      BY <1>1, <1>4
    <3> HIDE DEF from
    <3>2. \E h \in [(from - 1) .. to -> GoodTables] :
            /\ HandledTo(from, to) = h[to] /\ h[from - 1] = tables
            /\ \A b \in from .. to : h[b] = Handled(h[b - 1], b)
      BY <1>2, <3>1, HandledInTurn
    <3> QED BY <3>2 DEF from
  <2> QED BY <2>1, <2>2
<1> HIDE DEF t
<1>6. Caught(t, to)
  <2> DEFINE S == {k \in Nat : at + k <= to => Caught(h[at + k], at + k)}
  <2>1. 0 \in S
    BY <1>1, <1>3, <1>5, CaughtNow
  <2>2. ASSUME NEW k \in Nat, k \in S PROVE k + 1 \in S
    <3> SUFFICES ASSUME at + (k + 1) <= to PROVE Caught(h[at + (k + 1)], at + (k + 1))
      OBVIOUS
    <3> DEFINE b == at + (k + 1)
    <3>1. b \in (at + 1) .. to /\ b \in 1 .. Height /\ b - 1 = at + k /\ b - 1 \in at .. to
      BY <1>1, <1>2, <1>3
    <3> HIDE DEF b
    <3>2. Caught(h[b - 1], b - 1) /\ h[b - 1] \in GoodTables
      BY <1>1, <1>5, <2>2, <3>1
    <3>3. h[b] = Handled(h[b - 1], b)
      BY <1>5, <3>1
    <3> QED BY <1>2, <3>1, <3>2, <3>3, CaughtNext DEF b
  <2> HIDE DEF S
  <2>3. to - at \in S
    BY <1>1, <1>3, <2>1, <2>2, SetInduction
  <2> QED BY <1>1, <1>3, <1>5, <2>3 DEF S
<1>7. t \in GoodTables
  BY <1>1, <1>3, <1>5
<1>8. /\ Height' = Height /\ OnChain'
      /\ \A b, a : TrueOf(b, a)' = TrueOf(b, a)
  BY <1>1, <1>2, SameChainState
<1>9. CASE ~t.ok
  <2>1. Phases' /\ UNCHANGED <<origin, chain, source, tables, at, indexed, oldest>> /\ snapshot <= snapshot'
    BY <1>1, <1>2, <1>8, <1>9 DEF Phases, Edge
  <2> QED BY <1>2, <2>1, HistoryMoves
<1>10. CASE t.ok
  <2>1. tables' = t /\ at' = to /\ stage' = stage /\ indexed' = 1 .. to /\ to > at
    <3>1. (1 .. at) \cup ((at + 1) .. to) = 1 .. to /\ to > at
      BY <1>1, <1>3, <1>4
    <3> QED BY <1>1, <1>3, <1>10, <3>1
  <2>2. Edge' = to /\ at' \in indexed'
    BY <1>3, <1>4, <2>1 DEF Edge
  <2>3. Phases'
    BY <1>1, <1>2, <1>3, <1>4, <1>8, <2>1, <2>2 DEF Phases
  <2>4. ASSUME NEW a \in Accounts PROVE AccountInv(a)'
    <3>0. PICK S : S = Rows(t, a)
      OBVIOUS
    <3>1. Before(S, to) /\ \A x \in 1 .. to : Tells(S, x, TrueOf(x, a))
      BY <1>6, <3>0 DEF Caught
    <3>2. Told(S, a)'
      BY <1>8, <2>1, <3>1 DEF Told
    <3>3. SweptRows(S, a)'
      BY <2>2 DEF SweptRows
    <3> QED BY <2>1, <2>2, <3>0, <3>1, <3>2, <3>3 DEF AccountInv, Rows
  <2> QED BY <1>7, <1>8, <1>10, <2>1, <2>3, <2>4 DEF HistoryInv
<1> QED BY <1>9, <1>10

LEMMA RewrittenNext ==
  ASSUME OnChain, NEW m \in 1 .. Height, NEW b \in 1 .. m, NEW t \in GoodTables, NEW a \in Accounts,
         NEW T \in [0 .. m -> Raws \cup {None}], \A x \in 0 .. m : T[x] = TrueOf(x, a),
         Handled(t, b).ok, t.ok => Rewritten(Rows(t, a), T, m, b - 1)
  PROVE  Rewritten(Rows(Handled(t, b), a), T, m, b)
<1> DEFINE u == Handled(t, b)
           R == Rows(t, a)
           p == b - 1
<1>0. Height \in Nat /\ m \in Nat /\ b \in 1 .. Height /\ p \in Nat /\ p < m /\ p + 1 = b
      /\ b \in 0 .. m /\ p \in 0 .. m
  BY BlocksTyped
<1>1. PICK Q : Touched(b) \subseteq Q /\ PutAll(t, u, StateAt(b), Q, b)
  BY <1>0, HandledPuts
<1>2. t.ok /\ Rewritten(R, T, m, p) /\ OneOpen(R) /\ R \in SUBSET IdentityRow
  BY <1>1 DEF PutAll, GoodTables, TableType, Rows
<1>3. T[b] = TrueOf(b, a) /\ T[p] = TrueOf(p, a)
  BY <1>0
<1>4. Rows(u, a) = IF a \in Q THEN PutRows(a, R, b, T[b]) ELSE R
  BY <1>1, <1>3 DEF PutAll, TrueOf
<1> HIDE DEF u, R, p
<1>5. CASE a \in Q
  <2>1. Rewritten(PutRows(a, R, p + 1, T[p + 1]), T, m, p + 1)
    BY <1>0, <1>2, RewritePuts
  <2> QED BY <1>0, <1>4, <1>5, <2>1 DEF u
<1>6. CASE a \notin Q
  <2>1. T[b] = T[p]
    BY <1>0, <1>1, <1>3, <1>6, UntouchedBlock DEF p
  <2>2. Rewritten(R, T, m, p + 1)
    BY <1>0, <1>2, <2>1, RewriteSkips
  <2> QED BY <1>0, <1>4, <1>6, <2>2 DEF u
<1> QED BY <1>5, <1>6

LEMMA HistoryReplays ==
  ASSUME HistoryInv, Replays = "whole", NEW from \in 1 .. Height, NEW to \in 1 .. Height,
         Replay(from, to)
  PROVE  HistoryInv'
<1> DEFINE t == HandledTo(from, to)
<1>1. /\ source = "rpc" /\ from \in 1 .. at /\ to = at /\ t.ok /\ tables' = t
      /\ UNCHANGED <<origin, chain, source, at, indexed, seeded, stage, snapshot, oldest>>
  BY DEF Replay, chainVars, processVars
<1>2. OnChain /\ tables \in GoodTables /\ tables.ok /\ Height \in Nat /\ Phases
  BY BlocksTyped DEF HistoryInv
<1>3. Missed = {} /\ indexed = 1 .. at /\ at \in 1 .. Height /\ at \in Nat /\ from <= to
      /\ from \in Nat /\ to \in from .. Height /\ Edge = at /\ at \in indexed
  BY <1>1, <1>2, NoneMissed DEF Edge
<1>4. PICK h \in [(from - 1) .. to -> GoodTables] :
        t = h[to] /\ h[from - 1] = tables /\ \A b \in from .. to : h[b] = Handled(h[b - 1], b)
  BY <1>2, <1>3, HandledInTurn
<1> HIDE DEF t
<1>5. t \in GoodTables
  BY <1>3, <1>4
<1>6. ASSUME NEW a \in Accounts
      PROVE  Before(Rows(t, a), at) /\ \A x \in 1 .. at : Tells(Rows(t, a), x, TrueOf(x, a))
  <2> DEFINE T == [x \in 0 .. at |-> TrueOf(x, a)]
             S == {k \in Nat : (from - 1) + k <= to /\ h[(from - 1) + k].ok =>
                                 Rewritten(Rows(h[(from - 1) + k], a), T, at, (from - 1) + k)}
  <2>1. T \in [0 .. at -> Raws \cup {None}] /\ \A x \in 0 .. at : T[x] = TrueOf(x, a)
    BY <1>2, <1>3, BlocksTyped
  <2>2. \A x \in 1 .. at : T[x] = TrueOf(x, a)
    BY <2>1
  <2> HIDE DEF T
  <2>3. Rewritten(Rows(tables, a), T, at, from - 1)
    <3>1. Rows(tables, a) \in SUBSET IdentityRow /\ Before(Rows(tables, a), at)
      BY <1>3 DEF HistoryInv, AccountInv, GoodTables, TableType, Rows
    <3>2. \A x \in 1 .. at : Tells(Rows(tables, a), x, T[x])
      BY <1>1, <2>2, NoneMissed
    <3>3. from - 1 \in 0 .. at
      BY <1>1, <1>3
    <3> QED BY <1>3, <3>1, <3>2, <3>3, RewriteStarts
  <2>4. 0 \in S
    <3>1. (from - 1) + 0 = from - 1
      BY <1>3
    <3> QED BY <1>4, <2>3, <3>1
  <2>5. ASSUME NEW k \in Nat, k \in S PROVE k + 1 \in S
    <3> DEFINE b == (from - 1) + (k + 1)
    <3> SUFFICES ASSUME b <= to, h[b].ok PROVE Rewritten(Rows(h[b], a), T, at, b)
      OBVIOUS
    <3>1. b \in from .. to /\ b \in 1 .. at /\ b - 1 = (from - 1) + k /\ b - 1 \in (from - 1) .. to
          /\ b - 1 <= to
      BY <1>1, <1>3
    <3> HIDE DEF b
    <3>2. h[b - 1] \in GoodTables /\ h[b] = Handled(h[b - 1], b)
      BY <1>4, <3>1
    <3>3. h[b - 1].ok => Rewritten(Rows(h[b - 1], a), T, at, b - 1)
      BY <2>5, <3>1
    <3> QED BY <1>2, <1>3, <2>1, <3>1, <3>2, <3>3, RewrittenNext
  <2> HIDE DEF S
  <2>6. to - (from - 1) \in Nat
    BY <1>3
  <2>7. to - (from - 1) \in S
    BY <2>4, <2>5, <2>6, SetInduction
  <2>8. Rewritten(Rows(t, a), T, at, at)
    <3>1. (from - 1) + (to - (from - 1)) = to
      BY <1>3
    <3> QED BY <1>1, <1>3, <1>4, <2>7, <3>1 DEF S
  <2>9. Rows(t, a) \in SUBSET IdentityRow
    BY <1>5 DEF GoodTables, TableType, Rows
  <2>10. Before(Rows(t, a), at) /\ \A x \in 1 .. at : Tells(Rows(t, a), x, T[x])
    BY <1>3, <2>8, <2>9, RewriteEnds
  <2> QED BY <2>2, <2>10
<1>7. /\ Height' = Height /\ OnChain' /\ \A b, a : TrueOf(b, a)' = TrueOf(b, a)
  BY <1>1, <1>2, SameChainState
<1>8. Phases' /\ Edge' = at /\ at' \in indexed' /\ indexed' = 1 .. at
  BY <1>1, <1>2, <1>3, <1>7 DEF Phases, Edge
<1>9. ASSUME NEW a \in Accounts PROVE AccountInv(a)'
  <2>0. PICK S : S = Rows(t, a)
    OBVIOUS
  <2>1. Before(S, at) /\ \A x \in 1 .. at : Tells(S, x, TrueOf(x, a))
    BY <1>6, <2>0
  <2>2. Told(S, a)'
    BY <1>7, <1>8, <2>1 DEF Told
  <2>3. SweptRows(S, a)'
    BY <1>8 DEF SweptRows
  <2> QED BY <1>1, <1>8, <2>0, <2>1, <2>2, <2>3 DEF AccountInv, Rows
<1> QED BY <1>1, <1>5, <1>7, <1>8, <1>9 DEF HistoryInv

LEMMA HistorySteps == ASSUME Replays = "whole" PROVE HistoryInv /\ [Next]_vars => HistoryInv'
<1> SUFFICES ASSUME HistoryInv, [Next]_vars PROVE HistoryInv'
  OBVIOUS
<1>1. ASSUME NEW c \in Calls, Produce(c) PROVE HistoryInv'
  BY <1>1, HistoryGrows
<1>2. ASSUME NEW to \in 1 .. Height, CommitBatch(to) PROVE HistoryInv'
  BY <1>2, HistoryCommits
<1>3. ASSUME NEW from \in 1 .. Height, NEW to \in 1 .. Height, Replay(from, to) PROVE HistoryInv'
  BY <1>3, HistoryReplays
<1>4. ASSUME NEW n \in 1 .. Height, FollowHead(n) PROVE HistoryInv'
  BY <1>4, HistoryFollowsHead
<1>5. CASE Start \/ FinishBootstrap \/ PersistReads \/ CaughtUp \/ Kill \/ PowerCut \/ UNCHANGED vars
  BY <1>5, HistoryKept
<1>6. CASE SweepIdentities \/ SweepUsernames \/ SweepPrimaries \/ SweepSubs
  BY <1>6, SweepsIdentities, SweepsOthers
<1> QED BY <1>1, <1>2, <1>3, <1>4, <1>5, <1>6 DEF Next

(***************************************************************************)
(* Whatever a client asks of the past is answered as the chain was: for    *)
(* any accounts, registrations, calls, batches and sweeps, through crashes *)
(* and the replay of the last blocks, alias_at of an indexed block is the  *)
(* registration of that block; a light client errs only on changes it did  *)
(* not see.  A replay begins anywhere and ends at the last block.          *)
(***************************************************************************)
THEOREM HistoryIsTrue == ASSUME Replays = "whole" PROVE Spec => []HistoryTrue
<1>1. Init => HistoryInv
  BY HistoryStarts
<1>2. HistoryInv /\ [Next]_vars => HistoryInv'
  BY HistorySteps
<1>3. HistoryInv => HistoryTrue
  BY HistoryFollows
<1> QED BY <1>1, <1>2, <1>3, PTL DEF Spec

-----------------------------------------------------------------------------
(***************************************************************************)
(* The owners of names along the chain.                                    *)
(***************************************************************************)
LEMMA CoherentAfter ==
  ASSUME NEW s \in PalletState, Coherent(s), NEW c \in PalletCalls, Allowed(c, s)
  PROVE  Coherent(After(c, s))
<1> DEFINE w == After(c, s)
<1>1. CASE c.op \in {"idle", "set", "clear", "subs", "quit"}
  <2>1. w.primary = s.primary /\ w.owner = s.owner /\ w.queued = s.queued /\ w.unbinding = s.unbinding
    BY <1>1 DEF After, PalletState
  <2> QED BY <2>1 DEF Coherent
<1>2. CASE c.op \in {"queue", "expire", "unbind"}
  BY <1>2, CallFields DEF After, PalletState, Coherent, Allowed
<1>3. CASE c.op = "prefer"
  BY <1>3, CallFields DEF After, PalletState, Coherent, Allowed
<1>4. CASE c.op = "grant"
  <2>1. c.who \in Accounts /\ c.name \in Names /\ s.owner[c.name] = None
    BY <1>4, CallFields DEF Allowed
  <2>2. /\ w.owner = [s.owner EXCEPT ![c.name] = c.who] /\ w.queued = [s.queued EXCEPT ![c.name] = None]
        /\ w.unbinding = s.unbinding
        /\ \A a \in Accounts : w.primary[a] = IF a = c.who /\ s.primary[a] = None THEN c.name
                                              ELSE s.primary[a]
    BY <1>4, <2>1 DEF After, PalletState
  <2>3. s.owner \in [Names -> Accounts \cup {None}] /\ s.queued \in [Names -> Accounts \cup {None}]
    BY DEF PalletState
  <2> HIDE DEF w
  <2>4. ASSUME NEW a \in Accounts, w.primary[a] # None PROVE w.owner[w.primary[a]] = a
    <3>1. CASE a = c.who /\ s.primary[a] = None
      BY <2>1, <2>2, <2>3, <3>1
    <3>2. CASE ~(a = c.who /\ s.primary[a] = None)
      <4>1. w.primary[a] = s.primary[a] /\ s.owner[s.primary[a]] = a /\ s.primary[a] \in Names
        BY <2>2, <2>4, <3>2, StateFields DEF Coherent
      <4>2. s.primary[a] # c.name
        BY <2>1, <4>1, NoneIsNoBlock
      <4> QED BY <2>2, <2>3, <4>1, <4>2
    <3> QED BY <3>1, <3>2
  <2>5. \A n \in Names : /\ n \in w.unbinding => w.owner[n] # None
                         /\ w.queued[n] # None => w.owner[n] = None
    BY <2>1, <2>2, <2>3, NoneIsNoBlock DEF Coherent
  <2> QED BY <2>4, <2>5 DEF Coherent, w
<1>5. CASE c.op = "remove"
  BY <1>5, CallFields DEF After, PalletState, Coherent, Allowed
<1> QED BY <1>1, <1>2, <1>3, <1>4, <1>5, CallFields

OwnerOf(x, n) == StateAt(x).owner[n]

Does(x, op, n) == chain[x].call.op = op /\ chain[x].call.name = n

LEMMA ChainCoherent ==
  ASSUME OnChain, Coherent(origin)
  PROVE  \A x \in 0 .. Height : Coherent(StateAt(x))
<1> DEFINE S == {n \in Nat : n <= Height => Coherent(StateAt(n))}
<1>1. 0 \in S
  BY DEF StateAt
<1>2. ASSUME NEW n \in Nat, n \in S PROVE n + 1 \in S
  <2> SUFFICES ASSUME n + 1 <= Height PROVE Coherent(StateAt(n + 1))
    OBVIOUS
  <2>1. n + 1 \in 1 .. Height /\ n \in 0 .. Height /\ (n + 1) - 1 = n /\ n + 1 # 0 /\ n <= Height
    BY BlocksTyped
  <2>2. StateAt(n) \in PalletState /\ chain[n + 1].call \in PalletCalls
    BY <2>1, BlocksTyped
  <2>3. Allowed(chain[n + 1].call, StateAt(n)) /\ StateAt(n + 1) = After(chain[n + 1].call, StateAt(n))
    BY <2>1 DEF OnChain, StateAt
  <2> QED BY <1>2, <2>1, <2>2, <2>3, CoherentAfter
<1> HIDE DEF S
<1>3. \A x \in 0 .. Height : x \in S
  BY <1>1, <1>2, SetInduction
<1> QED BY <1>3, BlocksTyped DEF S

(* What a block does to the owner of a name.                               *)
LEMMA OwnerMoves ==
  ASSUME OnChain, NEW x \in 1 .. Height, NEW n \in Names
  PROVE  /\ Does(x, "grant", n) => OwnerOf(x - 1, n) = None /\ OwnerOf(x, n) \in Accounts
         /\ Does(x, "remove", n) => OwnerOf(x - 1, n) # None /\ OwnerOf(x, n) = None
         /\ ~Does(x, "grant", n) /\ ~Does(x, "remove", n) => OwnerOf(x, n) = OwnerOf(x - 1, n)
         /\ Does(x, "grant", n) \/ Does(x, "remove", n) => n \in Renamed(x)
<1> DEFINE c == chain[x].call
           s == StateAt(x - 1)
<1>1. c \in PalletCalls /\ s \in PalletState /\ Allowed(c, s) /\ StateAt(x) = After(c, s)
  <2>1. x - 1 \in 0 .. Height /\ x # 0
    BY BlocksTyped
  <2> QED BY <2>1, BlocksTyped DEF OnChain, StateAt
<1>2. Renamed(x) = TouchedNames(c)
  BY DEF Renamed
<1>3. /\ Does(x, "grant", n) <=> c.op = "grant" /\ c.name = n
      /\ Does(x, "remove", n) <=> c.op = "remove" /\ c.name = n
      /\ OwnerOf(x, n) = After(c, s).owner[n] /\ OwnerOf(x - 1, n) = s.owner[n]
  BY <1>1 DEF Does, OwnerOf
<1> HIDE DEF c, s
<1>4. c.op = "grant" /\ c.name = n => s.owner[n] = None /\ After(c, s).owner[n] \in Accounts
  BY <1>1, CallFields DEF Allowed, After, PalletState
<1>5. c.op = "remove" /\ c.name = n => s.owner[n] # None /\ After(c, s).owner[n] = None
  BY <1>1, CallFields DEF Allowed, After, PalletState
<1>6. c.op \notin {"grant", "remove"} => After(c, s).owner[n] = s.owner[n]
  BY <1>1, CallFields DEF After, PalletState
<1>7. c.op \in {"grant", "remove"} /\ c.name # n => After(c, s).owner[n] = s.owner[n]
  BY <1>1, CallFields DEF After, PalletState
<1>8. c.op \in {"grant", "remove"} /\ c.name = n => n \in TouchedNames(c)
  BY DEF TouchedNames
<1> QED BY <1>2, <1>3, <1>4, <1>5, <1>6, <1>7, <1>8

(* A name that an account has and then has not was removed in between; one *)
(* that nobody has and then somebody was granted.                          *)
LEMMA OwnerHistory ==
  ASSUME OnChain, NEW n \in Names, NEW x \in 0 .. Height, NEW y \in x .. Height,
         OwnerOf(y, n) # OwnerOf(x, n)
  PROVE  /\ OwnerOf(x, n) # None => \E c \in (x + 1) .. y : Does(c, "remove", n)
         /\ OwnerOf(y, n) # None => \E c \in (x + 1) .. y : Does(c, "grant", n)
<1> DEFINE S == {k \in Nat : x + k <= y =>
                   /\ \/ OwnerOf(x + k, n) = OwnerOf(x, n)
                      \/ OwnerOf(x, n) = None
                      \/ \E c \in (x + 1) .. (x + k) : Does(c, "remove", n)
                   /\ \/ OwnerOf(x + k, n) = OwnerOf(x, n)
                      \/ OwnerOf(x + k, n) = None
                      \/ \E c \in (x + 1) .. (x + k) : Does(c, "grant", n)}
<1>0. x \in Nat /\ y \in Nat /\ Height \in Nat /\ x <= y /\ y <= Height
  BY BlocksTyped
<1>1. 0 \in S
  BY <1>0
<1>2. ASSUME NEW k \in Nat, k \in S PROVE k + 1 \in S
  <2> SUFFICES ASSUME x + (k + 1) <= y PROVE k + 1 \in S
    OBVIOUS
  <2> DEFINE b == x + (k + 1)
  <2>1. b \in 1 .. Height /\ b - 1 = x + k /\ x + k <= y /\ b \in (x + 1) .. b
        /\ (x + 1) .. (x + k) \subseteq (x + 1) .. b
    BY <1>0
  <2> HIDE DEF b
  <2>2. /\ \/ OwnerOf(b - 1, n) = OwnerOf(x, n)
           \/ OwnerOf(x, n) = None
           \/ \E c \in (x + 1) .. b : Does(c, "remove", n)
        /\ \/ OwnerOf(b - 1, n) = OwnerOf(x, n)
           \/ OwnerOf(b - 1, n) = None
           \/ \E c \in (x + 1) .. b : Does(c, "grant", n)
    BY <1>2, <2>1
  <2>3. /\ Does(b, "grant", n) => OwnerOf(b - 1, n) = None /\ OwnerOf(b, n) \in Accounts
        /\ Does(b, "remove", n) => OwnerOf(b - 1, n) # None /\ OwnerOf(b, n) = None
        /\ ~Does(b, "grant", n) /\ ~Does(b, "remove", n) => OwnerOf(b, n) = OwnerOf(b - 1, n)
    BY <2>1, OwnerMoves
  <2>4. /\ \/ OwnerOf(b, n) = OwnerOf(x, n)
           \/ OwnerOf(x, n) = None
           \/ \E c \in (x + 1) .. b : Does(c, "remove", n)
        /\ \/ OwnerOf(b, n) = OwnerOf(x, n)
           \/ OwnerOf(b, n) = None
           \/ \E c \in (x + 1) .. b : Does(c, "grant", n)
    BY <2>1, <2>2, <2>3
  <2> QED BY <2>4 DEF b
<1>3. y - x \in S
  <2> HIDE DEF S
  <2> QED BY <1>0, <1>1, <1>2, SetInduction
<1>4. x + (y - x) = y
  BY <1>0
<1> HIDE DEF OwnerOf, Does
<1> QED BY <1>0, <1>3, <1>4

(* Without a second grant, a name has one owner until it is removed.       *)
LEMMA OneOwner ==
  ASSUME OnChain, NEW n \in Names \ Regranted, NEW x \in 0 .. Height, NEW y \in 0 .. Height,
         OwnerOf(y, n) # None
  PROVE  /\ OwnerOf(x, n) \in {None, OwnerOf(y, n)}
         /\ x <= y /\ OwnerOf(x, n) # None => \A z \in x .. y : OwnerOf(z, n) = OwnerOf(y, n)
         /\ \A c \in 1 .. y : ~Does(c, "remove", n)
<1>0. Height \in Nat /\ x \in Nat /\ y \in Nat
  BY BlocksTyped
<1>1. ASSUME NEW b \in 1 .. Height, NEW c \in 1 .. Height, b < c,
             Does(b, "remove", n), Does(c, "grant", n)
      PROVE  FALSE
  BY <1>1 DEF Regranted, Does
<1>2. ASSUME NEW c \in 1 .. y, Does(c, "remove", n) PROVE FALSE
  <2>1. c \in 1 .. Height /\ c \in 0 .. Height /\ y \in c .. Height
    BY <1>0
  <2>2. OwnerOf(c, n) = None
    BY <1>2, <2>1, OwnerMoves
  <2>3. PICK d \in (c + 1) .. y : Does(d, "grant", n)
    BY <2>1, <2>2, OwnerHistory
  <2>4. d \in 1 .. Height /\ c < d
    BY <1>0, <2>1
  <2> QED BY <1>1, <1>2, <2>1, <2>3, <2>4
<1>3. ASSUME NEW z \in 0 .. y, OwnerOf(z, n) # None PROVE OwnerOf(z, n) = OwnerOf(y, n)
  <2> SUFFICES ASSUME OwnerOf(y, n) # OwnerOf(z, n) PROVE FALSE
    OBVIOUS
  <2>1. z \in 0 .. Height /\ y \in z .. Height
    BY <1>0
  <2>2. PICK c \in (z + 1) .. y : Does(c, "remove", n)
    BY <1>3, <2>1, OwnerHistory
  <2>3. c \in 1 .. y
    BY <1>0
  <2> QED BY <1>2, <2>2, <2>3
<1>4. ASSUME y <= x, OwnerOf(x, n) # None PROVE OwnerOf(x, n) = OwnerOf(y, n)
  <2> SUFFICES ASSUME OwnerOf(x, n) # OwnerOf(y, n) PROVE FALSE
    OBVIOUS
  <2>1. x \in y .. Height
    BY <1>0, <1>4
  <2>2. PICK c \in (y + 1) .. x : Does(c, "remove", n)
    BY <2>1, OwnerHistory
  <2>3. c \in 1 .. Height /\ c \in 0 .. Height /\ x \in c .. Height
    BY <1>0
  <2>4. OwnerOf(c, n) = None
    BY <2>2, <2>3, OwnerMoves
  <2>5. PICK d \in (c + 1) .. x : Does(d, "grant", n)
    BY <1>4, <2>3, <2>4, OwnerHistory
  <2>6. d \in 1 .. Height /\ c < d
    BY <1>0, <2>3
  <2> QED BY <1>1, <2>2, <2>3, <2>5, <2>6
<1>5. OwnerOf(x, n) \in {None, OwnerOf(y, n)}
  BY <1>0, <1>3, <1>4
<1>6. ASSUME x <= y, OwnerOf(x, n) # None, NEW z \in x .. y PROVE OwnerOf(z, n) = OwnerOf(y, n)
  <2> SUFFICES ASSUME OwnerOf(z, n) = None PROVE FALSE
    BY <1>0, <1>3
  <2>1. z \in x .. Height /\ x \in 0 .. Height
    BY <1>0
  <2>2. PICK c \in (x + 1) .. z : Does(c, "remove", n)
    BY <1>6, <2>1, OwnerHistory
  <2>3. c \in 1 .. y
    BY <1>0
  <2> QED BY <1>2, <2>2, <2>3
<1> QED BY <1>2, <1>5, <1>6

-----------------------------------------------------------------------------
(***************************************************************************)
(* The statements and the unique index of primary usernames.               *)
(***************************************************************************)
Shown(t, a) ==
  {n \in Names : LET u == t.usernames[n] IN u.account = a /\ u.primary /\ u.status = "active"}

OneShown(t) == \A a \in Accounts : \A n, m \in Shown(t, a) : n = m

LEMMA AtMostOne ==
  ASSUME NEW S, \A x, y \in S : x = y
  PROVE  Cardinality(S) <= 1
<1>1. CASE S = {}
  BY <1>1, FS_EmptySet
<1>2. CASE S # {}
  <2>1. PICK x \in S : TRUE
    BY <1>2
  <2>2. S = {x}
    BY <2>1
  <2>3. Cardinality({x}) = 1
    BY FS_Singleton
  <2> QED BY <2>2, <2>3
<1> QED BY <1>1, <1>2

LEMMA IndexedNames ==
  ASSUME NEW t \in TableType
  PROVE  /\ Indexed(t).usernames = t.usernames /\ Indexed(t).subs = t.subs
         /\ Indexed(t).identities = t.identities /\ Indexed(t) \in TableType
         /\ Indexed(t).ok => t.ok /\ OneShown(t)
         /\ t.ok /\ OneShown(t) /\ (\A a \in Accounts : OneOpen(Rows(t, a))) => Indexed(t).ok
<1> DEFINE u == Indexed(t)
<1>1. /\ u \in TableType /\ u.usernames = t.usernames /\ u.subs = t.subs /\ u.identities = t.identities
      /\ u.ok <=> /\ t.ok
                  /\ \A a \in Accounts : /\ Cardinality(OpenRows(t, a)) <= 1
                                         /\ Cardinality(Shown(t, a)) <= 1
  BY DEF Indexed, TableType, Shown
<1> HIDE DEF u
<1>2. ASSUME u.ok PROVE OneShown(t)
  <2>1. ASSUME NEW a \in Accounts, NEW n \in Shown(t, a), NEW m \in Shown(t, a) PROVE n = m
    <3>1. Shown(t, a) \in SUBSET Names
      BY DEF Shown
    <3>2. IsFiniteSet(Shown(t, a))
      BY <3>1, IdentityAssumption, FS_Subset
    <3> QED BY <1>1, <1>2, <3>2, TwoAreMore
  <2> QED BY <2>1 DEF OneShown
<1>3. ASSUME t.ok, OneShown(t), \A a \in Accounts : OneOpen(Rows(t, a)) PROVE u.ok
  <2>1. ASSUME NEW a \in Accounts
        PROVE  Cardinality(OpenRows(t, a)) <= 1 /\ Cardinality(Shown(t, a)) <= 1
    <3>1. \A r, q \in OpenRows(t, a) : r = q
      BY <1>3 DEF OpenRows, Rows, OneOpen
    <3>2. \A n, m \in Shown(t, a) : n = m
      BY <1>3 DEF OneShown
    <3> QED BY <3>1, <3>2, AtMostOne
  <2> QED BY <1>1, <1>3, <2>1
<1> QED BY <1>1, <1>2, <1>3 DEF u

(* An update u of a table that keeps the indexes broken or whole.          *)
KeepsIndex(t, u) == u.ok => t.ok /\ (OneShown(t) => OneShown(u))

LEMMA PutIdentityNames ==
  ASSUME NEW t \in GoodTables, NEW a \in Accounts, NEW b \in Nat, NEW raw \in Raws \cup {None}
  PROVE  LET u == PutIdentity(t, a, b, raw)
         IN  /\ u.usernames = t.usernames /\ u.subs = t.subs /\ (u.ok => t.ok)
             /\ t.ok /\ OneShown(t) /\ Before(Rows(t, a), b) => u.ok
<1> DEFINE u == PutIdentity(t, a, b, raw)
           I == Closed(t, a, b)
<1>1. t \in TableType /\ IsFiniteSet(t.identities) /\ Rows(t, a) \in SUBSET IdentityRow
  BY DEF GoodTables, TableType, Rows
<1>2. /\ u \in GoodTables /\ (u.ok => t.ok)
      /\ Rows(u, a) = PutRows(a, Rows(t, a), b, raw)
      /\ \A c \in Accounts \ {a} : Rows(u, c) = Rows(t, c)
  BY PutIdentityRows
<1>3. CASE raw = None
  <2>1. u = [t EXCEPT !.identities = I]
    BY <1>3 DEF PutIdentity, Closed
  <2> QED BY <1>1, <2>1 DEF TableType
<1>4. CASE raw # None /\ \E r \in OpenRows(t, a) : r.raw = raw
  BY <1>4 DEF PutIdentity
<1>5. CASE raw # None /\ ~ \E r \in OpenRows(t, a) : r.raw = raw
  <2> DEFINE J == I \cup {OpenRow(a, b, raw)}
             w == [t EXCEPT !.identities = J]
  <2>1. u = Indexed(w)
    BY <1>5 DEF PutIdentity, Closed, OpenRow
  <2>2. I \subseteq IdentityRow
    BY <1>1, ClosedRows
  <2>3. OpenRow(a, b, raw) \in IdentityRow
    BY <1>5 DEF OpenRow, IdentityRow
  <2> HIDE DEF I, u
  <2>4. w \in TableType /\ w.usernames = t.usernames /\ w.subs = t.subs /\ w.ok = t.ok
    BY <1>1, <2>2, <2>3 DEF TableType
  <2> HIDE DEF w
  <2>5. u.usernames = t.usernames /\ u.subs = t.subs /\ u.identities = w.identities
    BY <2>1, <2>4, IndexedNames
  <2>6. ASSUME t.ok, OneShown(t), Before(Rows(t, a), b) PROVE u.ok
    <3>1. OneOpen(Rows(u, a))
      BY <1>1, <1>2, <2>6, PutAfter DEF GoodTables
    <3>2. \A c \in Accounts : OneOpen(Rows(w, c))
      <4>1. \A c \in Accounts : Rows(w, c) = Rows(u, c)
        BY <2>5 DEF Rows
      <4> QED BY <1>2, <2>6, <3>1, <4>1 DEF GoodTables
    <3>3. OneShown(w)
      BY <2>4, <2>6 DEF OneShown, Shown
    <3> QED BY <2>1, <2>4, <2>6, <3>2, <3>3, IndexedNames
  <2> QED BY <1>2, <2>5, <2>6 DEF u
<1> QED BY <1>2, <1>3, <1>4, <1>5

Statuses == {"absent", "pending", "active", "unbinding", "removed"}

LEMMA PutUsernameNames ==
  ASSUME NEW t \in GoodTables, NEW n \in Names, NEW account \in Accounts \cup {None},
         NEW status \in Statuses
  PROVE  LET u == PutUsername(t, n, account, status)
         IN  /\ u \in GoodTables /\ u.identities = t.identities /\ u.subs = t.subs /\ (u.ok => t.ok)
             /\ u.usernames[n].account = account /\ u.usernames[n].status = status
             /\ u.usernames[n].primary = t.usernames[n].primary
             /\ \A m \in Names \ {n} : u.usernames[m] = t.usernames[m]
             /\ u.ok => OneShown(u)
             /\ t.ok /\ OneShown(u) => u.ok
<1> DEFINE row == [t.usernames[n] EXCEPT !.account = account, !.status = status]
           w == [t EXCEPT !.usernames[n] = [@ EXCEPT !.account = account, !.status = status]]
           u == PutUsername(t, n, account, status)
<1>1. t \in TableType /\ IsFiniteSet(t.identities) /\ (t.ok => \A a \in Accounts : OneOpen(Rows(t, a)))
  BY DEF GoodTables
<1>2. /\ row \in NameRow /\ row.account = account /\ row.status = status
      /\ row.primary = t.usernames[n].primary
  <2> DEFINE r == t.usernames[n]
  <2>1. r \in NameRow
    BY <1>1 DEF TableType
  <2> HIDE DEF r
  <2>2. row \in NameRow
    BY <2>1 DEF NameRow, Statuses, r
  <2>3. row.account = account /\ row.primary = r.primary /\ row.status = status
    BY <2>1 DEF NameRow, r
  <2> QED BY <2>2, <2>3 DEF r
<1>3. /\ w \in TableType /\ w.identities = t.identities /\ w.ok = t.ok /\ w.subs = t.subs
      /\ w.usernames[n] = row /\ \A m \in Names \ {n} : w.usernames[m] = t.usernames[m]
  BY <1>1, <1>2 DEF TableType
<1>4. u = Indexed(w)
  BY DEF PutUsername
<1> HIDE DEF w, row, u
<1>5. /\ u.usernames = w.usernames /\ u.subs = w.subs /\ u.identities = w.identities
      /\ u.ok => w.ok /\ OneShown(w)
      /\ w.ok /\ OneShown(w) /\ (\A a \in Accounts : OneOpen(Rows(w, a))) => u.ok
  BY <1>3, <1>4, IndexedNames
<1>6. OneShown(w) <=> OneShown(u)
  BY <1>5 DEF OneShown, Shown
<1>7. \A a \in Accounts : Rows(w, a) = Rows(t, a)
  BY <1>3 DEF Rows
<1>8. u \in GoodTables
  BY PutUsernameBeside DEF Beside, Statuses, u
<1> QED BY <1>1, <1>2, <1>3, <1>5, <1>6, <1>7, <1>8 DEF u

PromotedRow(row, a) ==
  [account |-> a, primary |-> TRUE,
   status  |-> IF row.status = "absent" THEN "active" ELSE row.status]

DemotedRow(row, a) == IF row.account = a THEN [row EXCEPT !.primary = FALSE] ELSE row

LEMMA SetPrimaryNames ==
  ASSUME NEW t \in GoodTables, NEW a \in Accounts, NEW p \in Names \cup {None}
  PROVE  LET u == SetPrimaryUsername(t, a, p)
         IN  /\ u \in GoodTables /\ u.identities = t.identities /\ u.subs = t.subs
             /\ \A n \in Names : u.usernames[n] = IF n = p THEN PromotedRow(t.usernames[n], a)
                                                  ELSE DemotedRow(t.usernames[n], a)
             /\ KeepsIndex(t, u)
             /\ t.ok /\ OneShown(t) => u.ok
<1> DEFINE d == Demoted(t, a)
           u == Promoted(d, a, p)
           w == [d EXCEPT !.usernames[p] = PromotedRow(d.usernames[p], a)]
<1>1. t \in TableType /\ IsFiniteSet(t.identities) /\ (t.ok => \A c \in Accounts : OneOpen(Rows(t, c)))
  BY DEF GoodTables
<1>2. Beside(t, SetPrimaryUsername(t, a, p)) /\ SetPrimaryUsername(t, a, p) = u
  BY SetPrimaryBeside DEF SetPrimaryUsername
<1>3. d \in TableType
  BY DemotedBeside
<1>4. /\ d.identities = t.identities /\ d.subs = t.subs /\ d.ok = t.ok
      /\ \A n \in Names : d.usernames[n] = DemotedRow(t.usernames[n], a)
  BY <1>1 DEF Demoted, DemotedRow, TableType
<1>5. ASSUME NEW n \in Names
      PROVE  /\ d.usernames[n].account = t.usernames[n].account
             /\ d.usernames[n].status = t.usernames[n].status
             /\ d.usernames[n].primary <=> t.usernames[n].primary /\ t.usernames[n].account # a
             /\ d.usernames[n] \in NameRow
  <2>1. t.usernames[n] \in NameRow /\ d.usernames[n] \in NameRow
    BY <1>1, <1>3 DEF TableType
  <2>2. t.usernames[n].primary \in BOOLEAN
    BY <2>1 DEF NameRow
  <2> QED BY <1>4, <2>1, <2>2 DEF DemotedRow, NameRow
<1> HIDE DEF d
<1>6. \A c \in Accounts : Shown(d, c) = IF c = a THEN {} ELSE Shown(t, c)
  BY <1>5 DEF Shown
<1>7. CASE p = None
  <2>1. u = d
    BY <1>7 DEF Promoted
  <2>2. \A n \in Names : n # p
    BY <1>7, NoneIsNoBlock
  <2>3. OneShown(t) => OneShown(d)
    BY <1>6 DEF OneShown
  <2> QED BY <1>2, <1>4, <2>1, <2>2, <2>3 DEF Beside, KeepsIndex
<1>8. CASE p # None
  <2>1. u = Indexed(w)
    BY <1>8 DEF Promoted, PromotedRow
  <2>2. PromotedRow(d.usernames[p], a) \in NameRow
    BY <1>5, <1>8 DEF PromotedRow, NameRow
  <2>3. /\ w \in TableType /\ w.identities = t.identities /\ w.ok = t.ok /\ w.subs = t.subs
        /\ w.usernames[p] = PromotedRow(d.usernames[p], a)
        /\ \A n \in Names \ {p} : w.usernames[n] = d.usernames[n]
    BY <1>3, <1>4, <1>8, <2>2 DEF TableType
  <2> HIDE DEF w
  <2>4. \A c \in Accounts : Rows(w, c) = Rows(t, c)
    BY <2>3 DEF Rows
  <2>5. /\ u.usernames = w.usernames /\ u.subs = w.subs /\ u.identities = w.identities
        /\ u.ok => w.ok /\ OneShown(w)
        /\ w.ok /\ OneShown(w) /\ (\A c \in Accounts : OneOpen(Rows(w, c))) => u.ok
    BY <2>1, <2>3, IndexedNames
  <2>6. OneShown(w) <=> OneShown(u)
    BY <2>5 DEF OneShown, Shown
  <2>7. \A c \in Accounts : Shown(w, c) \subseteq IF c = a THEN {p} ELSE Shown(t, c)
    <3>1. ASSUME NEW c \in Accounts, NEW n \in Shown(w, c), n # p
          PROVE  n \in Shown(d, c)
      BY <2>3, <3>1 DEF Shown
    <3>2. ASSUME NEW c \in Accounts, p \in Shown(w, c) PROVE c = a
      BY <2>3, <3>2 DEF Shown, PromotedRow
    <3> QED BY <1>6, <3>1, <3>2
  <2>8. OneShown(t) => OneShown(w)
    BY <2>7 DEF OneShown
  <2>9. PromotedRow(d.usernames[p], a) = PromotedRow(t.usernames[p], a)
    BY <1>5, <1>8 DEF PromotedRow
  <2>10. \A n \in Names : u.usernames[n] = IF n = p THEN PromotedRow(t.usernames[n], a)
                                           ELSE DemotedRow(t.usernames[n], a)
    BY <1>4, <2>3, <2>5, <2>9
  <2> HIDE DEF u
  <2> QED BY <1>1, <1>2, <2>3, <2>4, <2>5, <2>6, <2>8, <2>10 DEF Beside, KeepsIndex
<1> QED BY <1>7, <1>8

-----------------------------------------------------------------------------
(***************************************************************************)
(* What a sync of accounts makes of the rows of names and of subs: the     *)
(* order of the queue makes no difference, as a name is the primary of its *)
(* owner only.                                                             *)
(***************************************************************************)
NameSynced(s, Q, n, row) ==
  IF s.owner[n] \in Q /\ s.primary[s.owner[n]] = n THEN PromotedRow(row, s.owner[n])
  ELSE IF row.account \in Q THEN [row EXCEPT !.primary = FALSE] ELSE row

SubSynced(s, Q, x, parent) ==
  IF x \in Q THEN s.super[x]
  ELSE IF parent \in Q /\ s.super[x] # parent THEN None ELSE parent

(* Nothing stands in the way of a sync at block b.                         *)
Sound(t, b) == t.ok /\ OneShown(t) /\ \A a \in Accounts : Before(Rows(t, a), b)

AccountsSynced(t, u, s, Q, b) ==
  /\ PutAll(t, u, s, Q, b)
  /\ \A n \in Names : u.usernames[n] = NameSynced(s, Q, n, t.usernames[n])
  /\ \A x \in Accounts : u.subs[x] = SubSynced(s, Q, x, t.subs[x])
  /\ KeepsIndex(t, u)
  /\ Sound(t, b) => u.ok

LEMMA SyncAccountNames ==
  ASSUME NEW t \in GoodTables, NEW s \in PalletState, Coherent(s), NEW a \in Accounts, NEW b \in Nat
  PROVE  AccountsSynced(t, SyncAccount(t, s, a, b), s, {a}, b)
<1> DEFINE u == PutIdentity(t, a, b, s.identity[a])
           v == SetPrimaryUsername(u, a, s.primary[a])
           w == PutSub(v, a, s.super[a])
           z == RetainSubs(w, a, SubsOf(s, a))
<1>0. PutAll(t, z, s, {a}, b) /\ SyncAccount(t, s, a, b) = z
  BY SyncAccountPuts DEF SyncAccount
<1>1. /\ u \in GoodTables /\ u.usernames = t.usernames /\ u.subs = t.subs /\ (u.ok => t.ok)
      /\ t.ok /\ OneShown(t) /\ Before(Rows(t, a), b) => u.ok
  BY StateFields, PutIdentityRows, PutIdentityNames
<1> HIDE DEF u
<1>2. /\ v \in GoodTables /\ v.subs = u.subs
      /\ \A n \in Names : v.usernames[n] = IF n = s.primary[a] THEN PromotedRow(u.usernames[n], a)
                                           ELSE DemotedRow(u.usernames[n], a)
      /\ KeepsIndex(u, v)
      /\ u.ok /\ OneShown(u) => v.ok
  BY <1>1, StateFields, SetPrimaryNames
<1> HIDE DEF v
<1>3. v \in TableType
  BY <1>2 DEF GoodTables
<1>4. /\ z.usernames = v.usernames /\ z.ok = v.ok
      /\ \A x \in Accounts : z.subs[x] = IF x = a THEN s.super[a]
                                         ELSE IF v.subs[x] = a /\ s.super[x] # a THEN None ELSE v.subs[x]
  <2>1. w.usernames = v.usernames /\ w.ok = v.ok /\ w.subs = [v.subs EXCEPT ![a] = s.super[a]]
    BY <1>3 DEF PutSub, TableType
  <2>2. /\ w.subs \in [Accounts -> Accounts \cup {None}]
        /\ \A x \in Accounts : w.subs[x] = IF x = a THEN s.super[a] ELSE v.subs[x]
    BY <1>3, <2>1, StateFields DEF TableType
  <2> HIDE DEF w
  <2>3. /\ z.usernames = w.usernames /\ z.ok = w.ok
        /\ \A x \in Accounts : z.subs[x] = IF w.subs[x] = a /\ x \notin SubsOf(s, a) THEN None
                                           ELSE w.subs[x]
    BY <2>2 DEF RetainSubs
  <2> QED BY <2>1, <2>2, <2>3 DEF SubsOf
<1> HIDE DEF z
<1>5. OneShown(u) <=> OneShown(t)
  BY <1>1 DEF OneShown, Shown
<1>6. OneShown(z) <=> OneShown(v)
  BY <1>4 DEF OneShown, Shown
<1>7. KeepsIndex(t, z) /\ (Sound(t, b) => z.ok)
  BY <1>1, <1>2, <1>4, <1>5, <1>6 DEF KeepsIndex, Sound
<1>8. \A n \in Names : n = s.primary[a] <=> s.owner[n] \in {a} /\ s.primary[s.owner[n]] = n
  BY NoneIsNoBlock DEF Coherent
<1>9. ASSUME NEW n \in Names PROVE z.usernames[n] = NameSynced(s, {a}, n, t.usernames[n])
  BY <1>1, <1>2, <1>4, <1>8 DEF NameSynced, DemotedRow
<1>10. \A x \in Accounts : z.subs[x] = SubSynced(s, {a}, x, t.subs[x])
  BY <1>1, <1>2, <1>4 DEF SubSynced
<1> QED BY <1>0, <1>7, <1>9, <1>10 DEF AccountsSynced

LEMMA SoundAfter ==
  ASSUME NEW t \in GoodTables, NEW u, NEW s \in PalletState, NEW Q, NEW b \in Nat,
         AccountsSynced(t, u, s, Q, b), Sound(t, b)
  PROVE  Sound(u, b)
<1>1. u.ok /\ OneShown(u) /\ PutAll(t, u, s, Q, b)
  BY DEF AccountsSynced, KeepsIndex, Sound
<1>2. ASSUME NEW a \in Accounts PROVE Before(Rows(u, a), b)
  <2>1. Before(Rows(t, a), b) /\ OneOpen(Rows(t, a)) /\ Rows(t, a) \in SUBSET IdentityRow
    BY DEF Sound, GoodTables, TableType, Rows
  <2>2. s.identity[a] \in Raws \cup {None}
    BY StateFields
  <2>3. Before(PutRows(a, Rows(t, a), b, s.identity[a]), b)
    BY <2>1, <2>2, PutAfter
  <2> QED BY <1>1, <2>1, <2>3 DEF PutAll
<1> QED BY <1>1, <1>2 DEF Sound

LEMMA SyncedTwice ==
  ASSUME NEW t \in GoodTables, NEW v, NEW u, NEW s \in PalletState, NEW b \in Nat,
         NEW Q \in SUBSET Accounts, NEW a \in Accounts \ Q,
         AccountsSynced(t, v, s, Q, b), AccountsSynced(v, u, s, {a}, b)
  PROVE  AccountsSynced(t, u, s, Q \cup {a}, b)
<1>1. PutAll(t, u, s, Q \cup {a}, b)
  BY DEF AccountsSynced, PutAll
<1>2. v \in GoodTables /\ v \in TableType /\ t \in TableType
  BY DEF AccountsSynced, PutAll, GoodTables
<1>3. KeepsIndex(t, u) /\ (Sound(t, b) => u.ok)
  <2>1. KeepsIndex(t, u)
    BY DEF AccountsSynced, KeepsIndex
  <2>2. Sound(t, b) => Sound(v, b)
    BY SoundAfter
  <2> QED BY <2>1, <2>2 DEF AccountsSynced
<1>4. ASSUME NEW n \in Names PROVE u.usernames[n] = NameSynced(s, Q \cup {a}, n, t.usernames[n])
  <2> DEFINE r == t.usernames[n]
             o == s.owner[n]
  <2>1. r \in NameRow
    BY <1>2 DEF TableType
  <2>2. v.usernames[n] = NameSynced(s, Q, n, r) /\ u.usernames[n] = NameSynced(s, {a}, n, v.usernames[n])
    BY DEF AccountsSynced
  <2> HIDE DEF r
  <2>3. CASE o \in Q /\ s.primary[o] = n
    <3>1. v.usernames[n] = PromotedRow(r, o)
      BY <2>2, <2>3 DEF NameSynced
    <3>2. u.usernames[n] = PromotedRow(r, o)
      BY <2>2, <2>3, <3>1 DEF NameSynced, PromotedRow
    <3> QED BY <2>3, <3>2 DEF NameSynced, r
  <2>4. CASE o = a /\ s.primary[o] = n
    <3>1. v.usernames[n].status = r.status
      BY <2>1, <2>2, <2>4 DEF NameSynced, NameRow
    <3>2. u.usernames[n] = PromotedRow(r, o)
      BY <2>2, <2>4, <3>1 DEF NameSynced, PromotedRow
    <3> QED BY <2>4, <3>2 DEF NameSynced, r
  <2>5. CASE ~(o \in Q \cup {a} /\ s.primary[o] = n)
    <3> DEFINE d == [r EXCEPT !.primary = FALSE]
    <3>1. d.account = r.account /\ [d EXCEPT !.primary = FALSE] = d
      BY <2>1 DEF NameRow
    <3>2. v.usernames[n] = IF r.account \in Q THEN d ELSE r
      BY <2>2, <2>5 DEF NameSynced
    <3> HIDE DEF d
    <3>3. u.usernames[n] = IF r.account \in Q \cup {a} THEN d ELSE r
      <4>1. u.usernames[n] = IF v.usernames[n].account = a
                             THEN [v.usernames[n] EXCEPT !.primary = FALSE] ELSE v.usernames[n]
        BY <2>2, <2>5 DEF NameSynced
      <4>2. CASE r.account \in Q
        BY <3>1, <3>2, <4>1, <4>2
      <4>3. CASE r.account \notin Q
        BY <3>2, <4>1, <4>3 DEF d
      <4> QED BY <4>2, <4>3
    <3> QED BY <2>5, <3>3 DEF NameSynced, d, r
  <2> QED BY <2>3, <2>4, <2>5
<1>5. \A x \in Accounts : u.subs[x] = SubSynced(s, Q \cup {a}, x, t.subs[x])
  <2>1. ASSUME NEW x \in Accounts PROVE u.subs[x] = SubSynced(s, Q \cup {a}, x, t.subs[x])
    <3>1. /\ v.subs[x] = SubSynced(s, Q, x, t.subs[x]) /\ u.subs[x] = SubSynced(s, {a}, x, v.subs[x])
      BY DEF AccountsSynced
    <3> QED BY <3>1, NoneIsNoBlock DEF SubSynced
  <2> QED BY <2>1
<1> QED BY <1>1, <1>3, <1>4, <1>5 DEF AccountsSynced

LEMMA SyncAccountsNames ==
  ASSUME NEW t \in GoodTables, NEW s \in PalletState, Coherent(s), NEW b \in Nat,
         NEW Q \in SUBSET Accounts
  PROVE  AccountsSynced(t, FoldSet(LAMBDA a, u : SyncAccount(u, s, a, b), t, Q), s, Q, b)
<1> DEFINE fold == FoldSet(LAMBDA a, u : SyncAccount(u, s, a, b), t, Q)
<1>0. fold \in SyncAccountsFolded(t, s, Q, b)
  BY SyncAccountsFold
<1> HIDE DEF fold
<1>1. PICK f \in [SUBSET Q -> GoodTables] :
        /\ f[Q] = fold
        /\ f[{}] = t
        /\ \A q \in SUBSET Q : q # {} => f[q] = SyncAccount(f[Rest(q)], s, (CHOOSE x \in q : TRUE), b)
  BY <1>0 DEF SyncAccountsFolded
<1>2. IsFiniteSet(Q)
  BY IdentityAssumption, FS_Subset
<1> DEFINE G == {q \in SUBSET Q : AccountsSynced(t, f[q], s, q, b)}
<1>3. {} \in G
  <2>1. f[{}] = t
    BY <1>1
  <2> QED BY <2>1 DEF AccountsSynced, PutAll, NameSynced, SubSynced, KeepsIndex, Sound
<1>4. ASSUME NEW q \in SUBSET Q, q # {}, Rest(q) \in G PROVE q \in G
  <2> DEFINE a == CHOOSE x \in q : TRUE
             v == f[Rest(q)]
  <2>1. a \in q /\ a \in Q /\ Rest(q) = q \ {a}
    BY <1>4 DEF Rest
  <2>2. f[q] = SyncAccount(v, s, a, b) /\ v \in GoodTables
    BY <1>1, <1>4, <2>1
  <2>3. AccountsSynced(t, v, s, q \ {a}, b)
    BY <1>4, <2>1
  <2> HIDE DEF a, v
  <2>4. AccountsSynced(v, f[q], s, {a}, b)
    BY <2>1, <2>2, SyncAccountNames
  <2>5. q \ {a} \in SUBSET Accounts /\ a \in Accounts \ (q \ {a}) /\ (q \ {a}) \cup {a} = q
    BY <2>1
  <2>6. AccountsSynced(t, f[q], s, (q \ {a}) \cup {a}, b)
    BY <2>3, <2>4, <2>5, SyncedTwice
  <2> QED BY <2>5, <2>6
<1> HIDE DEF G
<1>5. SUBSET Q \subseteq G
  BY <1>2, <1>3, <1>4, SubsetInduction
<1> QED BY <1>1, <1>5 DEF G, fold

-----------------------------------------------------------------------------
(***************************************************************************)
(* A block names one name at most.                                         *)
(***************************************************************************)
AccountOf(s, n) == IF s.owner[n] # None THEN s.owner[n] ELSE s.queued[n]

StatusOf(s, n) ==
  IF s.owner[n] # None THEN IF n \in s.unbinding THEN "unbinding" ELSE "active"
  ELSE IF s.queued[n] # None THEN "pending" ELSE "removed"

LEMMA SyncUsernameNames ==
  ASSUME NEW t \in GoodTables, NEW s \in PalletState, NEW n \in Names
  PROVE  LET u == SyncUsername(t, s, n)
         IN  /\ u \in GoodTables /\ u.identities = t.identities /\ u.subs = t.subs
             /\ u.usernames[n].account = AccountOf(s, n) /\ u.usernames[n].status = StatusOf(s, n)
             /\ u.usernames[n].primary = t.usernames[n].primary
             /\ \A m \in Names \ {n} : u.usernames[m] = t.usernames[m]
             /\ u.ok => t.ok /\ OneShown(u)
             /\ t.ok /\ OneShown(u) => u.ok
<1> DEFINE account == AccountOf(s, n)
           status == StatusOf(s, n)
<1>1. account \in Accounts \cup {None} /\ status \in Statuses
  BY StateFields DEF AccountOf, StatusOf, Statuses
<1>2. SyncUsername(t, s, n) = PutUsername(t, n, account, status)
  BY DEF SyncUsername, AccountOf, StatusOf
<1> HIDE DEF account, status
<1> DEFINE u == PutUsername(t, n, account, status)
<1>3. /\ u \in GoodTables /\ u.identities = t.identities /\ u.subs = t.subs /\ (u.ok => t.ok)
      /\ u.usernames[n].account = account /\ u.usernames[n].status = status
      /\ u.usernames[n].primary = t.usernames[n].primary
      /\ \A m \in Names \ {n} : u.usernames[m] = t.usernames[m]
      /\ u.ok => OneShown(u)
      /\ t.ok /\ OneShown(u) => u.ok
  BY <1>1, PutUsernameNames
<1> QED BY <1>2, <1>3 DEF account, status

LEMMA SyncNoUsername ==
  ASSUME NEW t \in GoodTables, NEW s \in PalletState
  PROVE  FoldSet(LAMBDA n, u : SyncUsername(u, s, n), t, {}) = t
<1> DEFINE Q == {}
           fold == FoldSet(LAMBDA n, u : SyncUsername(u, s, n), t, Q)
<1>1. Q \in SUBSET Names
  OBVIOUS
<1> HIDE DEF Q
<1>2. fold \in SyncUsernamesFolded(t, s, Q)
  BY <1>1, SyncUsernamesFold
<1> HIDE DEF fold
<1>3. fold = t
  BY <1>2 DEF SyncUsernamesFolded, Q
<1> QED BY <1>3 DEF fold, Q

LEMMA SyncOneUsername ==
  ASSUME NEW t \in GoodTables, NEW s \in PalletState, NEW n \in Names
  PROVE  FoldSet(LAMBDA m, u : SyncUsername(u, s, m), t, {n}) = SyncUsername(t, s, n)
<1> DEFINE Q == {n}
           fold == FoldSet(LAMBDA m, u : SyncUsername(u, s, m), t, Q)
<1>1. Q \in SUBSET Names /\ Q # {} /\ (CHOOSE x \in Q : TRUE) = n
  OBVIOUS
<1>2. Rest(Q) = {}
  BY <1>1 DEF Rest
<1> HIDE DEF Q
<1>3. fold \in SyncUsernamesFolded(t, s, Q)
  BY <1>1, SyncUsernamesFold
<1> HIDE DEF fold
<1>4. PICK f \in [SUBSET Q -> GoodTables] :
        /\ f[Q] = fold
        /\ f[{}] = t
        /\ \A q \in SUBSET Q : q # {} => f[q] = SyncUsername(f[Rest(q)], s, (CHOOSE x \in q : TRUE))
  BY <1>3 DEF SyncUsernamesFolded
<1>5. Q \in SUBSET Q
  OBVIOUS
<1>6. fold = SyncUsername(t, s, n)
  BY <1>1, <1>2, <1>4, <1>5
<1> QED BY <1>6 DEF fold, Q

(* What the handler makes of a block, in two parts.                        *)
NamesSynced(u, w, s, B) ==
  \/ B = {} /\ w = u
  \/ \E n \in Names : B = {n} /\ w = SyncUsername(u, s, n)

LEMMA HandledParts ==
  ASSUME OnChain, Coherent(origin), NEW t \in GoodTables, NEW b \in 1 .. Height
  PROVE  \E Q \in SUBSET Accounts, u \in GoodTables :
            /\ Touched(b) \subseteq Q
            /\ \A x \in Accounts : StateAt(b).super[x] \in Touched(b) => x \in Q
            /\ AccountsSynced(t, u, StateAt(b), Q, b)
            /\ NamesSynced(u, Handled(t, b), StateAt(b), Renamed(b))
<1> DEFINE s == StateAt(b)
           Q == Queued(Touched(b), s)
           B == Renamed(b)
           u == FoldSet(LAMBDA a, v : SyncAccount(v, s, a, b), t, Q)
           w == FoldSet(LAMBDA n, v : SyncUsername(v, s, n), u, B)
<1>1. /\ Touched(b) \in SUBSET Accounts /\ s \in PalletState /\ b \in Nat /\ b \in 0 .. Height
      /\ Coherent(s)
  BY BlocksTyped, ChainCoherent
<1>2. Q \in SUBSET Accounts /\ Touched(b) \subseteq Q
      /\ \A x \in Accounts : s.super[x] \in Touched(b) => x \in Q
  BY <1>1, QueueHolds DEF SubsOf
<1>3. B = {} \/ \E n \in Names : B = {n}
  <2>1. chain[b].call \in PalletCalls
    BY BlocksTyped
  <2> QED BY <2>1, CallFields DEF Renamed, TouchedNames
<1>4. Handled(t, b) = w
  BY DEF Handled, Sync
<1> HIDE DEF s, Q, B
<1>5. AccountsSynced(t, u, s, Q, b)
  BY <1>1, <1>2, SyncAccountsNames
<1> HIDE DEF u
<1>6. u \in GoodTables
  BY <1>5 DEF AccountsSynced, PutAll
<1>7. NamesSynced(u, w, s, B)
  <2>1. CASE B = {}
    <3>1. FoldSet(LAMBDA n, v : SyncUsername(v, s, n), u, {}) = u
      BY <1>1, <1>6, SyncNoUsername
    <3> QED BY <2>1, <3>1 DEF NamesSynced
  <2>2. CASE \E n \in Names : B = {n}
    <3>1. PICK n \in Names : B = {n}
      BY <2>2
    <3>2. FoldSet(LAMBDA m, v : SyncUsername(v, s, m), u, {n}) = SyncUsername(u, s, n)
      BY <1>1, <1>6, SyncOneUsername
    <3> QED BY <3>1, <3>2 DEF NamesSynced
  <2> QED BY <1>3, <2>1, <2>2
<1> QED BY <1>2, <1>4, <1>5, <1>6, <1>7 DEF s, B

-----------------------------------------------------------------------------
(***************************************************************************)
(* Where a row with is_primary comes from, when the tables stand at block  *)
(* b and knew the blocks up to `top' before: the name is an account's that *)
(* had it, or was removed, or a replay comes to its grant again.           *)
(***************************************************************************)
RowRooted(row, n, b, top) ==
  \/ row.account # None /\ \E x \in 0 .. top : OwnerOf(x, n) = row.account
  \/ \E c \in 1 .. top : Does(c, "remove", n)
  \/ \E c \in (b + 1) .. top : Does(c, "grant", n)

Rooted(t, b, top) ==
  \A n \in Names : t.usernames[n].primary => RowRooted(t.usernames[n], n, b, top)

LEMMA RootedAccounts ==
  ASSUME OnChain, NEW b \in 0 .. Height, NEW top \in b .. Height, NEW p, NEW t \in GoodTables,
         NEW u \in GoodTables, NEW Q \in SUBSET Accounts,
         AccountsSynced(t, u, StateAt(b), Q, b), Rooted(t, p, top)
  PROVE  Rooted(u, p, top)
<1> DEFINE s == StateAt(b)
<1> SUFFICES ASSUME NEW n \in Names, u.usernames[n].primary
             PROVE  RowRooted(u.usernames[n], n, p, top)
  BY DEF Rooted
<1>1. u.usernames[n] = NameSynced(s, Q, n, t.usernames[n]) /\ t.usernames[n] \in NameRow
  BY DEF AccountsSynced, GoodTables, TableType
<1>2. CASE s.owner[n] \in Q /\ s.primary[s.owner[n]] = n
  <2>1. u.usernames[n].account = OwnerOf(b, n) /\ OwnerOf(b, n) # None
    BY <1>1, <1>2, NoneIsNoBlock DEF NameSynced, PromotedRow, OwnerOf
  <2>2. b \in 0 .. top
    BY BlocksTyped
  <2> QED BY <2>1, <2>2 DEF RowRooted
<1>3. CASE ~(s.owner[n] \in Q /\ s.primary[s.owner[n]] = n) /\ t.usernames[n].account \in Q
  BY <1>1, <1>3 DEF NameSynced, NameRow
<1>4. CASE ~(s.owner[n] \in Q /\ s.primary[s.owner[n]] = n) /\ t.usernames[n].account \notin Q
  <2>1. u.usernames[n] = t.usernames[n]
    BY <1>1, <1>4 DEF NameSynced
  <2> QED BY <2>1 DEF Rooted
<1> QED BY <1>2, <1>3, <1>4

LEMMA RootedNext ==
  ASSUME OnChain, Coherent(origin), NEW top \in 0 .. Height, NEW b \in 1 .. top,
         NEW t \in GoodTables, Rooted(t, b - 1, top)
  PROVE  Rooted(Handled(t, b), b, top)
<1> DEFINE s == StateAt(b)
           w == Handled(t, b)
<1>0. Height \in Nat /\ top \in Nat /\ b \in Nat /\ b \in 1 .. Height /\ b \in 0 .. Height /\ b \in 0 .. top
      /\ (b - 1) + 1 = b /\ b <= top
  BY BlocksTyped
<1>1. PICK Q \in SUBSET Accounts, u \in GoodTables :
         AccountsSynced(t, u, s, Q, b) /\ NamesSynced(u, w, s, Renamed(b))
  BY <1>0, HandledParts
<1>2. s \in PalletState /\ u \in TableType /\ t \in TableType
  BY <1>0, BlocksTyped DEF GoodTables
<1>3. \A n \in Names : s.owner[n] = OwnerOf(b, n)
  BY DEF OwnerOf
<1> HIDE DEF s, w
<1>4. Rooted(u, b - 1, top)
  <2>1. top \in b .. Height
    BY <1>0
  <2> QED BY <1>0, <1>1, <2>1, RootedAccounts DEF s
<1>5. ASSUME NEW n \in Names \ Renamed(b), RowRooted(u.usernames[n], n, b - 1, top)
      PROVE  RowRooted(u.usernames[n], n, b, top)
  <2>1. ~Does(b, "grant", n)
    BY <1>0, <1>5, OwnerMoves
  <2>2. \A c \in b .. top : c = b \/ c \in (b + 1) .. top
    BY <1>0
  <2> QED BY <1>0, <1>5, <2>1, <2>2 DEF RowRooted
<1>6. CASE Renamed(b) = {} /\ w = u
  BY <1>4, <1>5, <1>6 DEF Rooted, w
<1>7. ASSUME NEW k \in Names, Renamed(b) = {k}, w = SyncUsername(u, s, k)
      PROVE  Rooted(w, b, top)
  <2>1. /\ w.usernames[k].account = AccountOf(s, k)
        /\ w.usernames[k].primary = u.usernames[k].primary
        /\ \A m \in Names \ {k} : w.usernames[m] = u.usernames[m]
    BY <1>2, <1>7, SyncUsernameNames
  <2>2. ASSUME NEW n \in Names \ {k}, w.usernames[n].primary PROVE RowRooted(w.usernames[n], n, b, top)
    BY <1>4, <1>5, <1>7, <2>1, <2>2 DEF Rooted
  <2>3. ASSUME u.usernames[k].primary PROVE RowRooted(w.usernames[k], k, b, top)
    <3>1. CASE OwnerOf(b, k) # None
      <4>1. w.usernames[k].account = OwnerOf(b, k)
        BY <1>3, <2>1, <3>1 DEF AccountOf
      <4> QED BY <1>0, <3>1, <4>1 DEF RowRooted
    <3>2. CASE OwnerOf(b, k) = None
      <4>1. RowRooted(u.usernames[k], k, b - 1, top)
        BY <1>4, <2>3 DEF Rooted
      <4>2. ASSUME NEW x \in 0 .. top, OwnerOf(x, k) # None
            PROVE  \/ \E c \in 1 .. top : Does(c, "remove", k)
                   \/ \E c \in (b + 1) .. top : Does(c, "grant", k)
        <5>1. x \in Nat /\ x \in 0 .. Height
          BY <1>0
        <5>2. CASE x <= b
          <6>1. b \in x .. Height
            BY <1>0, <5>1, <5>2
          <6>2. PICK c \in (x + 1) .. b : Does(c, "remove", k)
            BY <3>2, <4>2, <5>1, <6>1, OwnerHistory
          <6>3. c \in 1 .. top
            BY <1>0, <5>1
          <6> QED BY <6>2, <6>3
        <5>3. CASE b < x
          <6>1. x \in b .. Height
            BY <1>0, <5>1, <5>3
          <6>2. PICK c \in (b + 1) .. x : Does(c, "grant", k)
            BY <1>0, <3>2, <4>2, <6>1, OwnerHistory
          <6>3. c \in (b + 1) .. top
            BY <1>0, <5>1
          <6> QED BY <6>2, <6>3
        <5> QED BY <1>0, <5>1, <5>2, <5>3
      <4>3. ASSUME NEW c \in b .. top, Does(c, "grant", k) PROVE c \in (b + 1) .. top
        <5>1. c # b
          BY <1>0, <3>2, <4>3, OwnerMoves, NoneIsNoBlock
        <5> QED BY <1>0, <5>1
      <4> QED BY <1>0, <4>1, <4>2, <4>3 DEF RowRooted
    <3> QED BY <3>1, <3>2
  <2> QED BY <2>1, <2>2, <2>3 DEF Rooted
<1> QED BY <1>1, <1>6, <1>7 DEF NamesSynced, w

LEMMA RootedWider ==
  ASSUME NEW t, NEW p \in Nat, NEW b \in Nat, NEW top \in Nat, NEW higher \in Nat,
         Rooted(t, p, top), top <= p \/ b <= p, top <= higher
  PROVE  Rooted(t, b, higher)
<1> SUFFICES ASSUME NEW n \in Names, t.usernames[n].primary
             PROVE  RowRooted(t.usernames[n], n, b, higher)
  BY DEF Rooted
<1>1. RowRooted(t.usernames[n], n, p, top)
  BY DEF Rooted
<1>2. /\ 0 .. top \subseteq 0 .. higher /\ 1 .. top \subseteq 1 .. higher
      /\ (p + 1) .. top \subseteq (b + 1) .. higher
  OBVIOUS
<1> QED BY <1>1, <1>2 DEF RowRooted

(***************************************************************************)
(* A new block breaks no index as long as no name was granted again.       *)
(***************************************************************************)
LEMMA SoundNext ==
  ASSUME OnChain, Coherent(origin), Regranted = {}, NEW b \in 1 .. Height,
         NEW t \in GoodTables, Sound(t, b), Rooted(t, b, b)
  PROVE  Sound(Handled(t, b), b) /\ Rooted(Handled(t, b), b, b)
<1> DEFINE s == StateAt(b)
           w == Handled(t, b)
<1>0. Height \in Nat /\ b \in Nat /\ b \in 0 .. Height /\ b \in 1 .. b /\ b - 1 \in Nat /\ s \in PalletState
      /\ Coherent(s)
  BY BlocksTyped, ChainCoherent
<1>1. Rooted(w, b, b)
  <2>1. Rooted(t, b - 1, b)
    BY <1>0, RootedWider
  <2> QED BY <1>0, <2>1, RootedNext
<1>2. PICK Q \in SUBSET Accounts, u \in GoodTables :
         /\ Touched(b) \subseteq Q
         /\ AccountsSynced(t, u, s, Q, b) /\ NamesSynced(u, w, s, Renamed(b))
  BY HandledParts
<1>3. Sound(u, b)
  BY <1>0, <1>2, SoundAfter
<1> HIDE DEF s, w
<1>4. CASE w = u
  BY <1>1, <1>3, <1>4 DEF w
<1>5. ASSUME NEW k \in Names, Renamed(b) = {k}, w = SyncUsername(u, s, k) PROVE Sound(w, b)
  <2>1. /\ w.identities = u.identities
        /\ w.usernames[k].account = AccountOf(s, k) /\ w.usernames[k].status = StatusOf(s, k)
        /\ w.usernames[k].primary = u.usernames[k].primary
        /\ \A m \in Names \ {k} : w.usernames[m] = u.usernames[m]
        /\ u.ok /\ OneShown(w) => w.ok
    BY <1>0, <1>5, SyncUsernameNames
  <2>2. ASSUME NEW a \in Accounts, k \in Shown(w, a) PROVE Shown(w, a) \subseteq {k}
    <3>1. s.owner[k] = a /\ k \notin s.unbinding /\ w.usernames[k].account = a /\ w.usernames[k].primary
      BY <2>1, <2>2 DEF Shown, AccountOf, StatusOf
    <3>2. a \in Q
      <4> DEFINE c == chain[b].call
      <4>1. c \in PalletCalls /\ c.name = k /\ c.op \in {"grant", "queue", "prefer", "unbind", "remove"}
        BY <1>5, BlocksTyped DEF Renamed, TouchedNames
      <4>2. Allowed(c, StateAt(b - 1)) /\ s = After(c, StateAt(b - 1)) /\ StateAt(b - 1) \in PalletState
        BY <1>0, BlocksTyped DEF OnChain, StateAt, s
      <4>3. Touched(b) = TouchedAccounts(c, StateAt(b - 1))
        BY DEF Touched
      <4> HIDE DEF c
      <4>4. c.op \in {"grant", "prefer"} /\ c.who = a
        <5>1. CASE c.op \in {"grant", "prefer"}
          BY <3>1, <4>1, <4>2, <5>1, CallFields DEF Allowed, After, PalletState
        <5>2. CASE c.op = "queue"
          BY <3>1, <4>1, <4>2, <5>2, NoneIsNoBlock, CallFields DEF Allowed, After, PalletState
        <5>3. CASE c.op = "unbind"
          BY <3>1, <4>1, <4>2, <5>3, CallFields DEF Allowed, After, PalletState
        <5>4. CASE c.op = "remove"
          BY <3>1, <4>1, <4>2, <5>4, NoneIsNoBlock, CallFields DEF Allowed, After, PalletState
        <5> QED BY <4>1, <5>1, <5>2, <5>3, <5>4
      <4>5. a \in Touched(b)
        BY <4>3, <4>4 DEF TouchedAccounts
      <4> QED BY <1>2, <4>5
    <3>3. ASSUME NEW n \in Names, u.usernames[n].account = a, u.usernames[n].primary
          PROVE  n = s.primary[a]
      <4>1. u.usernames[n] = NameSynced(s, Q, n, t.usernames[n]) /\ t.usernames[n] \in NameRow
        BY <1>2 DEF AccountsSynced, GoodTables, TableType
      <4>2. CASE s.owner[n] \in Q /\ s.primary[s.owner[n]] = n
        BY <3>3, <4>1, <4>2 DEF NameSynced, PromotedRow
      <4>3. CASE ~(s.owner[n] \in Q /\ s.primary[s.owner[n]] = n)
        BY <3>2, <3>3, <4>1, <4>3 DEF NameSynced, NameRow
      <4> QED BY <4>2, <4>3
    <3>4. u.usernames[k].account = a
      <4>1. RowRooted(u.usernames[k], k, b, b)
        <5>1. b \in b .. Height
          BY <1>0
        <5>2. Rooted(u, b, b)
          BY <1>0, <1>2, <5>1, RootedAccounts DEF s
        <5> QED BY <2>1, <3>1, <5>2 DEF Rooted
      <4>2. OwnerOf(b, k) = a /\ a # None /\ k \in Names \ Regranted /\ OwnerOf(b, k) # None
        BY <1>0, <3>1, NoneIsNoBlock DEF OwnerOf, s
      <4>3. (b + 1) .. b = {} /\ 0 .. b \subseteq 0 .. Height /\ 0 \in 0 .. Height
        BY <1>0
      <4>4. \A c \in 1 .. b : ~Does(c, "remove", k)
        BY <1>0, <4>2, <4>3, OneOwner
      <4>5. PICK x \in 0 .. b : u.usernames[k].account # None /\ OwnerOf(x, k) = u.usernames[k].account
        BY <4>1, <4>3, <4>4 DEF RowRooted
      <4> QED BY <1>0, <4>2, <4>3, <4>5, OneOwner
    <3>5. ASSUME NEW n \in Shown(w, a), n # k PROVE FALSE
      <4>1. n \in Names /\ u.usernames[n].account = a /\ u.usernames[n].primary
        BY <2>1, <3>5 DEF Shown
      <4> QED BY <2>1, <3>1, <3>3, <3>4, <3>5, <4>1
    <3> QED BY <3>5
  <2>3. ASSUME NEW a \in Accounts, k \notin Shown(w, a) PROVE Shown(w, a) \subseteq Shown(u, a)
    BY <2>1, <2>3 DEF Shown
  <2>4. OneShown(w)
    BY <1>3, <2>2, <2>3 DEF Sound, OneShown
  <2>5. \A a \in Accounts : Rows(w, a) = Rows(u, a)
    BY <2>1 DEF Rows
  <2> QED BY <1>3, <2>1, <2>4, <2>5 DEF Sound
<1> QED BY <1>1, <1>2, <1>4, <1>5 DEF NamesSynced, w

LEMMA SoundLater ==
  ASSUME NEW t \in GoodTables, NEW p \in Nat, NEW b \in Nat, p <= b, Sound(t, p)
  PROVE  Sound(t, b)
<1>1. ASSUME NEW a \in Accounts PROVE Before(Rows(t, a), b)
  <2>1. Rows(t, a) \in SUBSET IdentityRow /\ Before(Rows(t, a), p)
    BY DEF GoodTables, TableType, Rows, Sound
  <2>2. \A r \in Rows(t, a) : r.from \in Nat /\ (r.to # None => r.to \in Int)
    BY <2>1, RowFields
  <2> QED BY <2>1, <2>2 DEF Before
<1> QED BY <1>1 DEF Sound

(* A handler that commits has left the indexes whole.                      *)
LEMMA HandledKeepsIndex ==
  ASSUME OnChain, Coherent(origin), NEW t \in GoodTables, NEW b \in 1 .. Height
  PROVE  KeepsIndex(t, Handled(t, b)) /\ Handled(t, b) \in GoodTables
<1> DEFINE w == Handled(t, b)
           s == StateAt(b)
<1>1. s \in PalletState /\ b \in 0 .. Height
  BY BlocksTyped
<1>2. PICK Q \in SUBSET Accounts, u \in GoodTables :
         AccountsSynced(t, u, s, Q, b) /\ NamesSynced(u, w, s, Renamed(b))
  BY HandledParts
<1> HIDE DEF w, s
<1>3. CASE w = u
  BY <1>2, <1>3 DEF AccountsSynced, w
<1>4. ASSUME NEW k \in Names, w = SyncUsername(u, s, k) PROVE KeepsIndex(t, w) /\ w \in GoodTables
  BY <1>1, <1>2, <1>4, SyncUsernameNames DEF AccountsSynced, KeepsIndex
<1> QED BY <1>2, <1>3, <1>4 DEF NamesSynced, w

-----------------------------------------------------------------------------
(***************************************************************************)
(* The sweeps and the unique indexes.  Before the first block only they    *)
(* have written rows of names.                                             *)
(***************************************************************************)
Fresh(t) ==
  \A n \in Names : LET row == t.usernames[n] IN
    row.status \in {"absent", "active"} /\ (row.primary => row.status = "active")

(* A sweep that writes no row of a name.                                   *)
LeavesNames(t, u, b) == u.usernames = t.usernames /\ (Sound(t, b) => u.ok)

LEMMA SweptIdentitiesNames ==
  ASSUME NEW t \in GoodTables, NEW s \in PalletState, NEW b \in Nat, NEW Q \in SUBSET Accounts
  PROVE  LeavesNames(t, FoldSet(LAMBDA a, u : PutIdentity(u, a, b, s.identity[a]), t, Q), b)
<1> DEFINE fold == FoldSet(LAMBDA a, u : PutIdentity(u, a, b, s.identity[a]), t, Q)
<1>0. fold \in PutIdentitiesFolded(t, s, Q, b)
  BY PutIdentitiesFold
<1> HIDE DEF fold
<1>1. PICK f \in [SUBSET Q -> GoodTables] :
        /\ f[Q] = fold
        /\ f[{}] = t
        /\ \A q \in SUBSET Q : q # {} => f[q] = PutIdentity(f[Rest(q)], (CHOOSE x \in q : TRUE), b, s.identity[(CHOOSE x \in q : TRUE)])
  BY <1>0 DEF PutIdentitiesFolded
<1>2. IsFiniteSet(Q)
  BY IdentityAssumption, FS_Subset
<1> DEFINE G == {q \in SUBSET Q : f[q].usernames = t.usernames /\ (Sound(t, b) => Sound(f[q], b))}
<1>3. {} \in G
  BY <1>1
<1>4. ASSUME NEW q \in SUBSET Q, q # {}, Rest(q) \in G PROVE q \in G
  <2> DEFINE a == CHOOSE x \in q : TRUE
             v == f[Rest(q)]
  <2>1. a \in q /\ a \in Q /\ Rest(q) = q \ {a}
    BY <1>4 DEF Rest
  <2>2. f[q] = PutIdentity(v, a, b, s.identity[a]) /\ v \in GoodTables /\ f[q] \in GoodTables
    BY <1>1, <1>4, <2>1
  <2>3. v.usernames = t.usernames /\ (Sound(t, b) => Sound(v, b))
    BY <1>4, <2>1
  <2> HIDE DEF a, v
  <2>4. a \in Accounts /\ s.identity[a] \in Raws \cup {None}
    BY <2>1, StateFields
  <2>5. /\ f[q].usernames = v.usernames
        /\ v.ok /\ OneShown(v) /\ Before(Rows(v, a), b) => f[q].ok
    BY <2>2, <2>4, PutIdentityNames
  <2>6. ASSUME Sound(v, b) PROVE Sound(f[q], b)
    <3>1. f[q].ok /\ OneShown(f[q])
      BY <2>4, <2>5, <2>6 DEF Sound, OneShown, Shown
    <3>2. /\ Rows(f[q], a) = PutRows(a, Rows(v, a), b, s.identity[a])
          /\ \A c \in Accounts \ {a} : Rows(f[q], c) = Rows(v, c)
      BY <2>2, <2>4, PutIdentityRows
    <3>3. Before(Rows(v, a), b) /\ OneOpen(Rows(v, a)) /\ Rows(v, a) \in SUBSET IdentityRow
      BY <2>2, <2>4, <2>6 DEF Sound, GoodTables, TableType, Rows
    <3>4. Before(Rows(f[q], a), b)
      BY <2>4, <3>2, <3>3, PutAfter
    <3> QED BY <2>6, <3>1, <3>2, <3>4 DEF Sound
  <2> QED BY <2>3, <2>5, <2>6
<1> HIDE DEF G
<1>5. SUBSET Q \subseteq G
  BY <1>2, <1>3, <1>4, SubsetInduction
<1>6. fold.usernames = t.usernames /\ (Sound(t, b) => Sound(fold, b))
  BY <1>1, <1>5 DEF G
<1> QED BY <1>6 DEF fold, Sound, LeavesNames

(* What a sweep of names at block b keeps.                                 *)
KeepsNames(t, u, b) ==
  /\ u \in GoodTables
  /\ KeepsIndex(t, u)
  /\ Rooted(t, b, b) => Rooted(u, b, b)
  /\ Fresh(t) => Fresh(u)
  /\ t.ok /\ OneShown(t) /\ Rooted(t, b, b) /\ Fresh(t) /\ Regranted = {} => u.ok

LEMMA KeepsNamesTwice ==
  ASSUME NEW t, NEW v, NEW u, NEW b, KeepsNames(t, v, b), KeepsNames(v, u, b)
  PROVE  KeepsNames(t, u, b)
BY DEF KeepsNames, KeepsIndex

LEMMA PutUsernameKeepsNames ==
  ASSUME OnChain, NEW b \in 0 .. Height, NEW t \in GoodTables, NEW n \in Names, OwnerOf(b, n) # None
  PROVE  KeepsNames(t, PutUsername(t, n, OwnerOf(b, n), "active"), b)
<1> DEFINE o == OwnerOf(b, n)
           u == PutUsername(t, n, o, "active")
<1>0. o \in Accounts /\ Height \in Nat /\ b \in Nat /\ (b + 1) .. b = {} /\ b \in 0 .. b /\ 0 \in 0 .. Height
  BY BlocksTyped, StateFields DEF OwnerOf
<1>1. o \in Accounts \cup {None} /\ "active" \in Statuses
  BY <1>0 DEF Statuses
<1> HIDE DEF o
<1>2. /\ u \in GoodTables /\ u.identities = t.identities /\ u.subs = t.subs /\ (u.ok => t.ok)
      /\ u.usernames[n].account = o /\ u.usernames[n].status = "active"
      /\ u.usernames[n].primary = t.usernames[n].primary
      /\ \A m \in Names \ {n} : u.usernames[m] = t.usernames[m]
      /\ u.ok => OneShown(u)
      /\ t.ok /\ OneShown(u) => u.ok
  BY <1>1, PutUsernameNames
<1> HIDE DEF u
<1>3. ASSUME Rooted(t, b, b) PROVE Rooted(u, b, b)
  <2>1. RowRooted(u.usernames[n], n, b, b)
    BY <1>0, <1>2, NoneIsNoBlock DEF RowRooted, o
  <2> QED BY <1>2, <1>3, <2>1 DEF Rooted
<1>4. ASSUME Fresh(t) PROVE Fresh(u)
  BY <1>2, <1>4 DEF Fresh
<1>5. ASSUME OneShown(t), Rooted(t, b, b), Fresh(t), Regranted = {}, t.usernames[n].primary
      PROVE  t.usernames[n].account = o /\ t.usernames[n].status = "active"
  <2>1. RowRooted(t.usernames[n], n, b, b)
    BY <1>5 DEF Rooted
  <2>2. n \in Names \ Regranted /\ 0 .. b \subseteq 0 .. Height
    BY <1>0, <1>5
  <2>3. \A c \in 1 .. b : ~Does(c, "remove", n)
    BY <1>0, <2>2, OneOwner
  <2>4. PICK x \in 0 .. b : t.usernames[n].account # None /\ OwnerOf(x, n) = t.usernames[n].account
    BY <1>0, <2>1, <2>3 DEF RowRooted
  <2>5. OwnerOf(x, n) = o
    BY <1>0, <2>2, <2>4, OneOwner DEF o
  <2> QED BY <1>5, <2>4, <2>5 DEF Fresh
<1>6. ASSUME OneShown(t), Rooted(t, b, b), Fresh(t), Regranted = {} PROVE OneShown(u)
  <2>1. \A a \in Accounts : Shown(u, a) \subseteq Shown(t, a)
    BY <1>2, <1>5, <1>6 DEF Shown
  <2> QED BY <1>6, <2>1 DEF OneShown
<1> QED BY <1>2, <1>3, <1>4, <1>6 DEF KeepsNames, KeepsIndex, u, o

LEMMA SweptUsernamesNames ==
  ASSUME OnChain, NEW b \in 0 .. Height, NEW t \in GoodTables, NEW s \in PalletState, s = StateAt(b),
         NEW Q \in SUBSET Names, \A n \in Q : s.owner[n] # None
  PROVE  KeepsNames(t, FoldSet(LAMBDA n, u : PutUsername(u, n, s.owner[n], "active"), t, Q), b)
<1> DEFINE fold == FoldSet(LAMBDA n, u : PutUsername(u, n, s.owner[n], "active"), t, Q)
<1>0. fold \in PutUsernamesFolded(t, s, Q)
  BY PutUsernamesFold
<1> HIDE DEF fold
<1>1. PICK f \in [SUBSET Q -> GoodTables] :
        /\ f[Q] = fold
        /\ f[{}] = t
        /\ \A q \in SUBSET Q : q # {} => f[q] = PutUsername(f[Rest(q)], (CHOOSE x \in q : TRUE), s.owner[(CHOOSE x \in q : TRUE)], "active")
  BY <1>0 DEF PutUsernamesFolded
<1>2. IsFiniteSet(Q)
  BY IdentityAssumption, FS_Subset
<1> DEFINE G == {q \in SUBSET Q : KeepsNames(t, f[q], b)}
<1>3. {} \in G
  BY <1>1 DEF KeepsNames, KeepsIndex
<1>4. ASSUME NEW q \in SUBSET Q, q # {}, Rest(q) \in G PROVE q \in G
  <2> DEFINE n == CHOOSE x \in q : TRUE
             v == f[Rest(q)]
  <2>1. n \in q /\ n \in Q /\ Rest(q) = q \ {n}
    BY <1>4 DEF Rest
  <2>2. f[q] = PutUsername(v, n, s.owner[n], "active") /\ v \in GoodTables
    BY <1>1, <1>4, <2>1
  <2>3. KeepsNames(t, v, b)
    BY <1>4, <2>1
  <2> HIDE DEF n, v
  <2>4. KeepsNames(v, f[q], b)
    <3>1. s.owner[n] = OwnerOf(b, n) /\ OwnerOf(b, n) # None /\ n \in Names
      BY <2>1 DEF OwnerOf
    <3> QED BY <2>2, <3>1, PutUsernameKeepsNames
  <2>5. KeepsNames(t, f[q], b)
    BY <2>3, <2>4, KeepsNamesTwice
  <2> QED BY <2>5
<1> HIDE DEF G
<1>5. SUBSET Q \subseteq G
  BY <1>2, <1>3, <1>4, SubsetInduction
<1>6. KeepsNames(t, fold, b)
  BY <1>1, <1>5 DEF G
<1> QED BY <1>6 DEF fold

LEMMA SetPrimaryKeepsNames ==
  ASSUME OnChain, NEW b \in 0 .. Height, NEW s \in PalletState, s = StateAt(b), Coherent(s),
         NEW t \in GoodTables, NEW a \in Accounts, s.primary[a] # None
  PROVE  KeepsNames(t, SetPrimaryUsername(t, a, s.primary[a]), b)
<1> DEFINE p == s.primary[a]
           u == SetPrimaryUsername(t, a, p)
<1>0. p \in Names /\ OwnerOf(b, p) = a /\ a # None /\ b \in 0 .. b
  BY BlocksTyped, StateFields, NoneIsNoBlock DEF Coherent, OwnerOf
<1> HIDE DEF p
<1>1. /\ u \in GoodTables
      /\ \A n \in Names : u.usernames[n] = IF n = p THEN PromotedRow(t.usernames[n], a)
                                           ELSE DemotedRow(t.usernames[n], a)
      /\ KeepsIndex(t, u)
      /\ t.ok /\ OneShown(t) => u.ok
  BY <1>0, SetPrimaryNames
<1> HIDE DEF u
<1>2. ASSUME NEW n \in Names, n # p
      PROVE  /\ u.usernames[n].primary => u.usernames[n] = t.usernames[n]
             /\ u.usernames[n].status = t.usernames[n].status
  <2>1. t.usernames[n] \in NameRow
    BY DEF GoodTables, TableType
  <2> QED BY <1>1, <1>2, <2>1 DEF DemotedRow, NameRow
<1>3. /\ u.usernames[p].account = a /\ u.usernames[p].primary
      /\ u.usernames[p].status = IF t.usernames[p].status = "absent" THEN "active"
                                  ELSE t.usernames[p].status
  <2>1. u.usernames[p] = PromotedRow(t.usernames[p], a)
    BY <1>0, <1>1
  <2> QED BY <2>1 DEF PromotedRow
<1>4. ASSUME Rooted(t, b, b) PROVE Rooted(u, b, b)
  <2>1. RowRooted(u.usernames[p], p, b, b)
    BY <1>0, <1>3 DEF RowRooted
  <2> QED BY <1>2, <1>4, <2>1 DEF Rooted
<1>5. ASSUME Fresh(t) PROVE Fresh(u)
  BY <1>0, <1>2, <1>3, <1>5 DEF Fresh
<1> QED BY <1>1, <1>4, <1>5 DEF KeepsNames, u, p

LEMMA SweptPrimariesNames ==
  ASSUME OnChain, NEW b \in 0 .. Height, NEW s \in PalletState, s = StateAt(b), Coherent(s),
         NEW t \in GoodTables, NEW Q \in SUBSET Accounts, \A a \in Q : s.primary[a] # None
  PROVE  KeepsNames(t, FoldSet(LAMBDA a, u : SetPrimaryUsername(u, a, s.primary[a]), t, Q), b)
<1> DEFINE fold == FoldSet(LAMBDA a, u : SetPrimaryUsername(u, a, s.primary[a]), t, Q)
<1>0. fold \in SetPrimariesFolded(t, s, Q)
  BY SetPrimariesFold
<1> HIDE DEF fold
<1>1. PICK f \in [SUBSET Q -> GoodTables] :
        /\ f[Q] = fold
        /\ f[{}] = t
        /\ \A q \in SUBSET Q : q # {} => f[q] = SetPrimaryUsername(f[Rest(q)], (CHOOSE x \in q : TRUE), s.primary[(CHOOSE x \in q : TRUE)])
  BY <1>0 DEF SetPrimariesFolded
<1>2. IsFiniteSet(Q)
  BY IdentityAssumption, FS_Subset
<1> DEFINE G == {q \in SUBSET Q : KeepsNames(t, f[q], b)}
<1>3. {} \in G
  BY <1>1 DEF KeepsNames, KeepsIndex
<1>4. ASSUME NEW q \in SUBSET Q, q # {}, Rest(q) \in G PROVE q \in G
  <2> DEFINE a == CHOOSE x \in q : TRUE
             v == f[Rest(q)]
  <2>1. a \in q /\ a \in Q /\ Rest(q) = q \ {a}
    BY <1>4 DEF Rest
  <2>2. f[q] = SetPrimaryUsername(v, a, s.primary[a]) /\ v \in GoodTables
    BY <1>1, <1>4, <2>1
  <2>3. KeepsNames(t, v, b)
    BY <1>4, <2>1
  <2> HIDE DEF a, v
  <2>4. KeepsNames(v, f[q], b)
    <3>1. s.primary[a] # None /\ a \in Accounts
      BY <2>1
    <3> QED BY <2>2, <3>1, SetPrimaryKeepsNames
  <2>5. KeepsNames(t, f[q], b)
    BY <2>3, <2>4, KeepsNamesTwice
  <2> QED BY <2>5
<1> HIDE DEF G
<1>5. SUBSET Q \subseteq G
  BY <1>2, <1>3, <1>4, SubsetInduction
<1>6. KeepsNames(t, fold, b)
  BY <1>1, <1>5 DEF G
<1> QED BY <1>6 DEF fold

LEMMA SweptSubsNames ==
  ASSUME NEW t \in GoodTables, NEW s \in PalletState, NEW b \in Nat, NEW Q \in SUBSET Accounts
  PROVE  LeavesNames(t, FoldSet(LAMBDA a, u : PutSub(u, a, s.super[a]), t, Q), b)
<1> DEFINE fold == FoldSet(LAMBDA a, u : PutSub(u, a, s.super[a]), t, Q)
<1>0. fold \in PutSubsFolded(t, s, Q)
  BY PutSubsFold
<1> HIDE DEF fold
<1>1. PICK f \in [SUBSET Q -> GoodTables] :
        /\ f[Q] = fold
        /\ f[{}] = t
        /\ \A q \in SUBSET Q : q # {} => f[q] = PutSub(f[Rest(q)], (CHOOSE x \in q : TRUE), s.super[(CHOOSE x \in q : TRUE)])
  BY <1>0 DEF PutSubsFolded
<1>2. IsFiniteSet(Q)
  BY IdentityAssumption, FS_Subset
<1> DEFINE G == {q \in SUBSET Q : f[q].usernames = t.usernames /\ f[q].ok = t.ok}
<1>3. {} \in G
  BY <1>1
<1>4. ASSUME NEW q \in SUBSET Q, q # {}, Rest(q) \in G PROVE q \in G
  <2>1. Rest(q) \in SUBSET Q
    BY DEF Rest
  <2>2. f[Rest(q)] \in TableType
    BY <1>1, <2>1 DEF GoodTables
  <2>3. f[q].usernames = f[Rest(q)].usernames /\ f[q].ok = f[Rest(q)].ok
    <3> DEFINE a == CHOOSE x \in q : TRUE
               v == f[Rest(q)]
    <3>1. f[q] = PutSub(v, a, s.super[a])
      BY <1>1, <1>4
    <3> HIDE DEF a, v
    <3>2. v \in TableType
      BY <2>2 DEF v
    <3> QED BY <3>1, <3>2 DEF PutSub, TableType, v
  <2> QED BY <1>4, <2>3
<1> HIDE DEF G
<1>5. SUBSET Q \subseteq G
  BY <1>2, <1>3, <1>4, SubsetInduction
<1>6. LeavesNames(t, fold, b)
  BY <1>1, <1>5 DEF G, LeavesNames, Sound
<1> QED BY <1>6 DEF fold

-----------------------------------------------------------------------------
(***************************************************************************)
(* The invariant of the indexes.                                           *)
(***************************************************************************)
NamesInv ==
  /\ Coherent(origin)
  /\ OneShown(tables) /\ Rooted(tables, Edge, Edge) /\ (~seeded => Fresh(tables))
  /\ OnlyRegrantsRefused

LEMMA NamesStart == Init => NamesInv
<1> SUFFICES ASSUME Init PROVE NamesInv
  OBVIOUS
<1>1. Coherent(origin) /\ refused = FALSE
  BY ProjectionAssumption DEF Init
<1>2. \A n \in Names : tables.usernames[n].primary = FALSE /\ tables.usernames[n].status = "absent"
  BY DEF Init, EmptyTables, NoName
<1>3. OneShown(tables) /\ Rooted(tables, Edge, Edge) /\ Fresh(tables)
  BY <1>2 DEF OneShown, Shown, Rooted, Fresh
<1> QED BY <1>1, <1>3 DEF NamesInv, OnlyRegrantsRefused

LEMMA SameOwners ==
  ASSUME UNCHANGED <<origin, chain>>
  PROVE  /\ Coherent(origin)' = Coherent(origin) /\ Regranted' = Regranted
         /\ \A t, b, top : Rooted(t, b, top) => Rooted(t, b, top)'
<1>1. \A x, n, op : OwnerOf(x, n)' = OwnerOf(x, n) /\ Does(x, op, n)' = Does(x, op, n)
  BY SameChainState DEF OwnerOf, Does
<1>2. Coherent(origin)' = Coherent(origin)
  BY DEF Coherent
<1>3. Regranted' = Regranted
  BY SameChainState DEF Regranted
<1> QED BY <1>1, <1>2, <1>3 DEF Rooted, RowRooted

LEMMA NamesWritten ==
  ASSUME NamesInv, UNCHANGED <<origin, chain>>, NEW t, NEW e, tables' = t, Edge' = e,
         OneShown(t), Rooted(t, e, e), ~seeded' => Fresh(t), refused' => refused \/ Regranted # {}
  PROVE  NamesInv'
<1>1. /\ Coherent(origin)' /\ Regranted' = Regranted
      /\ Rooted(t, e, e)'
  BY SameOwners DEF NamesInv
<1>2. Rooted(tables, Edge, Edge)'
  BY <1>1 DEF Rooted, RowRooted
<1> QED BY <1>1, <1>2 DEF NamesInv, OnlyRegrantsRefused, OneShown, Shown, Fresh

(* A step that writes no row of a name.                                    *)
LEMMA NamesMove ==
  ASSUME HistoryInv, NamesInv, UNCHANGED <<origin, chain>>, seeded => seeded',
         tables'.usernames = tables.usernames, Edge' \in Nat, Edge <= Edge',
         refused' => refused \/ Regranted # {}
  PROVE  NamesInv'
<1>1. PICK t, e : t = tables' /\ e = Edge'
  OBVIOUS
<1>2. Rooted(tables, e, e)
  <2> DEFINE d == Edge
  <2>1. d \in Nat /\ e \in Nat /\ d <= e /\ Rooted(tables, d, d)
    BY <1>1, IndexedOnChain, BlocksTyped DEF NamesInv, HistoryInv
  <2> HIDE DEF d
  <2> QED BY <2>1, RootedWider
<1>3. Rooted(t, e, e) /\ OneShown(t) /\ (~seeded => Fresh(t))
  BY <1>1, <1>2 DEF NamesInv, Rooted, OneShown, Shown, Fresh
<1> QED BY <1>1, <1>3, NamesWritten

LEMMA NamesKept ==
  ASSUME HistoryInv, NamesInv,
         Start \/ FinishBootstrap \/ PersistReads \/ CaughtUp \/ Kill \/ PowerCut \/ UNCHANGED vars
  PROVE  NamesInv'
<1>1. UNCHANGED <<origin, chain, tables, at, indexed, refused>> /\ (seeded => seeded')
  BY DEF Start, FinishBootstrap, PersistReads, CaughtUp, Kill, PowerCut, vars, chainVars, tableVars,
         processVars
<1>2. Phases /\ Height \in Nat
  BY BlocksTyped DEF HistoryInv
<1>3. snapshot' \in Nat /\ snapshot <= snapshot'
  <2>1. snapshot' = snapshot \/ snapshot' = IF source = "rpc" THEN at ELSE Height
    BY DEF Start, FinishBootstrap, PersistReads, CaughtUp, Kill, PowerCut, vars, processVars
  <2> QED BY <1>2, <2>1 DEF Phases
<1>4. Edge' \in Nat /\ Edge <= Edge'
  <2>1. at \in indexed => at \in Nat
    BY <1>2, IndexedOnChain
  <2> QED BY <1>1, <1>2, <1>3, <2>1 DEF Edge, Phases
<1> QED BY <1>1, <1>4, NamesMove

LEMMA NamesSwept ==
  ASSUME HistoryInv, NamesInv,
         SweepIdentities \/ SweepUsernames \/ SweepPrimaries \/ SweepSubs
  PROVE  NamesInv'
<1> DEFINE s == StateAt(snapshot)
<1>1. PICK t, next :
        /\ Swept(t, next)
        /\ \/ stage = "identities" /\ next = "names"
           \/ stage = "names" /\ next = "primaries"
           \/ stage = "primaries" /\ next = "subs"
           \/ stage = "subs" /\ next = "finish"
        /\ LeavesNames(tables, t, snapshot)
             \/ KeepsNames(tables, t, snapshot)
  <2>1. /\ s \in PalletState /\ tables \in GoodTables /\ Coherent(s) /\ OnChain
        /\ snapshot \in 0 .. Height /\ snapshot \in Nat
    BY BlocksTyped, ChainCoherent DEF HistoryInv, Phases, NamesInv
  <2>2. CASE SweepIdentities
    <3> DEFINE Q == {a \in Accounts : s.identity[a] # None}
               t == FoldSet(LAMBDA a, u : PutIdentity(u, a, snapshot, s.identity[a]), tables, Q)
    <3>1. stage = "identities" /\ Swept(t, "names")
      BY <2>2 DEF SweepIdentities
    <3>2. LeavesNames(tables, t, snapshot)
      <4>1. Q \in SUBSET Accounts
        OBVIOUS
      <4> HIDE DEF s, Q
      <4> QED BY <2>1, <4>1, SweptIdentitiesNames
    <3> QED BY <3>1, <3>2
  <2>3. CASE SweepUsernames
    <3> DEFINE Q == {n \in Names : s.owner[n] # None}
               t == FoldSet(LAMBDA n, u : PutUsername(u, n, s.owner[n], "active"), tables, Q)
    <3>1. stage = "names" /\ Swept(t, "primaries")
      BY <2>3 DEF SweepUsernames
    <3>2. KeepsNames(tables, t, snapshot)
      <4>1. Q \in SUBSET Names /\ (\A n \in Q : s.owner[n] # None) /\ s = StateAt(snapshot)
        OBVIOUS
      <4> HIDE DEF s, Q
      <4> QED BY <2>1, <4>1, SweptUsernamesNames
    <3> QED BY <3>1, <3>2
  <2>4. CASE SweepPrimaries
    <3> DEFINE Q == {a \in Accounts : s.primary[a] # None}
               t == FoldSet(LAMBDA a, u : SetPrimaryUsername(u, a, s.primary[a]), tables, Q)
    <3>1. stage = "primaries" /\ Swept(t, "subs")
      BY <2>4 DEF SweepPrimaries
    <3>2. KeepsNames(tables, t, snapshot)
      <4>1. Q \in SUBSET Accounts /\ (\A a \in Q : s.primary[a] # None) /\ s = StateAt(snapshot)
        OBVIOUS
      <4> HIDE DEF s, Q
      <4> QED BY <2>1, <4>1, SweptPrimariesNames
    <3> QED BY <3>1, <3>2
  <2>5. CASE SweepSubs
    <3> DEFINE Q == {a \in Accounts : s.super[a] # None}
               t == FoldSet(LAMBDA a, u : PutSub(u, a, s.super[a]), tables, Q)
    <3>1. stage = "subs" /\ Swept(t, "finish")
      BY <2>5 DEF SweepSubs
    <3>2. LeavesNames(tables, t, snapshot)
      <4>1. Q \in SUBSET Accounts
        OBVIOUS
      <4> HIDE DEF s, Q
      <4> QED BY <2>1, <4>1, SweptSubsNames
    <3> QED BY <3>1, <3>2
  <2> QED BY <2>2, <2>3, <2>4, <2>5
<1> HIDE DEF s
<1>2. /\ UNCHANGED <<origin, chain, source, at, indexed, seeded, snapshot>>
      /\ Edge = snapshot /\ Edge' = snapshot /\ snapshot \in 0 .. Height
      /\ t.ok => tables' = t
      /\ ~t.ok => tables' = tables
  BY <1>1, SweepPhases
<1>3. ~seeded /\ tables.ok /\ OneShown(tables) /\ Rooted(tables, snapshot, snapshot) /\ Fresh(tables)
      /\ snapshot \in Nat
  BY <1>1, <1>2 DEF HistoryInv, Phases, NamesInv
<1>4. Sound(tables, snapshot)
  BY <1>2, <1>3 DEF Sound, HistoryInv, AccountInv
<1>5. refused' => refused \/ ~t.ok
  BY <1>1 DEF Swept
<1>6. CASE LeavesNames(tables, t, snapshot)
  BY <1>2, <1>3, <1>4, <1>5, <1>6, NamesMove DEF LeavesNames
<1>7. CASE KeepsNames(tables, t, snapshot) /\ t.ok
  <2>1. OneShown(t) /\ Rooted(t, snapshot, snapshot) /\ Fresh(t)
    BY <1>3, <1>7 DEF KeepsNames, KeepsIndex
  <2> QED BY <1>2, <1>5, <1>7, <2>1, NamesWritten
<1>8. CASE KeepsNames(tables, t, snapshot) /\ ~t.ok
  <2>1. Regranted # {}
    BY <1>3, <1>8 DEF KeepsNames
  <2> QED BY <1>2, <1>3, <1>8, <2>1, NamesMove
<1> QED BY <1>1, <1>6, <1>7, <1>8

LEMMA NamesGrow == ASSUME HistoryInv, NamesInv, NEW c \in Calls, Produce(c) PROVE NamesInv'
<1> DEFINE E == [call : PalletCalls, state : PalletState]
           e == [call |-> c, state |-> After(c, StateAt(Height))]
<1>1. /\ chain' = Append(chain, e)
      /\ UNCHANGED <<origin, tables, at, indexed, seeded, snapshot, refused>>
  BY DEF Produce, tableVars, processVars
<1>2. Height \in Nat /\ chain \in Seq(E)
  BY BlocksTyped DEF HistoryInv, OnChain
<1> HIDE DEF E, e
<1>3. /\ Len(chain') = Len(chain) + 1
      /\ \A b \in 1 .. Len(chain) : chain'[b] = chain[b]
  BY <1>1, <1>2 DEF Height
<1>4. Height' = Height + 1
  BY <1>3 DEF Height
<1>5. /\ \A x \in 0 .. Height : \A n : OwnerOf(x, n)' = OwnerOf(x, n)
      /\ \A x \in 1 .. Height : \A n, op : Does(x, op, n)' = Does(x, op, n)
  BY <1>1, <1>2, <1>3 DEF StateAt, OwnerOf, Does, Height
<1>6. PICK d : d = Edge
  OBVIOUS
<1>7. Edge' = d /\ d \in 0 .. Height
  BY <1>1, <1>6, IndexedOnChain DEF Edge
<1>8. Rooted(tables, d, d)'
  <2>1. Rooted(tables, d, d) /\ d \in Nat /\ (d + 1) .. d = {}
    BY <1>2, <1>6, <1>7 DEF NamesInv
  <2>2. /\ \A x \in 0 .. d : \A n : OwnerOf(x, n)' = OwnerOf(x, n)
        /\ \A x \in 1 .. d : \A n, op : Does(x, op, n)' = Does(x, op, n)
    BY <1>2, <1>5, <1>7
  <2> QED BY <1>1, <2>1, <2>2 DEF Rooted, RowRooted
<1>9. Rooted(tables, Edge, Edge)'
  BY <1>7, <1>8 DEF Rooted, RowRooted
<1>10. Regranted \subseteq Regranted'
  <2>1. ASSUME NEW n \in Regranted PROVE n \in Regranted'
    <3>1. PICK b, c2 \in 1 .. Height :
             /\ b < c2 /\ chain[b].call.op = "remove" /\ chain[c2].call.op = "grant"
             /\ chain[b].call.name = n /\ chain[c2].call.name = n
      BY DEF Regranted
    <3>2. chain'[b] = chain[b] /\ chain'[c2] = chain[c2] /\ n \in Names
      BY <1>3 DEF Height, Regranted
    <3>3. b \in 1 .. Height + 1 /\ c2 \in 1 .. Height + 1
      BY <1>2
    <3> QED BY <1>4, <3>1, <3>2, <3>3 DEF Regranted
  <2> QED BY <2>1
<1>11. OneShown(tables)' /\ (~seeded => Fresh(tables))'
  BY <1>1 DEF NamesInv, OneShown, Shown, Fresh
<1> QED BY <1>1, <1>9, <1>10, <1>11 DEF NamesInv, OnlyRegrantsRefused, Coherent

(* The handler over the next blocks.                                       *)
HandledWell(t, b) == (Regranted = {} => Sound(t, b)) /\ Rooted(t, b, b)

LEMMA HandledWellNext ==
  ASSUME OnChain, Coherent(origin), NEW t \in GoodTables, NEW p \in Nat, NEW b \in 1 .. Height,
         p <= b, HandledWell(t, p)
  PROVE  HandledWell(Handled(t, b), b)
<1>1. Height \in Nat /\ b \in Nat /\ b - 1 \in Nat /\ b \in 1 .. b /\ b \in 0 .. Height
  BY BlocksTyped
<1>2. Rooted(t, b, b) /\ Rooted(t, b - 1, b)
  BY <1>1, RootedWider DEF HandledWell
<1>3. Rooted(Handled(t, b), b, b)
  BY <1>1, <1>2, RootedNext
<1>4. ASSUME Regranted = {} PROVE Sound(Handled(t, b), b)
  <2>1. Sound(t, b)
    BY <1>1, <1>4, SoundLater DEF HandledWell
  <2> QED BY <1>2, <1>4, <2>1, SoundNext
<1> QED BY <1>3, <1>4 DEF HandledWell

LEMMA WellNow == ASSUME HistoryInv, NamesInv PROVE HandledWell(tables, Edge) /\ Edge \in 0 .. Height
BY IndexedOnChain DEF HistoryInv, NamesInv, HandledWell, Sound, AccountInv

LEMMA NamesFollowHead ==
  ASSUME HistoryInv, NamesInv, NEW n \in 1 .. Height, FollowHead(n) PROVE NamesInv'
<1> DEFINE t == Handled(tables, n)
<1>1. /\ source = "light" /\ stage = "run" /\ n \in Expected .. Height
      /\ UNCHANGED <<origin, chain, seeded, snapshot>>
      /\ IF t.ok
         THEN tables' = t /\ at' = n /\ indexed' = indexed \cup {n} /\ refused' = refused
         ELSE tables' = tables /\ at' = at /\ indexed' = indexed
  BY DEF FollowHead, chainVars
<1>2. OnChain /\ tables \in GoodTables /\ Height \in Nat /\ Phases /\ seeded /\ n \in Nat
      /\ Coherent(origin)
  BY <1>1, BlocksTyped DEF HistoryInv, Phases, NamesInv
<1>3. Edge \in Nat /\ Edge <= n
  <2>1. Edge \in 0 .. Height
    BY IndexedOnChain
  <2>2. CASE indexed = {}
    BY <1>1, <1>2, <2>1, <2>2 DEF Phases, Edge, Expected
  <2>3. CASE indexed # {}
    <3>1. at \in indexed /\ Edge = at /\ at >= 1
      BY <1>1, <1>2, <2>3 DEF Phases, Edge
    <3> QED BY <1>1, <1>2, <2>1, <3>1 DEF Expected
  <2> QED BY <2>2, <2>3
<1>4. KeepsIndex(tables, t) /\ OneShown(tables)
  BY <1>2, HandledKeepsIndex DEF NamesInv
<1>5. HandledWell(t, n)
  BY <1>2, <1>3, WellNow, HandledWellNext
<1> HIDE DEF t
<1>6. CASE t.ok
  <2>1. tables' = t /\ Edge' = n
    BY <1>1, <1>6 DEF Edge
  <2>2. OneShown(t) /\ Rooted(t, n, n)
    BY <1>4, <1>5, <1>6 DEF HandledWell, KeepsIndex
  <2> QED BY <1>1, <1>2, <1>6, <2>1, <2>2, NamesWritten
<1>7. CASE ~t.ok
  <2>1. Regranted # {}
    BY <1>5, <1>7 DEF HandledWell, Sound
  <2>2. Edge' = Edge /\ tables' = tables
    BY <1>1, <1>7 DEF Edge
  <2> QED BY <1>1, <1>2, <1>3, <2>1, <2>2, NamesMove
<1> QED BY <1>6, <1>7

LEMMA NamesCommit ==
  ASSUME HistoryInv, NamesInv, NEW to \in 1 .. Height, CommitBatch(to) PROVE NamesInv'
<1> DEFINE t == HandledTo(at + 1, to)
<1>1. /\ source = "rpc" /\ stage = "run" /\ to \in (at + 1) .. Height
      /\ UNCHANGED <<origin, chain, seeded, snapshot>>
      /\ IF t.ok
         THEN /\ tables' = t /\ at' = to /\ indexed' = indexed \cup ((at + 1) .. to)
              /\ refused' = refused
         ELSE tables' = tables /\ at' = at /\ indexed' = indexed
  BY DEF CommitBatch, chainVars
<1>2. OnChain /\ tables \in GoodTables /\ Height \in Nat /\ Phases /\ seeded /\ Coherent(origin)
      /\ OneShown(tables)
  BY <1>1, BlocksTyped DEF HistoryInv, Phases, NamesInv
<1>3. at = Edge /\ at \in 0 .. Height /\ at \in Nat /\ at + 1 \in 1 .. Height /\ to \in Nat
      /\ (at + 1) - 1 = at
  BY <1>1, <1>2, NoneMissed
<1>4. PICK h \in [at .. to -> GoodTables] :
        t = h[to] /\ h[at] = tables /\ \A b \in (at + 1) .. to : h[b] = Handled(h[b - 1], b)
  <2> HIDE DEF t
  <2> DEFINE from == at + 1
  <2>1. from \in 1 .. Height /\ to \in from .. Height
    BY <1>1, <1>3
  <2>2. from - 1 = at
    BY <1>3
  <2> HIDE DEF from
  <2>3. \E h \in [(from - 1) .. to -> GoodTables] :
          /\ HandledTo(from, to) = h[to] /\ h[from - 1] = tables
          /\ \A b \in from .. to : h[b] = Handled(h[b - 1], b)
    BY <1>2, <2>1, HandledInTurn
  <2> QED BY <2>2, <2>3 DEF from, t
<1> HIDE DEF t
<1>5. HandledWell(t, to) /\ KeepsIndex(tables, t)
  <2> DEFINE S == {k \in Nat : at + k <= to => /\ HandledWell(h[at + k], at + k)
                                               /\ KeepsIndex(tables, h[at + k])}
  <2>1. 0 \in S
    <3>1. KeepsIndex(tables, tables)
      BY DEF KeepsIndex
    <3> QED BY <1>3, <1>4, <3>1, WellNow
  <2>2. ASSUME NEW k \in Nat, k \in S PROVE k + 1 \in S
    <3> SUFFICES ASSUME at + (k + 1) <= to
                 PROVE  /\ HandledWell(h[at + (k + 1)], at + (k + 1))
                        /\ KeepsIndex(tables, h[at + (k + 1)])
      OBVIOUS
    <3> DEFINE b == at + (k + 1)
    <3>1. b \in (at + 1) .. to /\ b \in 1 .. Height /\ b - 1 = at + k /\ b - 1 \in at .. to
          /\ b - 1 \in Nat /\ b - 1 < b
      BY <1>1, <1>2, <1>3
    <3> HIDE DEF b
    <3>2. HandledWell(h[b - 1], b - 1) /\ KeepsIndex(tables, h[b - 1]) /\ h[b - 1] \in GoodTables
      BY <1>1, <1>4, <2>2, <3>1
    <3>3. h[b] = Handled(h[b - 1], b)
      BY <1>4, <3>1
    <3>4. HandledWell(h[b], b)
      BY <1>2, <3>1, <3>2, <3>3, HandledWellNext
    <3>5. KeepsIndex(h[b - 1], h[b])
      BY <1>2, <3>1, <3>2, <3>3, HandledKeepsIndex
    <3> QED BY <3>2, <3>4, <3>5 DEF b, KeepsIndex
  <2> HIDE DEF S
  <2>3. to - at \in S
    BY <1>1, <1>3, <2>1, <2>2, SetInduction
  <2> QED BY <1>1, <1>3, <1>4, <2>3 DEF S
<1>6. CASE t.ok
  <2>1. tables' = t /\ Edge' = to
    <3>1. to \in (at + 1) .. to
      BY <1>1, <1>3
    <3> QED BY <1>1, <1>6, <3>1 DEF Edge
  <2>2. OneShown(t) /\ Rooted(t, to, to)
    BY <1>2, <1>5, <1>6 DEF HandledWell, KeepsIndex
  <2> QED BY <1>1, <1>2, <1>6, <2>1, <2>2, NamesWritten
<1>7. CASE ~t.ok
  <2>1. Regranted # {}
    BY <1>5, <1>7 DEF HandledWell, Sound
  <2>2. Edge' = Edge /\ tables' = tables
    BY <1>1, <1>7 DEF Edge
  <2> QED BY <1>1, <1>2, <1>3, <2>1, <2>2, NamesMove
<1> QED BY <1>6, <1>7

LEMMA NamesReplay ==
  ASSUME HistoryInv, NamesInv, Replays = "whole", NEW from \in 1 .. Height, NEW to \in 1 .. Height,
         Replay(from, to)
  PROVE  NamesInv'
<1> DEFINE t == HandledTo(from, to)
<1>1. /\ source = "rpc" /\ from \in 1 .. at /\ to = at /\ t.ok /\ tables' = t
      /\ UNCHANGED <<origin, chain, at, indexed, seeded, snapshot, refused>>
  BY DEF Replay, chainVars, processVars
<1>2. OnChain /\ tables \in GoodTables /\ Height \in Nat /\ Phases /\ Coherent(origin) /\ OneShown(tables)
  BY BlocksTyped DEF HistoryInv, NamesInv
<1>3. indexed = 1 .. at /\ at \in 1 .. Height /\ at \in 0 .. Height /\ at \in Nat /\ from <= at
      /\ from \in Nat /\ from - 1 \in Nat /\ from - 1 <= at /\ to \in from .. Height /\ Edge = at /\ seeded
  BY <1>1, <1>2, NoneMissed DEF Edge, Phases
<1>4. PICK h \in [(from - 1) .. to -> GoodTables] :
        t = h[to] /\ h[from - 1] = tables /\ \A b \in from .. to : h[b] = Handled(h[b - 1], b)
  BY <1>2, <1>3, HandledInTurn
<1> HIDE DEF t
<1>5. Rooted(t, at, at) /\ KeepsIndex(tables, t)
  <2> DEFINE p == from - 1
             S == {k \in Nat : p + k <= at => /\ Rooted(h[p + k], p + k, at)
                                              /\ KeepsIndex(tables, h[p + k])}
  <2>0. p \in Nat /\ p <= at /\ h[p] = tables /\ p + 0 = p /\ from = p + 1
    BY <1>3, <1>4
  <2> HIDE DEF p
  <2>1. 0 \in S
    <3>1. KeepsIndex(tables, tables)
      BY DEF KeepsIndex
    <3>2. Rooted(tables, p, at)
      <4> DEFINE d == at
      <4>1. d \in Nat /\ Rooted(tables, d, d) /\ p <= d
        BY <1>3, <2>0 DEF NamesInv
      <4> HIDE DEF d
      <4>2. Rooted(tables, p, d)
        BY <2>0, <4>1, RootedWider
      <4> QED BY <4>2 DEF d
    <3> QED BY <2>0, <3>1, <3>2
  <2>2. ASSUME NEW k \in Nat, k \in S PROVE k + 1 \in S
    <3> SUFFICES ASSUME p + (k + 1) <= at
                 PROVE  /\ Rooted(h[p + (k + 1)], p + (k + 1), at)
                        /\ KeepsIndex(tables, h[p + (k + 1)])
      OBVIOUS
    <3> DEFINE b == p + (k + 1)
    <3>1. b \in from .. to /\ b \in 1 .. at /\ b \in 1 .. Height /\ b - 1 = p + k
          /\ b - 1 \in p .. to
      BY <1>1, <1>2, <1>3, <2>0
    <3> HIDE DEF b
    <3>2. Rooted(h[b - 1], b - 1, at) /\ KeepsIndex(tables, h[b - 1]) /\ h[b - 1] \in GoodTables
      BY <1>1, <1>3, <1>4, <2>0, <2>2, <3>1 DEF p
    <3>3. h[b] = Handled(h[b - 1], b)
      BY <1>4, <3>1
    <3>4. Rooted(h[b], b, at)
      BY <1>2, <1>3, <3>1, <3>2, <3>3, RootedNext
    <3>5. KeepsIndex(h[b - 1], h[b])
      BY <1>2, <3>1, <3>2, <3>3, HandledKeepsIndex
    <3> QED BY <3>2, <3>4, <3>5 DEF b, KeepsIndex
  <2> HIDE DEF S
  <2>3. at - p \in S
    BY <1>3, <2>0, <2>1, <2>2, SetInduction
  <2> QED BY <1>1, <1>3, <1>4, <2>0, <2>3 DEF S
<1>6. OneShown(t) /\ Edge' = at
  BY <1>1, <1>2, <1>3, <1>5 DEF KeepsIndex, Edge
<1> QED BY <1>1, <1>3, <1>5, <1>6, NamesWritten

LEMMA NamesSteps ==
  ASSUME Replays = "whole" PROVE HistoryInv /\ NamesInv /\ [Next]_vars => NamesInv'
<1> SUFFICES ASSUME HistoryInv, NamesInv, [Next]_vars PROVE NamesInv'
  OBVIOUS
<1>1. CASE \E c \in Calls : Produce(c)
  BY <1>1, NamesGrow
<1>2. CASE SweepIdentities \/ SweepUsernames \/ SweepPrimaries \/ SweepSubs
  BY <1>2, NamesSwept
<1>3. CASE \E to \in 1 .. Height : CommitBatch(to)
  BY <1>3, NamesCommit
<1>4. CASE \E from, to \in 1 .. Height : Replay(from, to)
  BY <1>4, NamesReplay
<1>5. CASE \E n \in 1 .. Height : FollowHead(n)
  BY <1>5, NamesFollowHead
<1>6. CASE Start \/ FinishBootstrap \/ PersistReads \/ CaughtUp \/ Kill \/ PowerCut \/ UNCHANGED vars
  BY <1>6, NamesKept
<1> QED BY <1>1, <1>2, <1>3, <1>4, <1>5, <1>6 DEF Next

(***************************************************************************)
(* No unique index refuses any statement of a sweep or of a new block,     *)
(* which would stop the projection for good, unless a name that was        *)
(* removed has been granted again: for any accounts, names, registrations, *)
(* calls, batches and sweeps, through crashes and replays of the last      *)
(* blocks.                                                                 *)
(***************************************************************************)
THEOREM OnlyRegrantsAreRefused == ASSUME Replays = "whole" PROVE Spec => []OnlyRegrantsRefused
<1>1. Init => HistoryInv /\ NamesInv
  BY HistoryStarts, NamesStart
<1>2. HistoryInv /\ NamesInv /\ [Next]_vars => HistoryInv' /\ NamesInv'
  BY HistorySteps, NamesSteps
<1>3. NamesInv => OnlyRegrantsRefused
  BY DEF NamesInv
<1> QED BY <1>1, <1>2, <1>3, PTL DEF Spec

-----------------------------------------------------------------------------
-----------------------------------------------------------------------------
(***************************************************************************)
(* What a block leaves alone.                                              *)
(***************************************************************************)
PrimaryOf(x, a) == StateAt(x).primary[a]

SuperOf(x, a) == StateAt(x).super[a]

(* The accounts touched and their subs: sync comes to all of them.         *)
SubTouched(x) == {a \in Accounts : a \in Touched(x) \/ SuperOf(x, a) \in Touched(x)}

LEMMA BlockCall ==
  ASSUME OnChain, NEW x \in 1 .. Height
  PROVE  \E c \in PalletCalls, s \in PalletState :
            /\ chain[x].call = c /\ StateAt(x - 1) = s /\ StateAt(x) = After(c, s) /\ Allowed(c, s)
            /\ Touched(x) = TouchedAccounts(c, s) /\ Renamed(x) = TouchedNames(c)
<1>1. x - 1 \in 0 .. Height /\ x # 0
  BY BlocksTyped
<1>2. StateAt(x) = chain[x].state
  BY <1>1 DEF StateAt
<1> QED BY <1>1, <1>2, BlocksTyped DEF OnChain, Touched, Renamed

LEMMA NameStill ==
  ASSUME OnChain, NEW x \in 1 .. Height, NEW n \in Names \ Renamed(x)
  PROVE  OwnerOf(x, n) = OwnerOf(x - 1, n) /\ (n \in StateAt(x).unbinding <=> n \in StateAt(x - 1).unbinding)
<1>1. PICK c \in PalletCalls, s \in PalletState :
         /\ StateAt(x - 1) = s /\ StateAt(x) = After(c, s) /\ Renamed(x) = TouchedNames(c)
  BY BlockCall
<1>2. CASE c.op \in {"grant", "unbind", "remove"}
  BY <1>1, <1>2, CallFields DEF OwnerOf, After, PalletState, TouchedNames
<1>3. CASE c.op \notin {"grant", "unbind", "remove"}
  BY <1>1, <1>3, CallFields DEF OwnerOf, After, PalletState
<1> QED BY <1>2, <1>3

LEMMA PrimaryStill ==
  ASSUME OnChain, NEW x \in 1 .. Height, NEW a \in Accounts \ Touched(x)
  PROVE  \/ PrimaryOf(x, a) = PrimaryOf(x - 1, a)
         \/ PrimaryOf(x, a) = None /\ Does(x, "remove", PrimaryOf(x - 1, a))
<1>1. PICK c \in PalletCalls, s \in PalletState :
         /\ chain[x].call = c /\ StateAt(x - 1) = s /\ StateAt(x) = After(c, s)
         /\ Touched(x) = TouchedAccounts(c, s)
  BY BlockCall
<1>2. CASE c.op \in {"grant", "prefer"}
  BY <1>1, <1>2, CallFields DEF PrimaryOf, After, PalletState, TouchedAccounts
<1>3. CASE c.op = "remove"
  <2>1. c.name \in Names
    BY <1>3, CallFields
  <2>2. After(c, s).primary[a] = IF s.primary[a] = c.name THEN None ELSE s.primary[a]
    BY <1>3, <2>1 DEF After, PalletState
  <2>3. Does(x, "remove", c.name)
    BY <1>1, <1>3 DEF Does
  <2> QED BY <1>1, <2>2, <2>3 DEF PrimaryOf
<1>4. CASE c.op \notin {"grant", "prefer", "remove"}
  BY <1>1, <1>4, CallFields DEF PrimaryOf, After, PalletState
<1> QED BY <1>2, <1>3, <1>4

LEMMA SuperStill ==
  ASSUME OnChain, NEW x \in 1 .. Height, NEW a \in Accounts \ SubTouched(x)
  PROVE  \/ SuperOf(x, a) = SuperOf(x - 1, a)
         \/ SuperOf(x, a) = None /\ SuperOf(x - 1, a) \in Touched(x)
<1>1. PICK c \in PalletCalls, s \in PalletState :
         /\ StateAt(x - 1) = s /\ StateAt(x) = After(c, s) /\ Touched(x) = TouchedAccounts(c, s)
  BY BlockCall
<1>2. a \notin Touched(x) /\ SuperOf(x, a) \notin Touched(x)
  BY DEF SubTouched
<1>3. CASE c.op \in {"subs", "clear"}
  BY <1>1, <1>2, <1>3, CallFields DEF SuperOf, After, PalletState, TouchedAccounts, SetSubs
<1>4. CASE c.op = "quit"
  BY <1>1, <1>2, <1>4, CallFields DEF SuperOf, After, PalletState, TouchedAccounts
<1>5. CASE c.op \notin {"subs", "clear", "quit"}
  BY <1>1, <1>5, CallFields DEF SuperOf, After, PalletState
<1> QED BY <1>3, <1>4, <1>5

LEMMA NameStays ==
  ASSUME OnChain, NEW n \in Names, NEW x \in 0 .. Height, NEW y \in x .. Height,
         \A z \in (x + 1) .. y : n \notin Renamed(z)
  PROVE  OwnerOf(y, n) = OwnerOf(x, n) /\ (n \in StateAt(y).unbinding <=> n \in StateAt(x).unbinding)
<1> DEFINE S == {k \in Nat : x + k <= y =>
                   /\ OwnerOf(x + k, n) = OwnerOf(x, n)
                   /\ n \in StateAt(x + k).unbinding <=> n \in StateAt(x).unbinding}
<1>0. x \in Nat /\ y \in Nat /\ Height \in Nat /\ x <= y /\ y <= Height
  BY BlocksTyped
<1>1. 0 \in S
  BY <1>0
<1>2. ASSUME NEW k \in Nat, k \in S PROVE k + 1 \in S
  <2> SUFFICES ASSUME x + (k + 1) <= y PROVE k + 1 \in S
    OBVIOUS
  <2> DEFINE b == x + (k + 1)
  <2>1. b \in 1 .. Height /\ b - 1 = x + k /\ x + k <= y /\ b \in (x + 1) .. y
    BY <1>0
  <2> HIDE DEF b
  <2>2. OwnerOf(b, n) = OwnerOf(b - 1, n) /\ (n \in StateAt(b).unbinding <=> n \in StateAt(b - 1).unbinding)
    BY <2>1, NameStill
  <2> QED BY <1>2, <2>1, <2>2 DEF b
<1>3. y - x \in S
  <2> HIDE DEF S
  <2> QED BY <1>0, <1>1, <1>2, SetInduction
<1> QED BY <1>0, <1>3

LEMMA PrimaryStays ==
  ASSUME OnChain, NEW a \in Accounts, NEW x \in 0 .. Height, NEW y \in x .. Height,
         \A z \in (x + 1) .. y : a \notin Touched(z), PrimaryOf(y, a) # None
  PROVE  PrimaryOf(x, a) = PrimaryOf(y, a)
<1> DEFINE S == {k \in Nat : x + k <= y => PrimaryOf(x + k, a) \in {None, PrimaryOf(x, a)}}
<1>0. x \in Nat /\ y \in Nat /\ Height \in Nat /\ x <= y /\ y <= Height
  BY BlocksTyped
<1>1. 0 \in S
  BY <1>0
<1>2. ASSUME NEW k \in Nat, k \in S PROVE k + 1 \in S
  <2> SUFFICES ASSUME x + (k + 1) <= y PROVE k + 1 \in S
    OBVIOUS
  <2> DEFINE b == x + (k + 1)
  <2>1. b \in 1 .. Height /\ b - 1 = x + k /\ x + k <= y /\ b \in (x + 1) .. y
    BY <1>0
  <2> HIDE DEF b
  <2>2. PrimaryOf(b, a) = PrimaryOf(b - 1, a) \/ PrimaryOf(b, a) = None
    BY <2>1, PrimaryStill
  <2> QED BY <1>2, <2>1, <2>2 DEF b
<1>3. y - x \in S
  <2> HIDE DEF S
  <2> QED BY <1>0, <1>1, <1>2, SetInduction
<1> QED BY <1>0, <1>3

LEMMA SuperStays ==
  ASSUME OnChain, NEW a \in Accounts, NEW x \in 0 .. Height, NEW y \in x .. Height,
         \A z \in (x + 1) .. y : a \notin SubTouched(z)
  PROVE  SuperOf(y, a) \in {None, SuperOf(x, a)}
<1> DEFINE S == {k \in Nat : x + k <= y => SuperOf(x + k, a) \in {None, SuperOf(x, a)}}
<1>0. x \in Nat /\ y \in Nat /\ Height \in Nat /\ x <= y /\ y <= Height
  BY BlocksTyped
<1>1. 0 \in S
  BY <1>0
<1>2. ASSUME NEW k \in Nat, k \in S PROVE k + 1 \in S
  <2> SUFFICES ASSUME x + (k + 1) <= y PROVE k + 1 \in S
    OBVIOUS
  <2> DEFINE b == x + (k + 1)
  <2>1. b \in 1 .. Height /\ b - 1 = x + k /\ x + k <= y /\ b \in (x + 1) .. y
    BY <1>0
  <2> HIDE DEF b
  <2>2. SuperOf(b, a) = SuperOf(b - 1, a) \/ SuperOf(b, a) = None
    BY <2>1, SuperStill
  <2> QED BY <1>2, <2>1, <2>2 DEF b
<1>3. y - x \in S
  <2> HIDE DEF S
  <2> QED BY <1>0, <1>1, <1>2, SetInduction
<1> QED BY <1>0, <1>3

-----------------------------------------------------------------------------
(***************************************************************************)
(* The tables at block b.  `As' is what the row of a name says when block  *)
(* q is the last that wrote it; `Flagged', that it is `is_primary' of a.   *)
(***************************************************************************)
As(row, n, q) ==
  IF OwnerOf(q, n) # None
  THEN /\ row.account = OwnerOf(q, n) /\ row.status \in {"active", "unbinding"}
       /\ n \notin StateAt(q).unbinding => row.status = "active"
  ELSE row.status \notin {"active", "unbinding"}

Flagged(t, n, a) == t.usernames[n].primary /\ t.usernames[n].account = a

Agree(t, b) ==
  /\ \A n \in Names : As(t.usernames[n], n, b)
  /\ \A x \in Accounts : t.subs[x] = SuperOf(b, x)
  /\ \A a \in Accounts : PrimaryOf(b, a) # None => Flagged(t, PrimaryOf(b, a), a)
  /\ \A m \in Names \ Regranted :
        t.usernames[m].primary /\ OwnerOf(b, m) # None => PrimaryOf(b, OwnerOf(b, m)) = m

(***************************************************************************)
(* The tables on their way to block `top', when the handler has come to    *)
(* block b: what is not yet right is put right by a block in between.      *)
(***************************************************************************)
NameLater(n, b, top) == \E c \in (b + 1) .. top : n \in Renamed(c)

SubLater(x, b, top) == \E c \in (b + 1) .. top : x \in SubTouched(c)

PrimaryLater(a, b, top) == \E c \in (b + 1) .. top : a \in Touched(c)

Agreeing(t, b, top) ==
  /\ \A n \in Names : As(t.usernames[n], n, b) \/ NameLater(n, b, top)
  /\ \A x \in Accounts : \/ t.subs[x] = SuperOf(b, x)
                         \/ t.subs[x] = None /\ SuperOf(top, x) = None
                         \/ SubLater(x, b, top)
  /\ \A a \in Accounts : PrimaryOf(top, a) # None =>
        Flagged(t, PrimaryOf(top, a), a) \/ PrimaryLater(a, b, top)
  /\ \A m \in Names \ Regranted : t.usernames[m].primary /\ OwnerOf(top, m) # None =>
        LET a == OwnerOf(top, m)
        IN  PrimaryOf(top, a) = m \/ (PrimaryOf(b, a) = m /\ t.usernames[m].account = a)

LEMMA PalletFields ==
  ASSUME OnChain, NEW x \in 0 .. Height
  PROVE  /\ \A n \in Names : OwnerOf(x, n) \in Accounts \cup {None}
         /\ \A a \in Accounts : PrimaryOf(x, a) \in Names \cup {None} /\ SuperOf(x, a) \in Accounts \cup {None}
BY BlocksTyped, StateFields DEF OwnerOf, PrimaryOf, SuperOf

LEMMA PrimaryOwned ==
  ASSUME OnChain, Coherent(origin), NEW x \in 0 .. Height, NEW a \in Accounts, PrimaryOf(x, a) # None
  PROVE  PrimaryOf(x, a) \in Names /\ OwnerOf(x, PrimaryOf(x, a)) = a
BY ChainCoherent, PalletFields DEF Coherent, OwnerOf, PrimaryOf

LEMMA AgreeEnds ==
  ASSUME OnChain, NEW t, NEW top \in 0 .. Height, Agreeing(t, top, top)
  PROVE  Agree(t, top)
<1>1. (top + 1) .. top = {}
  BY BlocksTyped
<1>2. \A n : ~NameLater(n, top, top) /\ ~SubLater(n, top, top) /\ ~PrimaryLater(n, top, top)
  BY <1>1 DEF NameLater, SubLater, PrimaryLater
<1> QED BY <1>2 DEF Agreeing, Agree

(* A replay takes the tables as they are back to an earlier block.         *)
LEMMA AgreeGoesBack ==
  ASSUME OnChain, NEW t, NEW top \in 0 .. Height, NEW p \in 0 .. top, Agree(t, top)
  PROVE  Agreeing(t, p, top)
<1>0. p \in 0 .. Height /\ top \in p .. Height
  BY BlocksTyped
<1>1. ASSUME NEW n \in Names, ~NameLater(n, p, top) PROVE As(t.usernames[n], n, p)
  <2>1. OwnerOf(top, n) = OwnerOf(p, n) /\ (n \in StateAt(top).unbinding <=> n \in StateAt(p).unbinding)
    BY <1>0, <1>1, NameStays DEF NameLater
  <2> QED BY <2>1 DEF Agree, As
<1>2. ASSUME NEW x \in Accounts, ~SubLater(x, p, top)
      PROVE  t.subs[x] = SuperOf(p, x) \/ (t.subs[x] = None /\ SuperOf(top, x) = None)
  <2>1. SuperOf(top, x) \in {None, SuperOf(p, x)}
    BY <1>0, <1>2, SuperStays DEF SubLater
  <2>2. t.subs[x] = SuperOf(top, x)
    BY DEF Agree
  <2> QED BY <2>1, <2>2
<1>3. \A a \in Accounts : PrimaryOf(top, a) # None => Flagged(t, PrimaryOf(top, a), a)
  BY DEF Agree
<1>4. \A m \in Names \ Regranted :
        t.usernames[m].primary /\ OwnerOf(top, m) # None => PrimaryOf(top, OwnerOf(top, m)) = m
  BY DEF Agree
<1> QED BY <1>1, <1>2, <1>3, <1>4 DEF Agreeing

(* The next block.                                                         *)
LEMMA AgreeGoesOn ==
  ASSUME OnChain, Coherent(origin), NEW t, NEW b \in 1 .. Height, Agree(t, b - 1), Rooted(t, b - 1, b - 1)
  PROVE  Agreeing(t, b - 1, b)
<1>0. /\ b \in 0 .. Height /\ b - 1 \in 0 .. Height /\ b \in b .. b /\ (b - 1) + 1 = b /\ b \in Nat
      /\ b \in (b - 1) .. Height /\ b .. (b - 1) = {} /\ Height \in Nat
  BY BlocksTyped
<1>1. ASSUME NEW a \in Accounts, PrimaryOf(b, a) # None, ~PrimaryLater(a, b - 1, b)
      PROVE  Flagged(t, PrimaryOf(b, a), a)
  <2>1. a \notin Touched(b)
    BY <1>0, <1>1 DEF PrimaryLater
  <2>2. PrimaryOf(b - 1, a) = PrimaryOf(b, a)
    BY <1>1, <2>1, PrimaryStill
  <2> QED BY <1>1, <2>2 DEF Agree
<1>2. ASSUME NEW m \in Names \ Regranted, t.usernames[m].primary, NEW a, a = OwnerOf(b, m), a # None
      PROVE  PrimaryOf(b - 1, a) = m /\ t.usernames[m].account = a
  <2>1. /\ OwnerOf(b - 1, m) \in {None, a}
        /\ \A x \in 0 .. b - 1 : OwnerOf(x, m) # None => OwnerOf(b - 1, m) = a
        /\ \A c \in 1 .. b - 1 : ~Does(c, "remove", m)
    <3>1. \A x \in 0 .. b - 1 : x \in 0 .. Height /\ x <= b /\ b - 1 \in x .. b
      BY <1>0
    <3>2. \A c \in 1 .. b - 1 : c \in 1 .. b
      BY <1>0
    <3>3. \A c \in 1 .. b : ~Does(c, "remove", m)
      BY <1>0, <1>2, OneOwner
    <3>4. \A x \in 0 .. b - 1 : OwnerOf(x, m) # None => OwnerOf(b - 1, m) = a
      BY <1>0, <1>2, <3>1, OneOwner
    <3> QED BY <1>0, <1>2, <3>2, <3>3, <3>4, OneOwner
  <2>2. RowRooted(t.usernames[m], m, b - 1, b - 1)
    BY <1>2 DEF Rooted
  <2>3. \E x \in 0 .. b - 1 : OwnerOf(x, m) # None
    BY <1>0, <2>1, <2>2 DEF RowRooted
  <2>4. OwnerOf(b - 1, m) = a
    BY <2>1, <2>3
  <2>5. PrimaryOf(b - 1, a) = m
    BY <1>2, <2>4 DEF Agree
  <2>6. a \in Accounts /\ m # None
    BY <1>0, <1>2, PalletFields, NoneIsNoBlock
  <2> QED BY <2>5, <2>6 DEF Agree, Flagged
<1> QED BY <1>1, <1>2 DEF Agreeing, Agree

-----------------------------------------------------------------------------
(***************************************************************************)
(* The handler at block b: a row of a name is promoted, demoted or keeps   *)
(* is_primary; the name of the block is read anew.                         *)
(***************************************************************************)
Promotes(s, Q, n, row, new) ==
  /\ s.owner[n] \in Q /\ s.primary[s.owner[n]] = n
  /\ new.primary /\ new.account = s.owner[n]
  /\ new.status = IF row.status = "absent" THEN "active" ELSE row.status

Demotes(s, Q, n, row, new) ==
  row.account \in Q /\ ~new.primary /\ new.account = row.account /\ new.status = row.status

Leaves(s, Q, n, row, new) ==
  row.account \notin Q /\ new = row

LEMMA NameSyncs ==
  ASSUME NEW s \in PalletState, NEW Q \in SUBSET Accounts, NEW n \in Names, NEW row \in NameRow, NEW new,
         new = NameSynced(s, Q, n, row)
  PROVE  /\ \/ Promotes(s, Q, n, row, new)
            \/ Demotes(s, Q, n, row, new)
            \/ Leaves(s, Q, n, row, new)
         /\ s.owner[n] \in Q /\ s.primary[s.owner[n]] = n => Promotes(s, Q, n, row, new)
BY DEF NameSynced, Promotes, Demotes, Leaves, PromotedRow, NameRow

Handles(t, u, w, Q, b) ==
  /\ Touched(b) \subseteq Q
  /\ \A x \in Accounts : SuperOf(b, x) \in Touched(b) => x \in Q
  /\ \A x \in Accounts : w.subs[x] = SubSynced(StateAt(b), Q, x, t.subs[x])
  /\ \A n \in Names : u.usernames[n] = NameSynced(StateAt(b), Q, n, t.usernames[n])
  /\ \A n \in Names : /\ w.usernames[n].primary = u.usernames[n].primary
                      /\ n \notin Renamed(b) => w.usernames[n] = u.usernames[n]
                      /\ n \in Renamed(b) => /\ w.usernames[n].account = AccountOf(StateAt(b), n)
                                             /\ w.usernames[n].status = StatusOf(StateAt(b), n)

LEMMA HandledRows ==
  ASSUME OnChain, Coherent(origin), NEW t \in GoodTables, NEW b \in 1 .. Height
  PROVE  \E Q \in SUBSET Accounts, u \in GoodTables : Handles(t, u, Handled(t, b), Q, b)
<1> DEFINE w == Handled(t, b)
           s == StateAt(b)
<1>1. PICK Q \in SUBSET Accounts, u \in GoodTables :
         /\ Touched(b) \subseteq Q
         /\ \A x \in Accounts : s.super[x] \in Touched(b) => x \in Q
         /\ AccountsSynced(t, u, s, Q, b)
         /\ NamesSynced(u, w, s, Renamed(b))
  BY HandledParts
<1>2. s \in PalletState
  BY BlocksTyped
<1>3. \A x \in Accounts : SuperOf(b, x) \in Touched(b) => x \in Q
  BY <1>1 DEF SuperOf
<1> HIDE DEF s, w
<1>4. /\ \A x \in Accounts : u.subs[x] = SubSynced(s, Q, x, t.subs[x])
      /\ \A n \in Names : u.usernames[n] = NameSynced(s, Q, n, t.usernames[n])
  BY <1>1 DEF AccountsSynced
<1>5. /\ w.subs = u.subs
      /\ \A n \in Names : /\ w.usernames[n].primary = u.usernames[n].primary
                          /\ n \notin Renamed(b) => w.usernames[n] = u.usernames[n]
                          /\ n \in Renamed(b) => /\ w.usernames[n].account = AccountOf(s, n)
                                                 /\ w.usernames[n].status = StatusOf(s, n)
  <2>1. CASE Renamed(b) = {} /\ w = u
    BY <2>1
  <2>2. CASE \E k \in Names : Renamed(b) = {k} /\ w = SyncUsername(u, s, k)
    <3>1. PICK k \in Names : Renamed(b) = {k} /\ w = SyncUsername(u, s, k)
      BY <2>2
    <3>2. /\ w.subs = u.subs
          /\ w.usernames[k].account = AccountOf(s, k) /\ w.usernames[k].status = StatusOf(s, k)
          /\ w.usernames[k].primary = u.usernames[k].primary
          /\ \A m \in Names \ {k} : w.usernames[m] = u.usernames[m]
      BY <1>2, <3>1, SyncUsernameNames
    <3> QED BY <3>1, <3>2
  <2> QED BY <1>1, <2>1, <2>2 DEF NamesSynced
<1> QED BY <1>1, <1>3, <1>4, <1>5 DEF s, w, Handles

LEMMA LaterNext ==
  ASSUME OnChain, NEW top \in 0 .. Height, NEW b \in 1 .. top
  PROVE  /\ \A n : NameLater(n, b - 1, top) => n \in Renamed(b) \/ NameLater(n, b, top)
         /\ \A x : SubLater(x, b - 1, top) => x \in SubTouched(b) \/ SubLater(x, b, top)
         /\ \A a : PrimaryLater(a, b - 1, top) => a \in Touched(b) \/ PrimaryLater(a, b, top)
<1>1. Height \in Nat
  BY BlocksTyped
<1>2. \A c \in ((b - 1) + 1) .. top : c = b \/ c \in (b + 1) .. top
  BY <1>1
<1> QED BY <1>2 DEF NameLater, SubLater, PrimaryLater

LEMMA AgreeNamesNext ==
  ASSUME OnChain, NEW top \in 0 .. Height, NEW b \in 1 .. top,
         NEW t \in GoodTables, NEW u, NEW w, NEW Q \in SUBSET Accounts, Handles(t, u, w, Q, b),
         NEW n \in Names, As(t.usernames[n], n, b - 1) \/ NameLater(n, b - 1, top)
  PROVE  As(w.usernames[n], n, b) \/ NameLater(n, b, top)
<1> DEFINE s == StateAt(b)
           row == t.usernames[n]
           new == w.usernames[n]
<1>0. b \in 1 .. Height /\ row \in NameRow /\ s.owner[n] = OwnerOf(b, n) /\ s \in PalletState
  BY BlocksTyped DEF GoodTables, TableType, OwnerOf
<1>1. CASE n \in Renamed(b)
  <2>1. new.account = AccountOf(s, n) /\ new.status = StatusOf(s, n)
    BY <1>1 DEF Handles
  <2> HIDE DEF new
  <2>2. As(new, n, b)
    BY <1>0, <2>1 DEF As, AccountOf, StatusOf
  <2> QED BY <2>2 DEF new
<1>2. CASE n \notin Renamed(b) /\ NameLater(n, b - 1, top)
  BY <1>2, LaterNext
<1>3. CASE n \notin Renamed(b) /\ As(row, n, b - 1)
  <2>1. As(row, n, b)
    BY <1>0, <1>3, NameStill DEF As
  <2>2. new = NameSynced(s, Q, n, row)
    BY <1>3 DEF Handles
  <2> HIDE DEF row, new, s
  <2>3. Promotes(s, Q, n, row, new) \/ Demotes(s, Q, n, row, new) \/ Leaves(s, Q, n, row, new)
    BY <1>0, <2>2, NameSyncs
  <2>4. ASSUME Promotes(s, Q, n, row, new) PROVE As(new, n, b)
    <3>1. /\ OwnerOf(b, n) # None /\ new.account = OwnerOf(b, n)
          /\ new.status = IF row.status = "absent" THEN "active" ELSE row.status
      BY <1>0, <2>4, NoneIsNoBlock DEF Promotes
    <3> QED BY <2>1, <3>1 DEF As
  <2>5. ASSUME Demotes(s, Q, n, row, new) \/ Leaves(s, Q, n, row, new) PROVE As(new, n, b)
    <3>1. new.account = row.account /\ new.status = row.status
      BY <2>5 DEF Demotes, Leaves
    <3> QED BY <2>1, <3>1 DEF As
  <2> QED BY <2>3, <2>4, <2>5 DEF new
<1> QED BY <1>1, <1>2, <1>3

LEMMA AgreeSubsNext ==
  ASSUME OnChain, NEW top \in 0 .. Height, NEW b \in 1 .. top,
         NEW t, NEW u, NEW w, NEW Q \in SUBSET Accounts, Handles(t, u, w, Q, b), NEW x \in Accounts,
         \/ t.subs[x] = SuperOf(b - 1, x)
         \/ t.subs[x] = None /\ SuperOf(top, x) = None
         \/ SubLater(x, b - 1, top)
  PROVE  \/ w.subs[x] = SuperOf(b, x)
         \/ w.subs[x] = None /\ SuperOf(top, x) = None
         \/ SubLater(x, b, top)
<1>0. b \in 1 .. Height /\ b \in 0 .. Height
  BY BlocksTyped
<1>1. w.subs[x] = IF x \in Q THEN SuperOf(b, x)
                  ELSE IF t.subs[x] \in Q /\ SuperOf(b, x) # t.subs[x] THEN None ELSE t.subs[x]
  BY DEF Handles, SubSynced, SuperOf
<1>2. x \in SubTouched(b) => x \in Q
  BY DEF Handles, SubTouched
<1>3. CASE x \notin Q
  <2>1. \/ SuperOf(b, x) = SuperOf(b - 1, x)
        \/ SuperOf(b, x) = None /\ SuperOf(b - 1, x) \in Q
    BY <1>0, <1>2, <1>3, SuperStill DEF Handles
  <2>2. SubLater(x, b - 1, top) => SubLater(x, b, top)
    BY <1>2, <1>3, LaterNext
  <2>3. None \notin Q
    BY NoneIsNoBlock
  <2> QED BY <1>1, <1>3, <2>1, <2>2, <2>3
<1> QED BY <1>1, <1>3

LEMMA AgreeFlagsNext ==
  ASSUME OnChain, Coherent(origin), NEW top \in 0 .. Height, NEW b \in 1 .. top,
         NEW t \in GoodTables, NEW u, NEW w, NEW Q \in SUBSET Accounts, Handles(t, u, w, Q, b),
         NEW a \in Accounts, PrimaryOf(top, a) # None, ~PrimaryLater(a, b, top),
         Flagged(t, PrimaryOf(top, a), a) \/ PrimaryLater(a, b - 1, top)
  PROVE  Flagged(w, PrimaryOf(top, a), a)
<1> DEFINE s == StateAt(b)
           p == PrimaryOf(top, a)
           row == t.usernames[p]
           mid == u.usernames[p]
           new == w.usernames[p]
<1>0. /\ b \in 1 .. Height /\ b \in 0 .. Height /\ top \in b .. Height /\ s \in PalletState
      /\ \A n \in Names : s.owner[n] = OwnerOf(b, n)
      /\ \A x \in Accounts : s.primary[x] = PrimaryOf(b, x)
  BY BlocksTyped DEF OwnerOf, PrimaryOf
<1> HIDE DEF s
<1>1. PrimaryOf(b, a) = p
  BY <1>0, PrimaryStays DEF PrimaryLater
<1>2. p \in Names /\ s.owner[p] = a /\ s.primary[a] = p
  BY <1>0, <1>1, PrimaryOwned
<1> HIDE DEF p
<1>3. row \in NameRow /\ mid = NameSynced(s, Q, p, row) /\ new.primary = mid.primary
  BY <1>2 DEF GoodTables, TableType, Handles, s
<1>4. mid.primary /\ mid.account = a
  <2> HIDE DEF row, mid
  <2>1. CASE a \in Q
    BY <1>0, <1>2, <1>3, <2>1, NameSyncs DEF Promotes
  <2>2. CASE a \notin Q
    <3>1. Flagged(t, p, a)
      <4>1. a \notin Touched(b)
        BY <2>2 DEF Handles
      <4> QED BY <4>1, LaterNext DEF p
    <3>2. row.primary /\ row.account = a
      BY <3>1 DEF Flagged, row
    <3>3. mid = row
      BY <1>0, <1>2, <1>3, <2>2, <3>2, NameSyncs DEF Promotes, Demotes, Leaves
    <3> QED BY <3>2, <3>3
  <2> QED BY <2>1, <2>2
<1>5. new.account = a
  <2>1. CASE p \notin Renamed(b)
    BY <1>2, <1>4, <2>1 DEF Handles
  <2>2. CASE p \in Renamed(b)
    <3>1. new.account = AccountOf(s, p)
      BY <1>2, <2>2 DEF Handles, s
    <3> QED BY <1>2, <3>1, NoneIsNoBlock DEF AccountOf
  <2> QED BY <2>1, <2>2
<1> QED BY <1>3, <1>4, <1>5 DEF Flagged, p

LEMMA AgreePrimariesNext ==
  ASSUME OnChain, Coherent(origin), NEW top \in 0 .. Height, NEW b \in 1 .. top,
         NEW t \in GoodTables, NEW u, NEW w, NEW Q \in SUBSET Accounts, Handles(t, u, w, Q, b),
         NEW m \in Names \ Regranted, NEW a \in Accounts, a = OwnerOf(top, m), w.usernames[m].primary,
         t.usernames[m].primary =>
           PrimaryOf(top, a) = m \/ (PrimaryOf(b - 1, a) = m /\ t.usernames[m].account = a)
  PROVE  PrimaryOf(top, a) = m \/ (PrimaryOf(b, a) = m /\ w.usernames[m].account = a)
<1> DEFINE s == StateAt(b)
           row == t.usernames[m]
           mid == u.usernames[m]
           new == w.usernames[m]
<1>0. /\ b \in 1 .. Height /\ b \in 0 .. Height /\ b <= top /\ s \in PalletState /\ top \in 0 .. Height
      /\ \A n \in Names : s.owner[n] = OwnerOf(b, n)
      /\ \A x \in Accounts : s.primary[x] = PrimaryOf(b, x)
  BY BlocksTyped DEF OwnerOf, PrimaryOf
<1> HIDE DEF s
<1>1. row \in NameRow /\ mid = NameSynced(s, Q, m, row) /\ mid.primary
  BY DEF GoodTables, TableType, Handles, s
<1>2. OwnerOf(b, m) \in {None, a} /\ ~Does(b, "remove", m)
  <2>1. OwnerOf(top, m) # None /\ b \in 1 .. top
    BY NoneIsNoBlock
  <2> QED BY <1>0, <2>1, OneOwner
<1> HIDE DEF row, mid, new
<1>3. Promotes(s, Q, m, row, mid) \/ Leaves(s, Q, m, row, mid)
  BY <1>0, <1>1, NameSyncs DEF Demotes
<1>4. PrimaryOf(top, a) = m \/ (PrimaryOf(b, a) = m /\ mid.account = a)
  <2>1. CASE Promotes(s, Q, m, row, mid)
    BY <1>0, <1>2, <2>1, NoneIsNoBlock DEF Promotes
  <2>2. CASE Leaves(s, Q, m, row, mid)
    <3> SUFFICES ASSUME PrimaryOf(top, a) # m PROVE PrimaryOf(b, a) = m /\ mid.account = a
      OBVIOUS
    <3>1. mid = row /\ row.account \notin Q /\ row.primary
      BY <1>1, <2>2 DEF Leaves
    <3>2. PrimaryOf(b - 1, a) = m /\ row.account = a
      BY <3>1 DEF row
    <3>3. a \notin Touched(b)
      BY <3>1, <3>2 DEF Handles
    <3>4. PrimaryOf(b, a) = m
      BY <1>0, <1>2, <3>2, <3>3, PrimaryStill
    <3> QED BY <3>1, <3>2, <3>4
  <2> QED BY <1>3, <2>1, <2>2
<1>5. ASSUME PrimaryOf(b, a) = m, mid.account = a PROVE new.account = a
  <2>1. CASE m \notin Renamed(b)
    BY <1>5, <2>1 DEF Handles, mid, new
  <2>2. CASE m \in Renamed(b)
    <3>1. new.account = AccountOf(s, m)
      BY <2>2 DEF Handles, s, new
    <3>2. s.owner[m] = a
      BY <1>0, <1>5, PrimaryOwned, NoneIsNoBlock
    <3> QED BY <3>1, <3>2, NoneIsNoBlock DEF AccountOf
  <2> QED BY <2>1, <2>2
<1> QED BY <1>4, <1>5 DEF new

LEMMA AgreeNext ==
  ASSUME OnChain, Coherent(origin), NEW top \in 0 .. Height, NEW b \in 1 .. top,
         NEW t \in GoodTables, Agreeing(t, b - 1, top)
  PROVE  Agreeing(Handled(t, b), b, top)
<1> DEFINE w == Handled(t, b)
<1>0. b \in 1 .. Height /\ top \in 0 .. Height
  BY BlocksTyped
<1>1. PICK Q \in SUBSET Accounts, u \in GoodTables : Handles(t, u, w, Q, b)
  BY <1>0, HandledRows
<1> HIDE DEF w
<1>2. \A n \in Names : As(w.usernames[n], n, b) \/ NameLater(n, b, top)
  <2>1. \A n \in Names : As(t.usernames[n], n, b - 1) \/ NameLater(n, b - 1, top)
    BY DEF Agreeing
  <2> QED BY <1>1, <2>1, AgreeNamesNext
<1>3. \A x \in Accounts : \/ w.subs[x] = SuperOf(b, x)
                          \/ w.subs[x] = None /\ SuperOf(top, x) = None
                          \/ SubLater(x, b, top)
  <2>1. \A x \in Accounts : \/ t.subs[x] = SuperOf(b - 1, x)
                            \/ t.subs[x] = None /\ SuperOf(top, x) = None
                            \/ SubLater(x, b - 1, top)
    BY DEF Agreeing
  <2> QED BY <1>1, <2>1, AgreeSubsNext
<1>4. \A a \in Accounts : PrimaryOf(top, a) # None =>
        Flagged(w, PrimaryOf(top, a), a) \/ PrimaryLater(a, b, top)
  <2>1. \A a \in Accounts : PrimaryOf(top, a) # None =>
          Flagged(t, PrimaryOf(top, a), a) \/ PrimaryLater(a, b - 1, top)
    BY DEF Agreeing
  <2> QED BY <1>1, <2>1, AgreeFlagsNext
<1>5. ASSUME NEW m \in Names \ Regranted, w.usernames[m].primary, NEW a, a = OwnerOf(top, m), a # None
      PROVE  PrimaryOf(top, a) = m \/ (PrimaryOf(b, a) = m /\ w.usernames[m].account = a)
  <2>1. a \in Accounts
    BY <1>5, PalletFields
  <2>2. t.usernames[m].primary =>
          PrimaryOf(top, a) = m \/ (PrimaryOf(b - 1, a) = m /\ t.usernames[m].account = a)
    BY <1>5 DEF Agreeing
  <2> QED BY <1>1, <1>5, <2>1, <2>2, AgreePrimariesNext
<1> QED BY <1>2, <1>3, <1>4, <1>5 DEF Agreeing, w

-----------------------------------------------------------------------------
(***************************************************************************)
(* What the tables then answer.                                            *)
(***************************************************************************)
LEMMA OpenRawFound ==
  ASSUME HistoryInv, at \in indexed, Missed = {}, NEW a \in Accounts
  PROVE  OpenRaw(tables, a) = TrueOf(at, a)
<1> DEFINE R == Rows(tables, a)
           v == TrueOf(at, a)
<1>1. at \in Int /\ at \in 0 .. Height /\ R \in SUBSET IdentityRow
  BY IndexedOnChain, BlocksTyped DEF HistoryInv, GoodTables, TableType, Rows
<1>2. Before(R, at) /\ Tells(R, at, v)
  <2>1. ~StaleAt(a, at)
    BY DEF StaleAt
  <2> QED BY <2>1 DEF HistoryInv, AccountInv, Told, Edge
<1>3. OpenRows(tables, a) = {r \in R : r.to = None}
  BY DEF OpenRows, Rows
<1> HIDE DEF R, v
<1>4. \A r \in R : Covers(r, at) <=> r.to = None
  <2>1. ASSUME NEW r \in R PROVE Covers(r, at) <=> r.to = None
    <3>1. r.from <= at /\ (r.to # None => r.to \in Int /\ r.to < at)
      BY <1>1, <1>2, RowFields DEF Before
    <3> QED BY <1>1, <3>1 DEF Covers
  <2> QED BY <2>1
<1>5. CASE OpenRows(tables, a) = {}
  BY <1>2, <1>3, <1>4, <1>5 DEF OpenRaw, Tells, v
<1>6. CASE OpenRows(tables, a) # {}
  <2>1. PICK r \in OpenRows(tables, a) : r = CHOOSE x \in OpenRows(tables, a) : TRUE
    BY <1>6
  <2>2. r.raw = v
    BY <1>2, <1>3, <1>4, <2>1 DEF Tells
  <2> QED BY <1>6, <2>1, <2>2 DEF OpenRaw, v
<1> QED BY <1>5, <1>6

NamedBy(t, a, n) ==
  t.usernames[n].account = a /\ t.usernames[n].primary /\ t.usernames[n].status = "active"

LEMMA NamedShown ==
  ASSUME NEW t, NEW a \in Accounts, OneShown(t)
  PROVE  /\ \A n \in Names : NamedBy(t, a, n) => AliasOf(t, a).username = n
         /\ (\A n \in Names : ~NamedBy(t, a, n)) => AliasOf(t, a).username = None
         /\ AliasOf(t, a).username # None => NamedBy(t, a, AliasOf(t, a).username)
                                             /\ AliasOf(t, a).username \in Names
<1> DEFINE S == {n \in Names : NamedBy(t, a, n)}
           name == IF \E n \in Names : NamedBy(t, a, n) THEN CHOOSE n \in Names : NamedBy(t, a, n) ELSE None
<1>1. AliasOf(t, a).username = name
  BY DEF AliasOf, NamedBy
<1>2. \A n, m \in S : n = m
  BY DEF OneShown, Shown, NamedBy
<1>3. CASE S = {}
  BY <1>1, <1>3
<1>4. CASE S # {}
  <2>1. name \in S
    BY <1>4
  <2> HIDE DEF name
  <2> QED BY <1>1, <1>2, <2>1
<1> QED BY <1>3, <1>4

LEMMA PrimaryShown ==
  ASSUME OnChain, Coherent(origin), NEW t, OneShown(t), NEW b \in 0 .. Height, Agree(t, b), NEW a \in Accounts
  PROVE  \/ AliasOf(t, a).username = PrimaryOf(b, a)
         \/ PrimaryOf(b, a) \in StateAt(b).unbinding
         \/ AliasOf(t, a).username \in Regranted
<1> DEFINE p == PrimaryOf(b, a)
           name == AliasOf(t, a).username
<1> SUFFICES ASSUME p \notin StateAt(b).unbinding, name \notin Regranted PROVE name = p
  OBVIOUS
<1>1. CASE p # None
  <2>1. p \in Names /\ OwnerOf(b, p) = a /\ a # None
    BY <1>1, PrimaryOwned, NoneIsNoBlock
  <2>2. As(t.usernames[p], p, b) /\ Flagged(t, p, a)
    BY <1>1, <2>1 DEF Agree
  <2>3. NamedBy(t, a, p)
    BY <2>1, <2>2 DEF As, Flagged, NamedBy
  <2> QED BY <2>1, <2>3, NamedShown
<1>2. CASE p = None /\ name # None
  <2>1. NamedBy(t, a, name) /\ name \in Names
    BY <1>2, NamedShown
  <2> HIDE DEF name
  <2>2. As(t.usernames[name], name, b)
    BY <2>1 DEF Agree
  <2>3. OwnerOf(b, name) = a
    BY <2>1, <2>2, NoneIsNoBlock DEF As, NamedBy
  <2>4. PrimaryOf(b, a) = name
    BY <2>1, <2>3, NoneIsNoBlock DEF Agree, NamedBy
  <2> QED BY <1>2, <2>1, <2>4, NoneIsNoBlock
<1> QED BY <1>1, <1>2

LEMMA AgreeShows ==
  ASSUME HistoryInv, NamesInv, at \in indexed, Missed = {}, Agree(tables, at)
  PROVE  AliasesAgree
<1> DEFINE s == StateAt(at)
<1>0. at \in 0 .. Height /\ OnChain /\ Coherent(origin) /\ OneShown(tables) /\ s \in PalletState
  BY IndexedOnChain, BlocksTyped DEF HistoryInv, NamesInv
<1>1. ASSUME NEW a \in Accounts
      PROVE  LET stored == AliasOf(tables, a)
                 live   == AliasFromStorage(s, a)
             IN  /\ stored.super = live.super
                 /\ \/ stored.display = live.display
                    \/ s.identity[a] \in Raws \ Titled /\ live.display = None
                 /\ \/ stored.username = live.username
                    \/ s.primary[a] \in s.unbinding
                    \/ stored.username \in Regranted
                 /\ \/ stored.verified = live.verified
                    \/ s.identity[a] \in Raws \ Vouched /\ stored.verified
  <2> DEFINE stored == AliasOf(tables, a)
             live == AliasFromStorage(s, a)
             own == s.identity[a]
             super == s.super[a]
             parent == IF super = None THEN None ELSE s.identity[super]
  <2>1. \A x \in Accounts : OpenRaw(tables, x) = s.identity[x]
    BY OpenRawFound DEF TrueOf
  <2>2. tables.subs[a] = super /\ super \in Accounts \cup {None} /\ own \in Raws \cup {None}
    BY <1>0, StateFields DEF Agree, SuperOf
  <2>3. /\ stored.display = IF own \in Titled THEN own ELSE DisplayOf(parent)
        /\ stored.verified = (own \in Vouched \/ parent \in Vouched)
        /\ stored.super = super
    BY <2>1, <2>2 DEF AliasOf
  <2>4. /\ live.display = DisplayOf(IF own # None THEN own ELSE parent)
        /\ live.verified = ((IF own # None THEN own ELSE parent) \in Vouched)
        /\ live.super = super /\ live.username = PrimaryOf(at, a)
    BY DEF AliasFromStorage, PrimaryOf
  <2>5. \/ stored.username = live.username
        \/ s.primary[a] \in s.unbinding
        \/ stored.username \in Regranted
    BY <1>0, <2>4, PrimaryShown DEF PrimaryOf
  <2>6. stored.verified = live.verified \/ (own \in Raws \ Vouched /\ stored.verified)
    <3>1. None \notin Vouched
      BY IdentityAssumption
    <3> HIDE DEF stored, live, own, parent
    <3>2. CASE own = None
      BY <2>3, <2>4, <3>1, <3>2
    <3>3. CASE own \in Vouched
      BY <2>3, <2>4, <3>1, <3>3
    <3>4. CASE own \in Raws \ Vouched
      <4>1. CASE parent \in Vouched
        BY <2>3, <3>4, <4>1
      <4>2. CASE parent \notin Vouched
        BY <2>3, <2>4, <3>1, <3>4, <4>2
      <4> QED BY <4>1, <4>2
    <3> QED BY <2>2, <3>2, <3>3, <3>4 DEF own
  <2>7. stored.display = live.display \/ (own \in Raws \ Titled /\ live.display = None)
    <3>1. None \notin Titled
      BY IdentityAssumption
    <3> HIDE DEF stored, live, own, parent
    <3>2. CASE own = None
      BY <2>3, <2>4, <3>1, <3>2
    <3>3. CASE own \in Titled
      BY <2>3, <2>4, <3>1, <3>3 DEF DisplayOf
    <3>4. CASE own \in Raws \ Titled
      <4>1. own # None
        BY <3>4, IdentityAssumption
      <4> QED BY <2>4, <3>4, <4>1 DEF DisplayOf
    <3> QED BY <2>2, <3>2, <3>3, <3>4 DEF own
  <2> HIDE DEF stored, live
  <2> QED BY <2>3, <2>4, <2>5, <2>6, <2>7 DEF stored, live
<1>2. ASSUME NEW n \in Names \ s.unbinding PROVE ResolveUsername(tables, n) = s.owner[n]
  <2>1. As(tables.usernames[n], n, at)
    BY DEF Agree
  <2> QED BY <2>1 DEF As, ResolveUsername, OwnerOf
<1> QED BY <1>1, <1>2 DEF AliasesAgree

-----------------------------------------------------------------------------
(***************************************************************************)
(* What the sweeps write, row by row.                                      *)
(***************************************************************************)
SameSubs(t, u) == u.subs = t.subs

LEMMA SweptIdentitiesSubs ==
  ASSUME NEW t \in GoodTables, NEW s \in PalletState, NEW b \in Nat, NEW Q \in SUBSET Accounts
  PROVE  SameSubs(t, FoldSet(LAMBDA a, u : PutIdentity(u, a, b, s.identity[a]), t, Q))
<1> DEFINE fold == FoldSet(LAMBDA a, u : PutIdentity(u, a, b, s.identity[a]), t, Q)
<1>0. fold \in PutIdentitiesFolded(t, s, Q, b)
  BY PutIdentitiesFold
<1> HIDE DEF fold
<1>1. PICK f \in [SUBSET Q -> GoodTables] :
        /\ f[Q] = fold
        /\ f[{}] = t
        /\ \A q \in SUBSET Q : q # {} => f[q] = PutIdentity(f[Rest(q)], (CHOOSE x \in q : TRUE), b, s.identity[(CHOOSE x \in q : TRUE)])
  BY <1>0 DEF PutIdentitiesFolded
<1>2. IsFiniteSet(Q)
  BY IdentityAssumption, FS_Subset
<1> DEFINE G == {q \in SUBSET Q : f[q].subs = t.subs}
<1>3. {} \in G
  BY <1>1
<1>4. ASSUME NEW q \in SUBSET Q, q # {}, Rest(q) \in G PROVE q \in G
  <2> DEFINE a == CHOOSE x \in q : TRUE
             v == f[Rest(q)]
  <2>1. a \in Q /\ Rest(q) \in SUBSET Q
    BY <1>4 DEF Rest
  <2>2. f[q] = PutIdentity(v, a, b, s.identity[a]) /\ v \in GoodTables
    BY <1>1, <1>4, <2>1
  <2>3. v.subs = t.subs
    BY <1>4
  <2> HIDE DEF a, v
  <2>4. a \in Accounts /\ s.identity[a] \in Raws \cup {None}
    BY <2>1, StateFields
  <2>5. f[q].subs = v.subs
    BY <2>2, <2>4, PutIdentityNames
  <2> QED BY <2>3, <2>5
<1> HIDE DEF G
<1>5. SUBSET Q \subseteq G
  BY <1>2, <1>3, <1>4, SubsetInduction
<1>6. SameSubs(t, fold)
  BY <1>1, <1>5 DEF G, SameSubs
<1> QED BY <1>6 DEF fold

NamesRead(t, u, s, Q) ==
  /\ u.subs = t.subs
  /\ \A n \in Names : /\ u.usernames[n].primary = t.usernames[n].primary
                      /\ n \in Q => u.usernames[n].account = s.owner[n] /\ u.usernames[n].status = "active"
                      /\ n \notin Q => u.usernames[n] = t.usernames[n]

LEMMA SweptUsernamesRows ==
  ASSUME NEW t \in GoodTables, NEW s \in PalletState, NEW Q \in SUBSET Names
  PROVE  NamesRead(t, FoldSet(LAMBDA n, u : PutUsername(u, n, s.owner[n], "active"), t, Q), s, Q)
<1> DEFINE fold == FoldSet(LAMBDA n, u : PutUsername(u, n, s.owner[n], "active"), t, Q)
<1>0. fold \in PutUsernamesFolded(t, s, Q)
  BY PutUsernamesFold
<1> HIDE DEF fold
<1>1. PICK f \in [SUBSET Q -> GoodTables] :
        /\ f[Q] = fold
        /\ f[{}] = t
        /\ \A q \in SUBSET Q : q # {} => f[q] = PutUsername(f[Rest(q)], (CHOOSE x \in q : TRUE), s.owner[(CHOOSE x \in q : TRUE)], "active")
  BY <1>0 DEF PutUsernamesFolded
<1>2. IsFiniteSet(Q)
  BY IdentityAssumption, FS_Subset
<1> DEFINE G == {q \in SUBSET Q : NamesRead(t, f[q], s, q)}
<1>3. {} \in G
  BY <1>1 DEF NamesRead
<1>4. ASSUME NEW q \in SUBSET Q, q # {}, Rest(q) \in G PROVE q \in G
  <2> DEFINE n == CHOOSE x \in q : TRUE
             v == f[Rest(q)]
  <2>1. n \in q /\ n \in Names /\ Rest(q) = q \ {n} /\ q \ {n} \in SUBSET Q
    BY <1>4 DEF Rest
  <2>2. f[q] = PutUsername(v, n, s.owner[n], "active") /\ v \in GoodTables
    BY <1>1, <1>4, <2>1
  <2>3. NamesRead(t, v, s, q \ {n})
    BY <1>4, <2>1
  <2> HIDE DEF n, v
  <2>4. s.owner[n] \in Accounts \cup {None} /\ "active" \in Statuses
    BY <2>1, StateFields DEF Statuses
  <2>5. /\ f[q].subs = v.subs
        /\ f[q].usernames[n].account = s.owner[n] /\ f[q].usernames[n].status = "active"
        /\ f[q].usernames[n].primary = v.usernames[n].primary
        /\ \A m \in Names \ {n} : f[q].usernames[m] = v.usernames[m]
    BY <2>1, <2>2, <2>4, PutUsernameNames
  <2>6. NamesRead(t, f[q], s, q)
    <3> DEFINE w == f[q]
    <3> HIDE DEF w
    <3>1. \A m \in Names \ {n} : /\ w.usernames[m].primary = t.usernames[m].primary
                                 /\ m \in q => w.usernames[m].account = s.owner[m] /\ w.usernames[m].status = "active"
                                 /\ m \notin q => w.usernames[m] = t.usernames[m]
      BY <2>3, <2>5 DEF NamesRead, w
    <3> QED BY <2>1, <2>3, <2>5, <3>1 DEF NamesRead, w
  <2> QED BY <2>6
<1> HIDE DEF G
<1>5. SUBSET Q \subseteq G
  BY <1>2, <1>3, <1>4, SubsetInduction
<1>6. NamesRead(t, fold, s, Q)
  BY <1>1, <1>5 DEF G
<1> QED BY <1>6 DEF fold

PrimariesRead(t, u, s, Q) ==
  /\ u.subs = t.subs
  /\ \A n \in Names : u.usernames[n] = NameSynced(s, Q, n, t.usernames[n])

LEMMA SweptPrimariesRows ==
  ASSUME NEW t \in GoodTables, NEW s \in PalletState, Coherent(s), NEW Q \in SUBSET Accounts
  PROVE  PrimariesRead(t, FoldSet(LAMBDA a, u : SetPrimaryUsername(u, a, s.primary[a]), t, Q), s, Q)
<1> DEFINE fold == FoldSet(LAMBDA a, u : SetPrimaryUsername(u, a, s.primary[a]), t, Q)
<1>0. fold \in SetPrimariesFolded(t, s, Q)
  BY SetPrimariesFold
<1> HIDE DEF fold
<1>1. PICK f \in [SUBSET Q -> GoodTables] :
        /\ f[Q] = fold
        /\ f[{}] = t
        /\ \A q \in SUBSET Q : q # {} => f[q] = SetPrimaryUsername(f[Rest(q)], (CHOOSE x \in q : TRUE), s.primary[(CHOOSE x \in q : TRUE)])
  BY <1>0 DEF SetPrimariesFolded
<1>2. IsFiniteSet(Q)
  BY IdentityAssumption, FS_Subset
<1> DEFINE G == {q \in SUBSET Q : PrimariesRead(t, f[q], s, q)}
<1>3. {} \in G
  <2>1. \A n \in Names : NameSynced(s, {}, n, t.usernames[n]) = t.usernames[n]
    BY DEF NameSynced
  <2> QED BY <1>1, <2>1 DEF PrimariesRead
<1>4. ASSUME NEW q \in SUBSET Q, q # {}, Rest(q) \in G PROVE q \in G
  <2> DEFINE a == CHOOSE x \in q : TRUE
             v == f[Rest(q)]
             old == q \ {a}
  <2>1. a \in q /\ a \in Accounts /\ Rest(q) = old /\ old \in SUBSET Q /\ q = old \cup {a}
    BY <1>4 DEF Rest
  <2>2. f[q] = SetPrimaryUsername(v, a, s.primary[a]) /\ v \in GoodTables
    BY <1>1, <1>4, <2>1
  <2>3. PrimariesRead(t, v, s, old)
    BY <1>4, <2>1
  <2> DEFINE p == s.primary[a]
  <2> HIDE DEF v
  <2>4. p \in Names \cup {None} /\ (p # None => s.owner[p] = a) /\ a \notin old
        /\ \A x \in old : s.primary[x] # None => s.owner[s.primary[x]] = x
    BY <2>1, StateFields DEF Coherent
  <2> HIDE DEF a, p, old
  <2>5. /\ f[q].subs = v.subs
        /\ \A n \in Names : f[q].usernames[n] = IF n = p THEN PromotedRow(v.usernames[n], a)
                                                ELSE DemotedRow(v.usernames[n], a)
    BY <2>1, <2>2, <2>4, SetPrimaryNames DEF p
  <2>6. ASSUME NEW n \in Names
        PROVE  f[q].usernames[n] = NameSynced(s, q, n, t.usernames[n])
    <3> DEFINE row == t.usernames[n]
               mid == v.usernames[n]
               new == f[q].usernames[n]
    <3>1. mid = NameSynced(s, old, n, row) /\ row \in NameRow
      BY <2>3 DEF PrimariesRead, GoodTables, TableType
    <3>2. new = IF n = p THEN PromotedRow(mid, a) ELSE DemotedRow(mid, a)
      BY <2>5
    <3> HIDE DEF row, mid, new
    <3>3. CASE n = p
      BY <2>1, <2>4, <3>1, <3>2, <3>3, NoneIsNoBlock DEF NameSynced, PromotedRow, NameRow, row, new, p
    <3>4. CASE n # p
      BY <2>1, <2>4, <3>1, <3>2, <3>4 DEF NameSynced, PromotedRow, DemotedRow, NameRow, row, new, p
    <3> QED BY <3>3, <3>4
  <2>7. PrimariesRead(t, f[q], s, q)
    BY <2>3, <2>5, <2>6 DEF PrimariesRead
  <2> QED BY <2>7
<1> HIDE DEF G
<1>5. SUBSET Q \subseteq G
  BY <1>2, <1>3, <1>4, SubsetInduction
<1>6. PrimariesRead(t, fold, s, Q)
  BY <1>1, <1>5 DEF G
<1> QED BY <1>6 DEF fold

SubsRead(t, u, s, Q) ==
  /\ u.usernames = t.usernames
  /\ \A x \in Accounts : u.subs[x] = IF x \in Q THEN s.super[x] ELSE t.subs[x]

LEMMA SweptSubsRows ==
  ASSUME NEW t \in GoodTables, NEW s \in PalletState, NEW Q \in SUBSET Accounts
  PROVE  SubsRead(t, FoldSet(LAMBDA a, u : PutSub(u, a, s.super[a]), t, Q), s, Q)
<1> DEFINE fold == FoldSet(LAMBDA a, u : PutSub(u, a, s.super[a]), t, Q)
<1>0. fold \in PutSubsFolded(t, s, Q)
  BY PutSubsFold
<1> HIDE DEF fold
<1>1. PICK f \in [SUBSET Q -> GoodTables] :
        /\ f[Q] = fold
        /\ f[{}] = t
        /\ \A q \in SUBSET Q : q # {} => f[q] = PutSub(f[Rest(q)], (CHOOSE x \in q : TRUE), s.super[(CHOOSE x \in q : TRUE)])
  BY <1>0 DEF PutSubsFolded
<1>2. IsFiniteSet(Q)
  BY IdentityAssumption, FS_Subset
<1> DEFINE G == {q \in SUBSET Q : SubsRead(t, f[q], s, q)}
<1>3. {} \in G
  BY <1>1 DEF SubsRead
<1>4. ASSUME NEW q \in SUBSET Q, q # {}, Rest(q) \in G PROVE q \in G
  <2> DEFINE a == CHOOSE x \in q : TRUE
             v == f[Rest(q)]
  <2>1. a \in q /\ a \in Accounts /\ Rest(q) = q \ {a} /\ q \ {a} \in SUBSET Q
    BY <1>4 DEF Rest
  <2>2. f[q] = PutSub(v, a, s.super[a]) /\ v \in GoodTables
    BY <1>1, <1>4, <2>1
  <2>3. SubsRead(t, v, s, q \ {a})
    BY <1>4, <2>1
  <2> HIDE DEF a, v
  <2>4. /\ f[q].usernames = v.usernames
        /\ \A x \in Accounts : f[q].subs[x] = IF x = a THEN s.super[a] ELSE v.subs[x]
    BY <2>1, <2>2 DEF PutSub, GoodTables, TableType
  <2>5. SubsRead(t, f[q], s, q)
    BY <2>1, <2>3, <2>4 DEF SubsRead
  <2> QED BY <2>5
<1> HIDE DEF G
<1>5. SUBSET Q \subseteq G
  BY <1>2, <1>3, <1>4, SubsetInduction
<1>6. SubsRead(t, fold, s, Q)
  BY <1>1, <1>5 DEF G
<1> QED BY <1>6 DEF fold

-----------------------------------------------------------------------------
(***************************************************************************)
(* Before the first block.  The sweeps leave every row as it was at some   *)
(* block between the first sweep and the last, not the same for all, and   *)
(* the primary usernames, once swept, as they were at one of them.         *)
(***************************************************************************)
NameSwept(t, n, lo, hi) == lo # None /\ \E q \in lo .. hi : As(t.usernames[n], n, q)

SubSwept(t, x, lo, hi) == lo # None /\ \E q \in lo .. hi : t.subs[x] = SuperOf(q, x)

FlagsAt(t, q) == \A a \in Accounts : PrimaryOf(q, a) # None => Flagged(t, PrimaryOf(q, a), a)

OncePrimary(m, lo, hi) == lo # None /\ \E q \in lo .. hi, a \in Accounts : PrimaryOf(q, a) = m

NamesAhead == ~seeded /\ stage \in {"off", "identities", "names"}

SubsAhead == ~seeded /\ stage \in {"off", "identities", "names", "primaries", "subs"}

PrimariesDone == seeded \/ stage \in {"subs", "finish"}

SweptTo(t, lo, hi) ==
  /\ \A n \in Names : NameSwept(t, n, lo, hi) \/ (t.usernames[n].status = "absent" /\ NamesAhead)
  /\ \A x \in Accounts : SubSwept(t, x, lo, hi) \/ (t.subs[x] = None /\ SubsAhead)
  /\ PrimariesDone => \E q \in lo .. hi : FlagsAt(t, q)
  /\ \A m \in Names : t.usernames[m].primary => OncePrimary(m, lo, hi)

AgreeInv ==
  /\ at \in indexed /\ Missed = {} => Agree(tables, at)
  /\ at \notin indexed => SweptTo(tables, oldest, snapshot)

LEMMA AgreeStart == Init => AgreeInv
<1> SUFFICES ASSUME Init PROVE AgreeInv
  OBVIOUS
<1>1. /\ stage = "off" /\ ~seeded /\ indexed = {}
      /\ \A n \in Names : tables.usernames[n].status = "absent" /\ tables.usernames[n].primary = FALSE
      /\ \A x \in Accounts : tables.subs[x] = None
  BY DEF Init, EmptyTables, NoName
<1> QED BY <1>1 DEF AgreeInv, SweptTo, NamesAhead, SubsAhead, PrimariesDone

(* The first block, when the sweeps read it or the one before.             *)
LEMMA AgreeFirst ==
  ASSUME OnChain, Coherent(origin), NEW b \in 1 .. Height, NEW t, NEW lo \in Nat, NEW hi \in Nat, lo <= hi,
         \A q \in lo .. hi : q \in {b - 1, b}, seeded, SweptTo(t, lo, hi)
  PROVE  Agreeing(t, b - 1, b)
<1>0. /\ b \in 0 .. Height /\ b - 1 \in 0 .. Height /\ b \in b .. b /\ (b - 1) + 1 = b /\ b \in Nat
      /\ b - 1 <= b
  BY BlocksTyped
<1>1. ASSUME NEW n \in Names, ~NameLater(n, b - 1, b) PROVE As(t.usernames[n], n, b - 1)
  <2>1. PICK q \in {b - 1, b} : As(t.usernames[n], n, q)
    BY DEF SweptTo, NameSwept, NamesAhead
  <2>2. n \notin Renamed(b)
    BY <1>0, <1>1 DEF NameLater
  <2>3. As(t.usernames[n], n, b) => As(t.usernames[n], n, b - 1)
    BY <2>2, NameStill DEF As
  <2> QED BY <2>1, <2>3
<1>2. ASSUME NEW x \in Accounts, ~SubLater(x, b - 1, b)
      PROVE  t.subs[x] = SuperOf(b - 1, x) \/ (t.subs[x] = None /\ SuperOf(b, x) = None)
  <2>1. PICK q \in {b - 1, b} : t.subs[x] = SuperOf(q, x)
    BY DEF SweptTo, SubSwept, SubsAhead
  <2>2. x \notin SubTouched(b)
    BY <1>0, <1>2 DEF SubLater
  <2>3. SuperOf(b, x) = SuperOf(b - 1, x) \/ SuperOf(b, x) = None
    BY <2>2, SuperStill
  <2> QED BY <2>1, <2>3
<1>3. ASSUME NEW a \in Accounts, PrimaryOf(b, a) # None, ~PrimaryLater(a, b - 1, b)
      PROVE  Flagged(t, PrimaryOf(b, a), a)
  <2>1. PICK q \in {b - 1, b} : FlagsAt(t, q)
    BY DEF SweptTo, PrimariesDone
  <2>2. a \notin Touched(b)
    BY <1>0, <1>3 DEF PrimaryLater
  <2>3. PrimaryOf(q, a) = PrimaryOf(b, a)
    BY <1>3, <2>2, PrimaryStill
  <2> QED BY <1>3, <2>1, <2>3 DEF FlagsAt
<1>4. ASSUME NEW m \in Names \ Regranted, t.usernames[m].primary, NEW a, a = OwnerOf(b, m), a # None
      PROVE  PrimaryOf(b, a) = m \/ (PrimaryOf(b - 1, a) = m /\ t.usernames[m].account = a)
  <2>1. PICK q \in {b - 1, b}, c \in Accounts : PrimaryOf(q, c) = m
    BY <1>4 DEF SweptTo, OncePrimary
  <2>2. OwnerOf(q, m) = c /\ c # None
    BY <1>0, <2>1, PrimaryOwned, NoneIsNoBlock
  <2>3. c = a
    BY <1>0, <1>4, <2>1, <2>2, OneOwner
  <2>4. CASE q = b
    BY <2>1, <2>3, <2>4
  <2>5. CASE q = b - 1
    <3>1. PICK r \in {b - 1, b} : As(t.usernames[m], m, r)
      BY DEF SweptTo, NameSwept, NamesAhead
    <3>2. OwnerOf(r, m) = a
      BY <1>4, <2>2, <2>3, <2>5
    <3> QED BY <1>4, <2>1, <2>3, <2>5, <3>1, <3>2 DEF As
  <2> QED BY <2>4, <2>5
<1> QED BY <1>1, <1>2, <1>3, <1>4 DEF Agreeing

-----------------------------------------------------------------------------
(***************************************************************************)
(* The steps that keep AgreeInv.  A step leaves the past of the chain, and *)
(* a name that was granted again stays one.                                *)
(***************************************************************************)
SamePast ==
  /\ \A x \in 0 .. Height : StateAt(x)' = StateAt(x)
  /\ Regranted \subseteq Regranted'

LEMMA PastUnchanged == ASSUME UNCHANGED <<origin, chain>> PROVE SamePast
BY SameChainState, SameOwners DEF SamePast

LEMMA AsLater ==
  ASSUME SamePast, NEW q \in 0 .. Height, NEW row, NEW n, As(row, n, q) PROVE As(row, n, q)'
BY DEF As, SamePast, OwnerOf

LEMMA AgreeLater ==
  ASSUME SamePast, NEW t, NEW u, NEW b \in 0 .. Height, Agree(t, b),
         u.usernames = t.usernames, u.subs = t.subs
  PROVE  Agree(u, b)'
<1>1. StateAt(b)' = StateAt(b) /\ Regranted \subseteq Regranted'
  BY DEF SamePast
<1> QED BY <1>1 DEF Agree, As, Flagged, OwnerOf, PrimaryOf, SuperOf

LEMMA SweptToNow ==
  ASSUME SamePast, Height \in Nat, NEW t, NEW lo, NEW hi \in 0 .. Height, lo # None => lo \in Nat,
         \A n \in Names : NameSwept(t, n, lo, hi) \/ (t.usernames[n].status = "absent" /\ NamesAhead'),
         \A x \in Accounts : SubSwept(t, x, lo, hi) \/ (t.subs[x] = None /\ SubsAhead'),
         PrimariesDone' => lo # None /\ \E q \in lo .. hi : FlagsAt(t, q),
         \A m \in Names : t.usernames[m].primary => OncePrimary(m, lo, hi)
  PROVE  SweptTo(t, lo, hi)'
<1>0. lo # None => \A q \in lo .. hi : q \in 0 .. Height /\ StateAt(q)' = StateAt(q)
  BY DEF SamePast
<1>1. \A n \in Names : NameSwept(t, n, lo, hi) => NameSwept(t, n, lo, hi)'
  BY <1>0 DEF NameSwept, As, OwnerOf
<1>2. \A x \in Accounts : SubSwept(t, x, lo, hi) => SubSwept(t, x, lo, hi)'
  BY <1>0 DEF SubSwept, SuperOf
<1>3. lo # None => \A q \in lo .. hi : FlagsAt(t, q) => FlagsAt(t, q)'
  BY <1>0 DEF FlagsAt, Flagged, PrimaryOf
<1>4. \A m \in Names : OncePrimary(m, lo, hi) => OncePrimary(m, lo, hi)'
  BY <1>0 DEF OncePrimary, PrimaryOf
<1> QED BY <1>1, <1>2, <1>3, <1>4 DEF SweptTo

LEMMA SweptWritten ==
  ASSUME SamePast, Height \in Nat, NEW t, NEW lo, NEW hi \in 0 .. Height, lo # None => lo \in Nat,
         at' \notin indexed', oldest' = lo, snapshot' = hi, tables' = t,
         \A n \in Names : NameSwept(t, n, lo, hi) \/ (t.usernames[n].status = "absent" /\ NamesAhead'),
         \A x \in Accounts : SubSwept(t, x, lo, hi) \/ (t.subs[x] = None /\ SubsAhead'),
         PrimariesDone' => lo # None /\ \E q \in lo .. hi : FlagsAt(t, q),
         \A m \in Names : t.usernames[m].primary => OncePrimary(m, lo, hi)
  PROVE  AgreeInv'
<1>1. SweptTo(t, lo, hi)'
  BY SweptToNow
<1>2. SweptTo(tables, oldest, snapshot)'
  BY <1>1 DEF SweptTo, NameSwept, SubSwept, FlagsAt, OncePrimary, Flagged, As
<1> QED BY <1>2 DEF AgreeInv

(* A later sweep widens the range.                                         *)
LEMMA SweptWider ==
  ASSUME NEW t, NEW lo, NEW hi \in Nat, NEW low, NEW high \in Nat, hi <= high, lo # None => low = lo,
         lo # None => lo \in Nat, None \notin Nat
  PROVE  /\ \A n \in Names : NameSwept(t, n, lo, hi) => NameSwept(t, n, low, high)
         /\ \A x \in Accounts : SubSwept(t, x, lo, hi) => SubSwept(t, x, low, high)
         /\ lo # None /\ (\E q \in lo .. hi : FlagsAt(t, q)) => \E q \in low .. high : FlagsAt(t, q)
         /\ \A m \in Names : OncePrimary(m, lo, hi) => OncePrimary(m, low, high)
<1>1. lo # None => lo .. hi \subseteq low .. high /\ low # None
  OBVIOUS
<1> QED BY <1>1 DEF NameSwept, SubSwept, OncePrimary

LEMMA AgreeMoves ==
  ASSUME HistoryInv, AgreeInv, SamePast, UNCHANGED <<at, indexed>>,
         tables'.usernames = tables.usernames, tables'.subs = tables.subs,
         oldest # None \/ at \in indexed => oldest' = oldest, oldest' # None => oldest' \in Nat,
         snapshot' \in 0 .. Height, snapshot <= snapshot',
         NamesAhead => NamesAhead', SubsAhead => SubsAhead', PrimariesDone' => PrimariesDone
  PROVE  AgreeInv'
<1>0. /\ Height \in Nat /\ snapshot \in Nat /\ (oldest # None => oldest \in Nat) /\ None \notin Nat
      /\ PrimariesDone => oldest # None
  BY BlocksTyped, NoneIsNoBlock, IndexedOnChain DEF HistoryInv, Phases, PrimariesDone
<1>1. CASE at \in indexed
  <2>1. at \in 0 .. Height /\ Missed' = Missed
    BY <1>1, IndexedOnChain, BlocksTyped DEF HistoryInv, Missed
  <2>2. PICK t, b : t = tables' /\ b = at
    OBVIOUS
  <2>3. Missed = {} => Agree(t, b)'
    BY <1>1, <2>1, <2>2, AgreeLater DEF AgreeInv
  <2>4. Missed' = {} => Agree(tables, at)'
    BY <2>1, <2>2, <2>3 DEF Agree, As, Flagged, OwnerOf, PrimaryOf, SuperOf
  <2> QED BY <1>1, <2>4 DEF AgreeInv
<1>2. CASE at \notin indexed
  <2>1. SweptTo(tables, oldest, snapshot)
    BY <1>2 DEF AgreeInv
  <2>2. PICK t, lo, hi : t = tables' /\ lo = oldest' /\ hi = snapshot'
    OBVIOUS
  <2>3. /\ \A n \in Names : NameSwept(t, n, oldest, snapshot) <=> NameSwept(tables, n, oldest, snapshot)
        /\ \A x \in Accounts : SubSwept(t, x, oldest, snapshot) <=> SubSwept(tables, x, oldest, snapshot)
        /\ \A q : FlagsAt(t, q) <=> FlagsAt(tables, q)
    BY <2>2 DEF NameSwept, SubSwept, FlagsAt, Flagged
  <2>4. /\ \A n \in Names : NameSwept(t, n, oldest, snapshot) => NameSwept(t, n, lo, hi)
        /\ \A x \in Accounts : SubSwept(t, x, oldest, snapshot) => SubSwept(t, x, lo, hi)
        /\ oldest # None /\ (\E q \in oldest .. snapshot : FlagsAt(t, q)) => \E q \in lo .. hi : FlagsAt(t, q)
        /\ \A m \in Names : OncePrimary(m, oldest, snapshot) => OncePrimary(m, lo, hi)
    <3>1. PICK o, h : o = oldest /\ h = snapshot
      OBVIOUS
    <3>2. /\ h \in Nat /\ hi \in Nat /\ h <= hi /\ (o # None => lo = o) /\ (o # None => o \in Nat)
          /\ None \notin Nat
      BY <1>0, <2>2, <3>1
    <3>3. /\ \A n \in Names : NameSwept(t, n, o, h) => NameSwept(t, n, lo, hi)
          /\ \A x \in Accounts : SubSwept(t, x, o, h) => SubSwept(t, x, lo, hi)
          /\ o # None /\ (\E q \in o .. h : FlagsAt(t, q)) => \E q \in lo .. hi : FlagsAt(t, q)
          /\ \A m \in Names : OncePrimary(m, o, h) => OncePrimary(m, lo, hi)
      BY <3>2, SweptWider
    <3> QED BY <3>1, <3>3
  <2>5. /\ \A n \in Names : NameSwept(t, n, lo, hi) \/ (t.usernames[n].status = "absent" /\ NamesAhead')
        /\ \A x \in Accounts : SubSwept(t, x, lo, hi) \/ (t.subs[x] = None /\ SubsAhead')
        /\ \A m \in Names : t.usernames[m].primary => OncePrimary(m, lo, hi)
    BY <2>1, <2>2, <2>3, <2>4 DEF SweptTo
  <2>6. PrimariesDone' => lo # None /\ \E q \in lo .. hi : FlagsAt(t, q)
    BY <1>0, <2>1, <2>2, <2>3, <2>4 DEF SweptTo
  <2> QED BY <1>0, <1>2, <2>2, <2>5, <2>6, SweptWritten
<1> QED BY <1>1, <1>2

LEMMA AgreeKept ==
  ASSUME HistoryInv, AgreeInv,
         Start \/ FinishBootstrap \/ PersistReads \/ CaughtUp \/ Kill \/ PowerCut \/ UNCHANGED vars
  PROVE  AgreeInv'
<1>1. UNCHANGED <<origin, chain, tables, at, indexed, oldest>>
  BY DEF Start, FinishBootstrap, PersistReads, CaughtUp, Kill, PowerCut, vars, chainVars, tableVars,
         processVars
<1>2. /\ Phases /\ Height \in Nat /\ SamePast
      /\ oldest # None => oldest \in Nat
  BY <1>1, BlocksTyped, PastUnchanged, IndexedOnChain DEF HistoryInv, Phases
<1>3. snapshot' \in 0 .. Height /\ snapshot <= snapshot'
  <2>1. snapshot' = snapshot \/ (Start /\ snapshot' = IF source = "rpc" THEN at ELSE Height)
    BY DEF Start, FinishBootstrap, PersistReads, CaughtUp, Kill, PowerCut, vars, tableVars, processVars
  <2> QED BY <1>2, <2>1 DEF Phases
<1>4. /\ NamesAhead => NamesAhead'
      /\ SubsAhead => SubsAhead'
      /\ PrimariesDone' => PrimariesDone
  <2>1. CASE Start
    BY <2>1 DEF Start, NamesAhead, SubsAhead, PrimariesDone, tableVars
  <2>2. CASE FinishBootstrap
    BY <2>2 DEF FinishBootstrap, NamesAhead, SubsAhead, PrimariesDone
  <2>3. CASE PersistReads \/ CaughtUp \/ Kill \/ PowerCut \/ UNCHANGED vars
    <3>1. stage' \in {stage, "off"} /\ seeded' = seeded
      BY <2>3 DEF PersistReads, CaughtUp, Kill, PowerCut, vars, tableVars, processVars
    <3> QED BY <3>1 DEF NamesAhead, SubsAhead, PrimariesDone
  <2> QED BY <2>1, <2>2, <2>3
<1> QED BY <1>1, <1>2, <1>3, <1>4, AgreeMoves

LEMMA AgreeGrows == ASSUME HistoryInv, AgreeInv, NEW c \in Calls, Produce(c) PROVE AgreeInv'
<1> DEFINE E == [call : PalletCalls, state : PalletState]
           e == [call |-> c, state |-> After(c, StateAt(Height))]
<1>1. /\ chain' = Append(chain, e)
      /\ UNCHANGED <<origin, tables, at, indexed, seeded, stage, snapshot, oldest>>
  BY DEF Produce, tableVars, processVars
<1>2. Height \in Nat /\ chain \in Seq(E)
  BY BlocksTyped DEF HistoryInv, OnChain
<1> HIDE DEF E, e
<1>3. /\ Len(chain') = Len(chain) + 1
      /\ \A b \in 1 .. Len(chain) : chain'[b] = chain[b]
  BY <1>1, <1>2 DEF Height
<1>4. \A x \in 0 .. Height : StateAt(x)' = StateAt(x)
  BY <1>1, <1>2, <1>3 DEF StateAt, Height
<1>5. Regranted \subseteq Regranted'
  <2>1. ASSUME NEW n \in Regranted PROVE n \in Regranted'
    <3>1. PICK b, d \in 1 .. Height :
             /\ b < d /\ chain[b].call.op = "remove" /\ chain[d].call.op = "grant"
             /\ chain[b].call.name = n /\ chain[d].call.name = n
      BY DEF Regranted
    <3>2. chain'[b] = chain[b] /\ chain'[d] = chain[d] /\ n \in Names
      BY <1>3 DEF Height, Regranted
    <3>3. b \in 1 .. Len(chain') /\ d \in 1 .. Len(chain')
      BY <1>2, <1>3 DEF Height
    <3> QED BY <3>1, <3>2, <3>3 DEF Regranted, Height
  <2> QED BY <2>1
<1>6. /\ snapshot \in 0 .. Height
      /\ oldest # None => oldest \in Nat
  BY <1>2, IndexedOnChain DEF HistoryInv, Phases
<1>7. /\ NamesAhead => NamesAhead'
      /\ SubsAhead => SubsAhead'
      /\ PrimariesDone' => PrimariesDone
  BY <1>1 DEF NamesAhead, SubsAhead, PrimariesDone
<1>8. tables'.usernames = tables.usernames /\ tables'.subs = tables.subs /\ snapshot' = snapshot
      /\ oldest' = oldest
  BY <1>1
<1>9. SamePast
  BY <1>4, <1>5 DEF SamePast
<1> QED BY <1>1, <1>2, <1>6, <1>7, <1>8, <1>9, AgreeMoves

-----------------------------------------------------------------------------
(***************************************************************************)
(* A sweep of the names, of the primary usernames, of the subs, that reads *)
(* the state s of block hi.                                                *)
(***************************************************************************)
LEMMA NamesSweptRows ==
  ASSUME NEW hi, NEW s, s = StateAt(hi), NEW t, NEW u, NEW Q, NamesRead(t, u, s, Q),
         NEW n \in Names, n \in Q <=> s.owner[n] # None
  PROVE  /\ s.owner[n] # None => As(u.usernames[n], n, hi)
         /\ s.owner[n] = None => u.usernames[n] = t.usernames[n]
         /\ t.usernames[n].status = "absent" => As(u.usernames[n], n, hi)
<1> DEFINE row == t.usernames[n]
           new == u.usernames[n]
<1>1. /\ s.owner[n] # None => new.account = s.owner[n] /\ new.status = "active"
      /\ s.owner[n] = None => new = row
  BY DEF NamesRead
<1> HIDE DEF row, new
<1>2. s.owner[n] # None => As(new, n, hi)
  BY <1>1 DEF As, OwnerOf
<1>3. row.status = "absent" => As(new, n, hi)
  BY <1>1 DEF As, OwnerOf
<1> QED BY <1>1, <1>2, <1>3 DEF row, new

LEMMA PrimariesSweptRows ==
  ASSUME NEW hi, NEW s \in PalletState, s = StateAt(hi), Coherent(s), NEW t \in GoodTables, NEW u, Fresh(t),
         PrimariesRead(t, u, s, {a \in Accounts : s.primary[a] # None})
  PROVE  /\ \A n \in Names : \A q : As(t.usernames[n], n, q) => As(u.usernames[n], n, q) \/ As(u.usernames[n], n, hi)
         /\ FlagsAt(u, hi)
         /\ \A n \in Names : u.usernames[n].primary =>
              t.usernames[n].primary \/ \E a \in Accounts : PrimaryOf(hi, a) = n
<1> DEFINE Q == {a \in Accounts : s.primary[a] # None}
<1>0. Q \in SUBSET Accounts /\ \A a \in Accounts : a \in Q <=> s.primary[a] # None
  OBVIOUS
<1>1. \A n \in Names : u.usernames[n] = NameSynced(s, Q, n, t.usernames[n]) /\ t.usernames[n] \in NameRow
  BY DEF PrimariesRead, GoodTables, TableType
<1> HIDE DEF Q
<1>2. ASSUME NEW n \in Names
      PROVE  LET row == t.usernames[n]
                 new == u.usernames[n]
             IN  /\ Promotes(s, Q, n, row, new) \/ Demotes(s, Q, n, row, new) \/ Leaves(s, Q, n, row, new)
                 /\ s.owner[n] \in Q /\ s.primary[s.owner[n]] = n => Promotes(s, Q, n, row, new)
  <2> DEFINE row == t.usernames[n]
             new == u.usernames[n]
  <2>1. row \in NameRow /\ new = NameSynced(s, Q, n, row)
    BY <1>1
  <2> HIDE DEF row, new
  <2>2. /\ Promotes(s, Q, n, row, new) \/ Demotes(s, Q, n, row, new) \/ Leaves(s, Q, n, row, new)
        /\ s.owner[n] \in Q /\ s.primary[s.owner[n]] = n => Promotes(s, Q, n, row, new)
    BY <1>0, <2>1, NameSyncs
  <2> QED BY <2>2 DEF row, new
<1>3. ASSUME NEW n \in Names, NEW q, As(t.usernames[n], n, q)
      PROVE  As(u.usernames[n], n, q) \/ As(u.usernames[n], n, hi)
  <2> DEFINE row == t.usernames[n]
             new == u.usernames[n]
  <2>1. Promotes(s, Q, n, row, new) \/ Demotes(s, Q, n, row, new) \/ Leaves(s, Q, n, row, new)
    BY <1>2
  <2>2. As(row, n, q) /\ row.status \in {"absent", "active"}
    BY <1>3 DEF Fresh
  <2> HIDE DEF row, new
  <2>3. ASSUME Promotes(s, Q, n, row, new) PROVE As(new, n, hi)
    <3>1. new.account = OwnerOf(hi, n) /\ new.status = "active" /\ OwnerOf(hi, n) # None
      BY <1>0, <2>2, <2>3, NoneIsNoBlock DEF Promotes, OwnerOf
    <3> QED BY <3>1 DEF As
  <2>4. ASSUME Demotes(s, Q, n, row, new) \/ Leaves(s, Q, n, row, new) PROVE As(new, n, q)
    <3>1. new.account = row.account /\ new.status = row.status
      BY <2>4 DEF Demotes, Leaves
    <3> QED BY <2>2, <3>1 DEF As
  <2>5. As(new, n, q) \/ As(new, n, hi)
    BY <2>1, <2>3, <2>4
  <2> QED BY <2>5 DEF new
<1>4. ASSUME NEW a \in Accounts, PrimaryOf(hi, a) # None PROVE Flagged(u, PrimaryOf(hi, a), a)
  <2>1. s.primary[a] \in Names /\ s.owner[s.primary[a]] = a /\ a \in Q
    BY <1>0, <1>4, StateFields DEF Coherent, PrimaryOf
  <2>2. Promotes(s, Q, s.primary[a], t.usernames[s.primary[a]], u.usernames[s.primary[a]])
    BY <1>2, <2>1
  <2> QED BY <2>1, <2>2 DEF Promotes, Flagged, PrimaryOf
<1>5. ASSUME NEW n \in Names, u.usernames[n].primary
      PROVE  t.usernames[n].primary \/ \E a \in Accounts : PrimaryOf(hi, a) = n
  <2> DEFINE row == t.usernames[n]
             new == u.usernames[n]
  <2>1. Promotes(s, Q, n, row, new) \/ Leaves(s, Q, n, row, new)
    BY <1>2, <1>5 DEF Demotes
  <2>2. CASE Promotes(s, Q, n, row, new)
    BY <1>0, <2>2 DEF Promotes, PrimaryOf
  <2>3. CASE Leaves(s, Q, n, row, new)
    BY <1>5, <2>3 DEF Leaves
  <2> QED BY <2>1, <2>2, <2>3
<1> QED BY <1>3, <1>4, <1>5 DEF FlagsAt

LEMMA SweepKeeps ==
  ASSUME HistoryInv, NamesInv, AgreeInv, NEW t, NEW next, Swept(t, next),
         \/ stage = "identities" /\ next = "names"
         \/ stage = "names" /\ next = "primaries"
         \/ stage = "primaries" /\ next = "subs"
         \/ stage = "subs" /\ next = "finish"
  PROVE  /\ SamePast /\ Height \in Nat /\ at \notin indexed /\ at' \notin indexed' /\ snapshot \in 0 .. Height
         /\ ~seeded /\ ~seeded' /\ snapshot' = snapshot /\ oldest' \in 0 .. snapshot /\ oldest' # None
         /\ Fresh(tables) /\ Coherent(StateAt(snapshot)) /\ StateAt(snapshot) \in PalletState
         /\ tables \in GoodTables /\ SweptTo(tables, oldest, snapshot)
         /\ \A n \in Names : NameSwept(tables, n, oldest, snapshot) => NameSwept(tables, n, oldest', snapshot)
         /\ \A x \in Accounts : SubSwept(tables, x, oldest, snapshot) => SubSwept(tables, x, oldest', snapshot)
         /\ \A m \in Names : OncePrimary(m, oldest, snapshot) => OncePrimary(m, oldest', snapshot)
         /\ stage = "subs" => \E q \in oldest' .. snapshot : FlagsAt(tables, q)
         /\ t.ok => tables' = t /\ stage' = next
         /\ ~t.ok => AgreeInv'
<1>1. /\ UNCHANGED <<origin, chain, source, at, indexed, seeded, snapshot>>
      /\ Phases' /\ OnChain' /\ indexed = {} /\ Edge = snapshot /\ Edge' = snapshot
      /\ oldest' # None /\ (oldest # None => oldest' = oldest)
      /\ oldest' \in 0 .. snapshot /\ snapshot \in 0 .. Height
      /\ t.ok => tables' = t /\ stage' = next
      /\ ~t.ok => tables' = tables /\ stage' = "off"
  BY SweepPhases
<1>2. SamePast /\ Height \in Nat /\ ~seeded /\ OnChain /\ tables \in GoodTables
  BY <1>1, BlocksTyped, PastUnchanged DEF HistoryInv, Phases
<1>3. Fresh(tables) /\ Coherent(StateAt(snapshot)) /\ StateAt(snapshot) \in PalletState
  BY <1>1, <1>2, BlocksTyped, ChainCoherent DEF NamesInv
<1>4. SweptTo(tables, oldest, snapshot)
  BY <1>1 DEF AgreeInv
<1>5. stage = "subs" => oldest # None /\ \E q \in oldest .. snapshot : FlagsAt(tables, q)
  BY <1>4 DEF SweptTo, PrimariesDone, HistoryInv, Phases
<1>6. PICK lo, hi, o : lo = oldest /\ hi = snapshot /\ o = oldest'
  OBVIOUS
<1>7. /\ \A n \in Names : NameSwept(tables, n, lo, hi) => NameSwept(tables, n, o, hi)
      /\ \A x \in Accounts : SubSwept(tables, x, lo, hi) => SubSwept(tables, x, o, hi)
      /\ lo # None /\ (\E q \in lo .. hi : FlagsAt(tables, q)) => \E q \in o .. hi : FlagsAt(tables, q)
      /\ \A m \in Names : OncePrimary(m, lo, hi) => OncePrimary(m, o, hi)
  <2>1. hi \in Nat /\ o \in Nat /\ (lo # None => o = lo)
    BY <1>1, <1>2, <1>6
  <2> QED BY <2>1, NoneIsNoBlock DEF NameSwept, SubSwept, OncePrimary
<1>8. ASSUME ~t.ok PROVE AgreeInv'
  <2>1. NamesAhead' /\ SubsAhead' /\ ~PrimariesDone'
    BY <1>1, <1>2, <1>8 DEF NamesAhead, SubsAhead, PrimariesDone
  <2>2. /\ tables'.usernames = tables.usernames /\ tables'.subs = tables.subs
        /\ oldest # None \/ at \in indexed => oldest' = oldest
        /\ oldest' \in Nat /\ snapshot' \in 0 .. Height /\ snapshot <= snapshot'
    BY <1>1, <1>2, <1>8
  <2> QED BY <1>1, <1>2, <2>1, <2>2, AgreeMoves
<1> QED BY <1>1, <1>2, <1>3, <1>4, <1>5, <1>6, <1>7, <1>8

LEMMA AgreeSwept ==
  ASSUME HistoryInv, NamesInv, AgreeInv,
         SweepIdentities \/ SweepUsernames \/ SweepPrimaries \/ SweepSubs
  PROVE  AgreeInv'
<1> DEFINE s == StateAt(snapshot)
<1>0. tables \in GoodTables /\ snapshot \in 0 .. Height /\ snapshot \in Nat /\ s \in PalletState /\ Coherent(s)
      /\ OnChain
  BY BlocksTyped, ChainCoherent DEF HistoryInv, Phases, NamesInv
<1>1. CASE SweepIdentities
  <2> DEFINE Q == {a \in Accounts : s.identity[a] # None}
             t == FoldSet(LAMBDA a, u : PutIdentity(u, a, snapshot, s.identity[a]), tables, Q)
  <2>1. stage = "identities" /\ Swept(t, "names")
    BY <1>1 DEF SweepIdentities
  <2>2. LeavesNames(tables, t, snapshot) /\ SameSubs(tables, t)
    <3>1. Q \in SUBSET Accounts
      OBVIOUS
    <3> HIDE DEF s, Q
    <3> QED BY <1>0, <3>1, SweptIdentitiesNames, SweptIdentitiesSubs
  <2> HIDE DEF t, s
  <2>3. /\ SamePast /\ at \notin indexed /\ ~seeded' /\ snapshot' = snapshot /\ oldest' \in 0 .. snapshot
        /\ t.ok => tables' = t /\ stage' = "names"
        /\ ~t.ok => AgreeInv'
    BY <2>1, SweepKeeps
  <2>4. ASSUME t.ok PROVE AgreeInv'
    <3>1. tables'.usernames = tables.usernames /\ tables'.subs = tables.subs
      BY <2>2, <2>3, <2>4 DEF LeavesNames, SameSubs
    <3>2. NamesAhead' /\ SubsAhead' /\ ~PrimariesDone'
      BY <2>3, <2>4 DEF NamesAhead, SubsAhead, PrimariesDone
    <3>3. /\ UNCHANGED <<at, indexed>> /\ (oldest # None => oldest' = oldest) /\ oldest' \in Nat
          /\ snapshot' \in 0 .. Height /\ snapshot <= snapshot'
      BY <1>0, <2>1, <2>3 DEF Swept
    <3> QED BY <2>3, <3>1, <3>2, <3>3, AgreeMoves
  <2> QED BY <2>3, <2>4
<1>2. CASE SweepUsernames
  <2> DEFINE Q == {n \in Names : s.owner[n] # None}
             t == FoldSet(LAMBDA n, u : PutUsername(u, n, s.owner[n], "active"), tables, Q)
  <2>1. stage = "names" /\ Swept(t, "primaries")
    BY <1>2 DEF SweepUsernames
  <2>2. NamesRead(tables, t, s, Q)
    <3>1. Q \in SUBSET Names
      OBVIOUS
    <3> HIDE DEF s, Q
    <3> QED BY <1>0, <3>1, SweptUsernamesRows
  <2> HIDE DEF t
  <2>3. /\ SamePast /\ Height \in Nat /\ at \notin indexed /\ at' \notin indexed' /\ ~seeded /\ ~seeded'
        /\ snapshot' = snapshot /\ oldest' \in 0 .. snapshot /\ oldest' # None
        /\ SweptTo(tables, oldest, snapshot)
        /\ \A n \in Names : NameSwept(tables, n, oldest, snapshot) => NameSwept(tables, n, oldest', snapshot)
        /\ \A x \in Accounts : SubSwept(tables, x, oldest, snapshot) => SubSwept(tables, x, oldest', snapshot)
        /\ \A m \in Names : OncePrimary(m, oldest, snapshot) => OncePrimary(m, oldest', snapshot)
        /\ t.ok => tables' = t /\ stage' = "primaries"
        /\ ~t.ok => AgreeInv'
    BY <2>1, SweepKeeps
  <2>4. ASSUME t.ok PROVE AgreeInv'
    <3>1. PICK lo, hi : lo = oldest' /\ hi = snapshot
      OBVIOUS
    <3>2. hi \in lo .. hi /\ lo \in Nat /\ lo # None /\ hi \in 0 .. Height /\ hi \in Nat /\ s = StateAt(hi)
      BY <1>0, <2>3, <3>1
    <3>3. ASSUME NEW n \in Names PROVE NameSwept(t, n, lo, hi)
      <4>1. /\ s.owner[n] # None => As(t.usernames[n], n, hi)
            /\ s.owner[n] = None => t.usernames[n] = tables.usernames[n]
            /\ tables.usernames[n].status = "absent" => As(t.usernames[n], n, hi)
        <5>1. n \in Q <=> s.owner[n] # None
          OBVIOUS
        <5> HIDE DEF s, Q
        <5> QED BY <2>2, <3>2, <5>1, NamesSweptRows
      <4>2. NameSwept(tables, n, lo, hi) \/ tables.usernames[n].status = "absent"
        BY <2>3, <3>1 DEF SweptTo
      <4> HIDE DEF s
      <4>3. CASE As(t.usernames[n], n, hi)
        BY <3>2, <4>3 DEF NameSwept
      <4>4. CASE t.usernames[n] = tables.usernames[n] /\ NameSwept(tables, n, lo, hi)
        BY <4>4 DEF NameSwept
      <4> QED BY <4>1, <4>2, <4>3, <4>4
    <3>4. SubsAhead' /\ ~PrimariesDone'
      BY <2>3, <2>4 DEF SubsAhead, PrimariesDone
    <3>5. \A x \in Accounts : SubSwept(t, x, lo, hi) \/ (t.subs[x] = None /\ SubsAhead')
      <4>1. t.subs = tables.subs
        BY <2>2 DEF NamesRead
      <4>2. \A x \in Accounts : SubSwept(tables, x, lo, hi) \/ tables.subs[x] = None
        BY <2>3, <3>1 DEF SweptTo
      <4> QED BY <3>4, <4>1, <4>2 DEF SubSwept
    <3>6. \A m \in Names : t.usernames[m].primary => OncePrimary(m, lo, hi)
      BY <2>2, <2>3, <3>1 DEF SweptTo, NamesRead
    <3> QED BY <2>3, <2>4, <3>1, <3>2, <3>3, <3>4, <3>5, <3>6, SweptWritten
  <2> QED BY <2>3, <2>4
<1>3. CASE SweepPrimaries
  <2> DEFINE Q == {a \in Accounts : s.primary[a] # None}
             t == FoldSet(LAMBDA a, u : SetPrimaryUsername(u, a, s.primary[a]), tables, Q)
  <2>1. stage = "primaries" /\ Swept(t, "subs")
    BY <1>3 DEF SweepPrimaries
  <2>2. PrimariesRead(tables, t, s, Q)
    <3>1. Q \in SUBSET Accounts
      OBVIOUS
    <3> HIDE DEF s, Q
    <3> QED BY <1>0, <3>1, SweptPrimariesRows
  <2> HIDE DEF t
  <2>3. /\ SamePast /\ Height \in Nat /\ at \notin indexed /\ at' \notin indexed' /\ ~seeded /\ ~seeded'
        /\ snapshot' = snapshot /\ oldest' \in 0 .. snapshot /\ oldest' # None /\ Fresh(tables)
        /\ SweptTo(tables, oldest, snapshot)
        /\ \A n \in Names : NameSwept(tables, n, oldest, snapshot) => NameSwept(tables, n, oldest', snapshot)
        /\ \A x \in Accounts : SubSwept(tables, x, oldest, snapshot) => SubSwept(tables, x, oldest', snapshot)
        /\ \A m \in Names : OncePrimary(m, oldest, snapshot) => OncePrimary(m, oldest', snapshot)
        /\ t.ok => tables' = t /\ stage' = "subs"
        /\ ~t.ok => AgreeInv'
    BY <2>1, SweepKeeps
  <2>4. ASSUME t.ok PROVE AgreeInv'
    <3>1. PICK lo, hi : lo = oldest' /\ hi = snapshot
      OBVIOUS
    <3>2. hi \in lo .. hi /\ lo \in Nat /\ lo # None /\ hi \in 0 .. Height /\ hi \in Nat /\ s = StateAt(hi)
      BY <1>0, <2>3, <3>1
    <3>3. /\ \A n \in Names : \A q : As(tables.usernames[n], n, q) => As(t.usernames[n], n, q) \/ As(t.usernames[n], n, hi)
          /\ FlagsAt(t, hi)
          /\ \A n \in Names : t.usernames[n].primary =>
               tables.usernames[n].primary \/ \E a \in Accounts : PrimaryOf(hi, a) = n
      <4> HIDE DEF s
      <4> QED BY <1>0, <2>2, <2>3, <3>2, PrimariesSweptRows
    <3>4. ~NamesAhead /\ SubsAhead' /\ PrimariesDone'
      BY <2>1, <2>3, <2>4 DEF NamesAhead, SubsAhead, PrimariesDone
    <3>5. ASSUME NEW n \in Names PROVE NameSwept(t, n, lo, hi)
      <4>1. NameSwept(tables, n, lo, hi)
        BY <2>3, <3>1, <3>4 DEF SweptTo
      <4>2. PICK q \in lo .. hi : As(tables.usernames[n], n, q)
        BY <4>1 DEF NameSwept
      <4>3. As(t.usernames[n], n, q) \/ As(t.usernames[n], n, hi)
        BY <3>3, <4>2
      <4> QED BY <3>2, <4>3 DEF NameSwept
    <3>6. \A x \in Accounts : SubSwept(t, x, lo, hi) \/ (t.subs[x] = None /\ SubsAhead')
      <4>1. t.subs = tables.subs
        BY <2>2 DEF PrimariesRead
      <4>2. \A x \in Accounts : SubSwept(tables, x, lo, hi) \/ tables.subs[x] = None
        BY <2>3, <3>1 DEF SweptTo
      <4> QED BY <3>4, <4>1, <4>2 DEF SubSwept
    <3>7. ASSUME NEW m \in Names, t.usernames[m].primary PROVE OncePrimary(m, lo, hi)
      <4>1. CASE tables.usernames[m].primary
        BY <2>3, <3>1, <4>1 DEF SweptTo
      <4>2. CASE \E a \in Accounts : PrimaryOf(hi, a) = m
        BY <3>2, <4>2 DEF OncePrimary
      <4> QED BY <3>3, <3>7, <4>1, <4>2
    <3> QED BY <2>3, <2>4, <3>1, <3>2, <3>3, <3>5, <3>6, <3>7, SweptWritten
  <2> QED BY <2>3, <2>4
<1>4. CASE SweepSubs
  <2> DEFINE Q == {a \in Accounts : s.super[a] # None}
             t == FoldSet(LAMBDA a, u : PutSub(u, a, s.super[a]), tables, Q)
  <2>1. stage = "subs" /\ Swept(t, "finish")
    BY <1>4 DEF SweepSubs
  <2>2. SubsRead(tables, t, s, Q)
    <3>1. Q \in SUBSET Accounts
      OBVIOUS
    <3> HIDE DEF s, Q
    <3> QED BY <1>0, <3>1, SweptSubsRows
  <2> HIDE DEF t
  <2>3. /\ SamePast /\ Height \in Nat /\ at \notin indexed /\ at' \notin indexed' /\ ~seeded /\ ~seeded'
        /\ snapshot' = snapshot /\ oldest' \in 0 .. snapshot /\ oldest' # None
        /\ SweptTo(tables, oldest, snapshot)
        /\ \A n \in Names : NameSwept(tables, n, oldest, snapshot) => NameSwept(tables, n, oldest', snapshot)
        /\ \A x \in Accounts : SubSwept(tables, x, oldest, snapshot) => SubSwept(tables, x, oldest', snapshot)
        /\ \A m \in Names : OncePrimary(m, oldest, snapshot) => OncePrimary(m, oldest', snapshot)
        /\ stage = "subs" => \E q \in oldest' .. snapshot : FlagsAt(tables, q)
        /\ t.ok => tables' = t /\ stage' = "finish"
        /\ ~t.ok => AgreeInv'
    BY <2>1, SweepKeeps
  <2>4. ASSUME t.ok PROVE AgreeInv'
    <3>1. PICK lo, hi : lo = oldest' /\ hi = snapshot
      OBVIOUS
    <3>2. hi \in lo .. hi /\ lo \in Nat /\ lo # None /\ hi \in 0 .. Height /\ hi \in Nat
          /\ \A x \in Accounts : s.super[x] = SuperOf(hi, x)
      BY <1>0, <2>3, <3>1 DEF SuperOf
    <3>3. ~NamesAhead
      BY <2>1 DEF NamesAhead
    <3>4. t.usernames = tables.usernames
      BY <2>2 DEF SubsRead
    <3>5. \A n \in Names : NameSwept(t, n, lo, hi)
      <4>1. \A n \in Names : NameSwept(tables, n, lo, hi)
        BY <2>3, <3>1, <3>3 DEF SweptTo
      <4> QED BY <3>4, <4>1 DEF NameSwept
    <3>6. ASSUME NEW x \in Accounts PROVE SubSwept(t, x, lo, hi)
      <4>1. t.subs[x] = IF s.super[x] # None THEN s.super[x] ELSE tables.subs[x]
        BY <2>2 DEF SubsRead
      <4>2. SubSwept(tables, x, lo, hi) \/ tables.subs[x] = None
        BY <2>3, <3>1 DEF SweptTo
      <4> HIDE DEF s
      <4>3. CASE t.subs[x] = s.super[x]
        BY <3>2, <4>3 DEF SubSwept
      <4>4. CASE t.subs[x] = tables.subs[x] /\ SubSwept(tables, x, lo, hi)
        BY <4>4 DEF SubSwept
      <4> QED BY <4>1, <4>2, <4>3, <4>4
    <3>7. \E q \in lo .. hi : FlagsAt(t, q)
      <4>1. \E q \in lo .. hi : FlagsAt(tables, q)
        BY <2>1, <2>3, <3>1
      <4> QED BY <3>4, <4>1 DEF FlagsAt, Flagged
    <3>8. \A m \in Names : t.usernames[m].primary => OncePrimary(m, lo, hi)
      BY <2>3, <3>1, <3>4 DEF SweptTo
    <3> QED BY <2>3, <2>4, <3>1, <3>2, <3>5, <3>6, <3>7, <3>8, SweptWritten
  <2> QED BY <2>3, <2>4
<1> QED BY <1>1, <1>2, <1>3, <1>4

-----------------------------------------------------------------------------
(***************************************************************************)
(* The blocks.                                                             *)
(***************************************************************************)
LEMMA AgreeWritten ==
  ASSUME SamePast, NEW t, NEW b \in 0 .. Height, tables' = t, at' = b, at' \in indexed', Agree(t, b)
  PROVE  AgreeInv'
<1>1. Agree(t, b)'
  BY AgreeLater
<1>2. Agree(tables, at)'
  BY <1>1 DEF Agree, As, Flagged, OwnerOf, PrimaryOf, SuperOf
<1> QED BY <1>2 DEF AgreeInv

(* The tables before the next block, which is the one after the last.      *)
LEMMA AgreeReady ==
  ASSUME HistoryInv, NamesInv, AgreeInv, at \in indexed, Missed = {}, at + 1 \in 1 .. Height
  PROVE  Agreeing(tables, at, at + 1)
<1>1. PICK p, b : p = at /\ b = at + 1
  OBVIOUS
<1>2. b \in 1 .. Height /\ b - 1 = p /\ OnChain /\ Coherent(origin)
  BY <1>1, IndexedOnChain, BlocksTyped DEF HistoryInv, NamesInv
<1>3. Agree(tables, b - 1) /\ Rooted(tables, b - 1, b - 1)
  BY <1>1, <1>2 DEF AgreeInv, NamesInv, Edge
<1>4. Agreeing(tables, b - 1, b)
  BY <1>2, <1>3, AgreeGoesOn
<1> QED BY <1>1, <1>2, <1>4

LEMMA AgreeReadyFirst ==
  ASSUME HistoryInv, NamesInv, AgreeInv, at \notin indexed, seeded, NEW n \in 1 .. Height,
         snapshot <= n, n <= oldest + 1
  PROVE  Agreeing(tables, n - 1, n)
<1>1. PICK lo, hi : lo = oldest /\ hi = snapshot
  OBVIOUS
<1>2. /\ OnChain /\ Coherent(origin) /\ lo \in Nat /\ hi \in Nat /\ lo <= hi /\ hi <= n /\ n <= lo + 1
      /\ n \in Nat
  <2>1. Edge = snapshot /\ snapshot \in 0 .. Height /\ oldest \in 0 .. snapshot /\ Height \in Nat
    BY BlocksTyped DEF HistoryInv, Phases, Edge
  <2> QED BY <1>1, <2>1 DEF HistoryInv, NamesInv
<1>3. \A q \in lo .. hi : q \in {n - 1, n}
  BY <1>2
<1>4. SweptTo(tables, lo, hi)
  BY <1>1 DEF AgreeInv
<1> QED BY <1>2, <1>3, <1>4, AgreeFirst

LEMMA AgreeFollowsHead ==
  ASSUME HistoryInv, NamesInv, AgreeInv, NEW n \in 1 .. Height, FollowHead(n) PROVE AgreeInv'
<1> DEFINE t == Handled(tables, n)
<1>1. /\ source = "light" /\ stage = "run" /\ n \in Expected .. Height
      /\ UNCHANGED <<origin, chain, seeded, snapshot, oldest>>
      /\ IF t.ok
         THEN tables' = t /\ at' = n /\ indexed' = indexed \cup {n}
         ELSE tables' = tables /\ at' = at /\ indexed' = indexed /\ stage' = "off"
  BY DEF FollowHead, chainVars
<1>2. /\ OnChain /\ tables \in GoodTables /\ Height \in Nat /\ Phases /\ seeded /\ n \in Nat
      /\ Coherent(origin) /\ SamePast
  BY <1>1, BlocksTyped, PastUnchanged DEF HistoryInv, Phases, NamesInv
<1>3. oldest \in 0 .. Edge /\ snapshot \in 0 .. Height /\ Edge \in 0 .. Height
  BY <1>2, IndexedOnChain DEF Phases
<1> HIDE DEF t
<1>4. CASE t.ok /\ Missed' # {}
  BY <1>1, <1>4 DEF AgreeInv
<1>5. CASE t.ok /\ Missed' = {}
  <2>1. oldest' = oldest /\ oldest # None /\ at' = n /\ indexed' = indexed \cup {n}
    BY <1>1, <1>2, <1>5 DEF Phases
  <2>2. \A x \in (oldest + 1) .. n : x \in indexed \cup {n}
    BY <1>5, <2>1 DEF Missed
  <2>3. Agreeing(tables, n - 1, n)
    <3>1. CASE at \in indexed
      <4>1. /\ Edge = at /\ at \in 0 .. Height /\ Expected = at + 1 /\ at + 1 <= n /\ n <= Height
            /\ \A x \in indexed : x <= at
        BY <1>1, <1>2, <3>1, IndexedOnChain DEF Edge, Expected, Phases
      <4>2. at + 1 \in indexed \cup {n}
        BY <1>2, <1>3, <2>2, <4>1
      <4>3. n = at + 1
        BY <1>2, <4>1, <4>2
      <4>4. Missed = {}
        <5>1. \A x \in (oldest + 1) .. at : x \in indexed
          BY <1>2, <1>3, <2>2, <4>1, <4>3
        <5> QED BY <5>1 DEF Missed
      <4>5. Agreeing(tables, at, at + 1)
        BY <3>1, <4>1, <4>3, <4>4, AgreeReady
      <4>6. n - 1 = at
        BY <4>1, <4>3
      <4> QED BY <4>3, <4>5, <4>6
    <3>2. CASE at \notin indexed
      <4>1. Edge = snapshot /\ indexed = {} /\ at = -1
        BY <1>1, <1>2, <3>2 DEF Edge, Phases
      <4>2. snapshot <= n
        BY <1>1, <1>2, <1>3, <4>1 DEF Expected
      <4>3. n <= oldest + 1
        <5>1. ASSUME oldest + 1 < n PROVE FALSE
          <6>1. oldest + 1 \in (oldest + 1) .. n
            BY <1>2, <1>3, <5>1
          <6>2. oldest + 1 = n
            BY <2>2, <4>1, <6>1
          <6> QED BY <1>2, <1>3, <5>1, <6>2
        <5> QED BY <1>2, <1>3, <5>1
      <4> QED BY <1>2, <3>2, <4>2, <4>3, AgreeReadyFirst
    <3> QED BY <3>1, <3>2
  <2>4. Agree(t, n)
    <3>1. n \in 1 .. n /\ n \in 0 .. Height
      BY <1>2
    <3>2. Agreeing(t, n, n)
      BY <1>2, <2>3, <3>1, AgreeNext DEF t
    <3> QED BY <1>2, <3>1, <3>2, AgreeEnds
  <2>5. n \in 0 .. Height /\ tables' = t /\ at' = n /\ at' \in indexed'
    BY <1>1, <1>2, <1>5
  <2> QED BY <1>2, <2>4, <2>5, AgreeWritten
<1>6. CASE ~t.ok
  <2>1. /\ NamesAhead => NamesAhead'
        /\ SubsAhead => SubsAhead'
        /\ PrimariesDone' => PrimariesDone
    BY <1>2 DEF NamesAhead, SubsAhead, PrimariesDone
  <2>2. /\ tables'.usernames = tables.usernames /\ tables'.subs = tables.subs
        /\ UNCHANGED <<at, indexed>> /\ oldest' = oldest /\ (oldest' # None => oldest' \in Nat)
        /\ snapshot' \in 0 .. Height /\ snapshot <= snapshot'
    BY <1>1, <1>2, <1>3, <1>6
  <2> QED BY <1>2, <2>1, <2>2, AgreeMoves
<1> QED BY <1>4, <1>5, <1>6

(* The tables after block b, and on their way to the one after it.         *)
OnTheWay(t, b) == HandledWell(t, b) /\ (b + 1 \in 1 .. Height => Agreeing(t, b, b + 1))

LEMMA OnTheWayNext ==
  ASSUME OnChain, Coherent(origin), NEW t \in GoodTables, NEW b \in 1 .. Height, OnTheWay(t, b - 1)
  PROVE  OnTheWay(Handled(t, b), b) /\ Agree(Handled(t, b), b)
<1> DEFINE w == Handled(t, b)
<1>1. /\ b - 1 \in Nat /\ b - 1 <= b /\ (b - 1) + 1 = b /\ (b + 1) - 1 = b /\ b \in 1 .. b /\ b \in 0 .. Height
  BY BlocksTyped
<1>2. HandledWell(w, b)
  BY <1>1, HandledWellNext DEF OnTheWay
<1>3. Agreeing(t, b - 1, b)
  BY <1>1 DEF OnTheWay
<1>4. Agree(w, b)
  <2>1. Agreeing(w, b, b)
    BY <1>1, <1>3, AgreeNext
  <2> HIDE DEF w
  <2> QED BY <1>1, <2>1, AgreeEnds
<1> HIDE DEF w
<1>5. ASSUME b + 1 \in 1 .. Height PROVE Agreeing(w, b, b + 1)
  <2> DEFINE c == b + 1
  <2>1. c \in 1 .. Height /\ c - 1 = b
    BY <1>1, <1>5
  <2> HIDE DEF c
  <2>2. Agree(w, c - 1) /\ Rooted(w, c - 1, c - 1)
    BY <1>2, <1>4, <2>1 DEF HandledWell
  <2>3. Agreeing(w, c - 1, c)
    BY <2>1, <2>2, AgreeGoesOn
  <2> QED BY <2>1, <2>3 DEF c
<1> QED BY <1>2, <1>4, <1>5 DEF OnTheWay, w

LEMMA AgreeCommit ==
  ASSUME HistoryInv, NamesInv, AgreeInv, NEW to \in 1 .. Height, CommitBatch(to) PROVE AgreeInv'
<1> DEFINE t == HandledTo(at + 1, to)
<1>1. /\ source = "rpc" /\ stage = "run" /\ to \in (at + 1) .. Height
      /\ UNCHANGED <<origin, chain, seeded, snapshot, oldest>>
      /\ IF t.ok
         THEN tables' = t /\ at' = to /\ indexed' = indexed \cup ((at + 1) .. to) /\ stage' = stage
         ELSE tables' = tables /\ at' = at /\ indexed' = indexed /\ stage' = "off"
  BY DEF CommitBatch, chainVars
<1>2. OnChain /\ tables \in GoodTables /\ Height \in Nat /\ Phases /\ seeded /\ Coherent(origin)
      /\ SamePast
  BY <1>1, BlocksTyped, PastUnchanged DEF HistoryInv, Phases, NamesInv
<1>3. at = Edge /\ at \in 0 .. Height /\ at \in Nat /\ at + 1 \in 1 .. Height /\ to \in Nat
      /\ (at + 1) - 1 = at /\ Missed = {} /\ indexed = 1 .. at
  BY <1>1, <1>2, NoneMissed
<1>4. PICK h \in [at .. to -> GoodTables] :
        t = h[to] /\ h[at] = tables /\ \A b \in (at + 1) .. to : h[b] = Handled(h[b - 1], b)
  <2> HIDE DEF t
  <2> DEFINE from == at + 1
  <2>1. from \in 1 .. Height /\ to \in from .. Height
    BY <1>1, <1>3
  <2>2. from - 1 = at
    BY <1>3
  <2> HIDE DEF from
  <2>3. \E h \in [(from - 1) .. to -> GoodTables] :
          /\ HandledTo(from, to) = h[to] /\ h[from - 1] = tables
          /\ \A b \in from .. to : h[b] = Handled(h[b - 1], b)
    BY <1>2, <2>1, HandledInTurn
  <2> QED BY <2>2, <2>3 DEF from, t
<1> HIDE DEF t
<1>5. OnTheWay(tables, at)
  <2>1. HandledWell(tables, at)
    <3>1. PICK e : e = Edge
      OBVIOUS
    <3>2. HandledWell(tables, e)
      BY <3>1, WellNow
    <3> QED BY <1>3, <3>1, <3>2
  <2>2. Agreeing(tables, at, at + 1)
    <3>1. CASE at \in indexed
      BY <1>3, <3>1, AgreeReady
    <3>2. CASE at \notin indexed
      <4>1. at = 0 /\ snapshot <= 0 /\ oldest = 0
        BY <1>1, <1>2, <1>3, <3>2 DEF Phases
      <4>2. 1 \in 1 .. Height /\ snapshot <= 1 /\ 1 <= oldest + 1 /\ 1 - 1 = at
        BY <1>2, <1>3, <4>1 DEF Phases
      <4>3. Agreeing(tables, 1 - 1, 1)
        BY <1>2, <3>2, <4>2, AgreeReadyFirst
      <4> QED BY <4>1, <4>3
    <3> QED BY <3>1, <3>2
  <2> QED BY <2>1, <2>2 DEF OnTheWay
<1>6. Agree(t, to)
  <2> DEFINE S == {k \in Nat : at + k <= to => /\ OnTheWay(h[at + k], at + k)
                                               /\ k # 0 => Agree(h[at + k], at + k)}
  <2>1. 0 \in S
    BY <1>3, <1>4, <1>5
  <2>2. ASSUME NEW k \in Nat, k \in S PROVE k + 1 \in S
    <3> SUFFICES ASSUME at + (k + 1) <= to
                 PROVE  OnTheWay(h[at + (k + 1)], at + (k + 1)) /\ Agree(h[at + (k + 1)], at + (k + 1))
      OBVIOUS
    <3> DEFINE b == at + (k + 1)
    <3>1. b \in (at + 1) .. to /\ b \in 1 .. Height /\ b - 1 = at + k /\ b - 1 \in at .. to
      BY <1>1, <1>2, <1>3
    <3> HIDE DEF b
    <3>2. OnTheWay(h[b - 1], b - 1) /\ h[b - 1] \in GoodTables
      BY <1>1, <1>4, <2>2, <3>1
    <3>3. h[b] = Handled(h[b - 1], b)
      BY <1>4, <3>1
    <3>4. OnTheWay(h[b], b) /\ Agree(h[b], b)
      BY <1>2, <3>1, <3>2, <3>3, OnTheWayNext
    <3> QED BY <3>4 DEF b
  <2> HIDE DEF S
  <2>3. to - at \in S
    BY <1>1, <1>3, <2>1, <2>2, SetInduction
  <2>4. at + (to - at) = to /\ to - at # 0 /\ to - at \in Nat
    BY <1>1, <1>3
  <2> QED BY <1>4, <2>3, <2>4 DEF S
<1>7. CASE t.ok
  <2>1. to \in 0 .. Height /\ tables' = t /\ at' = to /\ at' \in indexed'
    <3>1. to \in (at + 1) .. to
      BY <1>1, <1>3
    <3> QED BY <1>1, <1>2, <1>7, <3>1
  <2> QED BY <1>2, <1>6, <2>1, AgreeWritten
<1>8. CASE ~t.ok
  <2>1. /\ NamesAhead => NamesAhead'
        /\ SubsAhead => SubsAhead'
        /\ PrimariesDone' => PrimariesDone
    BY <1>2 DEF NamesAhead, SubsAhead, PrimariesDone
  <2>2. /\ tables'.usernames = tables.usernames /\ tables'.subs = tables.subs
        /\ UNCHANGED <<at, indexed>> /\ oldest' = oldest /\ (oldest' # None => oldest' \in Nat)
        /\ snapshot' \in 0 .. Height /\ snapshot <= snapshot'
    BY <1>1, <1>2, <1>3, <1>8 DEF Phases
  <2> QED BY <1>2, <2>1, <2>2, AgreeMoves
<1> QED BY <1>7, <1>8

LEMMA AgreeReplays ==
  ASSUME HistoryInv, NamesInv, AgreeInv, Replays = "whole", NEW from \in 1 .. Height, NEW to \in 1 .. Height,
         Replay(from, to)
  PROVE  AgreeInv'
<1> DEFINE t == HandledTo(from, to)
<1>1. /\ source = "rpc" /\ from \in 1 .. at /\ to = at /\ t.ok /\ tables' = t
      /\ UNCHANGED <<origin, chain, at, indexed>>
  BY DEF Replay, chainVars, processVars
<1>2. OnChain /\ tables \in GoodTables /\ Height \in Nat /\ Coherent(origin) /\ SamePast
  BY <1>1, BlocksTyped, PastUnchanged DEF HistoryInv, NamesInv
<1>3. indexed = 1 .. at /\ at \in 1 .. Height /\ at \in 0 .. Height /\ at \in Nat /\ from <= at
      /\ from \in Nat /\ from - 1 \in Nat /\ from - 1 <= at /\ to \in from .. Height /\ Missed = {}
  BY <1>1, <1>2, NoneMissed
<1>4. PICK h \in [(from - 1) .. to -> GoodTables] :
        t = h[to] /\ h[from - 1] = tables /\ \A b \in from .. to : h[b] = Handled(h[b - 1], b)
  BY <1>2, <1>3, HandledInTurn
<1> HIDE DEF t
<1>5. PICK top : top = at
  OBVIOUS
<1>6. Agree(t, top)
  <2> DEFINE p == from - 1
             S == {k \in Nat : p + k <= top => Agreeing(h[p + k], p + k, top)}
  <2>0. p \in 0 .. top /\ p \in Nat /\ h[p] = tables /\ p + 0 = p /\ from = p + 1 /\ top \in 0 .. Height
    BY <1>3, <1>4, <1>5
  <2> HIDE DEF p
  <2>1. 0 \in S
    <3>1. Agree(tables, top)
      BY <1>3, <1>5 DEF AgreeInv
    <3> QED BY <1>2, <2>0, <3>1, AgreeGoesBack
  <2>2. ASSUME NEW k \in Nat, k \in S PROVE k + 1 \in S
    <3> SUFFICES ASSUME p + (k + 1) <= top PROVE Agreeing(h[p + (k + 1)], p + (k + 1), top)
      OBVIOUS
    <3> DEFINE b == p + (k + 1)
    <3>1. b \in from .. to /\ b \in 1 .. top /\ b - 1 = p + k /\ b - 1 \in p .. to
      BY <1>1, <1>2, <1>3, <1>5, <2>0
    <3> HIDE DEF b
    <3>2. Agreeing(h[b - 1], b - 1, top) /\ h[b - 1] \in GoodTables
      BY <1>1, <1>3, <1>4, <1>5, <2>0, <2>2, <3>1 DEF p
    <3>3. h[b] = Handled(h[b - 1], b)
      BY <1>4, <3>1
    <3>4. Agreeing(h[b], b, top)
      BY <1>2, <2>0, <3>1, <3>2, <3>3, AgreeNext
    <3> QED BY <3>4 DEF b
  <2> HIDE DEF S
  <2>3. top - p \in S
    BY <1>3, <2>0, <2>1, <2>2, SetInduction
  <2>4. p + (top - p) = top /\ to = top
    BY <1>1, <1>5, <2>0
  <2>5. Agreeing(h[top], top, top)
    BY <2>0, <2>3, <2>4 DEF S
  <2> QED BY <1>2, <1>4, <2>0, <2>4, <2>5, AgreeEnds
<1>7. top \in 0 .. Height /\ at' = top /\ at' \in indexed' /\ tables' = t
  BY <1>1, <1>3, <1>5
<1> QED BY <1>2, <1>6, <1>7, AgreeWritten

LEMMA AgreeSteps ==
  ASSUME Replays = "whole" PROVE HistoryInv /\ NamesInv /\ AgreeInv /\ [Next]_vars => AgreeInv'
<1> SUFFICES ASSUME HistoryInv, NamesInv, AgreeInv, [Next]_vars PROVE AgreeInv'
  OBVIOUS
<1>1. CASE \E c \in Calls : Produce(c)
  BY <1>1, AgreeGrows
<1>2. CASE SweepIdentities \/ SweepUsernames \/ SweepPrimaries \/ SweepSubs
  BY <1>2, AgreeSwept
<1>3. CASE \E to \in 1 .. Height : CommitBatch(to)
  BY <1>3, AgreeCommit
<1>4. CASE \E from, to \in 1 .. Height : Replay(from, to)
  BY <1>4, AgreeReplays
<1>5. CASE \E n \in 1 .. Height : FollowHead(n)
  BY <1>5, AgreeFollowsHead
<1>6. CASE Start \/ FinishBootstrap \/ PersistReads \/ CaughtUp \/ Kill \/ PowerCut \/ UNCHANGED vars
  BY <1>6, AgreeKept
<1> QED BY <1>1, <1>2, <1>3, <1>4, <1>5, <1>6 DEF Next

(***************************************************************************)
(* At the last block indexed the tables answer as the node does: display,  *)
(* parent, primary username, verification, owner of a name, but for a      *)
(* username that is being unbound, a sub whose own registration lacks the  *)
(* display or the verification that its parent's has, and an account named *)
(* by a username it was granted again; unless a light client missed a      *)
(* block.  For any accounts, names, registrations with or without a        *)
(* display, calls and batches, through crashes in the sweeps, restarts and *)
(* replays of the last blocks.                                             *)
(***************************************************************************)
THEOREM AliasesAreTrue == ASSUME Replays = "whole" PROVE Spec => []AliasesAgree
<1>1. Init => HistoryInv /\ NamesInv /\ AgreeInv
  BY HistoryStarts, NamesStart, AgreeStart
<1>2. HistoryInv /\ NamesInv /\ AgreeInv /\ [Next]_vars => HistoryInv' /\ NamesInv' /\ AgreeInv'
  BY HistorySteps, NamesSteps, AgreeSteps
<1>3. HistoryInv /\ NamesInv /\ AgreeInv => AliasesAgree
  <2> SUFFICES ASSUME HistoryInv, NamesInv, AgreeInv, Missed = {}, at \in indexed PROVE AliasesAgree
    BY DEF AliasesAgree
  <2>1. Agree(tables, at)
    BY DEF AgreeInv
  <2> QED BY <2>1, AgreeShows
<1> QED BY <1>1, <1>2, <1>3, PTL DEF Spec
=============================================================================
