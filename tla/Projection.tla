------------------------------ MODULE Projection ------------------------------
(***************************************************************************)
(* How the identity tables follow the chain: the bootstrap sweeps, the     *)
(* digest of an rpc source with its cache of reads, `pif replay', and the  *)
(* light client, which can only follow the head.  The fetch stage is       *)
(* abstracted: what is finalized may be archived (see Pipeline).  An rpc   *)
(* source is `pif index' without --from; `pif digest' has no bootstrap.    *)
(***************************************************************************)
EXTENDS Identity, ReadCache, Sequences

CONSTANTS
    Origins,   \* states of the pallet before the start block
    Calls,     \* bound: what a block may do
    Sources,   \* a subset of {"rpc", "light"}
    Batch,     \* digest_batch
    Replays    \* "whole": up to the mark, in a batch, nothing else at work; or "any"

ASSUME ProjectionAssumption ==
    /\ MaxBlock \in Nat /\ Batch \in Nat \ {0}
    /\ Sources \subseteq {"rpc", "light"} /\ Replays \in {"whole", "any"}
    /\ Origins \subseteq {s \in PalletState : Coherent(s)} /\ Calls \subseteq PalletCalls

VARIABLES
    origin,   \* the pallet before block 1
    chain,    \* the finalized blocks: the call of each, the state it left
    source,
    tables,   \* the handler's tables
    at,       \* indexer_state: the last block indexed, -1 for none
    indexed,  \* the rows of blocks
    seeded,   \* identity_bootstrap is complete
    stage,    \* where the process is
    snapshot, \* the block its sweeps read
    oldest,   \* the block the first sweep read, None before it
    unsaved,  \* blocks committed whose reads are still to be archived
    lost,     \* blocks whose reads a crash took
    refused   \* a unique index refused a sweep or a new block

chainVars   == <<origin, chain, source>>
tableVars   == <<tables, at, indexed, seeded>>
processVars == <<stage, snapshot, oldest, unsaved, lost, refused>>
vars == <<chainVars, tableVars, processVars, cacheVars>>

Height == Len(chain)
StateAt(b) == IF b = 0 THEN origin ELSE chain[b].state
Touched(b) == TouchedAccounts(chain[b].call, StateAt(b - 1))
Renamed(b) == TouchedNames(chain[b].call)

\* The keys the handler reads at block b, and those with something under them.
Needed(b) == Queued(Touched(b), StateAt(b)) \cup Renamed(b)

Present(b) ==
    LET s == StateAt(b)
    IN  {a \in Accounts : s.identity[a] # None \/ s.primary[a] # None \/ s.super[a] # None
                             \/ SubsOf(s, a) # {}}
        \cup {n \in Names : s.owner[n] # None \/ s.queued[n] # None}

Init ==
    /\ origin \in Origins /\ chain = <<>> /\ source \in Sources
    /\ tables = EmptyTables /\ indexed = {} /\ seeded = FALSE
    /\ at = IF source = "rpc" THEN 0 ELSE -1
    /\ stage = "off" /\ snapshot = 0 /\ oldest = None
    /\ unsaved = {} /\ lost = {} /\ refused = FALSE
    /\ CacheInit

Produce(c) ==
    /\ Height < MaxBlock /\ Allowed(c, StateAt(Height))
    /\ chain' = Append(chain, [call |-> c, state |-> After(c, StateAt(Height))])
    /\ UNCHANGED <<origin, source, tableVars, processVars, cacheVars>>

-----------------------------------------------------------------------------
(***************************************************************************)
(* `bootstrap' before the block loop, unless it is recorded as complete:   *)
(* at the block before the first one to index, or, for a light client, at  *)
(* the head.  Each sweep commits on its own, and deletes nothing.          *)
(***************************************************************************)
Start ==
    /\ stage = "off"
    /\ stage' = IF seeded THEN "run" ELSE "identities"
    /\ snapshot' = IF source = "rpc" THEN at ELSE Height
    /\ UNCHANGED <<chainVars, tableVars, oldest, unsaved, lost, refused, cacheVars>>

Swept(t, next) ==
    /\ IF t.ok THEN tables' = t /\ stage' = next /\ UNCHANGED refused
               ELSE stage' = "off" /\ refused' = TRUE /\ UNCHANGED tables
    /\ oldest' = IF oldest = None THEN snapshot ELSE oldest
    /\ UNCHANGED <<chainVars, at, indexed, seeded, snapshot, unsaved, lost, cacheVars>>

SweepIdentities ==
    LET s == StateAt(snapshot)
    IN  /\ stage = "identities"
        /\ Swept(FoldSet(LAMBDA a, t : PutIdentity(t, a, snapshot, s.identity[a]), tables,
                         {a \in Accounts : s.identity[a] # None}), "names")

SweepUsernames ==
    LET s == StateAt(snapshot)
    IN  /\ stage = "names"
        /\ Swept(FoldSet(LAMBDA n, t : PutUsername(t, n, s.owner[n], "active"), tables,
                         {n \in Names : s.owner[n] # None}), "primaries")

SweepPrimaries ==
    LET s == StateAt(snapshot)
    IN  /\ stage = "primaries"
        /\ Swept(FoldSet(LAMBDA a, t : SetPrimaryUsername(t, a, s.primary[a]), tables,
                         {a \in Accounts : s.primary[a] # None}), "subs")

SweepSubs ==
    LET s == StateAt(snapshot)
    IN  /\ stage = "subs"
        /\ Swept(FoldSet(LAMBDA a, t : PutSub(t, a, s.super[a]), tables,
                         {a \in Accounts : s.super[a] # None}), "finish")

FinishBootstrap ==
    /\ stage = "finish" /\ stage' = "run" /\ seeded' = TRUE
    /\ UNCHANGED <<chainVars, tables, at, indexed, snapshot, oldest, unsaved, lost, refused,
                   cacheVars>>

-----------------------------------------------------------------------------
\* `handle' for one block: `sync' when its events touched something.
Handled(t, b) == Sync(t, StateAt(b), Touched(b), Renamed(b), b)

HandledTo(from, to) ==
    LET handled[b \in (from - 1) .. to] ==
            IF b < from THEN tables ELSE Handled(handled[b - 1], b)
    IN  handled[to]

\* The reads of the last block only.
LearnedAtEnd(from, to) == {b \in {to} : ~Archived(b, Needed(b))}

LearnedIn(from, to) == {b \in from .. to : ~Archived(b, Needed(b))}

(***************************************************************************)
(* `commit' of the digest: the blocks of a batch, what the handler makes   *)
(* of them, the cursor and the mark are one transaction; reads that missed *)
(* the cache are archived after it, block by block.  A failed read fails   *)
(* the batch and leaves everything as it was.                              *)
(***************************************************************************)
CommitBatch(to) ==
    LET t == HandledTo(at + 1, to)
    IN  /\ source = "rpc" /\ stage = "run" /\ unsaved = {}
        /\ to \in (at + 1) .. Height /\ to <= at + Batch
        /\ IF t.ok
           THEN /\ tables' = t /\ at' = to /\ indexed' = indexed \cup ((at + 1) .. to)
                /\ unsaved' = LearnedIn(at + 1, to)
                /\ UNCHANGED <<stage, refused>>
           ELSE stage' = "off" /\ refused' = TRUE /\ UNCHANGED <<tables, at, indexed, unsaved>>
        /\ UNCHANGED <<chainVars, seeded, snapshot, oldest, lost, cacheVars>>

PersistReads ==
    /\ unsaved # {}
    /\ LET b == CHOOSE x \in unsaved : \A y \in unsaved : x <= y
       IN  Persist(b, Needed(b), Present(b)) /\ unsaved' = unsaved \ {b}
    /\ UNCHANGED <<chainVars, tableVars, stage, snapshot, oldest, lost, refused, flushed>>

CaughtUp ==
    /\ source = "rpc" /\ stage = "run" /\ unsaved = {} /\ at = Height
    /\ SyncReads
    /\ UNCHANGED <<chainVars, tableVars, processVars>>

(***************************************************************************)
(* A replay: the same transaction from the archive alone.  It stops at a   *)
(* read that is not archived; a refused one is rolled back.                *)
(***************************************************************************)
Replay(from, to) ==
    LET t == HandledTo(from, to)
    IN  /\ source = "rpc" /\ from \in 1 .. at /\ to \in from .. at
        /\ Replays = "whole" => to = at /\ to - from < Batch /\ stage = "off"
        /\ \A b \in from .. to : Archived(b, Needed(b))
        /\ t.ok /\ tables' = t
        /\ UNCHANGED <<chainVars, at, indexed, seeded, processVars, cacheVars>>

(***************************************************************************)
(* The light client: the stream hands over some finalized block; one that  *)
(* is not after the cursor is skipped, and blocks before it are gone.      *)
(* Without a cursor any block will do.  It keeps no archive.               *)
(***************************************************************************)
Expected == IF at = -1 THEN IF snapshot = 0 THEN 1 ELSE snapshot ELSE at + 1

FollowHead(n) ==
    LET t == Handled(tables, n)
    IN  /\ source = "light" /\ stage = "run" /\ n \in Expected .. Height
        /\ IF t.ok
           THEN tables' = t /\ at' = n /\ indexed' = indexed \cup {n} /\ UNCHANGED <<stage, refused>>
           ELSE stage' = "off" /\ refused' = TRUE /\ UNCHANGED <<tables, at, indexed>>
        /\ UNCHANGED <<chainVars, seeded, snapshot, oldest, unsaved, lost, cacheVars>>

Kill ==
    /\ stage # "off"
    /\ stage' = "off" /\ unsaved' = {} /\ lost' = lost \cup unsaved
    /\ UNCHANGED <<chainVars, tableVars, snapshot, oldest, refused, cacheVars>>

PowerCut ==
    /\ stage # "off" /\ PowerFailure
    /\ stage' = "off" /\ unsaved' = {}
    /\ lost' = lost \cup unsaved \cup {b \in CacheBlocks : reads[b] # flushed[b]}
    /\ UNCHANGED <<chainVars, tableVars, snapshot, oldest, refused>>

Next ==
    \/ \E c \in Calls : Produce(c)
    \/ Start \/ SweepIdentities \/ SweepUsernames \/ SweepPrimaries \/ SweepSubs
    \/ FinishBootstrap
    \/ \E to \in 1 .. Height : CommitBatch(to)
    \/ PersistReads \/ CaughtUp
    \/ \E from, to \in 1 .. Height : Replay(from, to)
    \/ \E n \in 1 .. Height : FollowHead(n)
    \/ Kill \/ PowerCut

Spec == Init /\ [][Next]_vars

-----------------------------------------------------------------------------
(***************************************************************************)
(* A change of account `a' that fell between the first sweep and block b,  *)
(* was not indexed, and was not made good by a later sync of the account.  *)
(***************************************************************************)
Missed == IF oldest = None THEN {} ELSE ((oldest + 1) .. at) \ indexed

StaleAt(a, b) ==
    \E m \in Missed : /\ m <= b /\ a \in Touched(m)
                      /\ \A c \in indexed : m < c /\ c <= b => a \notin Touched(c)

(***************************************************************************)
(* For every block that was indexed, alias_at gives the registration the   *)
(* account had at that block, through crashes in the sweeps, batches,      *)
(* restarts and whole replays; a light client is wrong about an account    *)
(* only from a change in a block it never saw to the account's next one.   *)
(***************************************************************************)
HistoryTrue ==
    \A b \in indexed, a \in Accounts :
        StaleAt(a, b) \/ AliasAt(tables, a, b) = StateAt(b).identity[a]

\* The row of a name that is removed keeps is_primary until it is granted again.
Regranted ==
    {n \in Names : \E b, c \in 1 .. Height :
        /\ b < c /\ chain[b].call.op = "remove" /\ chain[c].call.op = "grant"
        /\ chain[b].call.name = n /\ chain[c].call.name = n}

(***************************************************************************)
(* At the last block indexed the tables answer as the node does: display,  *)
(* parent, primary username, verification, owner of a name.  The two       *)
(* differ, by what they say of it, on a username that is being unbound, on *)
(* a sub whose own registration has no display while its parent's has one, *)
(* and on a sub with an unverified registration below a verified parent;   *)
(* and the tables may name an account by a username it was granted again.  *)
(***************************************************************************)
AliasesAgree ==
    Missed = {} /\ at \in indexed =>
        LET s == StateAt(at)
        IN  /\ \A a \in Accounts :
                 LET stored == AliasOf(tables, a)
                     live   == AliasFromStorage(s, a)
                 IN  /\ stored.super = live.super
                     /\ \/ stored.display = live.display
                        \/ /\ s.identity[a] \in Raws \ Titled
                           /\ live.display = None
                     /\ \/ stored.username = live.username
                        \/ s.primary[a] \in s.unbinding
                        \/ stored.username \in Regranted
                     /\ \/ stored.verified = live.verified
                        \/ s.identity[a] \in Raws \ Vouched /\ stored.verified
            /\ \A n \in Names \ s.unbinding : ResolveUsername(tables, n) = s.owner[n]

(***************************************************************************)
(* Not so without the exception for displays: whichever resolver is asked  *)
(* gives an account's own or, of a sub, its parent's (Alias::display).     *)
(***************************************************************************)
DisplaysAgree ==
    Missed = {} /\ at \in indexed =>
        \A a \in Accounts : AliasOf(tables, a).display = AliasFromStorage(StateAt(at), a).display

(***************************************************************************)
(* What a replay needs of an indexed block is in the archive, absences     *)
(* too, unless a crash came between the commit and the sync of the reads.  *)
(***************************************************************************)
ReadsKept ==
    source = "rpc" => \A b \in indexed \ (unsaved \cup lost) : Archived(b, Needed(b))

(***************************************************************************)
(* The unique indexes never refuse a sweep or a new block, which would     *)
(* stop the process for good, unless a name that was removed is granted    *)
(* again (its row keeps is_primary).                                       *)
(***************************************************************************)
OnlyRegrantsRefused == refused => Regranted # {}
=============================================================================
