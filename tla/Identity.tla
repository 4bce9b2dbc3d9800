------------------------------- MODULE Identity -------------------------------
(***************************************************************************)
(* The identity projection (pif-identity): what pallet_identity keeps and  *)
(* says in its events, which keys of it a block touched (touched.rs), and  *)
(* the tables that `sync' brings up to date from its state at a block      *)
(* (handler.rs, read.rs, store.rs, 0001_identity.sql).  Labels, deposits,  *)
(* providers and grace periods are left out.                               *)
(***************************************************************************)
EXTENDS Integers, FiniteSets, FiniteSetsExt

CONSTANTS
    Accounts,
    Names,    \* usernames
    Raws,     \* registrations, as `raw' holds them
    Titled,   \* those with a display, which is optional; their displays differ
    Vouched,  \* those with a Reasonable or KnownGood judgement
    None      \* no value: an absent key, NULL

ASSUME IdentityAssumption ==
    /\ IsFiniteSet(Accounts) /\ IsFiniteSet(Names)
    /\ Titled \subseteq Raws /\ Vouched \subseteq Raws
    /\ None \notin Accounts \cup Names \cup Raws \cup Int

-----------------------------------------------------------------------------
(***************************************************************************)
(* The pallet.  `identity', `primary', `super', `owner' and `queued' are   *)
(* IdentityOf, UsernameOf, SuperOf, UsernameInfoOf and PendingUsernames;   *)
(* SubsOf is the inverse of SuperOf.  A call fails, and leaves no event,   *)
(* unless it is Allowed.                                                   *)
(***************************************************************************)
PalletState ==
    [identity : [Accounts -> Raws \cup {None}], primary : [Accounts -> Names \cup {None}],
     super : [Accounts -> Accounts \cup {None}], owner : [Names -> Accounts \cup {None}],
     queued : [Names -> Accounts \cup {None}], unbinding : SUBSET Names]

Blank == [identity  |-> [a \in Accounts |-> None],
          primary   |-> [a \in Accounts |-> None],
          super     |-> [a \in Accounts |-> None],
          owner     |-> [n \in Names |-> None],
          queued    |-> [n \in Names |-> None],
          unbinding |-> {}]

IdleCall == [op |-> "idle"]

IdentityCalls ==
    [op : {"set"}, who : Accounts, raw : Raws] \cup [op : {"clear"}, who : Accounts]

SubCalls ==
    [op : {"subs"}, who : Accounts, list : SUBSET Accounts] \cup [op : {"quit"}, who : Accounts]

NameCalls ==
    [op : {"grant", "queue", "prefer"}, who : Accounts, name : Names]
        \cup [op : {"expire", "unbind", "remove"}, name : Names]

PalletCalls == {IdleCall} \cup IdentityCalls \cup SubCalls \cup NameCalls

SubsOf(s, a) == {x \in Accounts : s.super[x] = a}

Allowed(c, s) ==
    CASE c.op = "idle"   -> TRUE
      [] c.op = "set"    -> s.identity[c.who] # c.raw
      [] c.op = "clear"  -> s.identity[c.who] # None
      [] c.op = "subs"   -> /\ s.identity[c.who] # None /\ c.list # SubsOf(s, c.who)
                            /\ c.who \notin c.list
                            /\ \A x \in c.list : s.super[x] \in {None, c.who}
      [] c.op = "quit"   -> s.super[c.who] # None
      [] c.op = "grant"  -> s.owner[c.name] = None /\ s.queued[c.name] \in {None, c.who}
      [] c.op = "queue"  -> s.owner[c.name] = None /\ s.queued[c.name] = None
      [] c.op = "prefer" -> s.owner[c.name] = c.who /\ s.primary[c.who] # c.name
      [] c.op = "expire" -> s.queued[c.name] # None
      [] c.op = "unbind" -> s.owner[c.name] # None /\ c.name \notin s.unbinding
      [] c.op = "remove" -> s.owner[c.name] # None

\* What every call keeps: a primary username is one of the account's own, a
\* name that is unbound has an owner, one that waits to be accepted has none.
Coherent(s) ==
    /\ \A a \in Accounts : s.primary[a] # None => s.owner[s.primary[a]] = a
    /\ \A n \in Names : /\ n \in s.unbinding => s.owner[n] # None
                        /\ s.queued[n] # None => s.owner[n] = None

SetSubs(s, a, list) ==
    [x \in Accounts |-> IF x \in list THEN a ELSE IF s.super[x] = a THEN None ELSE s.super[x]]

After(c, s) ==
    CASE c.op = "idle"   -> s
      [] c.op = "set"    -> [s EXCEPT !.identity[c.who] = c.raw]
      [] c.op = "clear"  -> [s EXCEPT !.identity[c.who] = None, !.super = SetSubs(s, c.who, {})]
      [] c.op = "subs"   -> [s EXCEPT !.super = SetSubs(s, c.who, c.list)]
      [] c.op = "quit"   -> [s EXCEPT !.super[c.who] = None]
      [] c.op = "grant"  -> [s EXCEPT !.owner[c.name] = c.who, !.queued[c.name] = None,
                                      !.primary[c.who] = IF @ = None THEN c.name ELSE @]
      [] c.op = "queue"  -> [s EXCEPT !.queued[c.name] = c.who]
      [] c.op = "prefer" -> [s EXCEPT !.primary[c.who] = c.name]
      [] c.op = "expire" -> [s EXCEPT !.queued[c.name] = None]
      [] c.op = "unbind" -> [s EXCEPT !.unbinding = @ \cup {c.name}]
      [] c.op = "remove" -> [s EXCEPT !.owner[c.name] = None, !.unbinding = @ \ {c.name},
                                      !.primary = [a \in Accounts |->
                                                     IF @[a] = c.name THEN None ELSE @[a]]]

(***************************************************************************)
(* `collect': the accounts and the names that the event of call `c' has    *)
(* under the field names it knows; `s' is the state before.  The events of *)
(* unbind and remove have the name only, that of expire the account only.  *)
(***************************************************************************)
TouchedAccounts(c, s) ==
    CASE c.op \in {"set", "clear", "subs", "grant", "queue", "prefer"} -> {c.who}
      [] c.op = "quit"   -> {c.who, s.super[c.who]}
      [] c.op = "expire" -> {s.queued[c.name]}
      [] OTHER           -> {}

TouchedNames(c) ==
    IF c.op \in {"grant", "queue", "prefer", "unbind", "remove"} THEN {c.name} ELSE {}

-----------------------------------------------------------------------------
(***************************************************************************)
(* The tables.  `identities' is temporal: a row with `to' None is open.    *)
(* `ok' is false once a statement has broken a unique index, which fails   *)
(* the transaction.                                                        *)
(***************************************************************************)
NoName == [account |-> None, primary |-> FALSE, status |-> "absent"]

EmptyTables == [identities |-> {},
                usernames  |-> [n \in Names |-> NoName],
                subs       |-> [a \in Accounts |-> None],
                ok         |-> TRUE]

OpenRows(t, a) == {r \in t.identities : r.account = a /\ r.to = None}

\* identities_current_idx and usernames_primary_idx
Indexed(t) ==
    [t EXCEPT !.ok =
        /\ @
        /\ \A a \in Accounts :
             /\ Cardinality(OpenRows(t, a)) <= 1
             /\ Cardinality({n \in Names : LET u == t.usernames[n] IN
                    u.account = a /\ u.primary /\ u.status = "active"}) <= 1]

\* The rows of `a' once the open one, if it is older than block b, is closed.
ClosedAt(t, a, b, last) ==
    {IF r.account = a /\ r.to = None /\ r.from < b THEN [r EXCEPT !.to = last] ELSE r :
        r \in t.identities}

\* The open row is closed at the block of the change.
PutIdentityOverlapping(t, a, b, raw) ==
    LET others == {r \in ClosedAt(t, a, b, b) : r.account # a \/ r.from # b}
    IN  IF raw = None THEN [t EXCEPT !.identities = others]
        ELSE IF \E r \in OpenRows(t, a) : r.raw = raw THEN t
        ELSE Indexed([t EXCEPT !.identities =
                        others \cup {[account |-> a, from |-> b, to |-> None, raw |-> raw]}])

(***************************************************************************)
(* `put_identity', and `clear_identity' for no registration.               *)
(***************************************************************************)
PutIdentity(t, a, b, raw) ==
    LET others == {r \in ClosedAt(t, a, b, b - 1) : r.account # a \/ r.from # b}
    IN  IF raw = None THEN [t EXCEPT !.identities = others]
        ELSE IF \E r \in OpenRows(t, a) : r.raw = raw THEN t
        ELSE Indexed([t EXCEPT !.identities =
                        others \cup {[account |-> a, from |-> b, to |-> None, raw |-> raw]}])

\* `put_username': leaves is_primary alone.
PutUsername(t, n, account, status) ==
    Indexed([t EXCEPT !.usernames[n] = [@ EXCEPT !.account = account, !.status = status]])

Demoted(t, a) ==
    [t EXCEPT !.usernames = [n \in Names |->
        IF @[n].account = a THEN [@[n] EXCEPT !.primary = FALSE] ELSE @[n]]]

Promoted(t, a, n) ==
    IF n = None THEN t
    ELSE Indexed([t EXCEPT !.usernames[n] =
                    [account |-> a, primary |-> TRUE,
                     status  |-> IF @.status = "absent" THEN "active" ELSE @.status]])

\* The new primary is promoted before the old one is demoted.
PromoteFirst(t, a, n) ==
    LET p == Promoted(t, a, n)
    IN  [p EXCEPT !.usernames = [m \in Names |->
            IF @[m].account = a /\ m # n THEN [@[m] EXCEPT !.primary = FALSE] ELSE @[m]]]

SetPrimaryUsername(t, a, n) == Promoted(Demoted(t, a), a, n)

\* `put_sub_identity' and `delete_sub_identity'
PutSub(t, a, super) == [t EXCEPT !.subs[a] = super]

\* Nothing is removed that no event named.
RetainAll(t, a, keep) == t

RetainSubs(t, a, keep) ==
    [t EXCEPT !.subs = [x \in Accounts |-> IF @[x] = a /\ x \notin keep THEN None ELSE @[x]]]

-----------------------------------------------------------------------------
(***************************************************************************)
(* `sync_account' and `sync_username' read the state s that block b left.  *)
(***************************************************************************)
SyncAccount(t, s, a, b) ==
    LET identity == PutIdentity(t, a, b, s.identity[a])
        primary  == SetPrimaryUsername(identity, a, s.primary[a])
    IN  RetainSubs(PutSub(primary, a, s.super[a]), a, SubsOf(s, a))

SyncUsername(t, s, n) ==
    IF s.owner[n] # None
    THEN PutUsername(t, n, s.owner[n], IF n \in s.unbinding THEN "unbinding" ELSE "active")
    ELSE IF s.queued[n] # None THEN PutUsername(t, n, s.queued[n], "pending")
    ELSE PutUsername(t, n, None, "removed")

(***************************************************************************)
(* The queue of `sync': the accounts touched, and the subs of any account  *)
(* it has synced, each once.                                               *)
(***************************************************************************)
Queued(accounts, s) ==
    LET reach[i \in 0 .. Cardinality(Accounts)] ==
            IF i = 0 THEN accounts
            ELSE reach[i - 1] \cup UNION {SubsOf(s, a) : a \in reach[i - 1]}
    IN  reach[Cardinality(Accounts)]

Sync(t, s, accounts, names, b) ==
    LET synced == FoldSet(LAMBDA a, u : SyncAccount(u, s, a, b), t, Queued(accounts, s))
    IN  FoldSet(LAMBDA n, u : SyncUsername(u, s, n), synced, names)

-----------------------------------------------------------------------------
(***************************************************************************)
(* What readers get.  `alias_at' finds the row that covers block b;        *)
(* `alias_of' reads the view identity_current, `alias_from_storage' the    *)
(* state of a node.  A sub borrows from its parent: in the view what is    *)
(* missing of its own, at a node everything or nothing.                    *)
(***************************************************************************)
AliasAt(t, a, b) ==
    LET rows == {r \in t.identities :
                    r.account = a /\ r.from <= b /\ (r.to = None \/ r.to >= b)}
    IN  IF rows = {} THEN None
        ELSE (CHOOSE r \in rows : \A other \in rows : r.from >= other.from).raw

OpenRaw(t, a) ==
    IF OpenRows(t, a) = {} THEN None ELSE (CHOOSE r \in OpenRows(t, a) : TRUE).raw

DisplayOf(raw) == IF raw \in Titled THEN raw ELSE None

AliasOf(t, a) ==
    LET own      == OpenRaw(t, a)
        parent   == IF t.subs[a] = None THEN None ELSE OpenRaw(t, t.subs[a])
        named(n) == LET u == t.usernames[n]
                    IN  u.account = a /\ u.primary /\ u.status = "active"
    IN  [display  |-> IF own \in Titled THEN own ELSE DisplayOf(parent),
         verified |-> own \in Vouched \/ parent \in Vouched,
         username |-> IF \E n \in Names : named(n) THEN CHOOSE n \in Names : named(n) ELSE None,
         super    |-> t.subs[a]]

AliasFromStorage(s, a) ==
    LET parent    == IF s.super[a] = None THEN None ELSE s.identity[s.super[a]]
        effective == IF s.identity[a] # None THEN s.identity[a] ELSE parent
    IN  [display  |-> DisplayOf(effective),
         verified |-> effective \in Vouched,
         username |-> s.primary[a],
         super    |-> s.super[a]]

\* `resolve_username' of the two resolvers
ResolveUsername(t, n) == IF t.usernames[n].status = "active" THEN t.usernames[n].account ELSE None
=============================================================================
