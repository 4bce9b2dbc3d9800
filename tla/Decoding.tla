------------------------------- MODULE Decoding -------------------------------
(***************************************************************************)
(* The rows of a block: `decode_core' shapes them from the events and      *)
(* extrinsics as they are archived, and `write_blocks_in_tx' inserts a     *)
(* batch of them.                                                          *)
(*                                                                         *)
(* What a node applied is a list of extrinsics; of each: the call and its  *)
(* origin, whether the arguments can be decoded, how it ended, and what it *)
(* paid.  The archive holds the list and the events that applying it gave. *)
(***************************************************************************)
EXTENDS Integers, Sequences, FiniteSets, SequencesExt

CONSTANTS
    Bodies,     \* the lists of extrinsics that a block may have
    LastBody,   \* bound: how many blocks there are
    BatchSize,  \* blocks of one transaction
    Redos       \* bound: how often the cursor is set back

Nothing == 0    \* SQL NULL, or no such event
Raw     == -1   \* fields that cannot be decoded

Applied == [call : {"Timestamp.set", "Other"}, origin : {"none", "account", "other"},
            raw  : BOOLEAN,   \* the arguments cannot be decoded
            ends : {"silently", "ExtrinsicSuccess", "ExtrinsicFailed"},
            pays : Nat \cup {Raw}, now : Nat]

ASSUME DecodingAssumption ==
    /\ LastBody \in Nat /\ BatchSize \in Nat \ {0} /\ Redos \in Nat
    \* the first extrinsic of a block is the inherent that sets its timestamp
    /\ \A body \in Bodies : /\ body \in Seq(Applied)
                            /\ body # <<>> => body[1].call = "Timestamp.set"

VARIABLES
    applied,     \* what the blocks of the chain are made of
    cursor,      \* blocks written
    blocks, extrinsics, events,   \* the tables
    redos

tables == <<blocks, extrinsics, events>>
decodingVars == <<applied, cursor, tables, redos>>

DecodingInit ==
    /\ applied = <<>> /\ cursor = 0 /\ redos = 0
    /\ blocks = {} /\ extrinsics = {} /\ events = {}

-----------------------------------------------------------------------------
(***************************************************************************)
(* What applying a block deposits.  An extrinsic that pays has a           *)
(* TransactionFeePaid among its events, and one that reports its outcome   *)
(* ends with it; the events of no extrinsic come before and after.         *)
(***************************************************************************)
Event(phase, ext, variant, amount) ==
    [phase |-> phase, ext |-> ext, variant |-> variant, amount |-> amount]

EventsOf(i, x) ==
    (IF x.pays = Nothing THEN <<>>
     ELSE <<Event("ApplyExtrinsic", i, "TransactionFeePaid", x.pays)>>)
    \o (IF x.ends = "silently" THEN <<>> ELSE <<Event("ApplyExtrinsic", i, x.ends, Nothing)>>)

Deposited(body) ==
    <<Event("Initialization", -1, "Other", Nothing)>>
    \o FlattenSeq([i \in 1 .. Len(body) |-> EventsOf(i - 1, body[i])])
    \o <<Event("Finalization", -1, "Other", Nothing)>>

(***************************************************************************)
(* `extract_fee': the amount, or nothing where the fields stayed raw.      *)
(***************************************************************************)
extract_fee(event) == IF event.amount = Raw THEN Nothing ELSE event.amount

(***************************************************************************)
(* `record_outcome' of an event of an extrinsic.                           *)
(***************************************************************************)
record_outcome(outcomes, event) ==
    LET found == \E k \in DOMAIN outcomes : outcomes[k].ext = event.ext
        all == IF found THEN outcomes
               ELSE Append(outcomes, [ext |-> event.ext, success |-> TRUE, fee |-> Nothing])
    IN  [k \in DOMAIN all |->
            IF all[k].ext # event.ext THEN all[k]
            ELSE CASE event.variant = "ExtrinsicFailed"    -> [all[k] EXCEPT !.success = FALSE]
                   [] event.variant = "ExtrinsicSuccess"   -> [all[k] EXCEPT !.success = TRUE]
                   [] event.variant = "TransactionFeePaid" ->
                        [all[k] EXCEPT !.fee = extract_fee(event)]
                   [] OTHER -> all[k]]

Recorded(outcomes, event) ==
    IF event.phase = "ApplyExtrinsic" THEN record_outcome(outcomes, event) ELSE outcomes

Outcomes(deposited) == FoldLeft(Recorded, <<>>, deposited)

\* The outcomes are taken to be one for each extrinsic.
OutcomeByPosition(outcomes, i) == {k \in DOMAIN outcomes : k = i + 1}

OutcomeOf(outcomes, i) == {k \in DOMAIN outcomes : outcomes[k].ext = i}

(***************************************************************************)
(* `encode_signer': only an account id has an SS58 form.                   *)
(***************************************************************************)
encode_signer(origin) ==
    CASE origin = "account" -> "ss58" [] origin = "other" -> "hex" [] OTHER -> "null"

(***************************************************************************)
(* `extract_timestamp', of the first Timestamp::set that has one.          *)
(***************************************************************************)
Timestamp(body) ==
    LET read == {i \in DOMAIN body : body[i].call = "Timestamp.set" /\ ~body[i].raw}
    IN  IF read = {} THEN Nothing ELSE body[CHOOSE i \in read : \A j \in read : i <= j].now

(***************************************************************************)
(* The rows of block n.                                                    *)
(***************************************************************************)
ExtrinsicRow(n, body, i) ==
    LET outcomes == Outcomes(Deposited(body))
        own == OutcomeOf(outcomes, i)
        x == body[i + 1]
    IN  [block |-> n, idx |-> i, call |-> x.call, signer |-> encode_signer(x.origin),
         raw     |-> x.raw,
         success |-> \A k \in own : outcomes[k].success,
         fee     |-> IF own = {} THEN Nothing ELSE outcomes[CHOOSE k \in own : TRUE].fee]

EventRow(n, body, j) ==
    LET event == Deposited(body)[j]
    IN  [block |-> n, idx |-> j - 1, phase |-> event.phase, ext |-> event.ext,
         variant |-> event.variant, raw |-> event.amount = Raw]

BlockRow(n, body) ==
    [number |-> n, timestamp |-> Timestamp(body),
     extrinsic_count |-> Len(body), event_count |-> Len(Deposited(body))]

-----------------------------------------------------------------------------
\* A block is finalized and archived.
Finalize ==
    /\ Len(applied) < LastBody
    /\ \E body \in Bodies : applied' = Append(applied, body)
    /\ UNCHANGED <<cursor, tables, redos>>

(***************************************************************************)
(* INSERT ... ON CONFLICT DO NOTHING.                                      *)
(***************************************************************************)
InsertBlocks(rows) ==
    blocks \cup {r \in rows : \A old \in blocks : old.number # r.number}

Inserted(table, rows) ==
    table \cup {r \in rows : \A old \in table : <<old.block, old.idx>> # <<r.block, r.idx>>}

(***************************************************************************)
(* One transaction of the digest: the rows of the next blocks, and the     *)
(* cursor.                                                                 *)
(***************************************************************************)
WriteBatch ==
    \E last \in cursor + 1 .. Len(applied) :
        /\ last <= cursor + BatchSize
        /\ LET batch == cursor + 1 .. last
           IN  /\ blocks' = InsertBlocks({BlockRow(n, applied[n]) : n \in batch})
               /\ extrinsics' = Inserted(extrinsics, UNION
                    {{ExtrinsicRow(n, applied[n], i) : i \in 0 .. Len(applied[n]) - 1} :
                     n \in batch})
               /\ events' = Inserted(events, UNION
                    {{EventRow(n, applied[n], j) : j \in 1 .. Len(Deposited(applied[n]))} :
                     n \in batch})
        /\ cursor' = last
        /\ UNCHANGED <<applied, redos>>

(***************************************************************************)
(* --from sets the cursor back, and the rows stay where they are.  What a  *)
(* replay writes again is what the digest writes after this.               *)
(***************************************************************************)
SetBack ==
    /\ redos < Redos /\ redos' = redos + 1
    /\ \E n \in 0 .. cursor - 1 : cursor' = n
    /\ UNCHANGED <<applied, tables>>

DecodingNext == Finalize \/ WriteBatch \/ SetBack

-----------------------------------------------------------------------------
(***************************************************************************)
(* The tables tell what the blocks are made of, whatever the batches: an   *)
(* extrinsic has succeeded unless it failed, and has the fee that it paid  *)
(* itself, also beside extrinsics without outcome or fee and beside events *)
(* that cannot be decoded; nothing is left out, the counts are those of    *)
(* the rows, and the timestamp is the inherent's, which is the first       *)
(* extrinsic, never the argument of a later call of Timestamp::set         *)
(* (`decode_core', `record_outcome', `insert_extrinsics').                 *)
(***************************************************************************)
RowsTrue ==
    \A n \in 1 .. Len(applied) : (\E r \in blocks : r.number = n) =>
        LET body == applied[n]
            own  == {r \in extrinsics : r.block = n}
            row  == CHOOSE r \in blocks : r.number = n
        IN  /\ \A i \in 1 .. Len(body) : \E r \in own :
                 /\ r.idx = i - 1 /\ r.call = body[i].call /\ r.raw = body[i].raw
                 /\ r.success <=> body[i].ends # "ExtrinsicFailed"
                 /\ r.fee = IF body[i].pays = Raw THEN Nothing ELSE body[i].pays
                 /\ r.signer = "null" <=> body[i].origin = "none"
            /\ row.extrinsic_count = Cardinality(own)
            /\ row.event_count = Cardinality({r \in events : r.block = n})
            /\ body # <<>> /\ ~body[1].raw => row.timestamp = body[1].now
            /\ \A r \in events : r.block = n /\ r.ext >= 0 => \E x \in own : x.idx = r.ext
=============================================================================
