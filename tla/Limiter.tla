------------------------------- MODULE Limiter -------------------------------
(***************************************************************************)
(* One endpoint of the fetch stage: its token bucket, its circuit breaker  *)
(* and the worker that asks them before every claim and every block        *)
(* (pif-chain/src/limiter.rs, client.rs, fetch.rs).                        *)
(*                                                                         *)
(* Time passes in Tick, of which a second has TicksPerSecond.  A rate is a *)
(* number of calls a second, and a token is TicksPerSecond units, so that  *)
(* a tick earns `rate' units.  `now' is not kept: the bucket knows the     *)
(* ticks since its last refill (idle), an open breaker those left.         *)
(* Fractions of a rate are rounded down.                                   *)
(***************************************************************************)
EXTENDS Integers

CONSTANTS
    TicksPerSecond,
    FloorRate,       \* FLOOR_RPS.min(max_rate)
    MaxRate,         \* max_rps
    RateStep,        \* ADDITIVE_STEP
    FailuresToOpen,  \* FAILURES_TO_OPEN
    InitialBackoff,  \* INITIAL_BACKOFF, in ticks
    MaxBackoff,      \* MAX_BACKOFF, in ticks
    MaxJitter,       \* next_jitter_ms stays below a second
    ChunkBlocks,     \* the blocks of a chunk
    MaxRefused,      \* bound: failed probes counted
    MaxStreamed      \* bound: units of blocks streamed before the meter is zero

ASSUME LimiterAssumption ==
    /\ TicksPerSecond \in Nat \ {0}
    /\ FloorRate \in Nat \ {0} /\ MaxRate \in Nat /\ FloorRate <= MaxRate
    /\ RateStep \in Nat
    /\ FailuresToOpen \in Nat \ {0}
    /\ InitialBackoff \in Nat \ {0} /\ MaxBackoff \in Nat
    /\ InitialBackoff <= MaxBackoff
    /\ MaxJitter \in Nat
    /\ ChunkBlocks \in Nat \ {0}
    /\ MaxRefused \in Nat
    /\ MaxStreamed \in Nat

VARIABLES
    rate, tokens, idle,               \* the bucket
    failures, breaker, left, backoff, \* the breaker
    worker,                           \* where the endpoint's worker is
    done,                             \* blocks of its chunk that are archived
    meter,     \* history: units asked of the node, drained at MaxRate
    streamed,  \* history: of these, of streamed blocks, since the meter was zero
    refused,   \* history: failed probes since the last success, up to MaxRefused
    since,     \* history: ticks since the last probe, up to MaxBackoff
    asked      \* history: blocks asked for since the breaker half opened

bucket  == <<rate, tokens, idle>>
circuit == <<failures, breaker, left, backoff>>
limiterVars == <<rate, tokens, idle, failures, breaker, left, backoff, worker,
                 done, meter, streamed, refused, since, asked>>

Lesser(a, b)  == IF a <= b THEN a ELSE b
Greater(a, b) == IF a >= b THEN a ELSE b

Token    == TicksPerSecond
Capacity == MaxRate * TicksPerSecond   \* a second at the highest rate

LimiterInit ==
    /\ rate = FloorRate /\ tokens = Token /\ idle = 0
    /\ failures = 0 /\ breaker = "closed" /\ left = 0 /\ backoff = InitialBackoff
    /\ worker = "top" /\ done = 0
    /\ meter = 0 /\ streamed = 0 /\ refused = 0 /\ since = MaxBackoff /\ asked = 0

\* A bucket without the cap.
RefilledUncapped == tokens + idle * rate

(***************************************************************************)
(* The bucket after `refill': capped at a second's worth.                  *)
(***************************************************************************)
Refilled == Lesser(tokens + idle * rate, Greater(rate, 1) * TicksPerSecond)

(***************************************************************************)
(* `poll' lets the caller go and spends a token.                           *)
(***************************************************************************)
PollReady ==
    /\ breaker # "open"
    /\ Refilled >= Token
    /\ tokens' = Refilled - Token /\ idle' = 0
    /\ UNCHANGED <<rate, circuit, refused, since>>

(***************************************************************************)
(* `poll' of an open breaker whose backoff expired: the caller goes, no    *)
(* token is spent, the breaker is half open.                               *)
(***************************************************************************)
PollProbe ==
    /\ breaker = "open" /\ left = 0
    /\ breaker' = "half-open"
    /\ since' = 0
    /\ UNCHANGED <<bucket, failures, left, backoff, refused>>

(***************************************************************************)
(* `acquire' finds the bucket empty and sleeps: the refill stays.          *)
(***************************************************************************)
PollWaits ==
    /\ worker \in {"top", "chunk"}
    /\ breaker # "open" /\ Refilled < Token /\ idle > 0
    /\ tokens' = Refilled /\ idle' = 0
    /\ UNCHANGED <<rate, circuit, worker, done, meter, streamed, refused, since, asked>>

(***************************************************************************)
(* The call came back well, or the whole chunk did.                        *)
(***************************************************************************)
Succeeded ==
    /\ failures' = 0 /\ breaker' = "closed" /\ left' = 0
    /\ IF breaker = "half-open"
       THEN rate' = FloorRate /\ backoff' = InitialBackoff
       ELSE rate' = Lesser(rate + RateStep, MaxRate) /\ UNCHANGED backoff
    /\ refused' = 0
    /\ UNCHANGED <<tokens, idle, since>>

Open(wait) ==
    /\ breaker' = "open" /\ failures' = 0
    /\ \E jitter \in 0 .. MaxJitter : left' = wait + jitter

\* A probe that fails counts as any failure does, and keeps the breaker half open.
FailedStaysHalfOpen ==
    /\ rate' = Greater(rate \div 2, FloorRate)
    /\ IF failures + 1 >= FailuresToOpen
       THEN Open(backoff)
       ELSE failures' = failures + 1 /\ UNCHANGED <<breaker, left>>
    /\ UNCHANGED <<backoff, refused, tokens, idle, since>>

\* The backoff is doubled only after it was used.
FailedDoublesLate ==
    /\ rate' = Greater(rate \div 2, FloorRate)
    /\ IF breaker = "half-open"
       THEN /\ backoff' = Lesser(2 * backoff, MaxBackoff)
            /\ Open(backoff)
            /\ refused' = Lesser(refused + 1, MaxRefused)
       ELSE /\ IF failures + 1 >= FailuresToOpen
               THEN Open(backoff)
               ELSE failures' = failures + 1 /\ UNCHANGED <<breaker, left>>
            /\ UNCHANGED <<backoff, refused>>
    /\ UNCHANGED <<tokens, idle, since>>

Failed ==
    /\ rate' = Greater(rate \div 2, FloorRate)
    /\ IF breaker = "half-open"
       THEN /\ backoff' = Lesser(2 * backoff, MaxBackoff)
            /\ Open(backoff')
            /\ refused' = Lesser(refused + 1, MaxRefused)
       ELSE /\ IF failures + 1 >= FailuresToOpen
               THEN Open(backoff)
               ELSE failures' = failures + 1 /\ UNCHANGED <<breaker, left>>
            /\ UNCHANGED <<backoff, refused>>
    /\ UNCHANGED <<tokens, idle, since>>

\* The worker claims first and asks before the first block.
ClaimUnasked ==
    /\ worker = "top"
    /\ worker' = "claim"
    /\ UNCHANGED <<bucket, circuit, done, meter, streamed, refused, since, asked>>

\* A worker that is refused leaves the backfill.
AskOrLeave ==
    /\ worker = "top"
    /\ IF breaker = "open"
       THEN worker' = "ended" /\ UNCHANGED <<bucket, circuit, refused, since, asked>>
       ELSE PollReady /\ worker' = "claim" /\ UNCHANGED asked
    /\ UNCHANGED <<done, meter, streamed>>

(***************************************************************************)
(* Top of the worker's loop: it asks before it claims, and passes with a   *)
(* token or as the probe.  An open breaker sends it to sleep.              *)
(***************************************************************************)
AskToClaim ==
    /\ worker = "top"
    /\ PollReady \/ PollProbe
    /\ worker' = "claim"
    /\ asked' = IF breaker = "open" THEN 0 ELSE asked
    /\ UNCHANGED <<done, meter, streamed>>

(***************************************************************************)
(* The claim: a chunk, nothing yet (the loop again), or nothing left at    *)
(* all, and the backfill is over.                                          *)
(***************************************************************************)
ClaimChunk ==
    /\ worker = "claim"
    /\ worker' \in {"chunk", "top", "ended"}
    /\ done' = 0
    /\ UNCHANGED <<bucket, circuit, meter, streamed, refused, since, asked>>

(***************************************************************************)
(* `acquire' for a block of the chunk, then the calls to the node.  An     *)
(* open breaker would fail the chunk with EndpointUnavailable.             *)
(***************************************************************************)
AskForBlock ==
    /\ worker = "chunk" /\ done < ChunkBlocks
    /\ PollReady \/ PollProbe
    /\ worker' = "call"
    /\ meter' = meter + Token
    /\ asked' = IF breaker = "half-open" THEN asked + 1 ELSE asked
    /\ UNCHANGED <<done, streamed>>

BlockArchived ==
    /\ worker = "call"
    /\ worker' = "chunk" /\ done' = done + 1
    /\ UNCHANGED <<bucket, circuit, meter, streamed, refused, since, asked>>

ChunkArchived ==
    /\ worker = "chunk" /\ done = ChunkBlocks
    /\ Succeeded
    /\ worker' = "top" /\ done' = 0
    /\ UNCHANGED <<meter, streamed, asked>>

(***************************************************************************)
(* A block fails, and its chunk with it, whatever the reason.              *)
(***************************************************************************)
ChunkFails ==
    /\ worker = "call" \/ (worker = "chunk" /\ breaker = "open" /\ left > 0)
    /\ Failed
    /\ worker' = "top" /\ done' = 0
    /\ UNCHANGED <<meter, streamed, asked>>

(***************************************************************************)
(* `follow_head' captures a streamed block with calls to the node that     *)
(* acquire nothing, reports it as a success, and starts the workers again  *)
(* when it finds a gap.                                                    *)
(***************************************************************************)
StreamedBlock ==
    /\ worker = "ended"
    /\ streamed + Token <= MaxStreamed
    /\ meter' = meter + Token /\ streamed' = streamed + Token
    /\ Succeeded
    /\ UNCHANGED <<worker, done, asked>>

FillGap ==
    /\ worker = "ended"
    /\ worker' = "top"
    /\ UNCHANGED <<bucket, circuit, done, meter, streamed, refused, since, asked>>

Tick ==
    /\ idle' = Lesser(idle + 1, Capacity)   \* more would be cut by the cap
    /\ left' = Greater(left - 1, 0)
    /\ meter' = Greater(meter - MaxRate, 0)
    /\ streamed' = IF meter' = 0 THEN 0 ELSE streamed
    /\ since' = Lesser(since + 1, MaxBackoff)
    /\ UNCHANGED <<rate, tokens, failures, breaker, backoff, worker, done,
                   refused, asked>>

Work == \/ AskToClaim \/ ClaimChunk \/ AskForBlock \/ BlockArchived
        \/ ChunkArchived \/ ChunkFails \/ PollWaits

Streaming == StreamedBlock \/ FillGap

LimiterNext == Work \/ Streaming \/ Tick

-----------------------------------------------------------------------------
LimiterTypeOK ==
    /\ rate \in FloorRate .. MaxRate
    /\ tokens \in 0 .. Capacity
    /\ idle \in 0 .. Capacity
    /\ failures \in 0 .. FailuresToOpen - 1
    /\ breaker \in {"closed", "open", "half-open"}
    /\ left \in 0 .. MaxBackoff + MaxJitter
    /\ backoff \in InitialBackoff .. MaxBackoff
    /\ worker \in {"top", "claim", "chunk", "call", "ended"}
    /\ done \in 0 .. ChunkBlocks
    /\ meter \in 0 .. Capacity + MaxStreamed /\ streamed \in 0 .. MaxStreamed
    /\ refused \in 0 .. MaxRefused
    /\ since \in 0 .. MaxBackoff
    /\ asked \in 0 .. ChunkBlocks

(***************************************************************************)
(* What the node is asked never exceeds max_rps by more than a second's    *)
(* worth and the blocks it streamed, whatever was idled, failed, probed or *)
(* raised in between: in a window of t ticks the workers ask for at most   *)
(* Capacity + t * MaxRate units (limiter.rs: the cap of `refill'), and     *)
(* follow_head for a block's on top of that with every block streamed.     *)
(***************************************************************************)
Conforms == meter <= Capacity + streamed

(***************************************************************************)
(* Not so with streamed blocks: max_rps is a ceiling on all that is asked, *)
(* but for a second's worth.                                               *)
(***************************************************************************)
CeilingKept == meter <= Capacity

(***************************************************************************)
(* A worker whose endpoint is shut out holds no chunk: nothing sits leased *)
(* behind an open breaker (the comment above `acquire' in `worker').       *)
(***************************************************************************)
NoLeaseBehindOpenBreaker == breaker = "open" => worker = "top"

(***************************************************************************)
(* A half-open breaker lets no more than one chunk through before its      *)
(* outcome is known.                                                       *)
(***************************************************************************)
HalfOpenBounded == breaker = "half-open" => asked <= ChunkBlocks

(***************************************************************************)
(* A dead provider costs one probe per backoff, and the backoff doubles    *)
(* with each probe that fails, up to its cap.                              *)
(***************************************************************************)
Doubled[n \in Nat] == IF n = 0 THEN InitialBackoff ELSE 2 * Doubled[n - 1]

WaitAfter(n) == Lesser(Doubled[n], MaxBackoff)

ProbesBackOff ==
    [][breaker = "open" /\ breaker' = "half-open" /\ refused > 0
        => since >= WaitAfter(refused)]_limiterVars

(***************************************************************************)
(* An open breaker does not stay open: the endpoint is tried again.        *)
(***************************************************************************)
ComesBack == breaker = "open" ~> breaker = "half-open"
=============================================================================
