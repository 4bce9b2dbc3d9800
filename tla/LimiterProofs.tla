---------------------------- MODULE LimiterProofs ----------------------------
(***************************************************************************)
(* What the limiter of one endpoint keeps, for every rate, capacity and    *)
(* chunk size.                                                             *)
(***************************************************************************)
EXTENDS Limiter, Recursion

LimiterSpec == LimiterInit /\ [][LimiterNext]_limiterVars

(* What the bucket could spend at once, if it filled at the highest rate.  *)
Saved == Lesser(tokens + idle * MaxRate, Capacity)

(* What was asked of the node and what could still be spent are together   *)
(* no more than a second's worth and what was streamed.                    *)
Metered == meter + Saved <= Capacity + streamed

(* What a half-open breaker has let through is what the worker has done of *)
(* its chunk.                                                              *)
Counted ==
  breaker = "half-open" =>
    /\ worker \in {"top", "claim", "ended"} => asked = 0
    /\ worker = "chunk" => asked = done
    /\ worker = "call" => asked = done + 1

(* The backoff in force is no shorter than the probes that failed call     *)
(* for, and since the last of them it has run off but for what is left.    *)
Spaced ==
  /\ breaker = "closed" => refused = 0
  /\ breaker # "closed" => WaitAfter(refused) <= backoff
  /\ breaker = "open" /\ refused > 0 => backoff <= since + left

LimiterInv ==
  /\ LimiterTypeOK
  /\ worker = "call" => done < ChunkBlocks
  /\ Metered
  /\ NoLeaseBehindOpenBreaker
  /\ Counted

-----------------------------------------------------------------------------
LEMMA ConstantsTyped ==
  /\ Token \in Nat /\ MaxRate \in Nat /\ FloorRate \in Nat /\ Capacity \in Nat
  /\ 0 < Token /\ 0 < MaxRate /\ 0 < FloorRate /\ Token <= Capacity
<1>1. \A m, t \in Nat \ {0} : m * t \in Nat \ {0} /\ t <= m * t
  OBVIOUS
<1>2. MaxRate \in Nat \ {0}
  BY LimiterAssumption
<1> QED BY <1>1, <1>2, LimiterAssumption DEF Token, Capacity

LEMMA ConstantsStay == Capacity' = Capacity /\ Token' = Token
  BY DEF Capacity, Token

LEMMA Monotone ==
  ASSUME NEW i \in Nat, NEW r \in Nat, NEW s \in Nat, r <= s
  PROVE  i * r \in Nat /\ i * s \in Nat /\ i * r <= i * s
<1>1. PICK d \in Nat : s = r + d
  BY s - r \in Nat
<1>2. i * s = i * r + i * d
  BY <1>1
<1>3. i * d \in Nat /\ i * r \in Nat
  OBVIOUS
<1> QED BY <1>1, <1>2, <1>3

(* The bucket never holds more than a second's worth, nor more than the    *)
(* highest rate could have put there.                                      *)
LEMMA RefilledBounded ==
  ASSUME LimiterTypeOK
  PROVE  /\ Refilled \in 0 .. Capacity
         /\ Refilled <= Saved
         /\ Saved \in 0 .. Capacity
<1>1. /\ rate \in Nat \ {0} /\ rate <= MaxRate /\ tokens \in 0 .. Capacity
      /\ idle \in Nat /\ MaxRate \in Nat /\ Capacity \in Nat
      /\ FloorRate \in Nat
  BY ConstantsTyped DEF LimiterTypeOK
<1>2. idle * rate \in Nat /\ idle * MaxRate \in Nat /\ idle * rate <= idle * MaxRate
  BY <1>1, Monotone
<1>3. rate * TicksPerSecond \in Nat /\ rate * TicksPerSecond <= Capacity
  <2>1. /\ TicksPerSecond * rate \in Nat
        /\ TicksPerSecond * rate <= TicksPerSecond * MaxRate
    BY <1>1, Monotone, LimiterAssumption
  <2> QED BY <1>1, <2>1, LimiterAssumption DEF Capacity
<1>4. Greater(rate, 1) = rate
  BY <1>1 DEF Greater
<1> HIDE DEF Capacity
<1> DEFINE earned == idle * rate
           most == idle * MaxRate
           cap == rate * TicksPerSecond
<1>5. /\ earned \in Nat /\ most \in Nat /\ cap \in Nat
      /\ earned <= most /\ cap <= Capacity
  BY <1>2, <1>3
<1>6. Refilled = Lesser(tokens + earned, cap) /\ Saved = Lesser(tokens + most, Capacity)
  BY <1>4 DEF Refilled, Saved
<1> HIDE DEF earned, most, cap
<1> QED BY <1>1, <1>5, <1>6 DEF Lesser

(* A token spent by a caller that is then counted, and one that is not.    *)
LEMMA PollReadySpends ==
  ASSUME LimiterTypeOK, PollReady
  PROVE  /\ tokens' \in 0 .. Capacity /\ idle' = 0
         /\ tokens' + Token <= Saved /\ Saved' = tokens'
<1>1. Refilled \in 0 .. Capacity /\ Refilled <= Saved /\ Saved \in 0 .. Capacity
  BY RefilledBounded
<1>2. tokens' = Refilled - Token /\ Refilled >= Token /\ idle' = 0
  BY DEF PollReady
<1>3. Saved' = Lesser(tokens' + 0, Capacity)
  BY <1>2, ConstantsTyped DEF Saved, Capacity
<1> HIDE DEF Saved, Refilled, Capacity, Token
<1> QED BY <1>1, <1>2, <1>3, ConstantsTyped DEF Lesser

LEMMA Halved == \A r \in Nat : r \div 2 \in Nat /\ r \div 2 <= r
  OBVIOUS

LEMMA SucceededTyped ==
  ASSUME LimiterTypeOK, Succeeded
  PROVE  /\ rate' \in FloorRate .. MaxRate /\ failures' = 0 /\ breaker' = "closed"
         /\ left' = 0 /\ backoff' \in InitialBackoff .. MaxBackoff
         /\ refused' = 0 /\ UNCHANGED <<tokens, idle, since>>
  BY ConstantsTyped, LimiterAssumption DEF LimiterTypeOK, Succeeded, Lesser

LEMMA FailedTyped ==
  ASSUME LimiterTypeOK, Failed
  PROVE  /\ rate' \in FloorRate .. MaxRate /\ failures' \in 0 .. FailuresToOpen - 1
         /\ breaker' \in {"closed", "open"} /\ left' \in 0 .. MaxBackoff + MaxJitter
         /\ backoff' \in InitialBackoff .. MaxBackoff
         /\ refused' \in 0 .. MaxRefused /\ UNCHANGED <<tokens, idle, since>>
<1>1. rate' \in FloorRate .. MaxRate
  <2>1. rate \div 2 \in Nat /\ rate \div 2 <= rate
    BY Halved, ConstantsTyped DEF LimiterTypeOK
  <2> QED BY <2>1, ConstantsTyped DEF LimiterTypeOK, Failed, Greater
<1>2. CASE breaker = "half-open"
  <2>1. backoff' \in InitialBackoff .. MaxBackoff
    BY <1>2, LimiterAssumption DEF LimiterTypeOK, Failed, Lesser
  <2>2. refused' \in 0 .. MaxRefused
    BY <1>2, LimiterAssumption DEF LimiterTypeOK, Failed, Lesser
  <2>3. /\ breaker' = "open" /\ failures' = 0
        /\ \E jitter \in 0 .. MaxJitter : left' = backoff' + jitter
    BY <1>2 DEF Failed, Open
  <2>4. UNCHANGED <<tokens, idle, since>>
    BY DEF Failed
  <2>5. left' \in 0 .. MaxBackoff + MaxJitter
    <3> DEFINE wait == backoff'
    <3>1. wait \in InitialBackoff .. MaxBackoff /\ \E jitter \in 0 .. MaxJitter : left' = wait + jitter
      BY <2>1, <2>3
    <3> HIDE DEF wait
    <3> QED BY <3>1, LimiterAssumption
  <2>6. 0 \in 0 .. FailuresToOpen - 1
    BY LimiterAssumption
  <2>7. breaker' = "open" /\ failures' = 0
    BY <2>3
  <2> QED BY <1>1, <2>1, <2>2, <2>4, <2>5, <2>6, <2>7
<1>3. CASE breaker # "half-open"
  <2>1. UNCHANGED <<backoff, refused>>
    BY <1>3 DEF Failed
  <2>2. CASE failures + 1 >= FailuresToOpen
    <3>1. /\ breaker' = "open" /\ failures' = 0
          /\ \E jitter \in 0 .. MaxJitter : left' = backoff + jitter
      BY <1>3, <2>2 DEF Failed, Open
    <3> QED BY <1>1, <2>1, <3>1, LimiterAssumption DEF Failed, LimiterTypeOK
  <2>3. CASE ~(failures + 1 >= FailuresToOpen)
    BY <1>1, <1>3, <2>1, <2>3, LimiterAssumption DEF Failed, LimiterTypeOK
  <2> QED BY <2>2, <2>3
<1> QED BY <1>2, <1>3

LEMMA LimiterStarts == LimiterInit => LimiterInv
<1> SUFFICES ASSUME LimiterInit PROVE LimiterInv
  OBVIOUS
<1>1. LimiterTypeOK
  BY ConstantsTyped, LimiterAssumption DEF LimiterInit, LimiterTypeOK
<1>2. meter = 0 /\ streamed = 0 /\ Saved \in 0 .. Capacity
  BY <1>1, RefilledBounded DEF LimiterInit
<1>3. Metered
  BY <1>2, ConstantsTyped DEF Metered
<1> QED BY <1>1, <1>3 DEF LimiterInv, LimiterInit, NoLeaseBehindOpenBreaker, Counted

-----------------------------------------------------------------------------
(***************************************************************************)
(* One lemma for each action.                                              *)
(***************************************************************************)
LEMMA Asks == ASSUME LimiterInv, AskToClaim PROVE LimiterInv'
<1> USE DEF LimiterInv
<1>1. CASE PollReady
  <2>1. /\ tokens' \in 0 .. Capacity /\ idle' = 0
        /\ tokens' + Token <= Saved /\ Saved' = tokens'
    BY <1>1, PollReadySpends
  <2>2. breaker # "open" /\ UNCHANGED <<rate, failures, breaker, left, backoff, refused, since, asked, done, meter, streamed>>
    BY <1>1 DEF PollReady, AskToClaim, circuit
  <2>3. worker = "top" /\ worker' = "claim"
    BY DEF AskToClaim
  <2>4. LimiterTypeOK'
    BY <2>1, <2>2, <2>3, ConstantsTyped DEF LimiterTypeOK
  <2>5. Metered'
    <3>1. Saved \in 0 .. Capacity
      BY RefilledBounded
    <3>2. meter \in Nat /\ streamed \in Nat /\ meter + Saved <= Capacity + streamed
      BY DEF Metered, LimiterTypeOK
    <3> HIDE DEF Saved, LimiterInv
    <3> DEFINE left2 == tokens'
    <3>3. left2 \in 0 .. Capacity /\ left2 + Token <= Saved /\ Saved' = left2
      BY <2>1
    <3> HIDE DEF left2
    <3>4. meter + left2 <= Capacity + streamed
      BY <3>1, <3>2, <3>3, ConstantsTyped
    <3> QED BY <2>2, <3>3, <3>4, ConstantsStay DEF Metered
  <2> QED BY <2>2, <2>3, <2>4, <2>5 DEF NoLeaseBehindOpenBreaker, Counted
<1>2. CASE PollProbe
  <2>1. /\ breaker = "open" /\ breaker' = "half-open" /\ since' = 0 /\ asked' = 0
        /\ UNCHANGED <<rate, tokens, idle, failures, left, backoff, refused, done, meter, streamed>>
        /\ worker' = "claim"
    BY <1>2 DEF PollProbe, AskToClaim, bucket
  <2>2. LimiterTypeOK'
    BY <2>1, LimiterAssumption DEF LimiterTypeOK
  <2>3. Metered'
    BY <2>1 DEF Metered, Saved, Capacity
  <2> QED BY <2>1, <2>2, <2>3 DEF NoLeaseBehindOpenBreaker, Counted
<1> QED BY <1>1, <1>2 DEF AskToClaim

LEMMA ClaimsChunk == ASSUME LimiterInv, ClaimChunk PROVE LimiterInv'
<1> USE DEF LimiterInv
<1>1. /\ worker = "claim" /\ worker' \in {"chunk", "top", "ended"} /\ done' = 0
      /\ UNCHANGED <<rate, tokens, idle, failures, breaker, left, backoff, meter, streamed, refused, since, asked>>
  BY DEF ClaimChunk, bucket, circuit
<1>2. LimiterTypeOK'
  BY <1>1, LimiterAssumption DEF LimiterTypeOK
<1>3. Metered'
  BY <1>1 DEF Metered, Saved, Capacity
<1> QED BY <1>1, <1>2, <1>3 DEF NoLeaseBehindOpenBreaker, Counted

LEMMA AsksForBlock == ASSUME LimiterInv, AskForBlock PROVE LimiterInv'
<1> USE DEF LimiterInv
<1>1. /\ worker = "chunk" /\ breaker # "open" /\ worker' = "call" /\ done < ChunkBlocks
      /\ done' = done /\ meter' = meter + Token /\ streamed' = streamed
      /\ asked' = IF breaker = "half-open" THEN asked + 1 ELSE asked
  BY DEF AskForBlock, NoLeaseBehindOpenBreaker
<1>2. PollReady
  BY <1>1 DEF AskForBlock, PollProbe
<1>3. /\ tokens' \in 0 .. Capacity /\ idle' = 0
      /\ tokens' + Token <= Saved /\ Saved' = tokens'
  BY <1>2, PollReadySpends
<1>4. UNCHANGED <<rate, failures, breaker, left, backoff, refused, since>>
  BY <1>2 DEF PollReady, circuit
<1>5. Metered'
  <2>1. Saved \in 0 .. Capacity
    BY RefilledBounded
  <2>2. meter \in Nat /\ streamed \in Nat /\ meter + Saved <= Capacity + streamed
    BY DEF Metered, LimiterTypeOK
  <2> HIDE DEF LimiterInv
  <2> DEFINE left2 == tokens'
  <2>3. left2 \in 0 .. Capacity /\ left2 + Token <= Saved /\ Saved' = left2
    BY <1>3
  <2> HIDE DEF left2
  <2>4. (meter + Token) + left2 <= Capacity + streamed
    BY <2>1, <2>2, <2>3, ConstantsTyped
  <2> QED BY <1>1, <2>3, <2>4, ConstantsStay DEF Metered
<1>6. meter' \in 0 .. Capacity + MaxStreamed
  <2>1. meter + Saved <= Capacity + streamed /\ Token <= Saved /\ Saved \in 0 .. Capacity
    <3> DEFINE left2 == tokens'
    <3>1. left2 \in 0 .. Capacity /\ left2 + Token <= Saved
      BY <1>3
    <3> HIDE DEF left2
    <3>2. Saved \in 0 .. Capacity
      BY RefilledBounded
    <3> QED BY <3>1, <3>2, ConstantsTyped DEF Metered
  <2>2. meter \in Nat /\ streamed \in 0 .. MaxStreamed
    BY DEF LimiterTypeOK
  <2> HIDE DEF LimiterInv, Saved, Capacity, Token
  <2> QED BY <1>1, <2>1, <2>2, ConstantsTyped, LimiterAssumption
<1>7. asked' \in 0 .. ChunkBlocks
  BY <1>1, LimiterAssumption DEF LimiterTypeOK, Counted
<1>8. LimiterTypeOK'
  BY <1>1, <1>3, <1>4, <1>6, <1>7, ConstantsTyped DEF LimiterTypeOK
<1> QED BY <1>1, <1>4, <1>5, <1>8 DEF NoLeaseBehindOpenBreaker, Counted

LEMMA ArchivesBlock == ASSUME LimiterInv, BlockArchived PROVE LimiterInv'
<1> USE DEF LimiterInv
<1>1. /\ worker = "call" /\ worker' = "chunk" /\ done' = done + 1
      /\ UNCHANGED <<rate, tokens, idle, failures, breaker, left, backoff, meter, streamed, refused, since, asked>>
  BY DEF BlockArchived, bucket, circuit
<1>2. LimiterTypeOK'
  BY <1>1, LimiterAssumption DEF LimiterTypeOK
<1>3. Metered'
  BY <1>1 DEF Metered, Saved, Capacity
<1> QED BY <1>1, <1>2, <1>3 DEF NoLeaseBehindOpenBreaker, Counted, LimiterTypeOK

LEMMA ArchivesChunk == ASSUME LimiterInv, ChunkArchived PROVE LimiterInv'
<1> USE DEF LimiterInv
<1>1. /\ worker' = "top" /\ done' = 0 /\ UNCHANGED <<meter, streamed, asked>> /\ Succeeded
  BY DEF ChunkArchived
<1>2. /\ rate' \in FloorRate .. MaxRate /\ failures' = 0 /\ breaker' = "closed"
      /\ left' = 0 /\ backoff' \in InitialBackoff .. MaxBackoff
      /\ refused' = 0 /\ UNCHANGED <<tokens, idle, since>>
  BY <1>1, SucceededTyped
<1>3. LimiterTypeOK'
  BY <1>1, <1>2, LimiterAssumption DEF LimiterTypeOK
<1>4. Metered'
  BY <1>1, <1>2 DEF Metered, Saved, Capacity
<1> QED BY <1>1, <1>2, <1>3, <1>4 DEF NoLeaseBehindOpenBreaker, Counted

LEMMA FailsChunk == ASSUME LimiterInv, ChunkFails PROVE LimiterInv'
<1> USE DEF LimiterInv
<1>1. /\ worker' = "top" /\ done' = 0 /\ UNCHANGED <<meter, streamed, asked>> /\ Failed
  BY DEF ChunkFails
<1>2. /\ rate' \in FloorRate .. MaxRate /\ failures' \in 0 .. FailuresToOpen - 1
      /\ breaker' \in {"closed", "open"} /\ left' \in 0 .. MaxBackoff + MaxJitter
      /\ backoff' \in InitialBackoff .. MaxBackoff
      /\ refused' \in 0 .. MaxRefused /\ UNCHANGED <<tokens, idle, since>>
  BY <1>1, FailedTyped
<1>3. LimiterTypeOK'
  BY <1>1, <1>2, LimiterAssumption DEF LimiterTypeOK
<1>4. Metered'
  BY <1>1, <1>2 DEF Metered, Saved, Capacity
<1> QED BY <1>1, <1>2, <1>3, <1>4 DEF NoLeaseBehindOpenBreaker, Counted

LEMMA Waits == ASSUME LimiterInv, PollWaits PROVE LimiterInv'
<1> USE DEF LimiterInv
<1>1. /\ tokens' = Refilled /\ idle' = 0
      /\ UNCHANGED <<rate, failures, breaker, left, backoff, worker, done, meter, streamed, refused, since, asked>>
  BY DEF PollWaits, circuit
<1>2. Refilled \in 0 .. Capacity /\ Refilled <= Saved /\ Saved \in 0 .. Capacity
  BY RefilledBounded
<1>3. LimiterTypeOK'
  BY <1>1, <1>2, ConstantsTyped DEF LimiterTypeOK
<1>4. Metered'
  <2>1. Saved' = Lesser(Refilled + 0, Capacity)
    BY <1>1, ConstantsTyped DEF Saved, Capacity
  <2> HIDE DEF Saved, Refilled, Capacity
  <2>2. Saved' <= Saved /\ Saved' \in Nat
    BY <1>2, <2>1, ConstantsTyped DEF Lesser
  <2> QED BY <1>1, <1>2, <2>2, ConstantsTyped DEF Metered, LimiterTypeOK, Capacity
<1> QED BY <1>1, <1>3, <1>4 DEF NoLeaseBehindOpenBreaker, Counted

LEMMA StreamsBlock == ASSUME LimiterInv, StreamedBlock PROVE LimiterInv'
<1> USE DEF LimiterInv
<1>1. /\ UNCHANGED <<worker, done, asked>> /\ Succeeded
      /\ streamed + Token <= MaxStreamed
      /\ meter' = meter + Token /\ streamed' = streamed + Token
  BY DEF StreamedBlock
<1>2. /\ rate' \in FloorRate .. MaxRate /\ failures' = 0 /\ breaker' = "closed"
      /\ left' = 0 /\ backoff' \in InitialBackoff .. MaxBackoff
      /\ refused' = 0 /\ UNCHANGED <<tokens, idle, since>>
  BY <1>1, SucceededTyped
<1>3. /\ meter \in Nat /\ streamed \in Nat /\ Saved \in 0 .. Capacity
      /\ meter + Saved <= Capacity + streamed
  BY RefilledBounded DEF LimiterTypeOK, Metered
<1>4. Saved' = Saved /\ Capacity' = Capacity
  BY <1>2 DEF Saved, Capacity
<1>5. /\ meter' \in 0 .. Capacity + MaxStreamed /\ streamed' \in 0 .. MaxStreamed
      /\ meter' + Saved <= Capacity + streamed'
  <2> HIDE DEF LimiterInv, Saved, Capacity, Token
  <2> QED BY <1>1, <1>3, ConstantsTyped, LimiterAssumption
<1>6. LimiterTypeOK'
  BY <1>1, <1>2, <1>5, LimiterAssumption DEF LimiterTypeOK
<1>7. Metered'
  BY <1>4, <1>5 DEF Metered
<1> QED BY <1>1, <1>2, <1>6, <1>7 DEF NoLeaseBehindOpenBreaker, Counted

LEMMA FillsGap == ASSUME LimiterInv, FillGap PROVE LimiterInv'
<1> USE DEF LimiterInv
<1>1. /\ worker = "ended" /\ worker' = "top"
      /\ UNCHANGED <<rate, tokens, idle, failures, breaker, left, backoff, done, meter, streamed, refused, since, asked>>
  BY DEF FillGap, bucket, circuit
<1>2. LimiterTypeOK'
  BY <1>1 DEF LimiterTypeOK
<1>3. Metered'
  BY <1>1 DEF Metered, Saved, Capacity
<1> QED BY <1>1, <1>2, <1>3 DEF NoLeaseBehindOpenBreaker, Counted

(* In a tick the node may be asked for MaxRate units more, and the bucket  *)
(* earns no more than that.                                                *)
LEMMA Ticks == ASSUME LimiterInv, Tick PROVE LimiterInv'
<1> USE DEF LimiterInv
<1>1. /\ idle' = Lesser(idle + 1, Capacity) /\ left' = Greater(left - 1, 0)
      /\ meter' = Greater(meter - MaxRate, 0)
      /\ streamed' = (IF meter' = 0 THEN 0 ELSE streamed) /\ since' = Lesser(since + 1, MaxBackoff)
      /\ UNCHANGED <<rate, tokens, failures, breaker, backoff, worker, done, refused, asked>>
  BY DEF Tick
<1>2. /\ meter \in Nat /\ meter <= Capacity + MaxStreamed /\ tokens \in 0 .. Capacity
      /\ idle \in 0 .. Capacity /\ streamed \in 0 .. MaxStreamed
  BY DEF LimiterTypeOK
<1>3. idle' \in 0 .. Capacity /\ idle' <= idle + 1
  <2> HIDE DEF Capacity
  <2> QED BY <1>1, <1>2, ConstantsTyped DEF Lesser
<1>4. meter' \in Nat /\ meter' <= Capacity + MaxStreamed /\ streamed' \in 0 .. MaxStreamed
  <2> HIDE DEF Capacity, LimiterInv
  <2> QED BY <1>1, <1>2, ConstantsTyped, LimiterAssumption DEF Greater
<1>5. LimiterTypeOK'
  <2>1. left' \in 0 .. MaxBackoff + MaxJitter /\ since' \in 0 .. MaxBackoff
    BY <1>1, LimiterAssumption DEF LimiterTypeOK, Greater, Lesser
  <2> QED BY <1>1, <1>3, <1>4, <2>1, ConstantsTyped DEF LimiterTypeOK
<1>6. Metered'
  <2> DEFINE most == idle * MaxRate
             most2 == idle' * MaxRate
  <2>1. most \in Nat /\ most2 \in Nat /\ most2 <= most + MaxRate
    <3>0. idle' \in Nat /\ idle + 1 \in Nat
      BY <1>2, <1>3, ConstantsTyped
    <3>1. MaxRate * idle' \in Nat /\ MaxRate * idle' <= MaxRate * (idle + 1)
      BY <1>3, <3>0, ConstantsTyped, Monotone
    <3>2. MaxRate * (idle + 1) = MaxRate * idle + MaxRate /\ MaxRate * idle \in Nat
      BY <1>2, ConstantsTyped
    <3>3. MaxRate * idle = idle * MaxRate /\ MaxRate * idle' = idle' * MaxRate
      BY <1>2, <3>0, ConstantsTyped
    <3> QED BY <3>1, <3>2, <3>3, ConstantsTyped
  <2>2. Saved = Lesser(tokens + most, Capacity) /\ Saved' = Lesser(tokens + most2, Capacity)
    BY <1>1 DEF Saved, Capacity
  <2> HIDE DEF most, most2, Capacity
  <2>3. meter + Lesser(tokens + most, Capacity) <= Capacity + streamed
    BY <2>2 DEF Metered
  <2>4. meter' + Lesser(tokens + most2, Capacity) <= Capacity + streamed'
    <3> HIDE DEF LimiterInv
    <3>1. CASE meter <= MaxRate
      BY <1>1, <1>2, <2>1, <3>1, ConstantsTyped DEF Lesser, Greater
    <3>2. CASE meter > MaxRate
      BY <1>1, <1>2, <2>1, <2>3, <3>2, ConstantsTyped DEF Lesser, Greater
    <3> QED BY <1>2, <3>1, <3>2, ConstantsTyped
  <2> QED BY <2>2, <2>4 DEF Metered, Capacity
<1> QED BY <1>1, <1>5, <1>6 DEF NoLeaseBehindOpenBreaker, Counted

-----------------------------------------------------------------------------
LEMMA LimiterSteps == LimiterInv /\ [LimiterNext]_limiterVars => LimiterInv'
<1> SUFFICES ASSUME LimiterInv, [LimiterNext]_limiterVars PROVE LimiterInv'
  OBVIOUS
<1>1. CASE Work
  BY <1>1, Asks, ClaimsChunk, AsksForBlock, ArchivesBlock, ArchivesChunk, FailsChunk, Waits
  DEF Work
<1>2. CASE Streaming
  BY <1>2, StreamsBlock, FillsGap DEF Streaming
<1>3. CASE Tick
  BY <1>3, Ticks
<1>4. CASE UNCHANGED limiterVars
  BY <1>4 DEF limiterVars, LimiterInv, LimiterTypeOK, Metered, Saved, Capacity, Token,
              NoLeaseBehindOpenBreaker, Counted
<1> QED BY <1>1, <1>2, <1>3, <1>4 DEF LimiterNext

(***************************************************************************)
(* The invariant of the limiter: types, the meter against the bucket, and  *)
(* what the worker holds in each state of the breaker.                     *)
(***************************************************************************)
THEOREM LimiterCorrect == LimiterSpec => []LimiterInv
<1>1. LimiterInit => LimiterInv
  BY LimiterStarts
<1>2. LimiterInv /\ [LimiterNext]_limiterVars => LimiterInv'
  BY LimiterSteps
<1> QED BY <1>1, <1>2, PTL DEF LimiterSpec

LEMMA WhatTheLimiterKeeps ==
  LimiterInv => LimiterTypeOK /\ Conforms /\ NoLeaseBehindOpenBreaker /\ HalfOpenBounded
<1> SUFFICES ASSUME LimiterInv PROVE Conforms /\ HalfOpenBounded
  BY DEF LimiterInv
<1>1. Saved \in 0 .. Capacity
  BY RefilledBounded DEF LimiterInv
<1>2. Conforms
  <2> HIDE DEF Saved, Capacity
  <2> QED BY <1>1, ConstantsTyped DEF LimiterInv, Metered, Conforms, LimiterTypeOK
<1> QED BY <1>2 DEF LimiterInv, LimiterTypeOK, HalfOpenBounded

-----------------------------------------------------------------------------
(***************************************************************************)
(* Spaced is kept beside LimiterInv.  First the numbers.                   *)
(***************************************************************************)
LEMMA DoubledRecursion ==
  /\ Doubled \in [Nat -> Nat] /\ Doubled[0] = InitialBackoff
  /\ \A n \in Nat : Doubled[n + 1] = 2 * Doubled[n]
<1> DEFINE rank == [n \in Nat |-> n]
           prev == [n \in Nat |-> IF n = 0 THEN 0 ELSE n - 1]
           base == [n \in Nat |-> InitialBackoff]
           step == [n \in Nat |-> [d \in Nat |-> 2 * d]]
           Is(f) == f = [n \in Nat |-> IF n = 0 THEN InitialBackoff ELSE 2 * f[n - 1]]
<1>1. Ranked(Nat, rank, prev)
  BY DEF Ranked
<1>2. base \in [Nat -> Nat] /\ step \in [Nat -> [Nat -> Nat]]
  BY LimiterAssumption
<1> HIDE DEF base, step
<1>3. PICK g \in [Nat -> Nat] : \A n \in Nat : Follows(Nat, rank, prev, base, step, g, n)
  BY <1>1, <1>2, RankRecursion
<1>4. Is(g)
  <2>1. \A n \in Nat : g[n] = IF n = 0 THEN InitialBackoff ELSE 2 * g[n - 1]
    <3> TAKE n \in Nat
    <3>1. CASE n = 0
      BY <1>3, <3>1 DEF Follows, base
    <3>2. CASE n # 0
      <4>1. prev[n] = n - 1 /\ n - 1 \in Nat /\ rank[n] = n
        BY <3>2
      <4> HIDE DEF prev, rank
      <4>2. g[n] = step[n][g[n - 1]] /\ g[n - 1] \in Nat
        BY <1>3, <3>2, <4>1 DEF Follows
      <4> QED BY <3>2, <4>2 DEF step
    <3> QED BY <3>1, <3>2
  <2> QED BY <2>1
<1>5. Doubled = CHOOSE f : Is(f)
  BY DEF Doubled
<1> HIDE DEF Is
<1>6. Is(Doubled)
  BY <1>4, <1>5
<1>7. \A n \in Nat : Doubled[n] = IF n = 0 THEN InitialBackoff ELSE 2 * Doubled[n - 1]
  BY <1>6 DEF Is
<1>8. Doubled[0] = InitialBackoff /\ \A n \in Nat : Doubled[n + 1] = 2 * Doubled[n]
  <2>1. \A n \in Nat : n + 1 \in Nat /\ n + 1 # 0 /\ (n + 1) - 1 = n
    OBVIOUS
  <2> QED BY <1>7, <2>1
<1>9. \A n \in Nat : Doubled[n] \in Nat
  <2> DEFINE S == {n \in Nat : Doubled[n] \in Nat}
  <2>1. 0 \in S /\ \A n \in Nat : n \in S => n + 1 \in S
    BY <1>8, LimiterAssumption
  <2> HIDE DEF S
  <2>2. Nat \subseteq S
    BY <2>1, SetInduction
  <2> QED BY <2>2 DEF S
<1>10. Doubled = [n \in Nat |-> Doubled[n]]
  BY <1>6 DEF Is
<1> QED BY <1>8, <1>9, <1>10

LEMMA Waits0 ==
  /\ WaitAfter(0) = InitialBackoff
  /\ \A n \in Nat : WaitAfter(n) \in Nat /\ WaitAfter(n) <= MaxBackoff
  /\ \A n \in Nat, b \in Nat :
       WaitAfter(n) <= b /\ b <= MaxBackoff =>
         /\ WaitAfter(n) <= Lesser(2 * b, MaxBackoff)
         /\ WaitAfter(n + 1) <= Lesser(2 * b, MaxBackoff)
<1>1. \A n \in Nat : Doubled[n] \in Nat /\ Doubled[n + 1] = 2 * Doubled[n]
  BY DoubledRecursion
<1> QED BY <1>1, DoubledRecursion, LimiterAssumption DEF WaitAfter, Lesser

LEMMA SpacedStarts == LimiterInit => Spaced
  BY DEF LimiterInit, Spaced

LEMMA SpacedSteps == LimiterInv /\ Spaced /\ [LimiterNext]_limiterVars => Spaced'
<1> SUFFICES ASSUME LimiterInv, Spaced, [LimiterNext]_limiterVars PROVE Spaced'
  OBVIOUS
<1>0. /\ backoff \in Nat /\ InitialBackoff <= backoff /\ backoff <= MaxBackoff /\ since \in Nat
      /\ left \in Nat /\ refused \in Nat /\ MaxBackoff \in Nat /\ MaxRefused \in Nat
      /\ refused <= MaxRefused
      /\ breaker \in {"closed", "open", "half-open"} /\ since <= MaxBackoff
  BY LimiterAssumption DEF LimiterInv, LimiterTypeOK
<1>1. CASE UNCHANGED <<breaker, left, backoff, refused, since>>
  BY <1>1 DEF Spaced
<1>2. CASE PollProbe
  BY <1>2 DEF PollProbe, Spaced
<1>3. CASE Succeeded
  BY <1>3 DEF Succeeded, Spaced
<1>4. CASE Failed /\ breaker # "open"
  <2>1. CASE breaker = "half-open"
    <3> DEFINE longer == Lesser(2 * backoff, MaxBackoff)
    <3>1. /\ breaker' = "open" /\ backoff' = longer /\ since' = since
          /\ \E jitter \in 0 .. MaxJitter : left' = longer + jitter
          /\ refused' = Lesser(refused + 1, MaxRefused)
      BY <1>4, <2>1 DEF Failed, Open
    <3>4. refused' \in {refused, refused + 1}
      BY <1>0, <3>1 DEF Lesser
    <3>2. longer \in Nat /\ WaitAfter(refused) <= longer /\ WaitAfter(refused + 1) <= longer
      BY <1>0, <2>1, Waits0 DEF Spaced, Lesser
    <3> HIDE DEF longer
    <3>3. longer <= since + left'
      BY <1>0, <3>1, <3>2, LimiterAssumption
    <3> QED BY <3>1, <3>2, <3>3, <3>4 DEF Spaced, WaitAfter
  <2>2. CASE breaker = "closed"
    <3>1. /\ refused' = 0 /\ backoff' = backoff /\ breaker' \in {"closed", "open"}
      BY <1>4, <2>2 DEF Failed, Open, Spaced
    <3>2. WaitAfter(0) <= backoff
      BY <1>0, Waits0
    <3> QED BY <3>1, <3>2 DEF Spaced, WaitAfter
  <2> QED BY <1>0, <1>4, <2>1, <2>2
<1>5. CASE Tick
  <2>1. /\ UNCHANGED <<breaker, backoff, refused>> /\ left' = Greater(left - 1, 0)
        /\ since' = Lesser(since + 1, MaxBackoff)
    BY <1>5 DEF Tick
  <2>2. backoff <= since + left => backoff <= since' + left'
    <3> DEFINE since2 == since'
               left2 == left'
    <3>1. since2 = Lesser(since + 1, MaxBackoff) /\ left2 = Greater(left - 1, 0)
      BY <2>1
    <3> HIDE DEF since2, left2
    <3>2. backoff <= since + left => backoff <= since2 + left2
      BY <1>0, <3>1 DEF Lesser, Greater
    <3> QED BY <3>2 DEF since2, left2
  <2> QED BY <2>1, <2>2 DEF Spaced, WaitAfter
<1>6. CASE UNCHANGED limiterVars
  BY <1>1, <1>6 DEF limiterVars
<1>7. CASE AskToClaim \/ AskForBlock
  BY <1>1, <1>2, <1>7 DEF AskToClaim, AskForBlock, PollReady, circuit
<1>8. CASE ClaimChunk \/ BlockArchived \/ PollWaits \/ FillGap
  BY <1>1, <1>8 DEF ClaimChunk, BlockArchived, PollWaits, FillGap, circuit
<1>9. CASE ChunkFails
  BY <1>4, <1>9 DEF ChunkFails, LimiterInv, NoLeaseBehindOpenBreaker
<1>10. CASE ChunkArchived \/ StreamedBlock
  BY <1>3, <1>10 DEF ChunkArchived, StreamedBlock
<1> QED BY <1>5, <1>6, <1>7, <1>8, <1>9, <1>10 DEF LimiterNext, Work, Streaming

(* An open breaker is probed when nothing of its backoff is left.          *)
LEMMA ProbesWait ==
  LimiterInv /\ Spaced /\ [LimiterNext]_limiterVars =>
    [breaker = "open" /\ breaker' = "half-open" /\ refused > 0
       => since >= WaitAfter(refused)]_limiterVars
<1> SUFFICES ASSUME LimiterInv, Spaced, LimiterNext, breaker = "open", breaker' = "half-open",
                    refused > 0
             PROVE  since >= WaitAfter(refused)
  OBVIOUS
<1>1. PollProbe
  BY DEF LimiterNext, Work, Streaming, AskToClaim, ClaimChunk, AskForBlock, BlockArchived,
         ChunkArchived, ChunkFails, PollWaits, StreamedBlock, FillGap, Tick, Succeeded, Failed,
         Open, PollReady, circuit
<1>2. /\ backoff \in Nat /\ since \in Nat /\ refused \in Nat /\ WaitAfter(refused) \in Nat
      /\ left = 0
  BY <1>1, LimiterAssumption, Waits0 DEF LimiterInv, LimiterTypeOK, PollProbe
<1>3. WaitAfter(refused) <= backoff /\ backoff <= since + left
  BY DEF Spaced
<1> QED BY <1>2, <1>3

(***************************************************************************)
(* A dead provider costs one probe per backoff, and the backoff doubles    *)
(* with each probe that fails (`breaker_failure', `poll').                 *)
(***************************************************************************)
THEOREM ProbesAreSpaced == LimiterSpec => ProbesBackOff
  BY LimiterStarts, LimiterSteps, SpacedStarts, SpacedSteps, ProbesWait, PTL
  DEF LimiterSpec, ProbesBackOff
=============================================================================
