--------------------------- MODULE EndpointsProofs ---------------------------
(***************************************************************************)
(* A command works on one chain, for any number of commands, endpoints and *)
(* chains.                                                                 *)
(***************************************************************************)
EXTENDS Endpoints, TLAPS

EndpointsSpec == EndpointsInit /\ [][EndpointsNext]_endpointVars

Command == [kind : {"none", "index", "fetch", "digest"},
            at : {"ended", "connect", "guard", "upsert", "running"},
            pool : Seq(Urls), tried : Nat, known : BOOLEAN]

EndpointsTypeOK ==
  /\ node \in [Urls -> Geneses] /\ process \in [Commands -> Command]
  /\ chains \in Geneses \cup {Unknown}

(* The endpoints of a pool are of one chain, and a command that is past    *)
(* connecting to its nodes has some.                                       *)
PoolAgrees(c) ==
  /\ \A i, j \in DOMAIN c.pool : node[c.pool[i]] = node[c.pool[j]]
  /\ c.at \in {"guard", "upsert"} => c.pool # <<>>
  /\ c.at = "ended" => c.pool = <<>>

(* What the guard found stays so until the command stores its genesis.     *)
GuardHolds(c) ==
  /\ c.at \in {"ended", "connect", "guard"} => ~c.known
  /\ c.at \in {"upsert", "running"} /\ c.known =>
       \A i \in DOMAIN c.pool : node[c.pool[i]] = chains

EndpointsInv ==
  /\ EndpointsTypeOK
  /\ \A p \in Commands : PoolAgrees(process[p]) /\ GuardHolds(process[p])

-----------------------------------------------------------------------------
LEMMA EndedIsEmpty == Ended \in Command /\ PoolAgrees(Ended) /\ GuardHolds(Ended)
BY DEF Ended, Command, PoolAgrees, GuardHolds

LEMMA FirstOfPool ==
  ASSUME EndpointsTypeOK, NEW p \in Commands, process[p].pool # <<>>
  PROVE  /\ 1 \in DOMAIN process[p].pool /\ Genesis(p) \in Geneses
         /\ \A i \in DOMAIN process[p].pool : process[p].pool[i] \in Urls
<1>1. process[p].pool \in Seq(Urls)
  BY DEF EndpointsTypeOK, Command
<1>2. 1 \in DOMAIN process[p].pool /\ \A i \in DOMAIN process[p].pool : process[p].pool[i] \in Urls
  BY <1>1
<1>3. process[p].pool[1] \in Urls
  BY <1>2
<1> QED BY <1>2, <1>3 DEF Genesis, EndpointsTypeOK

(* A step that changes one command only, and neither nodes nor chains.     *)
LEMMA OneCommand ==
  ASSUME EndpointsInv, NEW p \in Commands, NEW c \in Command, PoolAgrees(c), GuardHolds(c),
         process' = [process EXCEPT ![p] = c], UNCHANGED <<node, chains>>
  PROVE  EndpointsInv'
<1>1. /\ process' \in [Commands -> Command]
      /\ \A q \in Commands : process'[q] = c \/ process'[q] = process[q]
  BY DEF EndpointsInv, EndpointsTypeOK
<1>2. ASSUME NEW q \in Commands PROVE (PoolAgrees(process[q]) /\ GuardHolds(process[q]))'
  <2>1. PICK d : d = process'[q] /\ PoolAgrees(d) /\ GuardHolds(d)
    BY <1>1, <1>2 DEF EndpointsInv
  <2> QED BY <2>1 DEF PoolAgrees, GuardHolds
<1> QED BY <1>1, <1>2 DEF EndpointsInv, EndpointsTypeOK

LEMMA Begins ==
  ASSUME EndpointsInv, NEW p \in Commands,
         NEW kind \in {"index", "fetch", "digest"}, Begin(p, kind)
  PROVE  EndpointsInv'
<1> DEFINE c == [Ended EXCEPT !.kind = kind, !.at = "connect"]
<1>1. c = [Ended EXCEPT !.kind = kind, !.at = "connect"]
  OBVIOUS
<1> HIDE DEF c
<1>2. c = [kind |-> kind, at |-> "connect", pool |-> <<>>, tried |-> 0, known |-> FALSE]
  BY <1>1 DEF Ended
<1>3. c \in Command
  BY <1>2 DEF Command
<1>4. PoolAgrees(c) /\ GuardHolds(c)
  BY <1>2 DEF PoolAgrees, GuardHolds
<1> QED BY <1>1, <1>3, <1>4, OneCommand DEF Begin

LEMMA Connects ==
  ASSUME EndpointsInv, NEW p \in Commands,
         Skip(p) \/ Join(p) \/ Connected(p) \/ ConnectFirst(p)
  PROVE  EndpointsInv'
<1> DEFINE d == process[p]
<1>0. /\ d \in Command /\ PoolAgrees(d) /\ GuardHolds(d) /\ d.at = "connect"
      /\ d.tried \in Nat /\ d.pool \in Seq(Urls)
      /\ process \in [Commands -> Command] /\ node \in [Urls -> Geneses]
      /\ UNCHANGED <<node, chains>>
  BY DEF EndpointsInv, EndpointsTypeOK, Skip, Join, Connected, ConnectFirst, Command
<1>1. CASE Skip(p)
  <2> DEFINE c == [d EXCEPT !.tried = @ + 1]
  <2>1. process' = [process EXCEPT ![p] = c]
    BY <1>0, <1>1 DEF Skip
  <2>2. c \in Command /\ c.at = d.at /\ c.pool = d.pool /\ c.known = d.known
    BY <1>0 DEF Command
  <2> HIDE DEF c
  <2>3. PoolAgrees(c) /\ GuardHolds(c)
    BY <1>0, <2>2 DEF PoolAgrees, GuardHolds
  <2> QED BY <1>0, <2>1, <2>2, <2>3, OneCommand
<1>2. CASE Join(p)
  <2> DEFINE u == d.tried + 1
             c == [d EXCEPT !.tried = u, !.pool = Append(@, u)]
  <2>1. u \in Urls
    BY <1>0, <1>2 DEF Join, Urls
  <2>2. CASE SameChain(p, u)
    <3>1. process' = [process EXCEPT ![p] = c]
      BY <1>0, <1>2, <2>2 DEF Join
    <3>2. c \in Command /\ c.at = "connect" /\ c.pool = Append(d.pool, u) /\ ~c.known
      <4>1. Append(d.pool, u) \in Seq(Urls) /\ u \in Nat
        BY <1>0, <2>1
      <4>2. d.known \in BOOLEAN /\ ~d.known
        BY <1>0 DEF Command, GuardHolds
      <4> HIDE DEF u
      <4> QED BY <1>0, <4>1, <4>2 DEF Command
    <3>3. \A i \in DOMAIN c.pool :
            \/ i \in DOMAIN d.pool /\ c.pool[i] = d.pool[i]
            \/ i = Len(d.pool) + 1 /\ c.pool[i] = u
      BY <1>0, <2>1, <3>2
    <3>4. \A i \in DOMAIN d.pool : node[d.pool[i]] = node[u]
      <4> SUFFICES ASSUME NEW i \in DOMAIN d.pool PROVE node[d.pool[i]] = node[u]
        OBVIOUS
      <4>1. d.pool # <<>>
        BY <1>0
      <4>2. node[u] = node[d.pool[1]] /\ 1 \in DOMAIN d.pool
        BY <1>0, <2>2, <4>1 DEF SameChain, Genesis
      <4> QED BY <1>0, <4>2 DEF PoolAgrees
    <3> HIDE DEF c, u, d
    <3>5. \A i \in DOMAIN c.pool : node[c.pool[i]] = node[u]
      BY <3>3, <3>4
    <3>6. PoolAgrees(c) /\ GuardHolds(c)
      BY <3>2, <3>5 DEF PoolAgrees, GuardHolds
    <3> QED BY <1>0, <3>1, <3>2, <3>6, OneCommand
  <2>3. CASE ~SameChain(p, u)
    <3>1. process' = [process EXCEPT ![p] = Ended]
      BY <1>2, <2>3 DEF Join
    <3> QED BY <1>0, <3>1, EndedIsEmpty, OneCommand
  <2> QED BY <2>2, <2>3
<1>3. CASE Connected(p)
  <2>1. CASE d.pool = <<>>
    <3>1. process' = [process EXCEPT ![p] = Ended]
      BY <1>3, <2>1 DEF Connected
    <3> QED BY <1>0, <3>1, EndedIsEmpty, OneCommand
  <2>2. CASE d.pool # <<>>
    <3> DEFINE c == [d EXCEPT !.at = "guard"]
    <3>1. process' = [process EXCEPT ![p] = c]
      BY <1>0, <1>3, <2>2 DEF Connected
    <3>2. c \in Command /\ PoolAgrees(c) /\ GuardHolds(c)
      BY <1>0, <2>2 DEF Command, PoolAgrees, GuardHolds
    <3> HIDE DEF c
    <3> QED BY <1>0, <3>1, <3>2, OneCommand
  <2> QED BY <2>1, <2>2
<1>4. CASE ConnectFirst(p)
  <2>1. 1 \in Urls
    BY EndpointsAssumption DEF Urls
  <2>2. CASE process' = [process EXCEPT ![p].at = "guard", ![p].pool = <<1>>]
    <3> DEFINE c == [d EXCEPT !.at = "guard", !.pool = <<1>>]
    <3>1. process' = [process EXCEPT ![p] = c]
      BY <1>0, <2>2
    <3>2. c \in Command /\ c.at = "guard" /\ c.pool = <<1>> /\ ~c.known
      <4>1. <<1>> \in Seq(Urls)
        BY <2>1
      <4>2. d.known \in BOOLEAN /\ ~d.known
        BY <1>0 DEF Command, GuardHolds
      <4> QED BY <1>0, <4>1, <4>2 DEF Command
    <3> HIDE DEF c
    <3>3. PoolAgrees(c) /\ GuardHolds(c)
      BY <3>2 DEF PoolAgrees, GuardHolds
    <3> QED BY <1>0, <3>1, <3>2, <3>3, OneCommand
  <2>3. CASE process' = [process EXCEPT ![p].at = "running"]
    <3> DEFINE c == [d EXCEPT !.at = "running"]
    <3>1. process' = [process EXCEPT ![p] = c]
      BY <1>0, <2>3
    <3>2. c \in Command /\ PoolAgrees(c)
      BY <1>0 DEF Command, PoolAgrees
    <3>3. GuardHolds(c)
      <4>1. c.at = "running" /\ c.known = d.known /\ ~d.known
        BY <1>0 DEF GuardHolds, Command
      <4> QED BY <4>1 DEF GuardHolds
    <3> HIDE DEF c
    <3> QED BY <1>0, <3>1, <3>2, <3>3, OneCommand
  <2> QED BY <1>4, <2>2, <2>3 DEF ConnectFirst
<1> QED BY <1>1, <1>2, <1>3, <1>4

LEMMA Guards ==
  ASSUME EndpointsInv, NEW p \in Commands, Guard(p) PROVE EndpointsInv'
<1> DEFINE d == process[p]
<1>0. /\ d \in Command /\ PoolAgrees(d) /\ d.at = "guard" /\ d.pool # <<>>
      /\ process \in [Commands -> Command] /\ UNCHANGED <<node, chains>>
  BY DEF EndpointsInv, EndpointsTypeOK, Guard, PoolAgrees
<1>1. CASE chains = Unknown \/ chains = Genesis(p)
  <2> DEFINE c == [d EXCEPT !.at = "upsert", !.known = (chains # Unknown)]
  <2>1. process' = [process EXCEPT ![p] = c]
    BY <1>0, <1>1 DEF Guard
  <2>2. /\ c \in Command /\ c.at = "upsert" /\ c.pool = d.pool
        /\ c.known <=> chains # Unknown
    BY <1>0 DEF Command
  <2>3. 1 \in DOMAIN d.pool
    BY <1>0, FirstOfPool DEF EndpointsInv
  <2> HIDE DEF c
  <2>4. PoolAgrees(c)
    BY <1>0, <2>2 DEF PoolAgrees
  <2>5. GuardHolds(c)
    BY <1>0, <1>1, <2>2, <2>3 DEF GuardHolds, PoolAgrees, Genesis
  <2> QED BY <1>0, <2>1, <2>2, <2>4, <2>5, OneCommand
<1>2. CASE ~(chains = Unknown \/ chains = Genesis(p)) /\ d.kind = "digest"
  <2> DEFINE c == [d EXCEPT !.at = "running", !.pool = <<>>]
  <2>1. process' = [process EXCEPT ![p] = c]
    BY <1>0, <1>2 DEF Guard
  <2>2. c \in Command /\ c.at = "running" /\ c.pool = <<>>
    <3>1. <<>> \in Seq(Urls)
      OBVIOUS
    <3> QED BY <1>0, <3>1 DEF Command
  <2> HIDE DEF c
  <2>3. PoolAgrees(c) /\ GuardHolds(c)
    BY <2>2 DEF PoolAgrees, GuardHolds
  <2> QED BY <1>0, <2>1, <2>2, <2>3, OneCommand
<1>3. CASE ~(chains = Unknown \/ chains = Genesis(p)) /\ d.kind # "digest"
  <2>1. process' = [process EXCEPT ![p] = Ended]
    BY <1>3 DEF Guard
  <2> QED BY <1>0, <2>1, EndedIsEmpty, OneCommand
<1> QED BY <1>1, <1>2, <1>3

LEMMA Upserts ==
  ASSUME EndpointsInv, NEW p \in Commands, Upsert(p) PROVE EndpointsInv'
<1> DEFINE d == process[p]
           c == [d EXCEPT !.at = "running", !.known = (@ \/ chains = Unknown)]
<1>1. /\ d \in Command /\ PoolAgrees(d) /\ GuardHolds(d) /\ d.at = "upsert" /\ d.pool # <<>>
      /\ process \in [Commands -> Command]
  BY DEF EndpointsInv, EndpointsTypeOK, Upsert, PoolAgrees
<1>2. /\ process' = [process EXCEPT ![p] = c] /\ node' = node
      /\ chains' = IF chains = Unknown THEN Genesis(p) ELSE chains
  BY <1>1 DEF Upsert
<1>3. /\ c \in Command /\ c.at = "running" /\ c.pool = d.pool
      /\ c.known <=> (d.known \/ chains = Unknown)
  BY <1>1 DEF Command
<1>4. 1 \in DOMAIN d.pool /\ Genesis(p) \in Geneses
  BY <1>1, FirstOfPool DEF EndpointsInv
<1>5. /\ process'[p] = c /\ \A q \in Commands \ {p} : process'[q] = process[q]
      /\ process' \in [Commands -> Command]
  BY <1>1, <1>2, <1>3
<1>6. EndpointsTypeOK'
  BY <1>2, <1>4, <1>5 DEF EndpointsInv, EndpointsTypeOK
<1>7. \A q \in Commands : PoolAgrees(process[q])'
  <2>1. PoolAgrees(c)
    BY <1>1, <1>3 DEF PoolAgrees
  <2> SUFFICES ASSUME NEW q \in Commands PROVE PoolAgrees(process[q])'
    OBVIOUS
  <2>2. PICK e : e = process'[q] /\ PoolAgrees(e)
    BY <1>5, <2>1 DEF EndpointsInv
  <2> QED BY <1>2, <2>2 DEF PoolAgrees
<1>8. \A q \in Commands : GuardHolds(process[q])'
  <2> SUFFICES ASSUME NEW q \in Commands,
                      process'[q].at \in {"upsert", "running"}, process'[q].known,
                      NEW i \in DOMAIN process'[q].pool
               PROVE  node[process'[q].pool[i]] = chains'
    <3>1. process'[p].at = "running"
      BY <1>3, <1>5
    <3>2. \A q \in Commands : process'[q].at \in {"ended", "connect", "guard"} => ~process'[q].known
      BY <1>5, <3>1 DEF EndpointsInv, GuardHolds
    <3> QED BY <1>2, <3>2 DEF GuardHolds
  <2>1. CASE q = p
    <3>1. i \in DOMAIN d.pool /\ process'[q].pool[i] = d.pool[i]
      BY <1>3, <1>5, <2>1
    <3>2. node[d.pool[i]] = Genesis(p)
      BY <1>1, <1>4, <3>1 DEF PoolAgrees, Genesis
    <3>3. chains = Unknown \/ node[d.pool[i]] = chains
      BY <1>1, <1>3, <1>5, <2>1, <3>1 DEF GuardHolds
    <3> QED BY <1>2, <3>1, <3>2, <3>3
  <2>2. CASE q # p
    <3>1. process'[q] = process[q]
      BY <1>5, <2>2
    <3>2. node[process[q].pool[i]] = chains
      BY <3>1 DEF EndpointsInv, GuardHolds
    <3>3. node[process[q].pool[i]] \in Geneses
      <4>1. process[q].pool \in Seq(Urls)
        BY <1>1 DEF Command
      <4>2. process[q].pool[i] \in Urls
        BY <3>1, <4>1
      <4> QED BY <4>2 DEF EndpointsInv, EndpointsTypeOK
    <3>4. chains # Unknown
      BY <3>2, <3>3, EndpointsAssumption
    <3> QED BY <1>2, <3>1, <3>2, <3>4
  <2> QED BY <2>1, <2>2
<1> QED BY <1>6, <1>7, <1>8 DEF EndpointsInv

LEMMA Edits == ASSUME EndpointsInv, EditEndpoint PROVE EndpointsInv'
<1>1. /\ process' = process /\ chains' = chains
      /\ \A p \in Commands : process[p].at = "ended" /\ process[p].pool = <<>>
  BY DEF EndpointsInv, EditEndpoint, PoolAgrees
<1>2. node' \in [Urls -> Geneses]
  BY DEF EndpointsInv, EndpointsTypeOK, EditEndpoint
<1>3. \A p \in Commands : (PoolAgrees(process[p]) /\ GuardHolds(process[p]))'
  <2>1. \A p \in Commands : ~process[p].known
    BY <1>1 DEF EndpointsInv, GuardHolds
  <2> QED BY <1>1, <2>1 DEF PoolAgrees, GuardHolds
<1> QED BY <1>1, <1>2, <1>3 DEF EndpointsInv, EndpointsTypeOK

-----------------------------------------------------------------------------
LEMMA EndpointsStart == EndpointsInit => EndpointsInv
BY EndedIsEmpty DEF EndpointsInit, EndpointsInv, EndpointsTypeOK

LEMMA EndpointsSteps == EndpointsInv /\ [EndpointsNext]_endpointVars => EndpointsInv'
<1> SUFFICES ASSUME EndpointsInv, [EndpointsNext]_endpointVars PROVE EndpointsInv'
  OBVIOUS
<1>1. ASSUME NEW p \in Commands, End(p) PROVE EndpointsInv'
  BY <1>1, EndedIsEmpty, OneCommand DEF End
<1>2. CASE UNCHANGED endpointVars
  BY <1>2 DEF endpointVars, EndpointsInv, EndpointsTypeOK, PoolAgrees, GuardHolds
<1> QED BY <1>1, <1>2, Begins, Connects, Guards, Upserts, Edits DEF EndpointsNext, ConnectStep

(***************************************************************************)
(* However the file was edited between commands and whatever chain each    *)
(* endpoint is of: the endpoints of a pool are of one chain, and what the  *)
(* guard found stays so (`connect_all', `guard_chain_identity',            *)
(* `upsert_chain').                                                        *)
(***************************************************************************)
THEOREM EndpointsCorrect == EndpointsSpec => []EndpointsInv
<1> QED BY EndpointsStart, EndpointsSteps, PTL DEF EndpointsSpec

LEMMA WhatEndpointsKeep == EndpointsInv => OneChain
BY DEF EndpointsInv, GuardHolds, OneChain

(* A command tries an endpoint of the list once.                           *)
TriedOnce == \A p \in Commands : process[p].tried \in 0 .. Configured

LEMMA TriedSteps == EndpointsInv /\ TriedOnce /\ [EndpointsNext]_endpointVars => TriedOnce'
<1> SUFFICES ASSUME EndpointsInv, TriedOnce, [EndpointsNext]_endpointVars PROVE TriedOnce'
  OBVIOUS
<1> USE EndpointsAssumption
<1>1. process \in [Commands -> Command]
  BY DEF EndpointsInv, EndpointsTypeOK
<1>a. ASSUME NEW p \in Commands, NEW c, c.tried \in 0 .. Configured,
             process' = [process EXCEPT ![p] = c]
      PROVE  TriedOnce'
  BY <1>1, <1>a DEF TriedOnce
<1>2. ASSUME NEW p \in Commands, ConnectStep(p) PROVE TriedOnce'
  <2>0. process[p] \in Command /\ process[p].tried \in 0 .. Configured
    BY <1>1 DEF TriedOnce
  <2>1. CASE Skip(p)
    <3>1. [process[p] EXCEPT !.tried = @ + 1].tried \in 0 .. Configured
      BY <2>0, <2>1 DEF Skip, Command
    <3> QED BY <1>1, <1>a, <2>1, <3>1 DEF Skip
  <2>2. CASE Join(p)
    BY <1>1, <2>0, <2>2 DEF Join, TriedOnce, Command, Ended
  <2>3. CASE \E kind \in {"index", "fetch", "digest"} : Begin(p, kind)
    BY <1>1, <2>3 DEF Begin, TriedOnce, Ended
  <2>4. ASSUME \A q \in Commands \ {p} : process'[q] = process[q],
               process'[p].tried \in {0, process[p].tried}
        PROVE  TriedOnce'
    BY <2>4 DEF TriedOnce
  <2>5. CASE Connected(p)
    BY <1>1, <2>0, <2>4, <2>5 DEF Connected, Command, Ended
  <2>6. CASE ConnectFirst(p)
    <3>1. CASE process' = [process EXCEPT ![p].at = "guard", ![p].pool = <<1>>]
      BY <1>1, <2>0, <2>4, <3>1 DEF Command
    <3>2. CASE process' = [process EXCEPT ![p].at = "running"]
      BY <1>1, <2>0, <2>4, <3>2 DEF Command
    <3> QED BY <2>6, <3>1, <3>2 DEF ConnectFirst
  <2>7. CASE Guard(p)
    <3>1. CASE process' = [process EXCEPT ![p].at = "upsert", ![p].known = chains # Unknown]
      BY <1>1, <2>0, <2>4, <3>1 DEF Command
    <3>2. CASE process' = [process EXCEPT ![p].at = "running", ![p].pool = <<>>]
      BY <1>1, <2>0, <2>4, <3>2 DEF Command
    <3>3. CASE process' = [process EXCEPT ![p] = Ended]
      BY <1>1, <2>4, <3>3 DEF Ended
    <3> QED BY <2>7, <3>1, <3>2, <3>3 DEF Guard
  <2>8. CASE Upsert(p)
    BY <1>1, <2>0, <2>4, <2>8 DEF Upsert, Command
  <2>9. CASE End(p)
    BY <1>1, <2>4, <2>9 DEF End, Ended
  <2> QED BY <1>2, <2>1, <2>2, <2>3, <2>5, <2>6, <2>7, <2>8, <2>9 DEF ConnectStep
<1>3. CASE EditEndpoint \/ UNCHANGED endpointVars
  BY <1>3 DEF EditEndpoint, endpointVars, TriedOnce
<1> QED BY <1>2, <1>3 DEF EndpointsNext

THEOREM EndpointsTriedOnce == EndpointsSpec => []TriedOnce
<1>1. EndpointsInit => TriedOnce
  BY EndpointsAssumption DEF EndpointsInit, TriedOnce, Ended
<1> QED BY <1>1, EndpointsStart, EndpointsSteps, TriedSteps, PTL DEF EndpointsSpec
=============================================================================
