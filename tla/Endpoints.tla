------------------------------ MODULE Endpoints ------------------------------
(***************************************************************************)
(* How a command connects: the pool of endpoints (client.rs) and the guard *)
(* on the identity of the chain (pipeline.rs).  Two commands of one chain  *)
(* may start at the same time.                                             *)
(***************************************************************************)
EXTENDS Integers, Sequences, FiniteSets

CONSTANTS
    Commands,    \* processes of this chain
    Configured,  \* how many endpoints the file lists
    Geneses,     \* the chains the nodes may belong to
    Unknown,     \* no chain
    MaxStarts    \* bound: starts of commands

ASSUME EndpointsAssumption ==
    Configured \in Nat \ {0} /\ MaxStarts \in Nat /\ Unknown \notin Geneses

VARIABLES
    node,    \* the chain of each endpoint
    process, \* each command: its kind, where it is, its pool, what it learned
    chains,  \* the genesis hash stored for the chain id
    starts

endpointVars == <<node, process, chains, starts>>

Urls == 1 .. Configured
Ended == [kind |-> "none", at |-> "ended", pool |-> <<>>, tried |-> 0,
          known |-> FALSE]

EndpointsInit ==
    /\ node \in [Urls -> Geneses]
    /\ process = [p \in Commands |-> Ended]
    /\ chains = Unknown /\ starts = 0

Begin(p, kind) ==
    /\ process[p].at = "ended" /\ starts < MaxStarts
    /\ process' = [process EXCEPT ![p] = [Ended EXCEPT !.kind = kind, !.at = "connect"]]
    /\ starts' = starts + 1
    /\ UNCHANGED <<node, chains>>

Genesis(p) == node[process[p].pool[1]]

\* Every endpoint that answers joins.
PoolUnchecked(p, u) == TRUE

SameChain(p, u) == process[p].pool # <<>> => node[u] = Genesis(p)

(***************************************************************************)
(* `connect_all': the next endpoint of the list is down, joins, or is of   *)
(* another chain than the first, which ends the command.                   *)
(***************************************************************************)
Skip(p) ==
    /\ process[p].at = "connect" /\ process[p].kind \in {"index", "fetch"}
    /\ process[p].tried < Configured
    /\ process' = [process EXCEPT ![p].tried = @ + 1]
    /\ UNCHANGED <<node, chains, starts>>

Join(p) ==
    LET u == process[p].tried + 1
    IN  /\ process[p].at = "connect" /\ process[p].kind \in {"index", "fetch"}
        /\ u <= Configured
        /\ process' = IF SameChain(p, u)
                      THEN [process EXCEPT ![p].tried = u, ![p].pool = Append(@, u)]
                      ELSE [process EXCEPT ![p] = Ended]
        /\ UNCHANGED <<node, chains, starts>>

Connected(p) ==
    /\ process[p].at = "connect" /\ process[p].kind \in {"index", "fetch"}
    /\ process[p].tried = Configured
    /\ process' = IF process[p].pool = <<>>
                  THEN [process EXCEPT ![p] = Ended]
                  ELSE [process EXCEPT ![p].at = "guard"]
    /\ UNCHANGED <<node, chains, starts>>

(***************************************************************************)
(* `pif digest' connects to the first endpoint of the file.  It can go on  *)
(* without, from the archive alone, when the chain is known (`resolve').   *)
(***************************************************************************)
ConnectFirst(p) ==
    /\ process[p].at = "connect" /\ process[p].kind = "digest"
    /\ \/ process' = [process EXCEPT ![p].at = "guard", ![p].pool = <<1>>]
       \/ /\ chains # Unknown
          /\ process' = [process EXCEPT ![p].at = "running"]
    /\ UNCHANGED <<node, chains, starts>>

(***************************************************************************)
(* `guard_chain_identity' reads the stored genesis; `upsert_chain' writes  *)
(* it later, and keeps what another command stored in between.             *)
(***************************************************************************)
\* A stored genesis is not looked at.
GuardSkipped(p) ==
    /\ process[p].at = "guard"
    /\ process' = [process EXCEPT ![p].at = "upsert", ![p].known = chains # Unknown]
    /\ UNCHANGED <<node, chains, starts>>

Guard(p) ==
    /\ process[p].at = "guard"
    /\ process' = IF chains = Unknown \/ chains = Genesis(p)
                  THEN [process EXCEPT ![p].at = "upsert", ![p].known = chains # Unknown]
                  ELSE IF process[p].kind = "digest"
                  THEN [process EXCEPT ![p].at = "running", ![p].pool = <<>>]
                  ELSE [process EXCEPT ![p] = Ended]
    /\ UNCHANGED <<node, chains, starts>>

Upsert(p) ==
    /\ process[p].at = "upsert"
    /\ chains' = IF chains = Unknown THEN Genesis(p) ELSE chains
    /\ process' = [process EXCEPT ![p].at = "running",
                               ![p].known = @ \/ chains = Unknown]
    /\ UNCHANGED <<node, starts>>

End(p) ==
    /\ process[p].at = "running"
    /\ process' = [process EXCEPT ![p] = Ended]
    /\ UNCHANGED <<node, chains, starts>>

(***************************************************************************)
(* The operator points an endpoint of the file at another node, with no    *)
(* command running.                                                        *)
(***************************************************************************)
EditEndpoint ==
    /\ \A p \in Commands : process[p].at = "ended"
    /\ \E u \in Urls, g \in Geneses : node' = [node EXCEPT ![u] = g]
    /\ UNCHANGED <<process, chains, starts>>

ConnectStep(p) ==
    \/ \E kind \in {"index", "fetch", "digest"} : Begin(p, kind)
    \/ Skip(p) \/ Join(p) \/ Connected(p) \/ ConnectFirst(p)
    \/ Guard(p) \/ Upsert(p) \/ End(p)

EndpointsNext == (\E p \in Commands : ConnectStep(p)) \/ EditEndpoint

-----------------------------------------------------------------------------
(***************************************************************************)
(* A running command that found the chain known, or made it known, works   *)
(* on the stored chain with every endpoint of its pool, however the file   *)
(* was edited.  Two first starts that both pass the guard before either    *)
(* stores its genesis are the exception.                                   *)
(***************************************************************************)
OneChain ==
    \A p \in Commands :
        process[p].at = "running" /\ process[p].known =>
            \A i \in DOMAIN process[p].pool : node[process[p].pool[i]] = chains
=============================================================================
