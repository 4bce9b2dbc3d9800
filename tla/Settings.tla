------------------------------ MODULE Settings ------------------------------
(***************************************************************************)
(* The configuration file of pif-core/src/config.rs: what a command reads  *)
(* at its start, how the parts a chain leaves out are filled in, and which *)
(* files are refused.  An operator edits a file that works, field by       *)
(* field, and starts a command.                                            *)
(*                                                                         *)
(* An optional setting is a sequence of at most one value.  A path is the  *)
(* sequence of its components, "/" at the head of an absolute one.         *)
(***************************************************************************)
EXTENDS Integers, Sequences, FiniteSets

CONSTANTS
    MaxEdits,   \* bound: fields changed in one file
    WordSize    \* one more than the largest number of seconds

ASSUME SettingsAssumption == MaxEdits \in Nat /\ WordSize \in Nat \ {0}

VARIABLES
    file,   \* what the file says
    edits,  \* fields changed so far
    config, \* what the command works with
    load    \* "edited", "parsed", "resolved", "accepted" or "rejected"

settingsVars == <<file, edits, config, load>>

Some(x) == <<x>>
None    == <<>>
Lone(s) == s[1]

Base == <<"/", "etc">>                       \* the directory of the file
ChainSpecs == {Base \o <<"spec">>, <<"/", "spec">>}   \* chain specs that exist
WebSockets == {"ws", "wss"}                  \* urls that begin with ws:// or wss://

Joined(path) == IF path # <<>> /\ Head(path) = "/" THEN path ELSE Base \o path

(***************************************************************************)
(* A duration is a number and a unit.  The product wraps in a release      *)
(* build.                                                                  *)
(***************************************************************************)
Units == <<1, 60, 3600, 86400>>
ParsedDuration(text) == (text.value * Units[text.unit]) % WordSize

\* The largest unit that fits, the rest cut off.
WrittenCut(seconds) ==
    LET fits == {u \in DOMAIN Units : seconds >= Units[u]}
        unit == IF fits = {} THEN 1 ELSE CHOOSE u \in fits : \A v \in fits : v <= u
    IN  [value |-> seconds \div Units[unit], unit |-> unit]

WrittenDuration(seconds) ==
    LET exact == {u \in DOMAIN Units : seconds # 0 /\ seconds % Units[u] = 0}
        unit  == IF exact = {} THEN 1 ELSE CHOOSE u \in exact : \A v \in exact : v <= u
    IN  [value |-> seconds \div Units[unit], unit |-> unit]

(***************************************************************************)
(* The file before any edit: a node, a light client, two tiers.            *)
(***************************************************************************)
DefaultPipeline ==
    [hot_path |-> <<"hot">>, cold_path |-> None, retention |-> [value |-> 1, unit |-> 4],
     on_digest |-> "archive", segment_size |-> 1000, chunk_size |-> 128,
     max_digest_lag |-> None, digest_batch |-> 32]

NodeChain ==
    [id |-> "a", ws_url |-> Some("ws"), source |-> None, start_block |-> 1,
     pipeline |-> None]

LightChain ==
    [id |-> "b", ws_url |-> None, start_block |-> 0,
     source |-> Some([type |-> "light-client", spec |-> <<"spec">>, url |-> None,
                      endpoints |-> None]),
     pipeline |-> Some(DefaultPipeline)]

WorkingFile == [chains |-> <<NodeChain, LightChain>>, pipeline |-> DefaultPipeline]

-----------------------------------------------------------------------------
(***************************************************************************)
(* Edits.                                                                  *)
(***************************************************************************)
Endpoint(url, rps) == [url |-> url, max_rps |-> rps]

Sources ==
    {[type |-> "rpc", spec |-> <<>>, url |-> u, endpoints |-> e] :
        u \in {None, Some("ws"), Some("http")},
        e \in {None, Some(<<>>),
               Some(<<Endpoint("ws", None), Endpoint("wss", Some(5))>>),
               Some(<<Endpoint("ws", None), Endpoint("ws", Some(5))>>),
               Some(<<Endpoint("ws", Some(5)), Endpoint("wss", Some(0))>>),
               Some(<<Endpoint("wss", None), Endpoint("http", None)>>)}}
    \cup {[type |-> "light-client", spec |-> s, url |-> None, endpoints |-> None] :
            s \in {<<"spec">>, <<"/", "spec">>, <<"gone">>}}

PipelineEdits(p) ==
    UNION {{[p EXCEPT !.hot_path = x] : x \in {<<>>, <<"cold">>, <<"/", "etc", "cold">>}},
           {[p EXCEPT !.cold_path = x] : x \in {Some(<<>>), Some(<<"cold">>),
                                                Some(<<"/", "etc", "hot">>)}},
           {[p EXCEPT !.on_digest = x] : x \in {"keep", "delete"}},
           {[p EXCEPT !.retention = x] : x \in {[value |-> 90, unit |-> 2],
                                                [value |-> WordSize - 1, unit |-> 3],
                                                [value |-> 0, unit |-> 1]}},
           {[p EXCEPT !.segment_size = 0], [p EXCEPT !.chunk_size = 0],
            [p EXCEPT !.max_digest_lag = Some(0)], [p EXCEPT !.max_digest_lag = Some(64)],
            [p EXCEPT !.digest_batch = 0]}}

ChainEdits(c) ==
    UNION {{[c EXCEPT !.id = x] : x \in {"", "a", "b"}},
           {[c EXCEPT !.ws_url = x] : x \in {None, Some("ws"), Some("http")}},
           {[c EXCEPT !.source = x] : x \in {None} \cup {Some(s) : s \in Sources}},
           {[c EXCEPT !.start_block = 7]},
           {[c EXCEPT !.pipeline = x] : x \in {None, Some(DefaultPipeline)}},
           IF c.pipeline = None THEN {}
           ELSE {[c EXCEPT !.pipeline = Some(p)] : p \in PipelineEdits(Lone(c.pipeline))}}

SettingsInit ==
    /\ file = WorkingFile /\ edits = 0
    /\ config = WorkingFile /\ load = "edited"

Edit ==
    /\ load = "edited" /\ edits < MaxEdits
    /\ file' \in {[file EXCEPT !.chains = <<>>]}
         \cup {[file EXCEPT !.pipeline = p] : p \in PipelineEdits(file.pipeline)}
         \cup UNION {{[file EXCEPT !.chains[i] = c] : c \in ChainEdits(file.chains[i])} :
                       i \in DOMAIN file.chains}
    /\ edits' = edits + 1
    /\ UNCHANGED <<config, load>>

-----------------------------------------------------------------------------
(***************************************************************************)
(* Parsing: a chain has one source, spelled in one way.  The two shapes of *)
(* the file, and the errors of TryFrom.                                    *)
(***************************************************************************)
SourceParses(s) == s.type = "rpc" => (s.url = None) # (s.endpoints = None)

ChainParses(c) ==
    /\ (c.source = None) # (c.ws_url = None)
    /\ c.source # None => SourceParses(Lone(c.source))

Node(endpoints) == [type |-> "rpc", spec |-> <<>>, endpoints |-> endpoints]

ParsedSource(s) ==
    IF s.type = "light-client"
    THEN [type |-> "light-client", spec |-> s.spec, endpoints |-> <<>>]
    ELSE Node(IF s.url # None THEN <<Endpoint(Lone(s.url), None)>> ELSE Lone(s.endpoints))

ParsedChain(c) ==
    [id |-> c.id, start_block |-> c.start_block, pipeline |-> c.pipeline,
     source |-> IF c.source = None THEN Node(<<Endpoint(Lone(c.ws_url), None)>>)
                ELSE ParsedSource(Lone(c.source))]

Parse ==
    /\ load = "edited"
    /\ IF \A i \in DOMAIN file.chains : ChainParses(file.chains[i])
       THEN /\ load' = "parsed"
            /\ config' = [chains |-> [i \in DOMAIN file.chains |-> ParsedChain(file.chains[i])],
                          pipeline |-> file.pipeline]
       ELSE load' = "rejected" /\ UNCHANGED config
    /\ UNCHANGED <<file, edits>>

(***************************************************************************)
(* A chain gets the pipeline of the file unless it has one of its own, and *)
(* paths become absolute; chain specs have to exist.                       *)
(***************************************************************************)
Inherited(c) == IF c.pipeline = None THEN config.pipeline ELSE Lone(c.pipeline)

Located(p) ==
    [p EXCEPT !.hot_path = Joined(@),
              !.cold_path = IF @ = None THEN None ELSE Some(Joined(Lone(@)))]

SpecPath(s) == IF s.type = "rpc" THEN s.spec ELSE Joined(s.spec)

ResolvedChain(c) ==
    [c EXCEPT !.pipeline = Some(Located(Inherited(c))),
              !.source.spec = SpecPath(c.source)]

SpecExists(c) == c.source.type = "light-client" => SpecPath(c.source) \in ChainSpecs

\* A chain without a pipeline of its own is left without one.
ResolveOwn ==
    /\ load = "parsed"
    /\ IF \A i \in DOMAIN config.chains : SpecExists(config.chains[i])
       THEN /\ load' = "resolved"
            /\ config' = [config EXCEPT !.chains =
                            [i \in DOMAIN @ |->
                                IF @[i].pipeline = None THEN @[i] ELSE ResolvedChain(@[i])]]
       ELSE load' = "rejected" /\ UNCHANGED config
    /\ UNCHANGED <<file, edits>>

Resolve ==
    /\ load = "parsed"
    /\ IF \A i \in DOMAIN config.chains : SpecExists(config.chains[i])
       THEN /\ load' = "resolved"
            /\ config' = [config EXCEPT !.chains = [i \in DOMAIN @ |-> ResolvedChain(@[i])]]
       ELSE load' = "rejected" /\ UNCHANGED config
    /\ UNCHANGED <<file, edits>>

(***************************************************************************)
(* What `validate' lets pass.                                              *)
(***************************************************************************)
EndpointsValid(es) ==
    /\ es # <<>>
    /\ \A i \in DOMAIN es : es[i].url \in WebSockets /\ es[i].max_rps # Some(0)
    /\ \A i, j \in DOMAIN es : es[i].url = es[j].url => i = j

SourceValid(c) ==
    IF c.source.type = "rpc" THEN EndpointsValid(c.source.endpoints) ELSE c.start_block = 0

ColdValid(p) ==
    p.cold_path # None =>
        /\ Lone(p.cold_path) # <<>>
        /\ Lone(p.cold_path) # p.hot_path
        /\ p.on_digest # "keep"

PipelineValid(p) ==
    /\ p.segment_size > 0 /\ p.hot_path # <<>>
    /\ ColdValid(p)
    /\ p.chunk_size > 0 /\ p.max_digest_lag # Some(0) /\ p.digest_batch > 0

ChainsValid(cs) ==
    /\ cs # <<>>
    /\ \A i \in DOMAIN cs :
         /\ cs[i].id # ""
         /\ \A j \in DOMAIN cs : cs[i].id = cs[j].id => i = j
         /\ SourceValid(cs[i])
         /\ cs[i].pipeline # None => PipelineValid(Lone(cs[i].pipeline))

Validate ==
    /\ load = "resolved"
    /\ load' = IF /\ ChainsValid(config.chains)
                  /\ config.pipeline.segment_size > 0 /\ config.pipeline.digest_batch > 0
               THEN "accepted" ELSE "rejected"
    /\ UNCHANGED <<file, edits, config>>

SettingsNext == Edit \/ Parse \/ Resolve \/ Validate

-----------------------------------------------------------------------------
(***************************************************************************)
(* Every chain of an accepted file gives the stages what their models      *)
(* assume of it: blocks to a chunk, a lease the brake lets through, blocks *)
(* to a transaction, a segment to divide by, tiers that are two places, a  *)
(* limiter that earns tokens, and no block number asked of a light client. *)
(***************************************************************************)
RunsOn(c) ==
    LET p == Lone(c.pipeline)
    IN  /\ c.pipeline # None
        /\ {p.segment_size, p.chunk_size, p.digest_batch} \subseteq Nat \ {0}
        /\ p.max_digest_lag # Some(0)
        /\ p.cold_path # Some(p.hot_path)
        /\ Head(p.hot_path) = "/"
        /\ c.source.type = "rpc" =>
             /\ c.source.endpoints # <<>>
             /\ \A i \in DOMAIN c.source.endpoints : c.source.endpoints[i].max_rps # Some(0)
        /\ c.source.type = "light-client" => c.start_block = 0 /\ c.source.spec \in ChainSpecs

AcceptedRuns ==
    load = "accepted" =>
        /\ \A i \in DOMAIN config.chains : RunsOn(config.chains[i])
        /\ Cardinality({config.chains[i].id : i \in DOMAIN config.chains})
             = Len(config.chains)
        /\ config.chains # <<>>

(***************************************************************************)
(* The retention in force, written back and read again, is the same time:  *)
(* the largest unit that divides it loses nothing (`duration_string').     *)
(***************************************************************************)
RetentionKept ==
    load = "accepted" =>
        \A i \in DOMAIN config.chains :
            LET seconds == ParsedDuration(Lone(config.chains[i].pipeline).retention)
            IN  ParsedDuration(WrittenDuration(seconds)) = seconds
=============================================================================
