------------------------------ MODULE NodeProofs ------------------------------
(***************************************************************************)
(* The properties of the parts, as theorems of the specification that the  *)
(* run NodeParts checks: a behaviour of the five is one of each.           *)
(***************************************************************************)
EXTENDS NodeParts, LimiterProofs, CaptureProofs, EndpointsProofs, SequenceTheorems

LEMMA StartsEachPart ==
  Init => LimiterInit /\ CaptureInit /\ EndpointsInit /\ SettingsInit /\ DecodingInit
BY DEF Init

LEMMA StepsOfLimiter == [Next]_vars => [LimiterNext]_limiterVars
BY DEF Next, vars, TheSettings, TheLimiter, TheCapture, TheEndpoints, TheDecoding,
       NotSettings, NotLimiter, NotCapture, NotEndpoints, NotDecoding

LEMMA StepsOfCapture == [Next]_vars => [CaptureNext]_captureVars
BY DEF Next, vars, TheSettings, TheLimiter, TheCapture, TheEndpoints, TheDecoding,
       NotSettings, NotLimiter, NotCapture, NotEndpoints, NotDecoding

LEMMA StepsOfEndpoints == [Next]_vars => [EndpointsNext]_endpointVars
BY DEF Next, vars, TheSettings, TheLimiter, TheCapture, TheEndpoints, TheDecoding,
       NotSettings, NotLimiter, NotCapture, NotEndpoints, NotDecoding

LEMMA StepsOfSettings == [Next]_vars => [SettingsNext]_settingsVars
BY DEF Next, vars, TheSettings, TheLimiter, TheCapture, TheEndpoints, TheDecoding,
       NotSettings, NotLimiter, NotCapture, NotEndpoints, NotDecoding

LEMMA StepsOfDecoding == [Next]_vars => [DecodingNext]_decodingVars
BY DEF Next, vars, TheSettings, TheLimiter, TheCapture, TheEndpoints, TheDecoding,
       NotSettings, NotLimiter, NotCapture, NotEndpoints, NotDecoding

-----------------------------------------------------------------------------
(***************************************************************************)
(* The configuration: what a file, a parsed file and a resolved one are.   *)
(***************************************************************************)
Optional(S) == {None} \cup {Some(x) : x \in S}

Path == Seq({"/", "etc", "hot", "cold", "spec", "gone"})

Url == {"ws", "wss", "http"}

EndpointType == [url : Url, max_rps : Optional(Nat)]

SourceType == [type : {"rpc", "light-client"}, spec : Path, url : Optional(Url),
               endpoints : Optional(Seq(EndpointType))]

PipelineType ==
  [hot_path : Path, cold_path : Optional(Path), retention : [value : Nat, unit : 1 .. 4],
   on_digest : {"archive", "keep", "delete"}, segment_size : Nat, chunk_size : Nat,
   max_digest_lag : Optional(Nat), digest_batch : Nat]

ChainType == [id : {"", "a", "b"}, ws_url : Optional(Url), source : Optional(SourceType),
              start_block : Nat, pipeline : Optional(PipelineType)]

FileType == [chains : Seq(ChainType), pipeline : PipelineType]

ParsedSourceType == [type : {"rpc", "light-client"}, spec : Path, endpoints : Seq(EndpointType)]

ParsedChainType == [id : {"", "a", "b"}, start_block : Nat,
                    pipeline : Optional(PipelineType), source : ParsedSourceType]

ParsedType == [chains : Seq(ParsedChainType), pipeline : PipelineType]

(* Every chain has its pipeline with absolute paths, and a spec that exists. *)
Ready(c) ==
  /\ c.pipeline # None /\ Lone(c.pipeline) \in PipelineType
  /\ c.pipeline = Some(Lone(c.pipeline))
  /\ Head(Lone(c.pipeline).hot_path) = "/"
  /\ c.source.type = "light-client" => c.source.spec \in ChainSpecs

SettingsInv ==
  /\ file \in FileType /\ edits \in 0 .. MaxEdits
  /\ load \in {"edited", "parsed", "resolved", "accepted", "rejected"}
  /\ load = "parsed" => config \in ParsedType
  /\ load \in {"resolved", "accepted"} =>
       /\ \E S : config.chains \in Seq(S)
       /\ \A i \in DOMAIN config.chains : Ready(config.chains[i])
  /\ load = "accepted" => ChainsValid(config.chains)

LEMMA Options ==
  /\ \A S : None \in Optional(S) /\ \A x \in S : Some(x) \in Optional(S)
  /\ \A S, x : x \in Optional(S) /\ x # None => Lone(x) \in S /\ x = Some(Lone(x))
  /\ \A x : Some(x) # None /\ Lone(Some(x)) = x
  BY DEF Optional, None, Some, Lone

LEMMA WorkingFileTyped == WorkingFile \in FileType
<1>1. /\ <<"hot">> \in Path /\ <<"spec">> \in Path
      /\ None \in Optional(Path) /\ None \in Optional(Nat) /\ None \in Optional(Url)
      /\ None \in Optional(SourceType) /\ None \in Optional(PipelineType)
      /\ None \in Optional(Seq(EndpointType)) /\ Some("ws") \in Optional(Url)
  BY Options DEF Path, Url
<1>2. DefaultPipeline \in PipelineType
  BY <1>1 DEF DefaultPipeline, PipelineType
<1>3. NodeChain \in ChainType
  BY <1>1 DEF NodeChain, ChainType
<1>4. [type |-> "light-client", spec |-> <<"spec">>, url |-> None, endpoints |-> None] \in SourceType
  BY <1>1 DEF SourceType
<1>5. LightChain \in ChainType
  <2>1. /\ Some([type |-> "light-client", spec |-> <<"spec">>, url |-> None, endpoints |-> None])
              \in Optional(SourceType)
        /\ Some(DefaultPipeline) \in Optional(PipelineType)
    BY <1>2, <1>4, Options
  <2> QED BY <1>1, <2>1 DEF LightChain, ChainType
<1>6. <<NodeChain, LightChain>> \in Seq(ChainType)
  BY <1>3, <1>5
<1> QED BY <1>2, <1>6 DEF WorkingFile, FileType

LEMMA PipelineEditsTyped ==
  ASSUME NEW p \in PipelineType PROVE PipelineEdits(p) \subseteq PipelineType
<1>1. /\ {<<>>, <<"cold">>, <<"/", "etc", "cold">>} \subseteq Path
      /\ {Some(<<>>), Some(<<"cold">>), Some(<<"/", "etc", "hot">>)} \subseteq Optional(Path)
      /\ {Some(0), Some(64)} \subseteq Optional(Nat)
  <2>1. <<>> \in Path /\ <<"cold">> \in Path /\ <<"/", "etc", "cold">> \in Path
        /\ <<"/", "etc", "hot">> \in Path
    BY DEF Path
  <2> QED BY <2>1, Options
<1>2. WordSize - 1 \in Nat
  BY SettingsAssumption
<1> SUFFICES ASSUME NEW q \in PipelineEdits(p) PROVE q \in PipelineType
  OBVIOUS
<1>3. CASE \/ \E x \in {<<>>, <<"cold">>, <<"/", "etc", "cold">>} : q = [p EXCEPT !.hot_path = x]
           \/ \E x \in {Some(<<>>), Some(<<"cold">>), Some(<<"/", "etc", "hot">>)} :
                q = [p EXCEPT !.cold_path = x]
  BY <1>1, <1>3 DEF PipelineType
<1>4. CASE \/ \E x \in {"keep", "delete"} : q = [p EXCEPT !.on_digest = x]
           \/ q \in {[p EXCEPT !.segment_size = 0], [p EXCEPT !.chunk_size = 0],
                     [p EXCEPT !.digest_batch = 0]}
  BY <1>4 DEF PipelineType
<1>5. CASE q \in {[p EXCEPT !.max_digest_lag = Some(0)], [p EXCEPT !.max_digest_lag = Some(64)]}
  BY <1>1, <1>5 DEF PipelineType
<1>6. CASE \E x \in {[value |-> 90, unit |-> 2], [value |-> WordSize - 1, unit |-> 3],
                     [value |-> 0, unit |-> 1]} : q = [p EXCEPT !.retention = x]
  <2>1. {[value |-> 90, unit |-> 2], [value |-> WordSize - 1, unit |-> 3],
         [value |-> 0, unit |-> 1]} \subseteq [value : Nat, unit : 1 .. 4]
    BY <1>2
  <2> QED BY <1>6, <2>1 DEF PipelineType
<1> QED BY <1>3, <1>4, <1>5, <1>6 DEF PipelineEdits

LEMMA SourcesTyped == Sources \subseteq SourceType
<1>1. /\ {None, Some("ws"), Some("http")} \subseteq Optional(Url)
      /\ None \in Optional(Url) /\ None \in Optional(Seq(EndpointType))
      /\ {<<"spec">>, <<"/", "spec">>, <<"gone">>, <<>>} \subseteq Path
  <2>1. <<"spec">> \in Path /\ <<"/", "spec">> \in Path /\ <<"gone">> \in Path /\ <<>> \in Path
    BY DEF Path
  <2> QED BY <2>1, Options DEF Url
<1>2. \A u \in Url : /\ Endpoint(u, None) \in EndpointType
                        /\ Endpoint(u, Some(5)) \in EndpointType
                        /\ Endpoint(u, Some(0)) \in EndpointType
  BY Options DEF Endpoint, EndpointType
<1>3. {None, Some(<<>>),
       Some(<<Endpoint("ws", None), Endpoint("wss", Some(5))>>),
       Some(<<Endpoint("ws", None), Endpoint("ws", Some(5))>>),
       Some(<<Endpoint("ws", Some(5)), Endpoint("wss", Some(0))>>),
       Some(<<Endpoint("wss", None), Endpoint("http", None)>>)} \subseteq Optional(Seq(EndpointType))
  <2>1. \A d, e \in EndpointType : <<d, e>> \in Seq(EndpointType)
    OBVIOUS
  <2>2. <<>> \in Seq(EndpointType)
    OBVIOUS
  <2>3. /\ <<Endpoint("ws", None), Endpoint("wss", Some(5))>> \in Seq(EndpointType)
        /\ <<Endpoint("ws", None), Endpoint("ws", Some(5))>> \in Seq(EndpointType)
        /\ <<Endpoint("ws", Some(5)), Endpoint("wss", Some(0))>> \in Seq(EndpointType)
        /\ <<Endpoint("wss", None), Endpoint("http", None)>> \in Seq(EndpointType)
    BY <1>2, <2>1 DEF Url
  <2>4. \A x \in Seq(EndpointType) : Some(x) \in Optional(Seq(EndpointType))
    BY Options
  <2> QED BY <1>1, <2>2, <2>3, <2>4
<1> QED BY <1>1, <1>3 DEF Sources, SourceType

LEMMA ChainEditsTyped ==
  ASSUME NEW c \in ChainType PROVE ChainEdits(c) \subseteq ChainType
<1>1. DefaultPipeline \in PipelineType
  BY WorkingFileTyped DEF WorkingFile, FileType
<1>2. /\ \A x \in SourceType : Some(x) \in Optional(SourceType)
      /\ \A x \in PipelineType : Some(x) \in Optional(PipelineType)
      /\ None \in Optional(SourceType) /\ None \in Optional(PipelineType)
      /\ {None, Some("ws"), Some("http")} \subseteq Optional(Url)
  BY Options DEF Url
<1> SUFFICES ASSUME NEW d \in ChainEdits(c) PROVE d \in ChainType
  OBVIOUS
<1>3. CASE \E x \in {"", "a", "b"} : d = [c EXCEPT !.id = x]
  BY <1>3 DEF ChainType
<1>7. CASE \E x \in {None, Some("ws"), Some("http")} : d = [c EXCEPT !.ws_url = x]
  BY <1>2, <1>7 DEF ChainType
<1>8. CASE d = [c EXCEPT !.start_block = 7]
  BY <1>8 DEF ChainType
<1>4. CASE \E x \in {None} \cup {Some(s) : s \in Sources} : d = [c EXCEPT !.source = x]
  <2>1. {None} \cup {Some(s) : s \in Sources} \subseteq Optional(SourceType)
    BY <1>2, SourcesTyped
  <2> QED BY <1>4, <2>1 DEF ChainType
<1>5. CASE \E x \in {None, Some(DefaultPipeline)} : d = [c EXCEPT !.pipeline = x]
  BY <1>1, <1>2, <1>5 DEF ChainType
<1>6. CASE c.pipeline # None /\ \E p \in PipelineEdits(Lone(c.pipeline)) :
             d = [c EXCEPT !.pipeline = Some(p)]
  <2>1. Lone(c.pipeline) \in PipelineType
    BY <1>6, Options DEF ChainType
  <2>2. PICK p \in PipelineType : d = [c EXCEPT !.pipeline = Some(p)]
    BY <1>6, <2>1, PipelineEditsTyped
  <2> QED BY <1>2, <2>2 DEF ChainType
<1> DEFINE own == IF c.pipeline = None THEN {}
                  ELSE {[c EXCEPT !.pipeline = Some(p)] : p \in PipelineEdits(Lone(c.pipeline))}
<1>0. \A A, B, C, D, E, F : d \in UNION {A, B, C, D, E, F} =>
        d \in A \/ d \in B \/ d \in C \/ d \in D \/ d \in E \/ d \in F
  OBVIOUS
<1>9. \/ d \in {[c EXCEPT !.id = x] : x \in {"", "a", "b"}}
      \/ d \in {[c EXCEPT !.ws_url = x] : x \in {None, Some("ws"), Some("http")}}
      \/ d \in {[c EXCEPT !.source = x] : x \in {None} \cup {Some(s) : s \in Sources}}
      \/ d \in {[c EXCEPT !.start_block = 7]}
      \/ d \in {[c EXCEPT !.pipeline = x] : x \in {None, Some(DefaultPipeline)}}
      \/ d \in own
  BY <1>0, Zenon DEF ChainEdits
<1>10. d \in own => c.pipeline # None /\ \E p \in PipelineEdits(Lone(c.pipeline)) :
                                         d = [c EXCEPT !.pipeline = Some(p)]
  BY Zenon
<1> HIDE DEF own
<1>11. \/ \E x \in {"", "a", "b"} : d = [c EXCEPT !.id = x]
       \/ \E x \in {None, Some("ws"), Some("http")} : d = [c EXCEPT !.ws_url = x]
       \/ \E x \in {None} \cup {Some(s) : s \in Sources} : d = [c EXCEPT !.source = x]
       \/ d = [c EXCEPT !.start_block = 7]
       \/ \E x \in {None, Some(DefaultPipeline)} : d = [c EXCEPT !.pipeline = x]
       \/ d \in own
  BY <1>9, Zenon
<1> QED BY <1>3, <1>4, <1>5, <1>6, <1>7, <1>8, <1>10, <1>11, Zenon

LEMMA EditKeepsTypes == ASSUME file \in FileType, Edit PROVE file' \in FileType
<1>1. /\ file.chains \in Seq(ChainType) /\ file.pipeline \in PipelineType
      /\ file = [chains |-> file.chains, pipeline |-> file.pipeline]
  BY DEF FileType
<1>2. CASE file' = [file EXCEPT !.chains = <<>>]
  <2>1. <<>> \in Seq(ChainType)
    OBVIOUS
  <2> QED BY <1>1, <1>2, <2>1 DEF FileType
<1>3. CASE \E p \in PipelineEdits(file.pipeline) : file' = [file EXCEPT !.pipeline = p]
  BY <1>1, <1>3, PipelineEditsTyped DEF FileType
<1>4. CASE \E i \in DOMAIN file.chains : \E c \in ChainEdits(file.chains[i]) :
             file' = [file EXCEPT !.chains[i] = c]
  <2>0. PICK i \in DOMAIN file.chains : \E c \in ChainEdits(file.chains[i]) :
               file' = [file EXCEPT !.chains[i] = c]
    BY <1>4
  <2>1. PICK c \in ChainEdits(file.chains[i]) : file' = [file EXCEPT !.chains[i] = c]
    BY <2>0
  <2>2. file.chains[i] \in ChainType
    BY <1>1
  <2>3. c \in ChainType
    BY <2>2, ChainEditsTyped
  <2>4. [file.chains EXCEPT ![i] = c] \in Seq(ChainType)
    BY <1>1, <2>3
  <2>5. file' = [file EXCEPT !.chains = [file.chains EXCEPT ![i] = c]]
    BY <2>1
  <2> QED BY <1>1, <2>4, <2>5 DEF FileType
<1>5. \/ file' = [file EXCEPT !.chains = <<>>]
      \/ \E p \in PipelineEdits(file.pipeline) : file' = [file EXCEPT !.pipeline = p]
      \/ \E i \in DOMAIN file.chains : \E c \in ChainEdits(file.chains[i]) :
             file' = [file EXCEPT !.chains[i] = c]
  <2> DEFINE own(i) == {[file EXCEPT !.chains[i] = c] : c \in ChainEdits(file.chains[i])}
             edited == {[file EXCEPT !.pipeline = p] : p \in PipelineEdits(file.pipeline)}
  <2>1. file' \in {[file EXCEPT !.chains = <<>>]} \cup edited
                  \cup UNION {own(i) : i \in DOMAIN file.chains}
    BY DEF Edit
  <2> HIDE DEF own, edited
  <2>2. \/ file' = [file EXCEPT !.chains = <<>>] \/ file' \in edited
        \/ \E i \in DOMAIN file.chains : file' \in own(i)
    BY <2>1, Zenon
  <2>3. file' \in edited =>
          \E p \in PipelineEdits(file.pipeline) : file' = [file EXCEPT !.pipeline = p]
    BY Zenon DEF edited
  <2>4. \A i : file' \in own(i) =>
          \E c \in ChainEdits(file.chains[i]) : file' = [file EXCEPT !.chains[i] = c]
    BY Zenon DEF own
  <2> QED BY <2>2, <2>3, <2>4, Zenon
<1> QED BY <1>2, <1>3, <1>4, <1>5

LEMMA NodesTyped ==
  /\ \A es \in Seq(EndpointType) : Node(es) \in ParsedSourceType
  /\ \A u \in Url : <<Endpoint(u, None)>> \in Seq(EndpointType)
<1>1. <<>> \in Path
  BY DEF Path
<1>2. \A u \in Url : Endpoint(u, None) \in EndpointType
  BY Options DEF Endpoint, EndpointType
<1> QED BY <1>1, <1>2 DEF Node, ParsedSourceType

LEMMA ParsedSourceTyped ==
  ASSUME NEW s \in SourceType, SourceParses(s) PROVE ParsedSource(s) \in ParsedSourceType
<1>1. /\ s.type \in {"rpc", "light-client"} /\ s.spec \in Path
      /\ s.url \in Optional(Url) /\ s.endpoints \in Optional(Seq(EndpointType))
  BY DEF SourceType
<1>2. CASE s.type = "light-client"
  <2>1. <<>> \in Seq(EndpointType)
    OBVIOUS
  <2> QED BY <1>1, <1>2, <2>1 DEF ParsedSource, ParsedSourceType
<1>3. CASE s.type # "light-client" /\ s.url # None
  <2>1. Lone(s.url) \in Url
    BY <1>1, <1>3, Options
  <2> QED BY <1>3, <2>1, NodesTyped DEF ParsedSource
<1>4. CASE s.type # "light-client" /\ s.url = None
  <2>1. Lone(s.endpoints) \in Seq(EndpointType)
    BY <1>1, <1>4, Options DEF SourceParses
  <2> QED BY <1>4, <2>1, NodesTyped DEF ParsedSource
<1> QED BY <1>2, <1>3, <1>4

LEMMA ParsedChainTyped ==
  ASSUME NEW c \in ChainType, ChainParses(c) PROVE ParsedChain(c) \in ParsedChainType
<1>1. /\ c.ws_url \in Optional(Url) /\ c.source \in Optional(SourceType)
      /\ c.id \in {"", "a", "b"} /\ c.start_block \in Nat
      /\ c.pipeline \in Optional(PipelineType)
  BY DEF ChainType
<1>4. c.source = None => Node(<<Endpoint(Lone(c.ws_url), None)>>) \in ParsedSourceType
  <2>1. c.source = None => Lone(c.ws_url) \in Url
    BY <1>1, Options DEF ChainParses
  <2> QED BY <2>1, NodesTyped
<1>5. c.source # None => ParsedSource(Lone(c.source)) \in ParsedSourceType
  BY <1>1, Options, ParsedSourceTyped DEF ChainParses
<1>6. (IF c.source = None THEN Node(<<Endpoint(Lone(c.ws_url), None)>>)
       ELSE ParsedSource(Lone(c.source))) \in ParsedSourceType
  BY <1>4, <1>5
<1> QED BY <1>1, <1>6 DEF ParsedChain, ParsedChainType

LEMMA JoinedAbsolute ==
  ASSUME NEW path \in Path PROVE Joined(path) \in Path /\ Head(Joined(path)) = "/"
<1>1. Base \in Path /\ Len(Base) = 2 /\ Base[1] = "/"
  BY DEF Base, Path
<1>2. Base \o path \in Path /\ (Base \o path)[1] = "/" /\ Base \o path # <<>>
  <2> DEFINE Words == {"/", "etc", "hot", "cold", "spec", "gone"}
             base == Base
  <2>1. base \in Seq(Words) /\ path \in Seq(Words) /\ Len(base) = 2 /\ base[1] = "/"
    BY <1>1 DEF Path
  <2> HIDE DEF Words, base
  <2>2. /\ base \o path \in Seq(Words) /\ Len(base \o path) = 2 + Len(path)
        /\ 1 \in 1 .. 2 + Len(path) => (base \o path)[1] = base[1]
    <3>1. /\ base \o path \in Seq(Words) /\ Len(base \o path) = Len(base) + Len(path)
          /\ \A i \in 1 .. Len(base) + Len(path) :
               (base \o path)[i] = IF i <= Len(base) THEN base[i] ELSE path[i - Len(base)]
      BY <2>1, ConcatProperties
    <3> QED BY <2>1, <3>1
  <2>3. Len(path) \in Nat
    BY <2>1
  <2>4. (base \o path)[1] = "/" /\ base \o path # <<>>
    BY <2>1, <2>2, <2>3
  <2> QED BY <2>2, <2>4 DEF Words, base, Path
<1>3. CASE path # <<>> /\ Head(path) = "/"
  BY <1>3 DEF Joined
<1>4. CASE ~(path # <<>> /\ Head(path) = "/")
  <2>1. Joined(path) = Base \o path
    BY <1>4, Zenon DEF Joined
  <2>2. Head(Base \o path) = (Base \o path)[1]
    BY <1>2 DEF Path
  <2> QED BY <1>2, <2>1, <2>2
<1> QED BY <1>3, <1>4

LEMMA ResolvedReady ==
  ASSUME NEW c \in ParsedChainType, config.pipeline \in PipelineType, SpecExists(c)
  PROVE  Ready(ResolvedChain(c))
<1> DEFINE p == Inherited(c)
           q == Located(p)
<1>1. p \in PipelineType
  BY Options DEF ParsedChainType, Inherited
<1>2. p.hot_path \in Path /\ p.cold_path \in Optional(Path)
  BY <1>1 DEF PipelineType
<1>3. Joined(p.hot_path) \in Path /\ Head(Joined(p.hot_path)) = "/"
  BY <1>2, JoinedAbsolute
<1>4. (IF p.cold_path = None THEN None ELSE Some(Joined(Lone(p.cold_path)))) \in Optional(Path)
  <2>1. p.cold_path # None => Joined(Lone(p.cold_path)) \in Path
    BY <1>2, Options, JoinedAbsolute
  <2> QED BY <2>1, Options
<1>5. q \in PipelineType /\ Head(q.hot_path) = "/"
  BY <1>1, <1>3, <1>4 DEF Located, PipelineType
<1> HIDE DEF p, q
<1>6. /\ ResolvedChain(c).pipeline = Some(q)
      /\ ResolvedChain(c).source.type = c.source.type
      /\ ResolvedChain(c).source.spec = SpecPath(c.source)
  BY DEF ResolvedChain, ParsedChainType, ParsedSourceType, p, q
<1> QED BY <1>5, <1>6, Options DEF Ready, SpecExists

LEMMA SettingsCorrect == SettingsInit /\ [][SettingsNext]_settingsVars => []SettingsInv
<1>1. SettingsInit => SettingsInv
  BY WorkingFileTyped, SettingsAssumption DEF SettingsInit, SettingsInv
<1>2. SettingsInv /\ [SettingsNext]_settingsVars => SettingsInv'
  <2> SUFFICES ASSUME SettingsInv, [SettingsNext]_settingsVars PROVE SettingsInv'
    OBVIOUS
  <2>1. CASE Edit
    <3>1. file' \in FileType
      BY <2>1, EditKeepsTypes DEF SettingsInv
    <3> QED BY <2>1, <3>1, SettingsAssumption DEF Edit, SettingsInv
  <2>2. CASE Parse
    <3>1. file \in FileType /\ file.chains \in Seq(ChainType) /\ file.pipeline \in PipelineType
      BY DEF SettingsInv, FileType
    <3>2. CASE \A i \in DOMAIN file.chains : ChainParses(file.chains[i])
      <4> DEFINE parsed == [i \in DOMAIN file.chains |-> ParsedChain(file.chains[i])]
      <4>1. \A i \in DOMAIN file.chains : ParsedChain(file.chains[i]) \in ParsedChainType
        BY <3>1, <3>2, ParsedChainTyped
      <4>2. parsed \in Seq(ParsedChainType)
        BY <3>1, <4>1
      <4>3. config' = [chains |-> parsed, pipeline |-> file.pipeline] /\ load' = "parsed"
        BY <2>2, <3>2 DEF Parse
      <4> HIDE DEF parsed
      <4>4. config' \in ParsedType
        BY <3>1, <4>2, <4>3 DEF ParsedType
      <4> QED BY <2>2, <4>3, <4>4 DEF Parse, SettingsInv
    <3>3. CASE ~\A i \in DOMAIN file.chains : ChainParses(file.chains[i])
      BY <2>2, <3>3 DEF Parse, SettingsInv
    <3> QED BY <3>2, <3>3
  <2>3. CASE Resolve
    <3>1. config \in ParsedType
      BY <2>3 DEF Resolve, SettingsInv
    <3>2. config.chains \in Seq(ParsedChainType) /\ config.pipeline \in PipelineType
      BY <3>1 DEF ParsedType
    <3>3. CASE \A i \in DOMAIN config.chains : SpecExists(config.chains[i])
      <4> DEFINE resolved == [i \in DOMAIN config.chains |-> ResolvedChain(config.chains[i])]
      <4>1. \A i \in DOMAIN config.chains : Ready(ResolvedChain(config.chains[i]))
        BY <3>2, <3>3, ResolvedReady
      <4>2. /\ resolved \in Seq({ResolvedChain(config.chains[i]) : i \in DOMAIN config.chains})
            /\ DOMAIN resolved = DOMAIN config.chains
        BY <3>2
      <4>3. config' = [config EXCEPT !.chains = resolved] /\ load' = "resolved"
        BY <2>3, <3>3 DEF Resolve
      <4>4. \A i \in DOMAIN resolved : Ready(resolved[i])
        BY <4>1, <4>2
      <4> HIDE DEF resolved
      <4>5. config'.chains = resolved
        BY <3>1, <4>3 DEF ParsedType
      <4>6. \E S : config'.chains \in Seq(S)
        BY <4>2, <4>5
      <4> QED BY <2>3, <4>3, <4>4, <4>5, <4>6 DEF Resolve, SettingsInv
    <3>4. CASE ~\A i \in DOMAIN config.chains : SpecExists(config.chains[i])
      BY <2>3, <3>4 DEF Resolve, SettingsInv
    <3> QED BY <3>3, <3>4
  <2>4. CASE Validate
    BY <2>4 DEF Validate, SettingsInv
  <2>5. CASE UNCHANGED settingsVars
    BY <2>5 DEF settingsVars, SettingsInv
  <2> QED BY <2>1, <2>2, <2>3, <2>4, <2>5 DEF SettingsNext
<1> QED BY <1>1, <1>2, PTL

LEMMA DistinctAreCounted ==
  ASSUME NEW n \in Nat, NEW f, f = [i \in 1 .. n |-> f[i]],
         \A i, j \in 1 .. n : f[i] = f[j] => i = j
  PROVE  Cardinality({f[i] : i \in 1 .. n}) = n
<1> DEFINE S == {f[i] : i \in 1 .. n}
<1>1. f \in Bijection(1 .. n, S)
  BY DEF Bijection, Injection, Surjection, IsInjective
<1>2. ExistsBijection(1 .. n, S)
  BY <1>1 DEF ExistsBijection
<1> HIDE DEF S
<1>3. Cardinality(S) = n
  BY <1>2, FS_CountingElements
<1> QED BY <1>3 DEF S

LEMMA ReadyRuns ==
  ASSUME NEW c, Ready(c), SourceValid(c), PipelineValid(Lone(c.pipeline)) PROVE RunsOn(c)
<1> DEFINE p == Lone(c.pipeline)
<1>1. p \in PipelineType /\ c.pipeline # None /\ Head(p.hot_path) = "/"
  BY DEF Ready
<1> HIDE DEF p
<1>2. {p.segment_size, p.chunk_size, p.digest_batch} \subseteq Nat \ {0}
  BY <1>1 DEF PipelineValid, PipelineType, p
<1>3. p.cold_path # Some(p.hot_path)
  BY <1>1, Options DEF PipelineValid, ColdValid, p
<1>4. p.max_digest_lag # Some(0)
  BY DEF PipelineValid, p
<1>5. c.source.type = "rpc" =>
        /\ c.source.endpoints # <<>>
        /\ \A i \in DOMAIN c.source.endpoints : c.source.endpoints[i].max_rps # Some(0)
  BY DEF SourceValid, EndpointsValid
<1>6. c.source.type = "light-client" => c.start_block = 0 /\ c.source.spec \in ChainSpecs
  BY DEF Ready, SourceValid
<1> QED BY <1>1, <1>2, <1>3, <1>4, <1>5, <1>6 DEF RunsOn, p

(***************************************************************************)
(* Every chain of an accepted file gives the stages what their models      *)
(* assume of it, and no two chains have one id (`TryFrom', `resolve',      *)
(* `validate').                                                            *)
(***************************************************************************)
LEMMA WhatIsAccepted == SettingsInv => AcceptedRuns
<1> SUFFICES ASSUME SettingsInv, load = "accepted" PROVE AcceptedRuns
  BY DEF AcceptedRuns
<1> DEFINE cs == config.chains
           id == [i \in 1 .. Len(cs) |-> cs[i].id]
<1>1. /\ \E S : cs \in Seq(S)
      /\ \A i \in DOMAIN cs : Ready(cs[i])
      /\ ChainsValid(cs)
  BY DEF SettingsInv
<1>2. DOMAIN cs = 1 .. Len(cs) /\ Len(cs) \in Nat
  BY <1>1
<1> HIDE DEF cs
<1>3. \A i \in DOMAIN cs : RunsOn(cs[i])
  BY <1>1, ReadyRuns DEF ChainsValid, Ready
<1>4. \A i, j \in 1 .. Len(cs) : id[i] = id[j] => i = j
  BY <1>1, <1>2 DEF ChainsValid
<1>5. {id[i] : i \in 1 .. Len(cs)} = {cs[i].id : i \in DOMAIN cs}
  BY <1>2
<1>6. id = [i \in 1 .. Len(cs) |-> id[i]]
  OBVIOUS
<1> HIDE DEF id
<1>7. Cardinality({id[i] : i \in 1 .. Len(cs)}) = Len(cs)
  BY <1>2, <1>4, <1>6, DistinctAreCounted
<1>8. cs # <<>>
  BY <1>1 DEF ChainsValid
<1>9. Cardinality({cs[i].id : i \in DOMAIN cs}) = Len(cs)
  BY <1>5, <1>7
<1> QED BY <1>3, <1>8, <1>9 DEF AcceptedRuns, cs

LEMMA DurationsRoundTrip ==
  ASSUME NEW seconds \in 0 .. WordSize - 1
  PROVE  ParsedDuration(WrittenDuration(seconds)) = seconds
<1> DEFINE exact == {u \in DOMAIN Units : seconds # 0 /\ seconds % Units[u] = 0}
           unit == IF exact = {} THEN 1 ELSE CHOOSE u \in exact : \A v \in exact : v <= u
<1>1. DOMAIN Units = 1 .. 4 /\ Units[1] = 1 /\ Units[2] = 60 /\ Units[3] = 3600 /\ Units[4] = 86400
  BY DEF Units
<1>2. unit \in 1 .. 4 /\ seconds % Units[unit] = 0
  <2>1. CASE exact = {}
    BY <1>1, <2>1
  <2>2. CASE exact # {}
    <3>1. exact \subseteq 1 .. 4
      BY <1>1
    <3>2. \E u \in exact : \A v \in exact : v <= u
      <4> HIDE DEF exact
      <4>1. PICK u \in exact : u \in {1, 2, 3, 4}
        <5>1. exact # {}
          BY <2>2 DEF exact
        <5>2. PICK u : u \in exact
          BY <5>1, Zenon
        <5>3. u \in 1 .. 4
          BY <3>1, <5>2
        <5> QED BY <5>2, <5>3
      <4>2. \/ 4 \in exact
            \/ 4 \notin exact /\ 3 \in exact
            \/ 4 \notin exact /\ 3 \notin exact /\ 2 \in exact
            \/ 4 \notin exact /\ 3 \notin exact /\ 2 \notin exact /\ 1 \in exact
        BY <4>1
      <4> QED BY <3>1, <4>2
    <3>3. unit \in exact
      <4> HIDE DEF exact
      <4> QED BY <2>2, <3>2
    <3> QED BY <1>1, <3>3
  <2> QED BY <2>1, <2>2
<1> HIDE DEF unit
<1>3. (seconds \div Units[unit]) * Units[unit] = seconds
  BY <1>1, <1>2
<1>4. WrittenDuration(seconds) = [value |-> seconds \div Units[unit], unit |-> unit]
  BY DEF WrittenDuration, unit
<1>5. seconds % WordSize = seconds
  BY SettingsAssumption
<1> QED BY <1>3, <1>4, <1>5 DEF ParsedDuration

(***************************************************************************)
(* The retention in force, written back and read again, is the same time.  *)
(***************************************************************************)
LEMMA WhatIsWrittenBack == SettingsInv => RetentionKept
<1> SUFFICES ASSUME SettingsInv, load = "accepted", NEW i \in DOMAIN config.chains
             PROVE  LET seconds == ParsedDuration(Lone(config.chains[i].pipeline).retention)
                    IN  ParsedDuration(WrittenDuration(seconds)) = seconds
  BY DEF RetentionKept
<1> DEFINE text == Lone(config.chains[i].pipeline).retention
<1>1. text \in [value : Nat, unit : 1 .. 4]
  BY DEF SettingsInv, Ready, PipelineType
<1> HIDE DEF text
<1>2. text.value * Units[text.unit] \in Nat
  <2>1. Units[text.unit] \in Nat /\ text.value \in Nat
    BY <1>1 DEF Units
  <2> QED BY <2>1
<1>3. ParsedDuration(text) \in 0 .. WordSize - 1
  BY <1>2, SettingsAssumption DEF ParsedDuration
<1> QED BY <1>3, DurationsRoundTrip DEF text

-----------------------------------------------------------------------------
(***************************************************************************)
(* The rows of a block.  What is said of sequences is said of the sets of  *)
(* what is in them; the order of events decides nothing, as no extrinsic   *)
(* reports two outcomes or two fees.                                       *)
(***************************************************************************)
Occur(s) == {s[j] : j \in DOMAIN s}

EventType ==
  [phase : {"Initialization", "ApplyExtrinsic", "Finalization"}, ext : Int,
   variant : {"Other", "TransactionFeePaid", "ExtrinsicSuccess", "ExtrinsicFailed"},
   amount : Int]

LEMMA OccurJoined ==
  ASSUME NEW S, NEW s \in Seq(S), NEW t \in Seq(S)
  PROVE  /\ s \o t \in Seq(S)
         /\ Occur(s \o t) = Occur(s) \cup Occur(t)
<1>1. /\ s \o t \in Seq(S) /\ Len(s \o t) = Len(s) + Len(t)
      /\ \A i \in 1 .. Len(s) + Len(t) : (s \o t)[i] = IF i <= Len(s) THEN s[i] ELSE t[i - Len(s)]
      /\ DOMAIN s = 1 .. Len(s) /\ DOMAIN t = 1 .. Len(t)
      /\ DOMAIN (s \o t) = 1 .. Len(s) + Len(t) /\ Len(s) \in Nat /\ Len(t) \in Nat
  OBVIOUS
<1> DEFINE u == s \o t
<1>2. ASSUME NEW e, e \in Occur(u) PROVE e \in Occur(s) \cup Occur(t)
  <2>1. PICK i \in 1 .. Len(s) + Len(t) : e = u[i]
    BY <1>1, <1>2 DEF Occur
  <2>2. CASE i <= Len(s)
    BY <1>1, <2>1, <2>2 DEF Occur
  <2>3. CASE i > Len(s)
    <3>1. i - Len(s) \in 1 .. Len(t) /\ e = t[i - Len(s)]
      BY <1>1, <2>1, <2>3
    <3> QED BY <1>1, <3>1 DEF Occur
  <2> QED BY <1>1, <2>2, <2>3
<1>3. ASSUME NEW e, e \in Occur(s) \cup Occur(t) PROVE e \in Occur(u)
  <2>1. CASE e \in Occur(s)
    <3>1. PICK i \in 1 .. Len(s) : e = s[i]
      BY <1>1, <2>1 DEF Occur
    <3> QED BY <1>1, <3>1 DEF Occur
  <2>2. CASE e \in Occur(t)
    <3>1. PICK i \in 1 .. Len(t) : e = t[i]
      BY <1>1, <2>2 DEF Occur
    <3>2. i + Len(s) \in 1 .. Len(s) + Len(t) /\ e = u[i + Len(s)]
      BY <1>1, <3>1
    <3> QED BY <1>1, <3>2 DEF Occur
  <2> QED BY <1>3, <2>1, <2>2
<1> QED BY <1>1, <1>2, <1>3

LEMMA Flattened ==
  ASSUME NEW S, NEW seqs \in Seq(Seq(S))
  PROVE  /\ FlattenSeq(seqs) \in Seq(S)
         /\ Occur(FlattenSeq(seqs)) = UNION {Occur(seqs[i]) : i \in DOMAIN seqs}
<1>0. Len(seqs) \in Nat /\ DOMAIN seqs = 1 .. Len(seqs) /\ \A i \in 1 .. Len(seqs) : seqs[i] \in Seq(S)
  OBVIOUS
<1>1. CASE Len(seqs) = 0
  <2>1. seqs = <<>> /\ FlattenSeq(seqs) = seqs
    BY <1>1 DEF FlattenSeq
  <2>2. DOMAIN seqs = {}
    BY <1>0, <1>1
  <2>3. Occur(seqs) = {}
    BY <2>2 DEF Occur
  <2>4. UNION {Occur(seqs[i]) : i \in DOMAIN seqs} = {}
    BY <2>2
  <2>5. seqs \in Seq(S)
    BY <2>1
  <2> QED BY <2>1, <2>3, <2>4, <2>5
<1>2. CASE Len(seqs) # 0
  <2> DEFINE X == 1 .. Len(seqs)
             D == Seq(S)
             rank == [i \in X |-> i - 1]
             prev == [i \in X |-> IF i = 1 THEN 1 ELSE i - 1]
             base == [i \in X |-> seqs[i]]
             step == [i \in X |-> [d \in D |-> d \o seqs[i]]]
             Is(f) == f = [i \in X |-> IF i = 1 THEN seqs[i] ELSE f[i - 1] \o seqs[i]]
  <2>1. Ranked(X, rank, prev)
    BY <1>0, <1>2 DEF Ranked
  <2>2. base \in [X -> D]
    BY <1>0
  <2>3. step \in [X -> [D -> D]]
    <3>1. \A i \in X : \A d \in D : d \o seqs[i] \in D
      BY <1>0
    <3> QED BY <3>1
  <2>4. \A i \in X : rank[i] = i - 1 /\ (i # 1 => prev[i] = i - 1)
    OBVIOUS
  <2>5. \A i \in X : base[i] = seqs[i] /\ \A d \in D : step[i][d] = d \o seqs[i]
    OBVIOUS
  <2>6. \A i \in X : i \in Int /\ (i # 1 => i - 1 \in X) /\ prev[i] \in X
    BY <1>0
  <2> HIDE DEF rank, prev, base, step, D
  <2>7. PICK g \in [X -> D] : \A i \in X : Follows(X, rank, prev, base, step, g, i)
    BY <2>1, <2>2, <2>3, RankRecursion
  <2>8. \A i \in X : g[i] = IF i = 1 THEN seqs[i] ELSE g[i - 1] \o seqs[i]
    <3> SUFFICES ASSUME NEW i \in X PROVE g[i] = IF i = 1 THEN seqs[i] ELSE g[i - 1] \o seqs[i]
      OBVIOUS
    <3>1. g[i] = IF rank[i] = 0 THEN base[i] ELSE step[i][g[prev[i]]]
      BY <2>7 DEF Follows
    <3>2. g[prev[i]] \in D
      BY <2>6, <2>7
    <3>3. CASE i = 1
      BY <2>4, <2>5, <2>6, <3>1, <3>3
    <3>4. CASE i # 1
      <4>1. rank[i] # 0 /\ prev[i] = i - 1
        BY <2>4, <2>6, <3>4
      <4>2. step[i][g[i - 1]] = g[i - 1] \o seqs[i]
        BY <2>5, <3>2, <4>1
      <4> QED BY <3>1, <3>4, <4>1, <4>2
    <3> QED BY <3>3, <3>4
  <2>9. g = [i \in X |-> g[i]]
    BY <2>7
  <2> HIDE DEF X
  <2>10. Is(g)
    BY <2>8, <2>9, Zenon
  <2> DEFINE f == CHOOSE f : Is(f)
  <2>11. Is(f)
    BY <2>10
  <2>12. FlattenSeq(seqs) = f[Len(seqs)]
    BY <1>2 DEF FlattenSeq, X
  <2> HIDE DEF f
  <2>13. \A i \in X : f[i] = IF i = 1 THEN seqs[i] ELSE f[i - 1] \o seqs[i]
    BY <2>11
  <2> DEFINE G == {i \in X : f[i] \in D /\ Occur(f[i]) = UNION {Occur(seqs[k]) : k \in 1 .. i}}
  <2>14. \A i \in X : rank[i] = 0 => i \in G
    <3> SUFFICES ASSUME NEW i \in X, rank[i] = 0 PROVE i \in G
      OBVIOUS
    <3>0. i = 1
      BY <2>4, <2>6
    <3>1. i = 1 /\ f[i] = seqs[i] /\ 1 .. i = {1}
      BY <2>13, <3>0
    <3> QED BY <1>0, <3>1 DEF X, D
  <2>15. \A i \in X : rank[i] # 0 /\ prev[i] \in G => i \in G
    <3> SUFFICES ASSUME NEW i \in X, rank[i] # 0, prev[i] \in G PROVE i \in G
      OBVIOUS
    <3>0. i # 1 /\ prev[i] = i - 1
      BY <2>4, <2>6
    <3>1. i - 1 \in G /\ i - 1 \in X /\ f[i] = f[i - 1] \o seqs[i] /\ i \in Int
      BY <2>6, <2>13, <3>0
    <3>2. f[i - 1] \in D /\ seqs[i] \in Seq(S)
      BY <1>0, <3>1 DEF X
    <3>3. f[i] \in Seq(S) /\ Occur(f[i]) = Occur(f[i - 1]) \cup Occur(seqs[i])
      BY <3>1, <3>2, OccurJoined DEF D
    <3>4. 1 .. i = (1 .. (i - 1)) \cup {i}
      BY <3>1 DEF X
    <3> DEFINE P(n) == UNION {Occur(seqs[k]) : k \in 1 .. n}
    <3>5. P(i) = P(i - 1) \cup Occur(seqs[i])
      BY <3>4
    <3> QED BY <3>1, <3>3, <3>5 DEF D
  <2> HIDE DEF G
  <2>16. X \subseteq G
    BY <2>1, <2>14, <2>15, RankInduction
  <2>17. Len(seqs) \in G
    BY <1>0, <1>2, <2>16 DEF X
  <2> QED BY <1>0, <2>12, <2>17 DEF G, D
<1> QED BY <1>1, <1>2

(* What an extrinsic deposits. *)
OwnEvent(e, i, x) ==
  \/ x.pays # Nothing /\ e = Event("ApplyExtrinsic", i, "TransactionFeePaid", x.pays)
  \/ x.ends # "silently" /\ e = Event("ApplyExtrinsic", i, x.ends, Nothing)

LEMMA EventTyped ==
  ASSUME NEW phase \in {"Initialization", "ApplyExtrinsic", "Finalization"}, NEW i \in Int,
         NEW variant \in {"Other", "TransactionFeePaid", "ExtrinsicSuccess", "ExtrinsicFailed"},
         NEW amount \in Int
  PROVE  /\ Event(phase, i, variant, amount) \in EventType
         /\ <<Event(phase, i, variant, amount)>> \in Seq(EventType)
         /\ Occur(<<Event(phase, i, variant, amount)>>) = {Event(phase, i, variant, amount)}
<1> DEFINE e == Event(phase, i, variant, amount)
<1>1. e \in EventType
  BY DEF EventType, Event
<1> HIDE DEF e
<1>2. <<e>> \in Seq(EventType)
  BY <1>1
<1>3. Occur(<<e>>) = {e}
  <2>1. DOMAIN <<e>> = {1} /\ <<e>>[1] = e
    OBVIOUS
  <2> QED BY <2>1 DEF Occur
<1> QED BY <1>1, <1>2, <1>3 DEF e

LEMMA OwnEvents ==
  ASSUME NEW i \in Int, NEW x \in Applied
  PROVE  /\ EventsOf(i, x) \in Seq(EventType)
         /\ \A e : e \in Occur(EventsOf(i, x)) <=> OwnEvent(e, i, x)
<1> DEFINE fee == Event("ApplyExtrinsic", i, "TransactionFeePaid", x.pays)
           end == Event("ApplyExtrinsic", i, x.ends, Nothing)
           s == IF x.pays = Nothing THEN <<>> ELSE <<fee>>
           t == IF x.ends = "silently" THEN <<>> ELSE <<end>>
<1>1. x.pays \in Int /\ x.ends \in {"silently", "ExtrinsicSuccess", "ExtrinsicFailed"}
  BY DEF Applied, Raw
<1>2. fee \in EventType /\ <<fee>> \in Seq(EventType) /\ Occur(<<fee>>) = {fee}
  BY <1>1, EventTyped
<1>3. x.ends # "silently" => <<end>> \in Seq(EventType) /\ Occur(<<end>>) = {end}
  BY <1>1, EventTyped DEF Nothing
<1>4. <<>> \in Seq(EventType) /\ Occur(<<>>) = {}
  BY DEF Occur
<1>5. EventsOf(i, x) = s \o t
  BY DEF EventsOf
<1> HIDE DEF fee, end
<1>6. s \in Seq(EventType) /\ \A e : e \in Occur(s) <=> x.pays # Nothing /\ e = fee
  BY <1>2, <1>4
<1>7. t \in Seq(EventType) /\ \A e : e \in Occur(t) <=> x.ends # "silently" /\ e = end
  BY <1>3, <1>4
<1> HIDE DEF s, t
<1>8. s \o t \in Seq(EventType) /\ Occur(s \o t) = Occur(s) \cup Occur(t)
  BY <1>6, <1>7, OccurJoined
<1>9. \A e : OwnEvent(e, i, x) <=> \/ x.pays # Nothing /\ e = fee
                                   \/ x.ends # "silently" /\ e = end
  BY DEF OwnEvent, fee, end
<1> QED BY <1>5, <1>6, <1>7, <1>8, <1>9

LEMMA WhatIsDeposited ==
  ASSUME NEW body \in Seq(Applied)
  PROVE  /\ Deposited(body) \in Seq(EventType)
         /\ \A e \in Occur(Deposited(body)) :
              \/ e.phase # "ApplyExtrinsic" /\ e.ext = -1
              \/ \E i \in 1 .. Len(body) : OwnEvent(e, i - 1, body[i])
         /\ \A i \in 1 .. Len(body) : \A e :
              OwnEvent(e, i - 1, body[i]) => e \in Occur(Deposited(body))
<1> DEFINE first == <<Event("Initialization", -1, "Other", Nothing)>>
           last == <<Event("Finalization", -1, "Other", Nothing)>>
           seqs == [i \in 1 .. Len(body) |-> EventsOf(i - 1, body[i])]
<1>1. first \in Seq(EventType) /\ last \in Seq(EventType)
      /\ Occur(first) = {Event("Initialization", -1, "Other", Nothing)}
      /\ Occur(last) = {Event("Finalization", -1, "Other", Nothing)}
  BY EventTyped DEF Nothing
<1>2. Len(body) \in Nat /\ \A i \in 1 .. Len(body) : body[i] \in Applied
  OBVIOUS
<1>3. \A i \in 1 .. Len(body) : seqs[i] \in Seq(EventType)
         /\ \A e : e \in Occur(seqs[i]) <=> OwnEvent(e, i - 1, body[i])
  BY <1>2, OwnEvents
<1>4. seqs \in Seq(Seq(EventType)) /\ DOMAIN seqs = 1 .. Len(body)
  BY <1>2, <1>3
<1>5. Deposited(body) = first \o FlattenSeq(seqs) \o last
  BY DEF Deposited
<1> HIDE DEF first, last, seqs
<1> DEFINE mid == FlattenSeq(seqs)
<1>6. mid \in Seq(EventType) /\ Occur(mid) = UNION {Occur(seqs[i]) : i \in DOMAIN seqs}
  BY <1>4, Flattened
<1> HIDE DEF mid
<1>7. first \o mid \in Seq(EventType) /\ Occur(first \o mid) = Occur(first) \cup Occur(mid)
  BY <1>1, <1>6, OccurJoined
<1> DEFINE front == first \o mid
<1>a. front \in Seq(EventType)
  BY <1>7
<1> HIDE DEF front
<1>8. front \o last \in Seq(EventType) /\ Occur(front \o last) = Occur(front) \cup Occur(last)
  BY <1>1, <1>a, OccurJoined
<1>9. /\ Deposited(body) \in Seq(EventType)
      /\ Occur(Deposited(body)) = Occur(first) \cup Occur(mid) \cup Occur(last)
  BY <1>5, <1>7, <1>8 DEF front, mid
<1>10. ASSUME NEW e \in Occur(Deposited(body))
       PROVE  \/ e.phase # "ApplyExtrinsic" /\ e.ext = -1
              \/ \E i \in 1 .. Len(body) : OwnEvent(e, i - 1, body[i])
  <2>1. CASE e \in Occur(mid)
    <3>1. PICK i \in 1 .. Len(body) : e \in Occur(seqs[i])
      BY <1>4, <1>6, <2>1
    <3> QED BY <1>3, <3>1
  <2>2. CASE e \in Occur(first) \cup Occur(last)
    BY <1>1, <2>2 DEF Event
  <2> QED BY <1>9, <2>1, <2>2
<1>11. ASSUME NEW i \in 1 .. Len(body), NEW e, OwnEvent(e, i - 1, body[i])
       PROVE  e \in Occur(Deposited(body))
  <2>1. e \in Occur(seqs[i])
    BY <1>3, <1>11
  <2>2. e \in Occur(mid)
    BY <1>4, <1>6, <2>1
  <2> QED BY <1>9, <2>2
<1> QED BY <1>9, <1>10, <1>11

(***************************************************************************)
(* What the outcomes tell of a set of events.                              *)
(***************************************************************************)
OutcomeType == [ext : Int, success : BOOLEAN, fee : Int]

Applies(e, i) == e.phase = "ApplyExtrinsic" /\ e.ext = i

FeeOf(e, i) == Applies(e, i) /\ e.variant = "TransactionFeePaid"

FailureOf(e, i) == Applies(e, i) /\ e.variant = "ExtrinsicFailed"

OneStory(E) ==
  /\ E \subseteq EventType
  /\ \A i \in Int : \A e, f \in E :
       /\ FailureOf(e, i) /\ Applies(f, i) => f.variant # "ExtrinsicSuccess"
       /\ FeeOf(e, i) /\ FeeOf(f, i) => e.amount = f.amount

TellsOf(o, E) ==
  /\ o.success <=> \A e \in E : ~FailureOf(e, o.ext)
  /\ \A e \in E : FeeOf(e, o.ext) => o.fee = extract_fee(e)
  /\ (\A e \in E : ~FeeOf(e, o.ext)) => o.fee = Nothing

Tally(outcomes, E) ==
  /\ outcomes \in Seq(OutcomeType)
  /\ \A k, l \in DOMAIN outcomes : outcomes[k].ext = outcomes[l].ext => k = l
  /\ \A e \in E : e.phase = "ApplyExtrinsic" => \E k \in DOMAIN outcomes : outcomes[k].ext = e.ext
  /\ \A k \in DOMAIN outcomes : TellsOf(outcomes[k], E)

(* An event that is not of the extrinsic changes nothing of its outcome. *)
LEMMA OthersTell ==
  ASSUME NEW E, NEW e, NEW o, TellsOf(o, E), ~Applies(e, o.ext)
  PROVE  TellsOf(o, E \cup {e})
BY DEF TellsOf, Applies, FailureOf, FeeOf

RecordedIn(o, event) ==
  CASE event.variant = "ExtrinsicFailed"    -> [o EXCEPT !.success = FALSE]
    [] event.variant = "ExtrinsicSuccess"   -> [o EXCEPT !.success = TRUE]
    [] event.variant = "TransactionFeePaid" -> [o EXCEPT !.fee = extract_fee(event)]
    [] OTHER -> o

LEMMA OwnTells ==
  ASSUME NEW E, NEW e, OneStory(E \cup {e}), NEW o \in OutcomeType,
         \/ TellsOf(o, E)
         \/ o.success /\ o.fee = Nothing /\ \A f \in E : ~Applies(f, o.ext),
         Applies(e, o.ext)
  PROVE  /\ RecordedIn(o, e) \in OutcomeType /\ RecordedIn(o, e).ext = o.ext
         /\ TellsOf(RecordedIn(o, e), E \cup {e})
<1>1. e \in EventType /\ o.ext \in Int /\ o.success \in BOOLEAN /\ o.fee \in Int
      /\ o = [ext |-> o.ext, success |-> o.success, fee |-> o.fee]
  BY DEF OneStory, OutcomeType
<1>2. e.amount \in Int /\ e.variant \in {"Other", "TransactionFeePaid", "ExtrinsicSuccess",
                                         "ExtrinsicFailed"}
  BY <1>1 DEF EventType
<1>3. extract_fee(e) \in Int
  BY <1>2 DEF extract_fee, Nothing
<1>4. TellsOf(o, E)
  BY DEF TellsOf, FailureOf, FeeOf
<1>5. CASE e.variant = "ExtrinsicFailed"
  <2>1. RecordedIn(o, e) = [ext |-> o.ext, success |-> FALSE, fee |-> o.fee]
    BY <1>1, <1>5 DEF RecordedIn
  <2>2. FailureOf(e, o.ext) /\ ~FeeOf(e, o.ext)
    BY <1>5 DEF FailureOf, FeeOf
  <2> QED BY <1>1, <1>4, <2>1, <2>2 DEF TellsOf, OutcomeType
<1>6. CASE e.variant = "ExtrinsicSuccess"
  <2>1. RecordedIn(o, e) = [ext |-> o.ext, success |-> TRUE, fee |-> o.fee]
    BY <1>1, <1>6 DEF RecordedIn
  <2>2. ~FailureOf(e, o.ext) /\ ~FeeOf(e, o.ext)
    BY <1>6 DEF FailureOf, FeeOf
  <2>3. \A f \in E : ~FailureOf(f, o.ext)
    BY <1>1, <1>6 DEF OneStory
  <2> QED BY <1>1, <1>4, <2>1, <2>2, <2>3 DEF TellsOf, OutcomeType
<1>7. CASE e.variant = "TransactionFeePaid"
  <2>1. RecordedIn(o, e) = [ext |-> o.ext, success |-> o.success, fee |-> extract_fee(e)]
    BY <1>1, <1>7 DEF RecordedIn
  <2>2. ~FailureOf(e, o.ext) /\ FeeOf(e, o.ext)
    BY <1>7 DEF FailureOf, FeeOf
  <2>3. \A f \in E \cup {e} : FeeOf(f, o.ext) => extract_fee(f) = extract_fee(e)
    BY <1>1, <2>2 DEF OneStory, extract_fee
  <2> QED BY <1>1, <1>3, <1>4, <2>1, <2>2, <2>3 DEF TellsOf, OutcomeType
<1>8. CASE e.variant = "Other"
  <2>1. RecordedIn(o, e) = o
    BY <1>8 DEF RecordedIn
  <2>2. ~FailureOf(e, o.ext) /\ ~FeeOf(e, o.ext)
    BY <1>8 DEF FailureOf, FeeOf
  <2> QED BY <1>4, <2>1, <2>2 DEF TellsOf
<1> QED BY <1>2, <1>5, <1>6, <1>7, <1>8

LEMMA RecordedTyped ==
  ASSUME NEW outcomes \in Seq(OutcomeType), NEW e \in EventType
  PROVE  Recorded(outcomes, e) \in Seq(OutcomeType)
<1> DEFINE new == [ext |-> e.ext, success |-> TRUE, fee |-> Nothing]
           all == IF \E k \in DOMAIN outcomes : outcomes[k].ext = e.ext THEN outcomes
                  ELSE Append(outcomes, new)
           After1 == [k \in DOMAIN all |->
                       IF all[k].ext # e.ext THEN all[k] ELSE RecordedIn(all[k], e)]
<1>1. e.phase = "ApplyExtrinsic" => Recorded(outcomes, e) = After1
  BY DEF Recorded, record_outcome, RecordedIn
<1>2. new \in OutcomeType
  BY DEF OutcomeType, Nothing, EventType
<1> HIDE DEF new
<1>3. all \in Seq(OutcomeType)
  BY <1>2
<1> HIDE DEF all
<1>4. DOMAIN all = 1 .. Len(all) /\ Len(all) \in Nat
  BY <1>3
<1>5. ASSUME NEW k \in DOMAIN all PROVE After1[k] \in OutcomeType
  <2> DEFINE o == all[k]
  <2>1. o \in OutcomeType
    BY <1>3
  <2>2. extract_fee(e) \in Int
    BY DEF extract_fee, Nothing, EventType
  <2> HIDE DEF o
  <2>3. RecordedIn(o, e) \in OutcomeType
    BY <2>1, <2>2 DEF RecordedIn, OutcomeType
  <2> QED BY <2>1, <2>3 DEF o
<1>6. After1 \in [1 .. Len(all) -> OutcomeType]
  BY <1>4, <1>5
<1>7. After1 \in Seq(OutcomeType)
  BY <1>4, <1>6, SeqDef
<1> HIDE DEF After1
<1> QED BY <1>1, <1>7 DEF Recorded

LEMMA RecordedTallies ==
  ASSUME NEW E, NEW e, NEW outcomes, Tally(outcomes, E), OneStory(E \cup {e})
  PROVE  Tally(Recorded(outcomes, e), E \cup {e})
<1>1. CASE e.phase # "ApplyExtrinsic"
  <2>1. Recorded(outcomes, e) = outcomes
    BY <1>1 DEF Recorded
  <2>2. \A k \in DOMAIN outcomes : TellsOf(outcomes[k], E \cup {e})
    BY <1>1, OthersTell DEF Tally, Applies
  <2> QED BY <1>1, <2>1, <2>2 DEF Tally
<1>2. CASE e.phase = "ApplyExtrinsic"
  <2> DEFINE found == \E k \in DOMAIN outcomes : outcomes[k].ext = e.ext
             new == [ext |-> e.ext, success |-> TRUE, fee |-> Nothing]
             all == IF found THEN outcomes ELSE Append(outcomes, new)
             After1 == [k \in DOMAIN all |->
                         IF all[k].ext # e.ext THEN all[k] ELSE RecordedIn(all[k], e)]
  <2>1. Recorded(outcomes, e) = After1
    BY <1>2 DEF Recorded, record_outcome, RecordedIn
  <2>2. e \in EventType /\ e.ext \in Int
    BY DEF OneStory, EventType
  <2>3. new \in OutcomeType /\ new.ext = e.ext /\ new.success /\ new.fee = Nothing
    BY <2>2 DEF OutcomeType, Nothing
  <2> HIDE DEF new
  <2>4. outcomes \in Seq(OutcomeType) /\ Len(outcomes) \in Nat /\ DOMAIN outcomes = 1 .. Len(outcomes)
    BY DEF Tally
  <2>5. /\ all \in Seq(OutcomeType) /\ DOMAIN all = 1 .. Len(all) /\ Len(all) \in Nat
        /\ \A k, l \in DOMAIN all : all[k].ext = all[l].ext => k = l
        /\ \E k \in DOMAIN all : all[k].ext = e.ext
        /\ \A k \in DOMAIN outcomes : k \in DOMAIN all /\ all[k] = outcomes[k]
        /\ \A k \in DOMAIN all :
             \/ TellsOf(all[k], E)
             \/ all[k].success /\ all[k].fee = Nothing /\ \A f \in E : ~Applies(f, all[k].ext)
        /\ \A k \in DOMAIN all : TellsOf(all[k], E) \/ all[k].ext = e.ext
    <3>1. CASE found
      BY <2>4, <3>1 DEF Tally
    <3>2. CASE ~found
      <4>1. all = Append(outcomes, new)
        BY <3>2
      <4>2. /\ all \in Seq(OutcomeType) /\ Len(all) = Len(outcomes) + 1
            /\ DOMAIN all = 1 .. Len(outcomes) + 1
            /\ all[Len(outcomes) + 1] = new
            /\ \A k \in 1 .. Len(outcomes) : all[k] = outcomes[k]
        <5>1. Append(outcomes, new) \in Seq(OutcomeType) /\ Len(Append(outcomes, new)) = Len(outcomes) + 1
          BY <2>3, <2>4
        <5>2. \A k \in 1 .. Len(outcomes) : Append(outcomes, new)[k] = outcomes[k]
          BY <2>3, <2>4
        <5>3. Append(outcomes, new)[Len(outcomes) + 1] = new
          BY <2>3, <2>4
        <5>4. DOMAIN Append(outcomes, new) = 1 .. Len(outcomes) + 1
          BY <2>3, <2>4
        <5> HIDE DEF all
        <5> QED BY <4>1, <5>1, <5>2, <5>3, <5>4
      <4> HIDE DEF all
      <4>3. \A f \in E : ~Applies(f, e.ext)
        BY <3>2 DEF Tally, Applies
      <4>4. \A k \in 1 .. Len(outcomes) : outcomes[k].ext # e.ext
        BY <2>4, <3>2
      <4>5. \A k \in DOMAIN all : k \in 1 .. Len(outcomes) \/ k = Len(outcomes) + 1
        BY <2>4, <4>2
      <4>6. \A k, l \in DOMAIN all : all[k].ext = all[l].ext => k = l
        BY <2>3, <2>4, <4>2, <4>4, <4>5 DEF Tally
      <4>7. \E k \in DOMAIN all : all[k].ext = e.ext
        BY <2>3, <2>4, <4>2
      <4>8. \A k \in DOMAIN outcomes : k \in DOMAIN all /\ all[k] = outcomes[k]
        BY <2>4, <4>2
      <4>9. ASSUME NEW k \in DOMAIN all
            PROVE  /\ \/ TellsOf(all[k], E)
                      \/ all[k].success /\ all[k].fee = Nothing /\ \A f \in E : ~Applies(f, all[k].ext)
                   /\ TellsOf(all[k], E) \/ all[k].ext = e.ext
        <5>1. CASE k \in 1 .. Len(outcomes)
          BY <2>4, <4>2, <5>1 DEF Tally
        <5>2. CASE k = Len(outcomes) + 1
          BY <2>3, <4>2, <4>3, <5>2
        <5> QED BY <4>5, <5>1, <5>2
      <4>10. DOMAIN all = 1 .. Len(all) /\ Len(all) \in Nat
        BY <2>4, <4>2
      <4> QED BY <4>2, <4>6, <4>7, <4>8, <4>9, <4>10
    <3> QED BY <3>1, <3>2
  <2> HIDE DEF all
  <2>6. ASSUME NEW k \in DOMAIN all
        PROVE  After1[k] \in OutcomeType /\ After1[k].ext = all[k].ext /\ TellsOf(After1[k], E \cup {e})
    <3>1. all[k] \in OutcomeType
      BY <2>5
    <3>2. CASE all[k].ext # e.ext
      <4>1. After1[k] = all[k] /\ TellsOf(all[k], E) /\ ~Applies(e, all[k].ext)
        BY <2>5, <3>2 DEF Applies
      <4> QED BY <3>1, <4>1, OthersTell
    <3>3. CASE all[k].ext = e.ext
      <4>1. After1[k] = RecordedIn(all[k], e) /\ Applies(e, all[k].ext)
        BY <1>2, <3>3 DEF Applies
      <4>2. \/ TellsOf(all[k], E)
            \/ all[k].success /\ all[k].fee = Nothing /\ \A f \in E : ~Applies(f, all[k].ext)
        BY <2>5
      <4> DEFINE o == all[k]
      <4>3. o \in OutcomeType /\ Applies(e, o.ext)
            /\ \/ TellsOf(o, E)
               \/ o.success /\ o.fee = Nothing /\ \A f \in E : ~Applies(f, o.ext)
        BY <3>1, <4>1, <4>2
      <4> HIDE DEF o
      <4>4. /\ RecordedIn(o, e) \in OutcomeType /\ RecordedIn(o, e).ext = o.ext
            /\ TellsOf(RecordedIn(o, e), E \cup {e})
        BY <4>3, OwnTells
      <4> QED BY <4>1, <4>4 DEF o
    <3> QED BY <3>2, <3>3
  <2>7. DOMAIN After1 = DOMAIN all
    OBVIOUS
  <2>8. After1 \in Seq(OutcomeType)
    <3>1. \A k \in 1 .. Len(all) : After1[k] \in OutcomeType
      BY <2>5, <2>6
    <3>2. After1 \in [1 .. Len(all) -> OutcomeType]
      BY <2>5, <3>1
    <3> QED BY <2>5, <3>2, SeqDef
  <2> HIDE DEF After1
  <2>9. \A k, l \in DOMAIN After1 : After1[k].ext = After1[l].ext => k = l
    BY <2>5, <2>6, <2>7
  <2>10. ASSUME NEW f \in E \cup {e}, f.phase = "ApplyExtrinsic"
         PROVE  \E k \in DOMAIN After1 : After1[k].ext = f.ext
    <3>1. CASE f = e
      BY <2>5, <2>6, <2>7, <3>1
    <3>2. CASE f \in E
      <4>1. PICK k \in DOMAIN outcomes : outcomes[k].ext = f.ext
        BY <2>10, <3>2 DEF Tally
      <4> QED BY <2>5, <2>6, <2>7, <4>1
    <3> QED BY <3>1, <3>2
  <2> QED BY <2>1, <2>6, <2>7, <2>8, <2>9, <2>10 DEF Tally
<1> QED BY <1>1, <1>2

(* `outcomes' after all events, whatever their order. *)
LEMMA OutcomesTally ==
  ASSUME NEW d \in Seq(EventType), OneStory(Occur(d))
  PROVE  Tally(Outcomes(d), Occur(d))
<1> DEFINE N == DOMAIN d
           X == SUBSET N
           top == [s \in X |-> Max(s)]
           T == [s \in X |-> {d[j] : j \in s}]
           D == Seq(OutcomeType)
           rank == [s \in X |-> Cardinality(s)]
           prev == [s \in X |-> IF s = {} THEN {} ELSE s \ {top[s]}]
           Ok(s, v) == Tally(v, T[s])
           Is(f) == f = [s \in X |-> IF s = {} THEN <<>> ELSE Recorded(f[s \ {Max(s)}], d[Max(s)])]
<1>1. N = 1 .. Len(d) /\ Len(d) \in Nat /\ \A j \in N : d[j] \in EventType
  OBVIOUS
<1>2. IsFiniteSet(N)
  BY <1>1, FS_Interval
<1>3. ASSUME NEW s \in X, s # {} PROVE top[s] \in s /\ \A k \in s : top[s] >= k
  <2> DEFINE B == {Len(d) - j : j \in s}
  <2>1. B \in SUBSET Nat /\ B # {}
    BY <1>1, <1>3
  <2>2. PICK b \in B : \A y \in B : b <= y
    BY <2>1, LeastOf
  <2>3. PICK j \in s : b = Len(d) - j
    BY <2>2
  <2>4. \A k \in s : j >= k
    <3> SUFFICES ASSUME NEW k \in s PROVE j >= k
      OBVIOUS
    <3>1. Len(d) - k \in B
      OBVIOUS
    <3>2. b <= Len(d) - k
      BY <2>2, <3>1
    <3>3. j \in Int /\ k \in Int /\ Len(d) \in Int
      BY <1>1
    <3> HIDE DEF B
    <3> QED BY <2>3, <3>2, <3>3
  <2>5. top[s] = CHOOSE x \in s : \A y \in s : x >= y
    BY DEF Max
  <2> HIDE DEF top
  <2> QED BY <2>3, <2>4, <2>5
<1>4. ASSUME NEW s \in X
      PROVE  /\ IsFiniteSet(s) /\ Cardinality(s) \in Nat /\ (Cardinality(s) = 0 <=> s = {})
             /\ s # {} => s \ {top[s]} \in X /\ Cardinality(s \ {top[s]}) = Cardinality(s) - 1
  <2>1. IsFiniteSet(s) /\ Cardinality(s) \in Nat /\ (Cardinality(s) = 0 <=> s = {})
    BY <1>2, FS_Subset, FS_CardinalityType, FS_EmptySet
  <2>2. s # {} => Cardinality(s \ {top[s]}) = Cardinality(s) - 1
    <3> DEFINE x == top[s]
    <3>1. s # {} => x \in s
      BY <1>3
    <3> HIDE DEF x
    <3>2. s # {} => Cardinality(s \ {x}) = Cardinality(s) - 1
      BY <2>1, <3>1, FS_RemoveElement
    <3> QED BY <3>2 DEF x
  <2> QED BY <2>1, <2>2
<1> DEFINE base == [s \in X |-> <<>>]
           step == [s \in X |-> [v \in D |-> IF s = {} THEN v ELSE Recorded(v, d[top[s]])]]
<1>5. Ranked(X, rank, prev)
  <2>1. rank \in [X -> Nat] /\ prev \in [X -> X]
    BY <1>4
  <2>2. ASSUME NEW s \in X, rank[s] # 0 PROVE rank[prev[s]] < rank[s]
    <3>1. s # {} /\ prev[s] = s \ {top[s]}
      BY <1>4, <2>2
    <3>2. rank[prev[s]] = Cardinality(s) - 1 /\ rank[s] = Cardinality(s) /\ Cardinality(s) \in Nat
      BY <1>4, <3>1
    <3> HIDE DEF rank, prev
    <3> QED BY <3>2
  <2> QED BY <2>1, <2>2 DEF Ranked
<1>6. base \in [X -> D]
  OBVIOUS
<1>7. step \in [X -> [D -> D]]
  <2>1. ASSUME NEW s \in X, NEW v \in D, s # {} PROVE Recorded(v, d[top[s]]) \in D
    <3>1. top[s] \in N
      BY <1>3, <2>1
    <3>2. d[top[s]] \in EventType
      BY <1>1, <3>1
    <3> QED BY <3>2, RecordedTyped
  <2> QED BY <2>1
<1>8. \A s \in X : /\ rank[s] = 0 <=> s = {}
                   /\ s # {} => prev[s] = s \ {top[s]}
                   /\ base[s] = <<>>
                   /\ \A v \in D : s # {} => step[s][v] = Recorded(v, d[top[s]])
  BY <1>4
<1>9. \A s \in X : s # {} => s \ {top[s]} \in X
  BY <1>4
<1> HIDE DEF rank, prev, base, step
<1>10. PICK g \in [X -> D] : \A s \in X : Follows(X, rank, prev, base, step, g, s)
  BY <1>5, <1>6, <1>7, RankRecursion
<1>11. \A s \in X : g[s] = IF s = {} THEN <<>> ELSE Recorded(g[s \ {top[s]}], d[top[s]])
  <2> SUFFICES ASSUME NEW s \in X
               PROVE  g[s] = IF s = {} THEN <<>> ELSE Recorded(g[s \ {top[s]}], d[top[s]])
    OBVIOUS
  <2>1. g[s] = IF rank[s] = 0 THEN base[s] ELSE step[s][g[prev[s]]]
    BY <1>10 DEF Follows
  <2>2. CASE s = {}
    BY <1>8, <2>1, <2>2
  <2>3. CASE s # {}
    <3>1. s \ {top[s]} \in X /\ prev[s] = s \ {top[s]} /\ rank[s] # 0
      BY <1>8, <1>9, <2>3
    <3>2. g[prev[s]] \in D
      BY <1>10, <3>1
    <3>3. step[s][g[prev[s]]] = Recorded(g[prev[s]], d[top[s]])
      BY <1>8, <2>3, <3>2
    <3> HIDE DEF top
    <3> QED BY <2>1, <2>3, <3>1, <3>3
  <2> QED BY <2>2, <2>3
<1>12. Is(g)
  <2>1. g = [s \in X |-> g[s]]
    BY <1>10
  <2>2. \A s \in X : g[s] = IF s = {} THEN <<>> ELSE Recorded(g[s \ {Max(s)}], d[Max(s)])
    BY <1>11
  <2> HIDE DEF X
  <2> QED BY <2>1, <2>2, Zenon
<1> DEFINE f == CHOOSE f : Is(f)
<1>13. Is(f)
  BY <1>12
<1>14. Outcomes(d) = f[N]
  BY DEF Outcomes, FoldLeft, MapThenFoldSet
<1> HIDE DEF f
<1>15. \A s \in X : f[s] = IF s = {} THEN <<>> ELSE Recorded(f[s \ {top[s]}], d[top[s]])
  BY <1>13
<1> DEFINE G == {s \in X : Ok(s, f[s])}
<1>16. \A s \in X : rank[s] = 0 => s \in G
  <2> SUFFICES ASSUME NEW s \in X, rank[s] = 0 PROVE Ok(s, f[s])
    OBVIOUS
  <2>1. s = {} /\ f[s] = <<>> /\ T[s] = {}
    <3>1. s = {}
      BY <1>8
    <3> QED BY <1>15, <3>1
  <2>2. Tally(<<>>, {})
    BY DEF Tally
  <2> QED BY <2>1, <2>2
<1>17. \A s \in X : rank[s] # 0 /\ prev[s] \in G => s \in G
  <2> SUFFICES ASSUME NEW s \in X, rank[s] # 0, prev[s] \in G PROVE Ok(s, f[s])
    OBVIOUS
  <2> DEFINE x == top[s]
             r == s \ {x}
             e == d[x]
  <2>1. s # {} /\ prev[s] = r /\ r \in X /\ x \in s /\ x \in N
    BY <1>3, <1>8, <1>9
  <2>2. f[s] = Recorded(f[r], e) /\ Tally(f[r], T[r])
    BY <1>15, <2>1
  <2>3. T[s] = T[r] \cup {e} /\ T[s] \subseteq Occur(d)
    BY <2>1 DEF Occur
  <2>4. OneStory(T[s])
    <3> DEFINE E == T[s]
    <3>1. E \subseteq Occur(d)
      BY <2>3
    <3> HIDE DEF E
    <3>2. OneStory(E)
      BY <3>1 DEF OneStory
    <3> QED BY <3>2 DEF E
  <2> DEFINE v == f[r]
             E == T[r]
  <2> HIDE DEF v, E, e
  <2>5. Tally(v, E) /\ OneStory(E \cup {e})
    BY <2>2, <2>3, <2>4 DEF v, E
  <2>6. Tally(Recorded(v, e), E \cup {e})
    BY <2>5, RecordedTallies
  <2> QED BY <2>2, <2>3, <2>6 DEF v, E
<1> HIDE DEF G
<1>18. X \subseteq G
  BY <1>5, <1>16, <1>17, RankInduction
<1>19. T[N] = Occur(d)
  BY DEF Occur
<1> QED BY <1>14, <1>18, <1>19 DEF G

LEMMA OneStoryOfBlock ==
  ASSUME NEW body \in Seq(Applied)
  PROVE  OneStory(Occur(Deposited(body)))
<1> DEFINE E == Occur(Deposited(body))
<1>1. /\ E \subseteq EventType
      /\ \A e \in E : \/ e.phase # "ApplyExtrinsic" /\ e.ext = -1
                      \/ \E i \in 1 .. Len(body) : OwnEvent(e, i - 1, body[i])
  <2>1. Deposited(body) \in Seq(EventType)
    BY WhatIsDeposited
  <2>2. \A j \in DOMAIN Deposited(body) : Deposited(body)[j] \in EventType
    BY <2>1
  <2> QED BY <2>2, WhatIsDeposited DEF Occur
<1> HIDE DEF E
<1>2. ASSUME NEW i \in Int, NEW e \in E, Applies(e, i)
      PROVE  /\ i + 1 \in 1 .. Len(body)
             /\ \/ e.variant = "TransactionFeePaid" /\ e.amount = body[i + 1].pays
                \/ e.variant = body[i + 1].ends
             /\ body[i + 1].ends \in {"silently", "ExtrinsicSuccess", "ExtrinsicFailed"}
  <2>1. PICK k \in 1 .. Len(body) : OwnEvent(e, k - 1, body[k])
    BY <1>1, <1>2 DEF Applies
  <2>2. e.ext = k - 1
    BY <2>1 DEF OwnEvent, Event
  <2>3. k = i + 1
    BY <1>2, <2>2 DEF Applies
  <2>4. body[k] \in Applied
    OBVIOUS
  <2> QED BY <2>1, <2>3, <2>4 DEF OwnEvent, Event, Applied
<1>3. ASSUME NEW i \in Int, NEW e \in E, NEW f \in E, FailureOf(e, i), Applies(f, i)
      PROVE  f.variant # "ExtrinsicSuccess"
  BY <1>2, <1>3 DEF FailureOf
<1>4. ASSUME NEW i \in Int, NEW e \in E, NEW f \in E, FeeOf(e, i), FeeOf(f, i)
      PROVE  e.amount = f.amount
  BY <1>2, <1>4 DEF FeeOf
<1> QED BY <1>1, <1>3, <1>4 DEF OneStory, E

(* The row of an extrinsic tells what became of it. *)
LEMMA RowOfExtrinsic ==
  ASSUME NEW n, NEW body \in Seq(Applied), NEW i \in 1 .. Len(body)
  PROVE  LET r == ExtrinsicRow(n, body, i - 1)
         IN  /\ r.block = n /\ r.idx = i - 1 /\ r.call = body[i].call /\ r.raw = body[i].raw
             /\ r.success <=> body[i].ends # "ExtrinsicFailed"
             /\ r.fee = IF body[i].pays = Raw THEN Nothing ELSE body[i].pays
             /\ r.signer = "null" <=> body[i].origin = "none"
<1> DEFINE d == Deposited(body)
           outcomes == Outcomes(d)
           own == OutcomeOf(outcomes, i - 1)
           x == body[i]
           E == Occur(d)
           r == ExtrinsicRow(n, body, i - 1)
<1>0. x \in Applied /\ i - 1 \in Int /\ i \in Int
  OBVIOUS
<1>1. Tally(outcomes, E)
  BY WhatIsDeposited, OneStoryOfBlock, OutcomesTally
<1>2. \A e : OwnEvent(e, i - 1, x) => e \in E
  BY WhatIsDeposited
<1>3. \A e \in E : Applies(e, i - 1) => OwnEvent(e, i - 1, x)
  <2> SUFFICES ASSUME NEW e \in E, Applies(e, i - 1) PROVE OwnEvent(e, i - 1, x)
    OBVIOUS
  <2>1. PICK k \in 1 .. Len(body) : OwnEvent(e, k - 1, body[k])
    BY WhatIsDeposited DEF Applies
  <2>2. e.ext = k - 1
    BY <2>1 DEF OwnEvent, Event
  <2>3. k = i
    BY <1>0, <2>2 DEF Applies
  <2> QED BY <2>1, <2>3
<1>4. /\ r.block = n /\ r.idx = i - 1 /\ r.call = x.call /\ r.raw = x.raw
      /\ r.signer = encode_signer(x.origin)
      /\ r.success <=> \A k \in own : outcomes[k].success
      /\ r.fee = IF own = {} THEN Nothing ELSE outcomes[CHOOSE k \in own : TRUE].fee
  <2>1. body[i - 1 + 1] = x
    BY <1>0
  <2> QED BY <2>1 DEF ExtrinsicRow
<1>5. own = {k \in DOMAIN outcomes : outcomes[k].ext = i - 1}
  BY DEF OutcomeOf
<1> HIDE DEF d, outcomes, own, x, E, r
<1>6. r.signer = "null" <=> x.origin = "none"
  BY <1>0, <1>4 DEF encode_signer, Applied
<1>7. \A k \in own : TellsOf(outcomes[k], E) /\ outcomes[k].ext = i - 1
  BY <1>1, <1>5 DEF Tally
<1>8. own = {} => \A e \in E : ~Applies(e, i - 1)
  BY <1>1, <1>5 DEF Tally, Applies
<1>9. (\E e \in E : FailureOf(e, i - 1)) <=> x.ends = "ExtrinsicFailed"
  <2>1. ASSUME NEW e \in E, FailureOf(e, i - 1) PROVE x.ends = "ExtrinsicFailed"
    <3>1. OwnEvent(e, i - 1, x) /\ e.variant = "ExtrinsicFailed"
      BY <1>3, <2>1 DEF FailureOf
    <3> QED BY <3>1 DEF OwnEvent, Event
  <2>2. ASSUME x.ends = "ExtrinsicFailed" PROVE \E e \in E : FailureOf(e, i - 1)
    <3> DEFINE e == Event("ApplyExtrinsic", i - 1, x.ends, Nothing)
    <3>1. e \in E
      BY <1>2, <2>2 DEF OwnEvent
    <3>2. FailureOf(e, i - 1)
      BY <2>2 DEF FailureOf, Applies, Event
    <3> QED BY <3>1, <3>2
  <2> QED BY <2>1, <2>2
<1>10. r.success <=> x.ends # "ExtrinsicFailed"
  <2>1. CASE own = {}
    BY <1>4, <1>8, <1>9, <2>1 DEF FailureOf
  <2>2. CASE own # {}
    <3>1. \A k \in own : outcomes[k].success <=> \A e \in E : ~FailureOf(e, i - 1)
      BY <1>7 DEF TellsOf
    <3> QED BY <1>4, <1>9, <2>2, <3>1
  <2> QED BY <2>1, <2>2
<1>11. r.fee = IF x.pays = Raw THEN Nothing ELSE x.pays
  <2> DEFINE fee == Event("ApplyExtrinsic", i - 1, "TransactionFeePaid", x.pays)
  <2>1. FeeOf(fee, i - 1) /\ Applies(fee, i - 1)
        /\ extract_fee(fee) = IF x.pays = Raw THEN Nothing ELSE x.pays
    BY DEF FeeOf, Applies, Event, extract_fee
  <2>2. x.pays # Nothing => fee \in E
    BY <1>2 DEF OwnEvent
  <2>3. x.pays = Nothing => \A e \in E : ~FeeOf(e, i - 1)
    <3> SUFFICES ASSUME x.pays = Nothing, NEW e \in E, FeeOf(e, i - 1) PROVE FALSE
      OBVIOUS
    <3>1. OwnEvent(e, i - 1, x) /\ e.variant = "TransactionFeePaid"
      BY <1>3 DEF FeeOf
    <3> QED BY <1>0, <3>1 DEF OwnEvent, Event, Applied
  <2> HIDE DEF fee
  <2>4. CASE own = {}
    <3>1. x.pays = Nothing
      BY <1>8, <2>1, <2>2, <2>4
    <3> QED BY <1>4, <2>4, <3>1
  <2>5. CASE own # {}
    <3> DEFINE k == CHOOSE k \in own : TRUE
    <3>1. k \in own
      BY <2>5
    <3>2. r.fee = outcomes[k].fee
      BY <1>4, <2>5
    <3> HIDE DEF k
    <3>3. TellsOf(outcomes[k], E) /\ outcomes[k].ext = i - 1
      BY <1>7, <3>1
    <3> DEFINE o == outcomes[k]
    <3>4. TellsOf(o, E) /\ o.ext = i - 1 /\ r.fee = o.fee
      BY <3>2, <3>3
    <3> HIDE DEF o
    <3>5. CASE x.pays = Nothing
      BY <2>3, <3>4, <3>5 DEF TellsOf
    <3>6. CASE x.pays # Nothing
      BY <2>1, <2>2, <3>4, <3>6 DEF TellsOf
    <3> QED BY <3>5, <3>6
  <2> QED BY <2>4, <2>5
<1>12. r.block = n /\ r.idx = i - 1 /\ r.call = body[i].call /\ r.raw = body[i].raw
  BY <1>4 DEF x
<1> QED BY <1>6, <1>10, <1>11, <1>12 DEF r, x

(* The inherent sets the timestamp, and no later call another. *)
LEMMA TimestampOfBlock ==
  ASSUME NEW body \in Seq(Applied), body # <<>>, body[1].call = "Timestamp.set", ~body[1].raw
  PROVE  Timestamp(body) = body[1].now
<1> DEFINE R == {i \in DOMAIN body : body[i].call = "Timestamp.set" /\ ~body[i].raw}
<1>1. 1 \in R /\ \A i \in R : i \in Int /\ 1 <= i
  OBVIOUS
<1>2. Timestamp(body) = IF R = {} THEN Nothing
                        ELSE body[CHOOSE i \in R : \A j \in R : i <= j].now
  BY DEF Timestamp
<1> HIDE DEF R
<1>3. \A i \in R : (\A j \in R : i <= j) => i = 1
  BY <1>1
<1>4. (CHOOSE i \in R : \A j \in R : i <= j) = 1
  BY <1>1, <1>3
<1> QED BY <1>1, <1>2, <1>4

(* As many rows as there are indexes. *)
LEMMA RowsCounted ==
  ASSUME NEW N \in Nat, NEW row, NEW added, added = {row[j] : j \in 1 .. N},
         \A j, k \in 1 .. N : row[j] = row[k] => j = k
  PROVE  Cardinality(added) = N
<1> DEFINE S == 1 .. N
           f == [j \in S |-> row[j]]
<1>1. f \in Bijection(S, added)
  BY DEF Bijection, Injection, Surjection, IsInjective
<1>2. ExistsBijection(S, added)
  BY <1>1 DEF ExistsBijection
<1>3. IsFiniteSet(S) /\ Cardinality(S) = N
  BY FS_Interval
<1> HIDE DEF S
<1> QED BY <1>2, <1>3, FS_Bijection

-----------------------------------------------------------------------------
(***************************************************************************)
(* The tables hold the rows of some of the blocks, whole, and no others:   *)
(* which ones, batches and --from decide.                                  *)
(***************************************************************************)
ExtrinsicRows(n, body) == {ExtrinsicRow(n, body, i) : i \in 0 .. Len(body) - 1}

EventRows(n, body) == {EventRow(n, body, j) : j \in 1 .. Len(Deposited(body))}

Written(W) ==
  /\ blocks = {BlockRow(n, applied[n]) : n \in W}
  /\ extrinsics = UNION {ExtrinsicRows(n, applied[n]) : n \in W}
  /\ events = UNION {EventRows(n, applied[n]) : n \in W}

DecodingTypeOK == applied \in Seq(Bodies) /\ cursor \in 0 .. Len(applied)

DecodingInv == DecodingTypeOK /\ \E W \in SUBSET (1 .. Len(applied)) : Written(W)

(* What is there already is the row that would be inserted. *)
LEMMA InsertedAll ==
  ASSUME NEW table, NEW added,
         \A old \in table, r \in added :
            <<old.block, old.idx>> = <<r.block, r.idx>> => old = r
  PROVE  Inserted(table, added) = table \cup added
BY DEF Inserted

LEMMA KeysOfRows ==
  ASSUME NEW n, NEW body
  PROVE  /\ \A r \in ExtrinsicRows(n, body) :
              r.block = n /\ r.idx \in 0 .. Len(body) - 1 /\ r = ExtrinsicRow(n, body, r.idx)
         /\ \A r \in EventRows(n, body) :
              r.block = n /\ r.idx + 1 \in 1 .. Len(Deposited(body)) /\ r = EventRow(n, body, r.idx + 1)
<1>1. \A i \in 0 .. Len(body) - 1 : LET r == ExtrinsicRow(n, body, i) IN r.block = n /\ r.idx = i
  BY DEF ExtrinsicRow
<1>2. \A j \in 1 .. Len(Deposited(body)) :
        LET r == EventRow(n, body, j) IN r.block = n /\ r.idx = j - 1 /\ r.idx + 1 = j
  BY DEF EventRow
<1> QED BY <1>1, <1>2 DEF ExtrinsicRows, EventRows

LEMMA SameBlocksWritten ==
  ASSUME NEW W, Written(W),
         applied' = applied, blocks' = blocks, extrinsics' = extrinsics, events' = events
  PROVE  Written(W)'
<1>1. /\ {BlockRow(n, applied'[n]) : n \in W} = {BlockRow(n, applied[n]) : n \in W}
      /\ {ExtrinsicRows(n, applied'[n]) : n \in W} = {ExtrinsicRows(n, applied[n]) : n \in W}
      /\ {EventRows(n, applied'[n]) : n \in W} = {EventRows(n, applied[n]) : n \in W}
  OBVIOUS
<1> QED BY <1>1 DEF Written

LEMMA BatchWritten ==
  ASSUME DecodingInv, WriteBatch
  PROVE  DecodingInv'
<1>1. PICK W \in SUBSET (1 .. Len(applied)) : Written(W)
  BY DEF DecodingInv
<1>2. PICK last \in cursor + 1 .. Len(applied) :
        LET batch == cursor + 1 .. last
        IN  /\ blocks' = InsertBlocks({BlockRow(n, applied[n]) : n \in batch})
            /\ extrinsics' = Inserted(extrinsics, UNION
                 {{ExtrinsicRow(n, applied[n], i) : i \in 0 .. Len(applied[n]) - 1} : n \in batch})
            /\ events' = Inserted(events, UNION
                 {{EventRow(n, applied[n], j) : j \in 1 .. Len(Deposited(applied[n]))} : n \in batch})
            /\ cursor' = last /\ UNCHANGED <<applied, redos>>
  BY DEF WriteBatch
<1> DEFINE batch == cursor + 1 .. last
           newBlocks == {BlockRow(n, applied[n]) : n \in batch}
           newExtrinsics == UNION {ExtrinsicRows(n, applied[n]) : n \in batch}
           newEvents == UNION {EventRows(n, applied[n]) : n \in batch}
<1>3. cursor \in 0 .. Len(applied) /\ Len(applied) \in Nat
  BY DEF DecodingInv, DecodingTypeOK
<1>4. batch \subseteq 1 .. Len(applied) /\ last \in 0 .. Len(applied)
  BY <1>2, <1>3
<1>5. /\ blocks' = InsertBlocks(newBlocks) /\ extrinsics' = Inserted(extrinsics, newExtrinsics)
      /\ events' = Inserted(events, newEvents) /\ cursor' = last /\ applied' = applied
  BY <1>2 DEF ExtrinsicRows, EventRows
<1> HIDE DEF batch
<1>6. blocks' = blocks \cup newBlocks
  <2>1. ASSUME NEW old \in blocks, NEW r \in newBlocks, old.number = r.number PROVE old = r
    <3>1. PICK m \in W : old = BlockRow(m, applied[m])
      BY <1>1 DEF Written
    <3>2. PICK n \in batch : r = BlockRow(n, applied[n])
      OBVIOUS
    <3>3. old.number = m /\ r.number = n
      BY <3>1, <3>2 DEF BlockRow
    <3> QED BY <2>1, <3>1, <3>2, <3>3
  <2> QED BY <1>5, <2>1 DEF InsertBlocks
<1>7. extrinsics' = extrinsics \cup newExtrinsics
  <2>1. ASSUME NEW old \in extrinsics, NEW r \in newExtrinsics,
               <<old.block, old.idx>> = <<r.block, r.idx>>
        PROVE  old = r
    <3>1. PICK m \in W : old \in ExtrinsicRows(m, applied[m])
      BY <1>1 DEF Written
    <3>2. PICK n \in batch : r \in ExtrinsicRows(n, applied[n])
      OBVIOUS
    <3>3. /\ old.block = m /\ old = ExtrinsicRow(m, applied[m], old.idx)
          /\ r.block = n /\ r = ExtrinsicRow(n, applied[n], r.idx)
      BY <3>1, <3>2, KeysOfRows
    <3> QED BY <2>1, <3>3
  <2> QED BY <1>5, <2>1, InsertedAll
<1>8. events' = events \cup newEvents
  <2>1. ASSUME NEW old \in events, NEW r \in newEvents,
               <<old.block, old.idx>> = <<r.block, r.idx>>
        PROVE  old = r
    <3>1. PICK m \in W : old \in EventRows(m, applied[m])
      BY <1>1 DEF Written
    <3>2. PICK n \in batch : r \in EventRows(n, applied[n])
      OBVIOUS
    <3>3. /\ old.block = m /\ old = EventRow(m, applied[m], old.idx + 1)
          /\ r.block = n /\ r = EventRow(n, applied[n], r.idx + 1)
      BY <3>1, <3>2, KeysOfRows
    <3> QED BY <2>1, <3>3
  <2> QED BY <1>5, <2>1, InsertedAll
<1>b. PICK V : V = W \cup batch
  OBVIOUS
<1>9. blocks \cup newBlocks = {BlockRow(n, applied[n]) : n \in V}
  BY <1>1, <1>b DEF Written
<1>10. extrinsics \cup newExtrinsics = UNION {ExtrinsicRows(n, applied[n]) : n \in V}
  BY <1>1, <1>b DEF Written
<1>11. events \cup newEvents = UNION {EventRows(n, applied[n]) : n \in V}
  BY <1>1, <1>b DEF Written
<1>12. V \in SUBSET (1 .. Len(applied))
  BY <1>4, <1>b
<1>13. /\ {BlockRow(n, applied'[n]) : n \in V} = {BlockRow(n, applied[n]) : n \in V}
       /\ {ExtrinsicRows(n, applied'[n]) : n \in V} = {ExtrinsicRows(n, applied[n]) : n \in V}
       /\ {EventRows(n, applied'[n]) : n \in V} = {EventRows(n, applied[n]) : n \in V}
  BY <1>5
<1> HIDE DEF newBlocks, newExtrinsics, newEvents
<1>14. Written(V)'
  BY <1>6, <1>7, <1>8, <1>9, <1>10, <1>11, <1>13 DEF Written
<1> QED BY <1>4, <1>5, <1>12, <1>14 DEF DecodingInv, DecodingTypeOK

LEMMA DecodingSteps == DecodingInv /\ [DecodingNext]_decodingVars => DecodingInv'
<1> SUFFICES ASSUME DecodingInv, [DecodingNext]_decodingVars PROVE DecodingInv'
  OBVIOUS
<1>0. PICK W \in SUBSET (1 .. Len(applied)) : Written(W)
  BY DEF DecodingInv
<1>1. CASE Finalize
  <2>1. PICK body \in Bodies : applied' = Append(applied, body)
    BY <1>1 DEF Finalize
  <2>2. applied' \in Seq(Bodies) /\ Len(applied') = Len(applied) + 1 /\ Len(applied) \in Nat
        /\ \A n \in 1 .. Len(applied) : applied'[n] = applied[n]
    BY <2>1 DEF DecodingInv, DecodingTypeOK
  <2>3. cursor' = cursor /\ blocks' = blocks /\ extrinsics' = extrinsics /\ events' = events
    BY <1>1 DEF Finalize, tables
  <2>4. cursor' \in 0 .. Len(applied') /\ W \in SUBSET (1 .. Len(applied'))
    BY <2>2, <2>3 DEF DecodingInv, DecodingTypeOK
  <2>5. \A n \in W : applied'[n] = applied[n]
    BY <2>2
  <2>6. /\ {BlockRow(n, applied'[n]) : n \in W} = {BlockRow(n, applied[n]) : n \in W}
        /\ {ExtrinsicRows(n, applied'[n]) : n \in W} = {ExtrinsicRows(n, applied[n]) : n \in W}
        /\ {EventRows(n, applied'[n]) : n \in W} = {EventRows(n, applied[n]) : n \in W}
    BY <2>5
  <2>7. Written(W)'
    BY <1>0, <2>3, <2>6 DEF Written
  <2> QED BY <2>2, <2>4, <2>7 DEF DecodingInv, DecodingTypeOK
<1>2. CASE WriteBatch
  BY <1>2, BatchWritten
<1>3. CASE SetBack
  <2>1. /\ applied' = applied /\ blocks' = blocks /\ extrinsics' = extrinsics /\ events' = events
        /\ cursor' \in 0 .. Len(applied)
    BY <1>3 DEF SetBack, tables, DecodingInv, DecodingTypeOK
  <2>2. Written(W)'
    BY <1>0, <2>1, SameBlocksWritten
  <2> QED BY <2>1, <2>2 DEF DecodingInv, DecodingTypeOK
<1>4. CASE UNCHANGED decodingVars
  <2>1. /\ applied' = applied /\ blocks' = blocks /\ extrinsics' = extrinsics /\ events' = events
        /\ cursor' = cursor
    BY <1>4 DEF decodingVars, tables
  <2>2. Written(W)'
    BY <1>0, <2>1, SameBlocksWritten
  <2> QED BY <2>1, <2>2 DEF DecodingInv, DecodingTypeOK
<1> QED BY <1>1, <1>2, <1>3, <1>4 DEF DecodingNext

LEMMA DecodingCorrect == DecodingInit /\ [][DecodingNext]_decodingVars => []DecodingInv
<1>1. DecodingInit => DecodingInv
  <2> SUFFICES ASSUME DecodingInit PROVE DecodingInv
    OBVIOUS
  <2>1. DecodingTypeOK /\ Written({})
    BY DEF DecodingInit, DecodingTypeOK, Written
  <2> QED BY <2>1 DEF DecodingInv
<1> QED BY <1>1, DecodingSteps, PTL

LEMMA WhatTheRowsTell == DecodingInv => RowsTrue
<1> SUFFICES ASSUME DecodingInv, NEW n \in 1 .. Len(applied), \E r \in blocks : r.number = n
             PROVE  LET body == applied[n]
                        own  == {r \in extrinsics : r.block = n}
                        row  == CHOOSE r \in blocks : r.number = n
                    IN  /\ \A i \in 1 .. Len(body) : \E r \in own :
                             /\ r.idx = i - 1 /\ r.call = body[i].call /\ r.raw = body[i].raw
                             /\ r.success <=> body[i].ends # "ExtrinsicFailed"
                             /\ r.fee = IF body[i].pays = Raw THEN Nothing ELSE body[i].pays
                             /\ r.signer = "null" <=> body[i].origin = "none"
                        /\ row.extrinsic_count = Cardinality(own)
                        /\ row.event_count = Cardinality({r \in events : r.block = n})
                        /\ body # <<>> /\ ~body[1].raw => row.timestamp = body[1].now
                        /\ \A r \in events : r.block = n /\ r.ext >= 0 => \E x \in own : x.idx = r.ext
  BY DEF RowsTrue
<1>1. PICK W \in SUBSET (1 .. Len(applied)) : Written(W)
  BY DEF DecodingInv
<1> DEFINE body == applied[n]
           own == {r \in extrinsics : r.block = n}
           its == {r \in events : r.block = n}
           row == CHOOSE r \in blocks : r.number = n
<1>2. body \in Seq(Applied) /\ (body # <<>> => body[1].call = "Timestamp.set")
  BY DecodingAssumption DEF DecodingInv, DecodingTypeOK
<1>3. n \in W /\ row = BlockRow(n, body)
  <2>1. \A r \in blocks : r.number = n => n \in W /\ r = BlockRow(n, body)
    BY <1>1 DEF Written, BlockRow
  <2>2. row \in blocks /\ row.number = n
    OBVIOUS
  <2> QED BY <2>1, <2>2
<1>4. own = ExtrinsicRows(n, body)
  <2>1. ASSUME NEW r \in own PROVE r \in ExtrinsicRows(n, body)
    <3>1. PICK m \in W : r \in ExtrinsicRows(m, applied[m])
      BY <1>1 DEF Written
    <3>2. r.block = m
      BY <3>1, KeysOfRows
    <3> QED BY <3>1, <3>2
  <2>2. ASSUME NEW r \in ExtrinsicRows(n, body) PROVE r \in own
    <3>1. r \in extrinsics
      BY <1>1, <1>3, <2>2 DEF Written
    <3> QED BY <2>2, <3>1, KeysOfRows
  <2> QED BY <2>1, <2>2
<1>5. its = EventRows(n, body)
  <2>1. ASSUME NEW r \in its PROVE r \in EventRows(n, body)
    <3>1. PICK m \in W : r \in EventRows(m, applied[m])
      BY <1>1 DEF Written
    <3>2. r.block = m
      BY <3>1, KeysOfRows
    <3> QED BY <3>1, <3>2
  <2>2. ASSUME NEW r \in EventRows(n, body) PROVE r \in its
    <3>1. r \in events
      BY <1>1, <1>3, <2>2 DEF Written
    <3> QED BY <2>2, <3>1, KeysOfRows
  <2> QED BY <2>1, <2>2
<1> HIDE DEF body, own, its, row
<1>6. Len(body) \in Nat /\ Len(Deposited(body)) \in Nat
      /\ DOMAIN Deposited(body) = 1 .. Len(Deposited(body))
  BY <1>2, WhatIsDeposited
<1>7. ASSUME NEW i \in 1 .. Len(body)
      PROVE  \E r \in own :
               /\ r.idx = i - 1 /\ r.call = body[i].call /\ r.raw = body[i].raw
               /\ r.success <=> body[i].ends # "ExtrinsicFailed"
               /\ r.fee = IF body[i].pays = Raw THEN Nothing ELSE body[i].pays
               /\ r.signer = "null" <=> body[i].origin = "none"
  <2> DEFINE r == ExtrinsicRow(n, body, i - 1)
  <2>1. i - 1 \in 0 .. Len(body) - 1
    BY <1>6
  <2>2. r \in own
    BY <1>4, <2>1 DEF ExtrinsicRows
  <2> QED BY <1>2, <2>2, RowOfExtrinsic
<1>8. row.extrinsic_count = Cardinality(own)
  <2> DEFINE f == [i \in 1 .. Len(body) |-> ExtrinsicRow(n, body, i - 1)]
  <2>1. own = {f[i] : i \in 1 .. Len(body)}
    <3>1. \A r \in own : r.idx + 1 \in 1 .. Len(body) /\ r = f[r.idx + 1]
      BY <1>4, <1>6, KeysOfRows
    <3>2. \A i \in 1 .. Len(body) : f[i] \in own
      <4> SUFFICES ASSUME NEW i \in 1 .. Len(body) PROVE f[i] \in own
        OBVIOUS
      <4>1. i - 1 \in 0 .. Len(body) - 1
        BY <1>6
      <4> QED BY <1>4, <4>1 DEF ExtrinsicRows
    <3> HIDE DEF f
    <3> QED BY <3>1, <3>2
  <2>2. \A i \in 1 .. Len(body) : f[i].idx = i - 1
    BY DEF ExtrinsicRow
  <2>3. \A i, k \in 1 .. Len(body) : f[i] = f[k] => i = k
    <3> HIDE DEF f
    <3> QED BY <1>6, <2>2
  <2> HIDE DEF f
  <2>4. Cardinality(own) = Len(body)
    BY <1>6, <2>1, <2>3, RowsCounted
  <2> QED BY <1>3, <2>4 DEF BlockRow
<1>9. row.event_count = Cardinality(its)
  <2> DEFINE N == Len(Deposited(body))
             f == [j \in 1 .. N |-> EventRow(n, body, j)]
  <2>1. its = {f[j] : j \in 1 .. N}
    BY <1>5 DEF EventRows
  <2>2. \A j \in 1 .. N : f[j].idx = j - 1
    BY DEF EventRow
  <2>3. \A j, k \in 1 .. N : f[j] = f[k] => j = k
    <3> HIDE DEF f
    <3> QED BY <1>6, <2>2
  <2> HIDE DEF f
  <2>4. Cardinality(its) = N
    BY <1>6, <2>1, <2>3, RowsCounted
  <2> QED BY <1>3, <2>4 DEF BlockRow
<1>10. body # <<>> /\ ~body[1].raw => row.timestamp = body[1].now
  BY <1>2, <1>3, TimestampOfBlock DEF BlockRow
<1>11. ASSUME NEW r \in its, r.ext >= 0 PROVE \E x \in own : x.idx = r.ext
  <2>1. PICK j \in DOMAIN Deposited(body) : r = EventRow(n, body, j)
    BY <1>5, <1>6 DEF EventRows
  <2> DEFINE e == Deposited(body)[j]
  <2>2. r.ext = e.ext /\ e \in Occur(Deposited(body))
    BY <2>1 DEF EventRow, Occur
  <2> HIDE DEF e
  <2>3. PICK i \in 1 .. Len(body) : OwnEvent(e, i - 1, body[i])
    BY <1>2, <1>11, <2>2, WhatIsDeposited
  <2>4. e.ext = i - 1
    BY <2>3 DEF OwnEvent, Event
  <2> QED BY <1>7, <2>2, <2>4
<1> QED BY <1>7, <1>8, <1>9, <1>10, <1>11 DEF body, own, its, row

-----------------------------------------------------------------------------
LEMMA PartsImplemented ==
  Spec => /\ LimiterSpec /\ CaptureSpec /\ EndpointsSpec
          /\ SettingsInit /\ [][SettingsNext]_settingsVars
          /\ DecodingInit /\ [][DecodingNext]_decodingVars
BY StartsEachPart, StepsOfLimiter, StepsOfCapture, StepsOfEndpoints, StepsOfSettings,
   StepsOfDecoding, PTL DEF Spec, LimiterSpec, CaptureSpec, EndpointsSpec

(***************************************************************************)
(* The invariants of the five parts hold side by side.                     *)
(***************************************************************************)
THEOREM PartsCorrect ==
  Spec => [](/\ LimiterInv /\ CaptureInv /\ CaptureRange /\ EndpointsInv /\ TriedOnce
             /\ SettingsInv /\ DecodingInv)
BY PartsImplemented, LimiterCorrect, CaptureCorrect, CaptureInRange, EndpointsCorrect,
   EndpointsTriedOnce, SettingsCorrect, DecodingCorrect, PTL

(***************************************************************************)
(* Rates, tokens, backoff and wait stay where limiter.rs clamps them, a    *)
(* command tries an endpoint no more often than it is configured, and the  *)
(* other parts keep their types.                                           *)
(***************************************************************************)
THEOREM PartsTyped == Spec => []PartsTypeOK
<1>1. LimiterInv => LimiterTypeOK
  BY DEF LimiterInv
<1>2. EndpointsInv => node \in [Urls -> Geneses] /\ chains \in Geneses \cup {Unknown}
  BY DEF EndpointsInv, EndpointsTypeOK
<1>3. SettingsInv => /\ load \in {"edited", "parsed", "resolved", "accepted", "rejected"}
                     /\ edits \in 0 .. MaxEdits
  BY DEF SettingsInv
<1>4. (/\ LimiterInv /\ CaptureInv /\ CaptureRange /\ EndpointsInv /\ TriedOnce
       /\ SettingsInv /\ DecodingInv) => PartsTypeOK
  BY <1>1, <1>2, <1>3, Zenon DEF CaptureRange, TriedOnce, DecodingInv, DecodingTypeOK, PartsTypeOK
<1> QED BY <1>4, PartsCorrect, PTL

(***************************************************************************)
(* A configuration that was accepted gives every stage what its model      *)
(* assumes (`TryFrom', `resolve', `validate').                             *)
(***************************************************************************)
THEOREM AcceptedFilesRun == Spec => []AcceptedRuns
BY PartsCorrect, WhatIsAccepted, PTL

(***************************************************************************)
(* The retention of an accepted file survives being written and read       *)
(* (`parse_duration', `duration_string').                                  *)
(***************************************************************************)
THEOREM RetentionIsKept == Spec => []RetentionKept
BY PartsCorrect, WhatIsWrittenBack, PTL

(***************************************************************************)
(* An extrinsic's row has its own outcome and fee, the counts of a block   *)
(* are those of its rows, and its timestamp is the inherent's, whatever    *)
(* stands beside and however often it is written (`record_outcome',        *)
(* `decode_core', `write_blocks_in_tx').                                   *)
(***************************************************************************)
THEOREM RowsAreTrue == Spec => []RowsTrue
BY PartsCorrect, WhatTheRowsTell, PTL

(***************************************************************************)
(* A dead provider costs one probe per backoff, and the backoff doubles    *)
(* with each probe that fails, up to its cap (`poll', `open').             *)
(***************************************************************************)
THEOREM ProbesAreSpacedOut == Spec => ProbesBackOff
BY PartsImplemented, ProbesAreSpaced, PTL

(***************************************************************************)
(* Over any stretch of time a node is asked for no more than the burst and *)
(* the highest rate allow, and the blocks it streamed meanwhile, which     *)
(* `follow_head' captures without a token (`take', `refill').              *)
(***************************************************************************)
THEOREM NodeIsSpared == Spec => []Conforms
BY PartsCorrect, WhatTheLimiterKeeps, PTL

(***************************************************************************)
(* No chunk is leased behind an open breaker (`ready', then the claim).    *)
(***************************************************************************)
THEOREM ChunksStayClaimable == Spec => []NoLeaseBehindOpenBreaker
BY PartsCorrect, WhatTheLimiterKeeps, PTL

(***************************************************************************)
(* A half-open breaker lets at most a chunk through before it closes or    *)
(* opens again (`poll', `breaker_success', `breaker_failure').             *)
(***************************************************************************)
THEOREM ProbesAreFew == Spec => []HalfOpenBounded
BY PartsCorrect, WhatTheLimiterKeeps, PTL

(***************************************************************************)
(* Every block is decoded with the metadata of the runtime that executed   *)
(* it (`executing_runtime', `ensure_client').                              *)
(***************************************************************************)
THEOREM BlocksDecodeTrue == Spec => []DecodesTrue
BY PartsCorrect, WhatCaptureKeeps, PTL

(***************************************************************************)
(* An archived block whose runtime has no readable metadata will get it,   *)
(* whatever is killed, unless a worker failed to fetch or store it, or a   *)
(* power failure tore it, or took it when no block of the runtime was left *)
(* to capture (`ensure_metadata', `put_metadata').                         *)
(***************************************************************************)
THEOREM MetadataComes == Spec => []DecodableUnlessFailed
BY PartsCorrect, WhatCaptureKeeps, PTL

(***************************************************************************)
(* A command that knows the chain works on the stored one                  *)
(* (`connect_all', `guard_chain_identity', `upsert_chain').                *)
(***************************************************************************)
THEOREM PoolIsOneChain == Spec => []OneChain
BY PartsCorrect, WhatEndpointsKeep, PTL
=============================================================================
