----------------------- MODULE SegmentMetadataProofs -----------------------
(***************************************************************************)
(* Proofs about SegmentMetadata for any calls of config, any number of     *)
(* retries and any segments and rules: EC2 calls back at most once for     *)
(* each metadata request, and the data of a segment is its own.            *)
(***************************************************************************)
EXTENDS SegmentMetadata, FiniteSetTheorems, TLAPS

(* While the token is not answered, there is no request for metadata.      *)
Unanswered == {"none", "sent", "responding", "dropped"}
RequestsSound ==
  \A c \in Config :
    /\ token[c] \in Unanswered => request[c][1] = "none"
    /\ token[c] \notin Unanswered => request[c][1] # "none"
    /\ request[c][2] # "none" <=> token[c] = "repeated"
    /\ c > config => token[c] = "none"

(* As many answers as there are requests that are over, at most.           *)
One(r, a) == IF r[a] = "over" THEN 1 ELSE 0
AnswersSound == \A c \in Config : answered[c] <= One(request[c], 1) + One(request[c], 2)

(* Data comes of plugins that were named.                                  *)
DataSound ==
  \A c \in Config :
    /\ data[c] \subseteq Plugins[c]
    /\ file[c] => "eb" \in Plugins[c]
    /\ token[c] # "none" => "ec2" \in Plugins[c]

PluginsSound ==
  \A s \in Segment :
    has[s] = {} \/ \E c \in 1 .. config : has[s] \subseteq Plugins[c] \cap data[c]

(* The shared object has no rule; a segment with a rule has its own object.*)
RulesSound ==
  /\ ruleName["sdk"] = None
  /\ \A s \in Segment :
       /\ xray[s] \in {None, "sdk", s}
       /\ xray[s] = s => ruleName[s] = matched[s]
       /\ xray[s] # s => matched[s] = None

MetadataInv ==
  TypeOK /\ RequestsSound /\ AnswersSound /\ DataSound /\ PluginsSound /\ RulesSound

-----------------------------------------------------------------------------
(* The requests that are over, counted.                                    *)
LEMMA OverCount ==
  ASSUME NEW r
  PROVE  Cardinality({a \in Attempt : r[a] = "over"}) = One(r, 1) + One(r, 2)
<1> DEFINE S == {a \in Attempt : r[a] = "over"}
<1>1. CASE r[1] = "over" /\ r[2] = "over"
  <2>1. S = {1, 2}
    BY <1>1 DEF Attempt
  <2>2. Cardinality({1, 2}) = 2
    <3>1. IsFiniteSet({1}) /\ Cardinality({1}) = 1
      BY FS_Singleton
    <3>2. {1, 2} = {1} \cup {2}
      OBVIOUS
    <3> QED BY <3>1, <3>2, FS_AddElement
  <2> QED BY <1>1, <2>1, <2>2 DEF One
<1>2. CASE r[1] = "over" /\ r[2] # "over"
  <2>1. S = {1}
    BY <1>2 DEF Attempt
  <2>2. Cardinality({1}) = 1
    BY FS_Singleton
  <2> QED BY <1>2, <2>1, <2>2 DEF One
<1>3. CASE r[1] # "over" /\ r[2] = "over"
  <2>1. S = {2}
    BY <1>3 DEF Attempt
  <2>2. Cardinality({2}) = 1
    BY FS_Singleton
  <2> QED BY <1>3, <2>1, <2>2 DEF One
<1>4. CASE r[1] # "over" /\ r[2] # "over"
  <2>1. S = {}
    BY <1>4 DEF Attempt
  <2> QED BY <1>4, <2>1, FS_EmptySet DEF One
<1> QED BY <1>1, <1>2, <1>3, <1>4

(* The first answer of the token request starts the first request for      *)
(* metadata, the second the second.                                        *)
LEMMA FirstOrSecond ==
  ASSUME MetadataInv, NEW c \in Config, PopulateMetadata(c)
  PROVE  /\ request[c][1] = "none" => request' = [request EXCEPT ![c][1] = "sent"]
         /\ request[c][1] # "none" /\ request[c][2] = "none" =>
              request' = [request EXCEPT ![c][2] = "sent"]
<1> DEFINE P(a) == request[c][a] = "none" /\ \A b \in Attempt : b < a => request[c][b] # "none"
           m == CHOOSE a \in Attempt : P(a)
<1>1. request' = [request EXCEPT ![c][m] = "sent"]
  BY DEF PopulateMetadata
<1>2. ASSUME request[c][1] = "none" PROVE m = 1
  <2>1. 1 \in Attempt /\ P(1)
    BY <1>2 DEF Attempt
  <2>2. m \in Attempt /\ P(m)
    BY <2>1
  <2>3. m # 2
    BY <1>2, <2>2 DEF Attempt
  <2> QED BY <2>2, <2>3 DEF Attempt
<1>3. ASSUME request[c][1] # "none", request[c][2] = "none" PROVE m = 2
  <2>1. 2 \in Attempt /\ P(2)
    BY <1>3 DEF Attempt
  <2>2. m \in Attempt /\ P(m)
    BY <2>1
  <2> QED BY <1>3, <2>2 DEF Attempt
<1> QED BY <1>1, <1>2, <1>3

LEMMA InitKeepsMetadata == Init => MetadataInv
<1> SUFFICES ASSUME Init PROVE MetadataInv
  OBVIOUS
<1>1. TypeOK
  BY MetadataAssumption DEF Init, TypeOK, State, Object
<1>2. RequestsSound /\ AnswersSound
  BY DEF Init, RequestsSound, Unanswered, AnswersSound, One, Attempt
<1>3. DataSound /\ PluginsSound /\ RulesSound
  BY MetadataAssumption DEF Init, DataSound, PluginsSound, RulesSound, Object
<1> QED BY <1>1, <1>2, <1>3 DEF MetadataInv

LEMMA CallConfigKeeps == ASSUME MetadataInv, CallConfig PROVE MetadataInv'
<1> DEFINE c == config + 1
<1> USE DEF MetadataInv
<1>0. /\ c \in Config /\ config \in Nat /\ config' = c
      /\ data' = [data EXCEPT ![c] = Plugins[c] \cap {"ecs"}]
      /\ file' = [file EXCEPT ![c] = "eb" \in Plugins[c]]
      /\ token' = [token EXCEPT ![c] = IF "ec2" \in Plugins[c] THEN "sent" ELSE "none"]
      /\ UNCHANGED <<request, retries, answered, segmentVars>>
  BY MetadataAssumption DEF CallConfig, TypeOK, Config
<1> HIDE DEF c
<1>1. token[c] = "none" /\ c > config
  BY <1>0 DEF RequestsSound, Unanswered, c
<1>2. TypeOK'
  <2>1. data' \in [Config -> SUBSET {"ec2", "ecs", "eb"}]
    BY <1>0, MetadataAssumption DEF TypeOK
  <2>2. config' \in 0 .. Configs
    BY <1>0 DEF Config
  <2>3. token' \in [Config -> State] /\ file' \in [Config -> BOOLEAN]
    BY <1>0 DEF TypeOK, State
  <2> QED BY <1>0, <2>1, <2>2, <2>3 DEF TypeOK, segmentVars
<1>3. RequestsSound'
  <2> SUFFICES ASSUME NEW d \in Config
               PROVE  /\ token'[d] \in Unanswered => request[d][1] = "none"
                      /\ token'[d] \notin Unanswered => request[d][1] # "none"
                      /\ request[d][2] # "none" <=> token'[d] = "repeated"
                      /\ d > config' => token'[d] = "none"
    BY <1>0 DEF RequestsSound, Unanswered
  <2>1. CASE d = c
    <3>1. token'[c] \in {"none", "sent"}
      BY <1>0 DEF TypeOK
    <3>2. ~(c > config')
      BY <1>0, MetadataAssumption DEF Config
    <3>3. request[c][1] = "none" /\ request[c][2] = "none"
      BY <1>0, <1>1 DEF RequestsSound, Unanswered
    <3> QED BY <2>1, <3>1, <3>2, <3>3, <1>0, <1>1 DEF Unanswered
  <2>2. CASE d # c
    <3>1. token'[d] = token[d]
      BY <1>0, <2>2 DEF TypeOK
    <3>2. d > config' => d > config
      BY <1>0, MetadataAssumption DEF Config, c
    <3> QED BY <3>1, <3>2 DEF RequestsSound, Unanswered
  <2> QED BY <2>1, <2>2
<1>4. AnswersSound' /\ RulesSound'
  BY <1>0 DEF AnswersSound, RulesSound, segmentVars
<1>5. DataSound'
  BY <1>0, MetadataAssumption DEF DataSound, TypeOK
<1>6. PluginsSound'
  <2> SUFFICES ASSUME NEW s \in Segment, has[s] # {}
               PROVE  \E d \in 1 .. config' : has[s] \subseteq Plugins[d] \cap data'[d]
    BY <1>0 DEF PluginsSound, segmentVars
  <2> PICK d \in 1 .. config : has[s] \subseteq Plugins[d] \cap data[d]
    BY DEF PluginsSound
  <2>1. d # c /\ d \in 1 .. config' /\ d \in Config
    BY <1>0, MetadataAssumption DEF c, Config
  <2> QED BY <1>0, <2>1 DEF TypeOK
<1> QED BY <1>2, <1>3, <1>4, <1>5, <1>6

(* Data that arrives adds to what there is.                                *)
LEMMA MoreData ==
  ASSUME MetadataInv, NEW c \in Config, NEW p \in Plugins[c],
         data' \in {data, [data EXCEPT ![c] = @ \cup {p}]},
         UNCHANGED <<config, segmentVars>>
  PROVE  /\ data' \in [Config -> SUBSET {"ec2", "ecs", "eb"}]
         /\ \A d \in Config : data'[d] \subseteq Plugins[d]
         /\ PluginsSound'
<1>1. p \in {"ec2", "ecs", "eb"} /\ Plugins[c] \subseteq {"ec2", "ecs", "eb"}
  BY MetadataAssumption
<1>2. data \in [Config -> SUBSET {"ec2", "ecs", "eb"}] /\ config \in 0 .. Configs
      /\ \A d \in Config : data[d] \subseteq Plugins[d]
  BY DEF MetadataInv, TypeOK, DataSound
<1>3. \A d \in Config : data[d] \subseteq data'[d]
  BY <1>2
<1>4. 1 .. config \subseteq Config
  BY <1>2, MetadataAssumption DEF Config
<1>5. PluginsSound'
  BY <1>3, <1>4 DEF MetadataInv, PluginsSound, segmentVars
<1> QED BY <1>1, <1>2, <1>5

LEMMA FileKeeps ==
  ASSUME MetadataInv, NEW c \in Config, FileRead(c)
  PROVE  MetadataInv'
<1>1. /\ "eb" \in Plugins[c] /\ file' = [file EXCEPT ![c] = FALSE]
      /\ data' \in {data, [data EXCEPT ![c] = @ \cup {"eb"}]}
      /\ UNCHANGED <<config, requestVars, segmentVars>>
  BY DEF MetadataInv, DataSound, FileRead
<1>2. /\ data' \in [Config -> SUBSET {"ec2", "ecs", "eb"}]
      /\ \A d \in Config : data'[d] \subseteq Plugins[d]
      /\ PluginsSound'
  BY <1>1, MoreData
<1>3. TypeOK'
  BY <1>1, <1>2 DEF MetadataInv, TypeOK, requestVars, segmentVars
<1>4. RequestsSound' /\ AnswersSound' /\ RulesSound'
  BY <1>1 DEF MetadataInv, RequestsSound, AnswersSound, RulesSound, requestVars, segmentVars
<1>5. DataSound'
  BY <1>1, <1>2 DEF MetadataInv, DataSound, TypeOK, requestVars
<1> QED BY <1>2, <1>3, <1>4, <1>5 DEF MetadataInv

-----------------------------------------------------------------------------
(* The token request.                                                      *)
LEMMA TokenKeeps ==
  ASSUME MetadataInv, NEW c \in Config, TokenEvent(c)
  PROVE  MetadataInv'
<1> USE DEF MetadataInv
<1>0. UNCHANGED <<config, data, file, retries, answered, segmentVars>>
  BY DEF TokenEvent, TokenResponds, TokenArrives, TokenFails, TokenBreaksOff, TokenTimesOut,
         TokenAborted, TokenBecomes
<1>1. /\ token[c] \in {"sent", "responding", "aborting"}
      /\ \/ /\ token[c] = "sent" /\ token' = [token EXCEPT ![c] = "responding"]
            /\ UNCHANGED request
         \/ /\ token[c] = "responding" /\ token' = [token EXCEPT ![c] = "dropped"]
            /\ UNCHANGED request
         \/ /\ token[c] \in {"sent", "responding"}
            /\ \E to \in {"over", "aborting"} : token' = [token EXCEPT ![c] = to]
            /\ request' = [request EXCEPT ![c][1] = "sent"] /\ request[c][1] = "none"
         \/ /\ token[c] = "aborting" /\ token' = [token EXCEPT ![c] = "repeated"]
            /\ request' = [request EXCEPT ![c][2] = "sent"] /\ request[c][2] = "none"
  <2>1. CASE TokenResponds(c) \/ TokenBreaksOff(c)
    BY <2>1 DEF TokenResponds, TokenBreaksOff, TokenBecomes
  <2>2. CASE TokenArrives(c) \/ TokenFails(c) \/ TokenTimesOut(c)
    <3>1. token[c] \in {"sent", "responding"} /\ PopulateMetadata(c)
          /\ \E to \in {"over", "aborting"} : token' = [token EXCEPT ![c] = to]
      BY <2>2 DEF TokenArrives, TokenFails, TokenTimesOut, TokenBecomes
    <3>2. request[c][1] = "none"
      BY <3>1 DEF RequestsSound, Unanswered
    <3> QED BY <3>1, <3>2, FirstOrSecond
  <2>3. CASE TokenAborted(c)
    <3>1. token[c] = "aborting" /\ PopulateMetadata(c)
          /\ token' = [token EXCEPT ![c] = "repeated"]
      BY <2>3 DEF TokenAborted, TokenBecomes
    <3>2. request[c][1] # "none" /\ request[c][2] = "none"
      BY <3>1 DEF RequestsSound, Unanswered
    <3> QED BY <3>1, <3>2, FirstOrSecond
  <2> QED BY <2>1, <2>2, <2>3 DEF TokenEvent
<1>2. token \in [Config -> State] /\ request \in [Config -> [Attempt -> State]]
  BY DEF TypeOK
<1>3. token' \in [Config -> State] /\ request' \in [Config -> [Attempt -> State]]
  BY <1>1, <1>2 DEF State, Attempt
<1>4. TypeOK'
  BY <1>0, <1>3 DEF TypeOK, segmentVars
<1>5. RequestsSound'
  <2> SUFFICES ASSUME NEW d \in Config
               PROVE  /\ token'[d] \in Unanswered => request'[d][1] = "none"
                      /\ token'[d] \notin Unanswered => request'[d][1] # "none"
                      /\ request'[d][2] # "none" <=> token'[d] = "repeated"
                      /\ d > config' => token'[d] = "none"
    BY DEF RequestsSound, Unanswered
  <2>1. CASE d = c
    BY <1>0, <1>1, <1>2, <2>1 DEF RequestsSound, Unanswered, Attempt
  <2>2. CASE d # c
    BY <1>0, <1>1, <1>2, <2>2 DEF RequestsSound, Unanswered
  <2> QED BY <2>1, <2>2
<1>6. AnswersSound'
  <2> SUFFICES ASSUME NEW d \in Config
               PROVE  answered[d] <= One(request'[d], 1) + One(request'[d], 2)
    BY <1>0 DEF AnswersSound
  <2>1. \A a \in Attempt : request[d][a] = "over" => request'[d][a] = "over"
    BY <1>1, <1>2 DEF Attempt
  <2>2. answered[d] \in Nat /\ answered[d] <= One(request[d], 1) + One(request[d], 2)
    BY DEF AnswersSound, TypeOK
  <2> QED BY <2>1, <2>2 DEF One, Attempt
<1>7. DataSound'
  BY <1>0, <1>1, <1>2 DEF DataSound
<1>8. PluginsSound' /\ RulesSound'
  BY <1>0 DEF PluginsSound, RulesSound, segmentVars
<1> QED BY <1>4, <1>5, <1>6, <1>7, <1>8

(* A metadata request.                                                     *)
LEMMA RequestKeeps ==
  ASSUME MetadataInv, NEW c \in Config, NEW a \in Attempt, RequestEvent(c, a)
  PROVE  MetadataInv'
<1> USE DEF MetadataInv
<1>0. /\ UNCHANGED <<config, file, token, segmentVars>>
      /\ request[c][a] \notin {"none", "over"}
      /\ \E to \in State \ {"none"} : request' = [request EXCEPT ![c][a] = to]
      /\ retries' \in [Config -> [Attempt -> 0 .. Retries]]
      /\ data' \in {data, [data EXCEPT ![c] = @ \cup {"ec2"}]}
      /\ \/ UNCHANGED answered
         \/ /\ answered' = [answered EXCEPT ![c] = @ + 1]
            /\ request' = [request EXCEPT ![c][a] = "over"]
  <2>0. retries \in [Config -> [Attempt -> 0 .. Retries]] /\ Retries \in Nat
    BY MetadataAssumption DEF TypeOK
  <2>1. CASE Responds(c, a) \/ Retry(c, a) \/ TimesOut(c, a) \/ BreaksOff(c, a)
    BY <2>0, <2>1 DEF Responds, Retry, TimesOut, BreaksOff, RequestBecomes, Silently, State
  <2>2. CASE Ends(c, a) \/ Fails(c, a) \/ Aborted(c, a)
    BY <2>0, <2>2 DEF Ends, Fails, Aborted, RequestBecomes, WithData, Without, CallsBack, State
  <2>3. CASE ServiceFails(c, a)
    <3>1. CASE retries[c][a] > 0
      <4>1. retries' \in [Config -> [Attempt -> 0 .. Retries]]
        BY <2>0, <2>3, <3>1 DEF ServiceFails
      <4> QED BY <2>3, <3>1, <4>1 DEF ServiceFails, RequestBecomes, State
    <3>2. CASE ~(retries[c][a] > 0)
      BY <2>0, <2>3, <3>2 DEF ServiceFails, RequestBecomes, Without, CallsBack, State
    <3> QED BY <3>1, <3>2
  <2> QED BY <2>1, <2>2, <2>3 DEF RequestEvent
<1>1. request \in [Config -> [Attempt -> State]] /\ answered \in [Config -> 0 .. 2]
      /\ token \in [Config -> State] /\ Attempt = {1, 2}
  BY DEF TypeOK, Attempt
<1>2. "ec2" \in Plugins[c]
  <2>1. request[c][1] # "none" \/ request[c][2] # "none"
    BY <1>0, <1>1
  <2> QED BY <1>1, <2>1 DEF RequestsSound, Unanswered, DataSound
<1>3. request' \in [Config -> [Attempt -> State]]
      /\ request'[c][a] # "none"
      /\ \A d \in Config, b \in Attempt : d # c \/ b # a => request'[d][b] = request[d][b]
  BY <1>0, <1>1
<1>4. AnswersSound'
  <2> SUFFICES ASSUME NEW d \in Config
               PROVE  answered'[d] <= One(request'[d], 1) + One(request'[d], 2)
    BY DEF AnswersSound
  <2>1. answered[d] <= One(request[d], 1) + One(request[d], 2)
    BY DEF AnswersSound
  <2>2. CASE d = c /\ answered' = [answered EXCEPT ![c] = @ + 1]
                  /\ request' = [request EXCEPT ![c][a] = "over"]
    BY <1>0, <1>1, <2>1, <2>2 DEF One
  <2>3. CASE answered'[d] = answered[d]
    BY <1>0, <1>1, <1>3, <2>1, <2>3 DEF One
  <2> QED BY <1>0, <1>1, <2>2, <2>3
<1>5. answered' \in [Config -> 0 .. 2]
  <2>1. \A d \in Config : answered'[d] \in Nat
    BY <1>0, <1>1
  <2>2. \A d \in Config : answered'[d] <= 2
    <3> TAKE d \in Config
    <3>1. answered'[d] <= One(request'[d], 1) + One(request'[d], 2)
      BY <1>4 DEF AnswersSound
    <3>2. One(request'[d], 1) \in 0 .. 1 /\ One(request'[d], 2) \in 0 .. 1
      BY DEF One
    <3> QED BY <2>1, <3>1, <3>2
  <2> QED BY <1>0, <1>1, <2>1, <2>2
<1>6. /\ data' \in [Config -> SUBSET {"ec2", "ecs", "eb"}]
      /\ \A d \in Config : data'[d] \subseteq Plugins[d]
      /\ PluginsSound'
  BY <1>0, <1>2, MoreData
<1>7. TypeOK'
  BY <1>0, <1>3, <1>5, <1>6 DEF TypeOK, segmentVars
<1>8. RequestsSound'
  <2> SUFFICES ASSUME NEW d \in Config, NEW b \in Attempt
               PROVE  request'[d][b] = "none" <=> request[d][b] = "none"
    BY <1>0, <1>1 DEF RequestsSound, Unanswered
  <2> QED BY <1>0, <1>3
<1>9. DataSound' /\ RulesSound'
  BY <1>0, <1>6 DEF DataSound, RulesSound, segmentVars
<1> QED BY <1>4, <1>6, <1>7, <1>8, <1>9

-----------------------------------------------------------------------------
(* Segments.                                                               *)
LEMMA SegmentKeeps ==
  ASSUME MetadataInv, NEW s \in Segment, InitSegment(s) \/ \E r \in Rule : SetMatchedSamplingRule(s, r)
  PROVE  MetadataInv'
<1> USE DEF MetadataInv
<1>0. UNCHANGED <<config, data, file, requestVars>>
  BY DEF InitSegment, SetMatchedSamplingRule
<1>1. None \notin Segment \cup Rule /\ "sdk" \notin Segment
  BY MetadataAssumption
<1>2. RequestsSound' /\ AnswersSound' /\ DataSound'
  BY <1>0 DEF RequestsSound, Unanswered, AnswersSound, DataSound, requestVars
<1>3. CASE InitSegment(s)
  <2>1. /\ xray[s] = None
        /\ has' = [has EXCEPT ![s] = IF config = 0 THEN {} ELSE data[config]]
        /\ xray' = [xray EXCEPT ![s] = "sdk"]
        /\ UNCHANGED <<ruleName, matched>>
    BY <1>3 DEF InitSegment, Made
  <2>2. config # 0 => config \in Config /\ config \in 1 .. config
    BY MetadataAssumption DEF TypeOK, Config
  <2>3. TypeOK'
    BY <1>0, <2>1, <2>2 DEF TypeOK, requestVars, Object
  <2>4. PluginsSound'
    <3> SUFFICES ASSUME NEW t \in Segment, has'[t] # {}
                 PROVE  \E c \in 1 .. config : has'[t] \subseteq Plugins[c] \cap data[c]
      BY <1>0 DEF PluginsSound
    <3>1. CASE t = s
      BY <2>1, <2>2, <3>1 DEF DataSound, TypeOK
    <3>2. CASE t # s
      BY <2>1, <3>2 DEF PluginsSound, TypeOK
    <3> QED BY <3>1, <3>2
  <2>5. RulesSound'
    BY <1>1, <2>1 DEF RulesSound, TypeOK
  <2> QED BY <1>2, <2>3, <2>4, <2>5
<1>4. ASSUME NEW r \in Rule, SetMatchedSamplingRule(s, r) PROVE MetadataInv'
  <2>1. /\ xray' = [xray EXCEPT ![s] = s]
        /\ ruleName' = [ruleName EXCEPT ![s] = r]
        /\ matched' = [matched EXCEPT ![s] = r]
        /\ has' = has
    BY <1>4 DEF SetMatchedSamplingRule
  <2>2. TypeOK'
    BY <1>0, <2>1 DEF TypeOK, requestVars, Object
  <2>3. PluginsSound'
    BY <1>0, <2>1 DEF PluginsSound
  <2>4. RulesSound'
    BY <1>1, <2>1 DEF RulesSound, TypeOK, Object
  <2> QED BY <1>2, <2>2, <2>3, <2>4
<1> QED BY <1>3, <1>4

LEMMA StepKeepsMetadata == MetadataInv /\ [Next]_vars => MetadataInv'
<1> SUFFICES ASSUME MetadataInv, [Next]_vars PROVE MetadataInv'
  OBVIOUS
<1>1. CASE Next
  BY <1>1, CallConfigKeeps, FileKeeps, TokenKeeps, RequestKeeps, SegmentKeeps DEF Next
<1>2. CASE UNCHANGED vars
  <2> USE <1>2 DEF MetadataInv, vars, requestVars, segmentVars
  <2>1. TypeOK' /\ RequestsSound' /\ AnswersSound'
    BY DEF TypeOK, RequestsSound, AnswersSound
  <2>2. DataSound' /\ PluginsSound' /\ RulesSound'
    BY DEF DataSound, PluginsSound, RulesSound
  <2> QED BY <2>1, <2>2
<1> QED BY <1>1, <1>2

(* EC2 calls back at most once for a request, and asks a second time only  *)
(* if the token was answered twice (getToken, getPluginMetadata).          *)
THEOREM EC2AnswersOnce == Spec => []AnsweredOnce
<1>1. MetadataInv => AnsweredOnce
  BY OverCount DEF MetadataInv, RequestsSound, AnswersSound, AnsweredOnce
<1> QED BY <1>1, InitKeepsMetadata, StepKeepsMetadata, PTL DEF Spec

(* A segment has its own rule and the data of one call of config           *)
(* (setMatchedSamplingRule, addPluginData).                                *)
THEOREM MetadataIsOwn == Spec => []SegmentDataIsOwn
<1>1. MetadataInv => SegmentDataIsOwn
  <2> SUFFICES ASSUME MetadataInv, NEW s \in Segment, xray[s] # None
               PROVE  ruleName[xray[s]] = matched[s]
    BY DEF MetadataInv, PluginsSound, SegmentDataIsOwn, Made
  <2> QED BY DEF MetadataInv, RulesSound
<1> QED BY <1>1, InitKeepsMetadata, StepKeepsMetadata, PTL DEF Spec
=============================================================================
