-------------------------- MODULE SegmentMetadata --------------------------
(***************************************************************************)
(* What a segment is told about the host, the SDK and its sampling rule.   *)
(*                                                                         *)
(* AWSXRay.config asks each plugin for its data (segments/plugins), which  *)
(* arrives later in one object per call of config; a segment copies what   *)
(* is there when it is made.  EC2 asks the instance metadata service for a *)
(* token and then for the data.  A request ends with its response, fails,  *)
(* or is idle for a second and aborted: an aborted request fails as well,  *)
(* unless the response had begun, after which only the response is told.   *)
(* A response whose connection breaks after it began tells nothing either: *)
(* there is no end, no error of the request and no timeout.                *)
(***************************************************************************)
EXTENDS Naturals, FiniteSets

CONSTANTS
  Configs,   \* the calls of config, 1 .. Configs
  Plugins,   \* Plugins[c]: the plugins that call c names
  Retries,   \* METADATA_RETRIES
  Segment,
  Rule,      \* the names of sampling rules
  None

Config == 1 .. Configs

ASSUME MetadataAssumption ==
  /\ Configs \in Nat /\ Retries \in Nat
  /\ Plugins \in [Config -> SUBSET {"ec2", "ecs", "eb"}]
  /\ None \notin Segment \cup Rule /\ "sdk" \notin Segment

(* The first request for metadata, and the second one of the same getData. *)
Attempt == {1, 2}

(* The life of a request:                                                  *)
(*   sent, responding, aborting (its error is still to come), over;        *)
(*   pausing between retries; dropped, when nothing comes any more;        *)
(*   repeated, for a token request that was answered twice.                *)
State == {"none", "sent", "responding", "aborting", "over", "pausing", "dropped", "repeated"}

VARIABLES
  config,    \* how many times config has been called
  data,      \* data[c]: the plugins whose data the object of c has
  token,     \* token[c]: the state of the token request
  request,   \* request[c][a]: the state of a metadata request
  retries,   \* retries[c][a]: the retries it has left
  answered,  \* history: how many times EC2 has called back for c
  file,      \* file[c]: the configuration file of Elastic Beanstalk is being read
  has,       \* has[s]: the plugins whose data s has, once it is made
  xray,      \* xray[s]: the object aws.xray of s: "sdk", shared by all, or its own
  ruleName,  \* ruleName[o]: rule_name in the object o
  matched    \* history: matched[s] is the rule that was set for s

requestVars == <<token, request, retries, answered>>
segmentVars == <<has, xray, ruleName, matched>>
vars == <<config, data, file, requestVars, segmentVars>>

Object == {"sdk"} \cup Segment
Made == {s \in Segment : xray[s] # None}

TypeOK ==
  /\ config \in 0 .. Configs
  /\ data \in [Config -> SUBSET {"ec2", "ecs", "eb"}]
  /\ token \in [Config -> State] /\ request \in [Config -> [Attempt -> State]]
  /\ retries \in [Config -> [Attempt -> 0 .. Retries]]
  /\ answered \in [Config -> 0 .. 2] /\ file \in [Config -> BOOLEAN]
  /\ has \in [Segment -> SUBSET {"ec2", "ecs", "eb"}]
  /\ xray \in [Segment -> Object \cup {None}]
  /\ ruleName \in [Object -> Rule \cup {None}] /\ matched \in [Segment -> Rule \cup {None}]

Init ==
  /\ config = 0
  /\ data = [c \in Config |-> {}]
  /\ token = [c \in Config |-> "none"]
  /\ request = [c \in Config |-> [a \in Attempt |-> "none"]]
  /\ retries = [c \in Config |-> [a \in Attempt |-> Retries]]
  /\ answered = [c \in Config |-> 0] /\ file = [c \in Config |-> FALSE]
  /\ has = [s \in Segment |-> {}] /\ xray = [s \in Segment |-> None]
  /\ ruleName = [o \in Object |-> None] /\ matched = [s \in Segment |-> None]

-----------------------------------------------------------------------------
(* config: each plugin is asked; ECS answers at once.                      *)
CallConfig ==
  LET c == config + 1 IN
  /\ config < Configs
  /\ config' = c
  /\ data' = [data EXCEPT ![c] = Plugins[c] \cap {"ecs"}]
  /\ file' = [file EXCEPT ![c] = "eb" \in Plugins[c]]
  /\ token' = [token EXCEPT ![c] = IF "ec2" \in Plugins[c] THEN "sent" ELSE "none"]
  /\ UNCHANGED <<request, retries, answered, segmentVars>>

(* ElasticBeanstalkPlugin: the file is read; without it there is no data,  *)
(* and one that is no JSON throws out of the callback.                     *)
FileRead(c) ==
  /\ file[c]
  /\ file' = [file EXCEPT ![c] = FALSE]
  /\ data' \in {data, [data EXCEPT ![c] = @ \cup {"eb"}]}
  /\ UNCHANGED <<config, requestVars, segmentVars>>

-----------------------------------------------------------------------------
(* The token, EC2Plugin.getToken. *)

(* populateMetadata, with the token or without one: the first request for  *)
(* metadata, or a second.                                                  *)
PopulateMetadata(c) ==
  LET a == CHOOSE a \in Attempt : request[c][a] = "none" /\ \A b \in Attempt :
             b < a => request[c][b] # "none"
  IN  request' = [request EXCEPT ![c][a] = "sent"]

TokenBecomes(c, from, to) ==
  /\ token[c] = from
  /\ token' = [token EXCEPT ![c] = to]
  /\ UNCHANGED <<config, data, file, retries, answered, segmentVars>>

TokenResponds(c) == TokenBecomes(c, "sent", "responding") /\ UNCHANGED request

(* end, whatever the status; or error.                                     *)
TokenArrives(c) == TokenBecomes(c, "responding", "over") /\ PopulateMetadata(c)
TokenFails(c) == TokenBecomes(c, "sent", "over") /\ PopulateMetadata(c)

\* Slip: a token request that times out is not aborted.
TokenWaitsOn(c) == TokenBecomes(c, "sent", "responding") /\ PopulateMetadata(c)

(* The response breaks off, and nobody is told: getToken listens to its    *)
(* data and its end only.                                                  *)
TokenBreaksOff(c) == TokenBecomes(c, "responding", "dropped") /\ UNCHANGED request

(* timeout: the request is aborted and answered for.                       *)
TokenTimesOut(c) ==
  /\ \/ TokenBecomes(c, "sent", "aborting")
     \/ TokenBecomes(c, "responding", "over")
  /\ PopulateMetadata(c)

(* The error of the abort answers a second time.                           *)
TokenAborted(c) == TokenBecomes(c, "aborting", "repeated") /\ PopulateMetadata(c)

TokenEvent(c) ==
  \/ TokenResponds(c) \/ TokenArrives(c) \/ TokenFails(c) \/ TokenBreaksOff(c)
  \/ TokenTimesOut(c) \/ TokenAborted(c)

-----------------------------------------------------------------------------
(* The metadata, Plugin.getPluginMetadata. *)

RequestBecomes(c, a, from, to) ==
  /\ request[c][a] = from
  /\ request' = [request EXCEPT ![c][a] = to]
  /\ UNCHANGED <<config, file, token, segmentVars>>

CallsBack(c) == answered' = [answered EXCEPT ![c] = @ + 1]

(* The callback gets an error, or nothing; or the data of the instance.    *)
Without(c) == CallsBack(c) /\ UNCHANGED <<data, retries>>
WithData(c) ==
  CallsBack(c) /\ data' = [data EXCEPT ![c] = @ \cup {"ec2"}] /\ UNCHANGED retries
Silently == UNCHANGED <<data, retries, answered>>

Responds(c, a) == RequestBecomes(c, a, "sent", "responding") /\ Silently
Fails(c, a) == RequestBecomes(c, a, "sent", "over") /\ Without(c)

(* end: 200 and 300 with a document; or anything that cannot be used.      *)
Ends(c, a) == RequestBecomes(c, a, "responding", "over") /\ (WithData(c) \/ Without(c))

\* Slip: retries are not counted.
RetriesForever(c, a) ==
  /\ RequestBecomes(c, a, "responding", "pausing")
  /\ UNCHANGED <<data, retries, answered>>

(* end with a status of 500 to 599: another try, while there are any left. *)
ServiceFails(c, a) ==
  IF retries[c][a] > 0
  THEN /\ RequestBecomes(c, a, "responding", "pausing")
       /\ retries' = [retries EXCEPT ![c][a] = @ - 1]
       /\ UNCHANGED <<data, answered>>
  ELSE RequestBecomes(c, a, "responding", "over") /\ Without(c)

Retry(c, a) == RequestBecomes(c, a, "pausing", "sent") /\ Silently

(* timeout: aborted, with an error to come unless the response had begun.  *)
TimesOut(c, a) ==
  /\ \/ RequestBecomes(c, a, "sent", "aborting")
     \/ RequestBecomes(c, a, "responding", "dropped")
  /\ Silently

(* The response breaks off: it never ends, and the request has no error.   *)
BreaksOff(c, a) == RequestBecomes(c, a, "responding", "dropped") /\ Silently

Aborted(c, a) == RequestBecomes(c, a, "aborting", "over") /\ Without(c)

RequestEvent(c, a) ==
  \/ Responds(c, a) \/ Ends(c, a) \/ Fails(c, a) \/ ServiceFails(c, a)
  \/ Retry(c, a) \/ TimesOut(c, a) \/ BreaksOff(c, a) \/ Aborted(c, a)

-----------------------------------------------------------------------------
(* Segments. *)

(* new Segment: addPluginData copies, setSDKData does not.                 *)
InitSegment(s) ==
  /\ s \notin Made
  /\ has' = [has EXCEPT ![s] = IF config = 0 THEN {} ELSE data[config]]
  /\ xray' = [xray EXCEPT ![s] = "sdk"]
  /\ UNCHANGED <<config, data, file, requestVars, ruleName, matched>>

\* Slip: the rule is written without a copy of aws.
SetsSharedRule(s, r) ==
  /\ s \in Made
  /\ ruleName' = [ruleName EXCEPT ![xray[s]] = r]
  /\ matched' = [matched EXCEPT ![s] = r]
  /\ UNCHANGED <<config, data, file, requestVars, has, xray>>

(* The rule is written into a copy of the object, the segment's own.       *)
SetMatchedSamplingRule(s, r) ==
  /\ s \in Made
  /\ xray' = [xray EXCEPT ![s] = s]
  /\ ruleName' = [ruleName EXCEPT ![s] = r]
  /\ matched' = [matched EXCEPT ![s] = r]
  /\ UNCHANGED <<config, data, file, requestVars, has>>

Next ==
  \/ CallConfig
  \/ \E c \in Config : FileRead(c) \/ TokenEvent(c) \/ \E a \in Attempt : RequestEvent(c, a)
  \/ \E s \in Segment : InitSegment(s) \/ \E r \in Rule : SetMatchedSamplingRule(s, r)

(* A request does not stay as it is: setTimeout sees to that.  A retry is  *)
(* a timer's.                                                              *)
Fairness ==
  \A c \in Config :
    /\ WF_vars(TokenEvent(c))
    /\ \A a \in Attempt : WF_vars(RequestEvent(c, a))

Spec == Init /\ [][Next]_vars /\ Fairness

-----------------------------------------------------------------------------
(* Properties. *)

(* EC2 calls back, whatever the metadata service does and however often it *)
(* fails (getToken, getPluginMetadata), unless a response, to the token    *)
(* request or to one for metadata, does not end after it has begun: of     *)
(* that nobody is told.                                                    *)
EventuallyAnswered ==
  \A c \in Config :
    token[c] = "sent" ~>
      \/ answered[c] > 0
      \/ token[c] = "dropped"
      \/ \E a \in Attempt : request[c][a] = "dropped"

(* It does so once, unless the token request timed out before there was a  *)
(* response: the abort and the timeout each go on to the metadata.         *)
AnsweredOnce ==
  \A c \in Config :
    /\ answered[c] <= Cardinality({a \in Attempt : request[c][a] = "over"})
    /\ request[c][2] # "none" => token[c] = "repeated"

(* Segments share the object of the SDK's data and read the plugins'       *)
(* objects while answers still come in, to this call of config and to      *)
(* earlier ones; yet each has the rule that was set for it, no other's     *)
(* (setMatchedSamplingRule), and data of plugins that one call has named   *)
(* (config, addPluginData).                                                *)
SegmentDataIsOwn ==
  /\ TypeOK
  /\ \A s \in Made :
       /\ ruleName[xray[s]] = matched[s]
       /\ has[s] = {} \/ \E c \in 1 .. config : has[s] \subseteq Plugins[c] \cap data[c]
=============================================================================
