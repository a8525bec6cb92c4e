-------------------------- MODULE ArrivalDecision --------------------------
(***************************************************************************)
(* What is decided when a request arrives (mw_utils.js): the name of its   *)
(* segment and whether it is traced, by the caller's header, by the        *)
(* service's rules or by the local rules and their reservoirs              *)
(* (local_sampler.js, local_reservoir.js).                                 *)
(*                                                                         *)
(* Time goes in halves of a second, since the reservoir rounds it.  The    *)
(* service's rules are CentralSampling's; here they decide or leave it.    *)
(***************************************************************************)
EXTENDS Wildcard, FiniteSets, FiniteSetsExt

CONSTANTS
  Character,
  Host, Method, Path, \* texts of requests
  RuleSet,   \* the configurations that setSamplingRules takes
  Default,   \* the one in force at the start
  DefaultName,
  HostPattern,
  MaxTime,
  None

ASSUME TextAssumption ==
  /\ Host \cup Method \cup Path \cup HostPattern \subseteq Seq(Character)
  /\ None \notin Host \cup HostPattern /\ DefaultName \notin Host

IsRule(rule) ==
  /\ rule.default \in BOOLEAN /\ rule.target \in Nat /\ rule.rate \in {"0", "between", "1"}
  /\ ~rule.default => {rule.host, rule.method, rule.path} \subseteq Seq(Character)

(* parseRulesConfig: the default is the last of the rules.                 *)
ASSUME RuleAssumption ==
  /\ MaxTime \in Nat /\ None \notin Nat /\ Default \in RuleSet
  /\ \A rs \in RuleSet :
       /\ DOMAIN rs = 1 .. Len(rs) /\ Len(rs) \in Nat \ {0} /\ rs[Len(rs)].default
       /\ \A i \in DOMAIN rs : IsRule(rs[i])

(* sampled is that of the trace header; "?!" is a question to a response   *)
(* whose header is no function.                                            *)
Arriving ==
  [host : Host \cup {None}, method : Method, path : Path,
   sampled : {"0", "1", "?", "?!", None}]

VARIABLES
  rules,          \* LocalSampler.rules
  window,         \* window[i]: thisSecond and usedThisSecond of rule i
  now,
  sampler,        \* "default" or "local"
  dynamicNaming, hostPattern,
  arrived,        \* the segment of the last request: name and traced
  taken,          \* history: taken[i][s], what rule i gave in second s, since its rules were set
  wanted          \* history: the pattern that enableDynamicNaming took last, or none yet

ruleVars == <<rules, window, taken>>
namingVars == <<dynamicNaming, hostPattern, wanted>>
arrivalVars == <<ruleVars, now, sampler, namingVars, arrived>>

Time == 0 .. MaxTime

(* Math.round, of now / 2.                                                 *)
Second(t) == (t + 1) \div 2
Seconds == {Second(t) : t \in Time}

Fresh(rs) == [i \in DOMAIN rs |-> [second |-> None, used |-> 0]]
NothingTaken(rs) == [i \in DOMAIN rs |-> [s \in Seconds |-> 0]]

ArrivalTypeOK ==
  /\ rules \in RuleSet /\ now \in Time /\ sampler \in {"default", "local"}
  /\ window \in [DOMAIN rules -> [second : Nat \cup {None}, used : Nat]]
  /\ taken \in [DOMAIN rules -> [Seconds -> Nat]]
  /\ dynamicNaming \in BOOLEAN /\ hostPattern \in HostPattern \cup {None}
  /\ arrived = None \/ arrived \in [name : Host \cup {DefaultName}, traced : BOOLEAN]

ArrivalInit ==
  /\ rules = Default /\ window = Fresh(Default) /\ taken = NothingTaken(Default)
  /\ now = 0 /\ sampler = "default"
  /\ dynamicNaming = FALSE /\ hostPattern = None /\ wanted = {}
  /\ arrived = None

-----------------------------------------------------------------------------
(* Deciding. *)

(* shouldSample: a request without a host fits every rule.                 *)
Applies(rule, q) ==
  \/ rule.default
  \/ q.host = None
  \/ /\ WildcardMatch(rule.host, q.host)
     /\ WildcardMatch(rule.method, q.method)
     /\ WildcardMatch(rule.path, q.path)

Matched(q) == Min({i \in DOMAIN rules : Applies(rules[i], q)})

\* Slip: thisSecond is never written.
AlwaysNew(i) == [second |-> Second(now), used |-> 0]

(* The window of a rule as isSampled finds it, or starts it.               *)
Window(i) ==
  IF window[i].second = Second(now) THEN window[i] ELSE [second |-> Second(now), used |-> 0]

ByRate(rule) == CASE rule.rate = "0" -> {FALSE} [] rule.rate = "1" -> {TRUE} [] OTHER -> BOOLEAN

(* LocalReservoir.isSampled *)
LocalSample(i, traced) ==
  LET w == Window(i) IN
  IF w.used >= rules[i].target
  THEN /\ traced \in ByRate(rules[i])
       /\ window' = [window EXCEPT ![i] = w]
       /\ UNCHANGED <<rules, taken>>
  ELSE /\ traced
       /\ window' = [window EXCEPT ![i] = [w EXCEPT !.used = @ + 1]]
       /\ taken' = [taken EXCEPT ![i][Second(now)] = @ + 1]
       /\ UNCHANGED rules

ResolveName(host) ==
  IF dynamicNaming /\ host \notin {None, <<>>}
     /\ (hostPattern # None => WildcardMatch(hostPattern, host))
  THEN host ELSE DefaultName

(* resolveSampling *)
Decides(q, traced) ==
  \/ q.sampled = "1" /\ traced /\ UNCHANGED ruleVars
  \/ q.sampled = "0" /\ ~traced /\ UNCHANGED ruleVars
  \/ q.sampled \notin {"0", "1"} /\ sampler = "default" /\ UNCHANGED ruleVars
  \/ q.sampled \notin {"0", "1"} /\ LocalSample(Matched(q), traced)

(* A question is answered with res.header, if there is one; if it is no    *)
(* function that throws, and there is no segment.                          *)
Arrive(q) ==
  \E traced \in BOOLEAN :
    /\ Decides(q, traced)
    /\ arrived' = IF q.sampled = "?!" THEN None
                  ELSE [name |-> ResolveName(q.host), traced |-> traced]
    /\ UNCHANGED <<now, sampler, namingVars>>

-----------------------------------------------------------------------------
(* Configuration, and time. *)

(* setSamplingRules.  A configuration that is not valid is refused before  *)
(* anything has changed; a valid one brings reservoirs of its own.         *)
SetSamplingRules(rs) ==
  /\ rules' = rs
  /\ window' = Fresh(rs) /\ taken' = NothingTaken(rs)
  /\ UNCHANGED <<now, sampler, namingVars, arrived>>

DisableCentralizedSampling ==
  /\ sampler' = "local"
  /\ UNCHANGED <<ruleVars, now, namingVars, arrived>>

EnableDynamicNaming(p) ==
  /\ dynamicNaming' = TRUE
  /\ hostPattern' = p /\ wanted' = {p}
  /\ UNCHANGED <<ruleVars, now, sampler, arrived>>

\* Slip: the pattern is assigned before it is looked at.
RefusalForgetsPattern ==
  /\ dynamicNaming' = TRUE
  /\ hostPattern' = None
  /\ UNCHANGED <<ruleVars, now, sampler, wanted, arrived>>

(* A pattern that is no text is refused, when dynamicNaming is set.        *)
RefuseDynamicNaming ==
  /\ dynamicNaming' = TRUE
  /\ UNCHANGED <<ruleVars, now, sampler, hostPattern, wanted, arrived>>

Tick ==
  /\ now < MaxTime
  /\ now' = now + 1
  /\ UNCHANGED <<ruleVars, sampler, namingVars, arrived>>

ArrivalNext ==
  \/ \E q \in Arriving : Arrive(q)
  \/ \E rs \in RuleSet : SetSamplingRules(rs)
  \/ DisableCentralizedSampling
  \/ \E p \in HostPattern \cup {None} : EnableDynamicNaming(p)
  \/ RefuseDynamicNaming
  \/ Tick

ArrivalSpec == ArrivalInit /\ [][ArrivalNext]_arrivalVars

-----------------------------------------------------------------------------
(* Properties. *)

(* A request with a host is decided by the first rule whose host, method   *)
(* and path it matches, in the sense of the reference, and by the default  *)
(* otherwise (shouldSample, wildcardMatch).  Without a host the comment    *)
(* promises an implicit match of the host; what happens is that the first  *)
(* rule decides, whatever the method and path.                             *)
FirstMatchingRule ==
  \A q \in [host : Host \cup {None}, method : Method, path : Path] :
    LET intended == {i \in DOMAIN rules :
          \/ rules[i].default
          \/ /\ Matches(rules[i].host, q.host)
             /\ Matches(rules[i].method, q.method) /\ Matches(rules[i].path, q.path)}
    IN  Matched(q) = IF q.host = None THEN 1 ELSE Min(intended)

(* In each second of the reservoir, which goes from one half to the next,  *)
(* a rule gives at most its target; and it never counts more than it gave, *)
(* so that none of the target goes to waste (isSampled).                   *)
TargetASecond ==
  /\ ArrivalTypeOK
  /\ \A i \in DOMAIN rules :
       /\ \A s \in Seconds : taken[i][s] <= rules[i].target
       /\ window[i].second # None => window[i].used = taken[i][window[i].second]

(* A segment is named after a host only if dynamic naming was asked for,   *)
(* and with a pattern only if the host matches it, even after a call that  *)
(* was refused; save that a first call that is refused lets every host     *)
(* through (enableDynamicNaming, resolveName).                             *)
NameIsAllowed ==
  [][arrived' # arrived /\ arrived' # None =>
       \/ arrived'.name = DefaultName
       \/ wanted = {} /\ dynamicNaming
       \/ \E p \in wanted : p = None \/ Matches(p, arrived'.name)]_arrivalVars
-----------------------------------------------------------------------------
(* The inductive invariant behind TargetASecond and NameIsAllowed.         *)

(* A window is of this second or an earlier one, and nothing was taken in  *)
(* any second after it.                                                    *)
WindowIsLatest ==
  \A i \in DOMAIN rules :
    /\ window[i].second # None => window[i].second \in Seconds /\ window[i].second <= Second(now)
    /\ \A s \in Seconds : (window[i].second # None => window[i].second < s) => taken[i][s] = 0

(* The pattern is that of the last call that was not refused. *)
PatternIsWanted == IF wanted = {} THEN hostPattern = None ELSE wanted = {hostPattern}

ArrivalInv ==
  /\ TargetASecond
  /\ WindowIsLatest
  /\ PatternIsWanted
=============================================================================
