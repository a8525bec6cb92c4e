-------------------------- MODULE CentralSampling --------------------------
(***************************************************************************)
(* Sampling decisions by the rules of the X-Ray service:                   *)
(* packages/core/lib/middleware/sampling, without the local sampler.       *)
(*                                                                         *)
(* A decision takes or borrows from the reservoir of the rule that matches *)
(* the request, or falls back to the rule's rate.  One poller fetches the  *)
(* rules, the other reports what the rules have counted and brings back    *)
(* quotas.  The answers arrive later, in any order, or never.              *)
(*                                                                         *)
(* Which rule matches a request, the rate and its random number, jitters   *)
(* and the two poll intervals are left open: a request may match any rule  *)
(* of the cache, a poll may happen at any time, and it reports any of the  *)
(* rules that were matched (timeToReport).                                 *)
(***************************************************************************)
EXTENDS Integers, SequencesExt, Functions

CONSTANTS
  Rule,         \* the names of the rules
  CanBorrow,    \* those with a reservoir size
  Published,    \* Published[v]: the valid rules of the service's version v
  RuleTTL,      \* TTL of rule_cache.js, in seconds
  Quota,        \* the quotas the service may grant
  Lease,        \* how many seconds it grants them for
  Part,         \* the milliseconds into a second at which rules may be changed
  Epoch,        \* the second at which the program starts
  MaxTime,      \* bound: how many seconds pass
  MaxRequests,  \* bound: how many requests each rule decides
  MaxFetches,   \* bound: how many fetches of rules are outstanding
  MaxReports    \* bound: how many reports are outstanding

ASSUME RuleAssumption ==
  /\ CanBorrow \subseteq Rule
  /\ Published \in Seq((SUBSET Rule) \ {{}}) /\ Len(Published) > 0
(* The present, in seconds since 1970: no date of the run, taken for       *)
(* milliseconds, is as late as that.                                       *)
ASSUME TimeAssumption ==
  /\ RuleTTL \in Nat /\ Quota \subseteq Nat /\ Lease \in Nat /\ Part \subseteq 0..999
  /\ Epoch \in Nat \ {0} /\ Epoch + MaxTime + Lease < 1000 * Epoch
ASSUME BoundAssumption ==
  /\ MaxTime \in Nat /\ MaxRequests \in [Rule -> Nat] /\ MaxReports \in Nat
  /\ MaxFetches \in Nat \ {0}

VARIABLES
  now,          \* the clock, in seconds
  started,      \* DefaultSampler.started
  modifiedAt,   \* the service: the millisecond at which it put version v in force
  inSeconds,    \* the service: it gives its times in seconds, else in milliseconds
  rules,        \* the rules in the cache
  cached,       \* the version they are of
  lastUpdated,  \* lastUpdated of the cache, 0 for null
  counts,       \* counts[r]: requestCount of r.  The other two counts, of what was
                \* borrowed and sampled, are only ever reported and reset with it.
  reservoir,    \* reservoir[r]: quota, TTL and what was spent in second `sec'.
                \* A quota that is null compares as 0, a TTL that is null as 0.
                \* The TTL is the date that dateToEpoch was given.
  fetches,      \* the calls of GetSamplingRules that are outstanding; version 0
                \* until the service has read its rules
  reports,      \* the calls of SamplingTargets that are outstanding, likewise
  untold,       \* history: untold[r] is how many requests r has decided that the
                \* service was not told of, less those lost with a call that
                \* failed or when r left the cache
  granted,      \* history: granted[r] is the quota in the last answer for r, the
                \* millisecond until which it is granted, and whether the rule has
                \* been in the cache ever since
  spent,        \* history: spent[r] is what r took and borrowed this second
  left          \* history: left[r] is how often r left the cache this second

serviceVars == <<modifiedAt, inSeconds>>
cacheVars == <<rules, cached, lastUpdated, counts, reservoir>>
callVars == <<fetches, reports>>
historyVars == <<untold, granted, spent, left>>
vars == <<now, started, serviceVars, cacheVars, callVars, historyVars>>

Version == DOMAIN Published
Time == 0..(Epoch + MaxTime)
NewReservoir == [quota |-> 0, ttl |-> 0, sec |-> 0, taken |-> 0, borrowed |-> 0]
NoGrant == [quota |-> 0, until |-> 0, held |-> FALSE]
NothingSpent == [taken |-> 0, borrowed |-> 0]
NoAnswer == [freshness |-> 0, targets |-> <<>>]

Current == Len(modifiedAt)

TypeOK ==
  /\ now \in Epoch..(Epoch + MaxTime)
  /\ started \in BOOLEAN
  /\ modifiedAt \in Seq(Nat) /\ Current \in Version /\ inSeconds \in BOOLEAN
  /\ rules \subseteq Rule /\ cached \in 0..Current /\ lastUpdated \in Time
  /\ counts \in [Rule -> Nat]
  /\ Len(fetches) <= MaxFetches /\ Len(reports) <= MaxReports
  /\ \A r \in Rule : untold[r] \in 0..MaxRequests[r]

Init ==
  /\ now = Epoch
  /\ started = FALSE
  /\ modifiedAt = <<0>> /\ inSeconds \in BOOLEAN
  /\ rules = {} /\ cached = 0 /\ lastUpdated = 0
  /\ counts = [r \in Rule |-> 0]
  /\ reservoir = [r \in Rule |-> NewReservoir]
  /\ fetches = <<>> /\ reports = <<>>
  /\ untold = [r \in Rule |-> 0]
  /\ granted = [r \in Rule |-> NoGrant]
  /\ spent = [r \in Rule |-> NothingSpent]
  /\ left = [r \in Rule |-> 0]

Tick ==
  /\ now < Epoch + MaxTime
  /\ now' = now + 1
  /\ spent' = [r \in Rule |-> NothingSpent]
  /\ left' = [r \in Rule |-> 0]
  /\ UNCHANGED <<started, serviceVars, cacheVars, callVars, untold, granted>>

-----------------------------------------------------------------------------
(* refreshCache sends a request for the rules, with the time of sending.   *)

Fetch == fetches' = Append(fetches, [sent |-> now, version |-> 0])

PollRules ==
  /\ started /\ Len(fetches) < MaxFetches
  /\ Fetch
  /\ UNCHANGED <<now, started, serviceVars, cacheVars, reports, historyVars>>

\* Slip: the cache is stamped with the time of the answer.
StampOfArrival(f) == now

(* The timestamp is the one generated before the outbound call. *)
Stamp(f) == f.sent

\* Slip: the merge forgets the quota.
MergedWithoutQuota(new) ==
  /\ reservoir' = [r \in Rule |-> IF r \in rules \cap new
                                   THEN [reservoir[r] EXCEPT !.quota = 0, !.ttl = 0]
                                   ELSE NewReservoir]
  /\ counts' = [r \in Rule |-> IF r \in rules \cap new THEN counts[r] ELSE 0]

(* A rule of that name in the cache hands over its reservoir and counts. *)
Merged(new) ==
  /\ reservoir' = [r \in Rule |-> IF r \in rules \cap new THEN reservoir[r] ELSE NewReservoir]
  /\ counts' = [r \in Rule |-> IF r \in rules \cap new THEN counts[r] ELSE 0]

(* The callback of fetchSamplingRules: loadRules and timestamp. *)
RulesArrive(i) ==
  LET f == fetches[i]
      new == Published[f.version]
  IN
  /\ f.version # 0
  /\ fetches' = RemoveAt(fetches, i)
  /\ rules' = new
  /\ Merged(new)
  /\ lastUpdated' = Stamp(f)
  /\ cached' = f.version
  /\ untold' = [r \in Rule |-> IF r \in rules \ new THEN untold[r] - counts[r]
                                                   ELSE untold[r]]
  /\ granted' = [r \in Rule |-> IF r \in rules \ new THEN [granted[r] EXCEPT !.held = FALSE]
                                                     ELSE granted[r]]
  /\ left' = [r \in Rule |-> IF r \in rules \ new THEN left[r] + 1 ELSE left[r]]
  /\ UNCHANGED <<now, started, serviceVars, reports, spent>>

(* An error, or an answer that is not JSON, at any time. *)
RulesFail(i) ==
  /\ fetches' = RemoveAt(fetches, i)
  /\ UNCHANGED <<now, started, serviceVars, cacheVars, reports, historyVars>>

-----------------------------------------------------------------------------
(* shouldSample. *)

\* Slip: the cache never expires.
NeverExpires == lastUpdated = 0

IsExpired == lastUpdated = 0 \/ now > lastUpdated + RuleTTL

\* Slip: what was spent is forgotten with every decision.
ForgetsSpent(res) == [res EXCEPT !.sec = now, !.taken = 0, !.borrowed = 0]

(* adjustThisSec *)
ThisSec(res) ==
  IF res.sec = now THEN res ELSE [res EXCEPT !.sec = now, !.taken = 0, !.borrowed = 0]

(* What the count and the reservoir of a rule become by a decision. *)
Decided(r, res, sampling) ==
  /\ reservoir' = [reservoir EXCEPT ![r] =
                     [res EXCEPT !.taken = @ + (IF sampling = "take" THEN 1 ELSE 0),
                                 !.borrowed = @ + (IF sampling = "borrow" THEN 1 ELSE 0)]]
  /\ counts' = [counts EXCEPT ![r] = @ + 1]
  /\ spent' = [spent EXCEPT ![r].taken    = @ + (IF sampling = "take" THEN 1 ELSE 0),
                            ![r].borrowed = @ + (IF sampling = "borrow" THEN 1 ELSE 0)]
  /\ untold' = [untold EXCEPT ![r] = @ + 1]

(* dateToEpoch divides milliseconds by 1000, without rounding.  A date is  *)
(* kept as it is given, and the second it is compared with is multiplied.  *)
NotBefore(date, second) == date >= 1000 * second
After(date, second) == date > 1000 * second

\* Slip: the quota is compared with what was taken before this request.
TakesOneMore(r, res) ==
  IF NotBefore(res.ttl, now)
    THEN IF res.taken > res.quota THEN "rate" ELSE "take"
    ELSE IF r \in CanBorrow /\ res.borrowed < 1 THEN "borrow" ELSE "rate"

(* borrowOrTake.  Where it gives neither, the rate decides, and nothing of *)
(* the state tells how.                                                    *)
Sampling(r, res) ==
  IF NotBefore(res.ttl, now)
    THEN IF res.taken >= res.quota THEN "rate" ELSE "take"
    ELSE IF r \in CanBorrow /\ res.borrowed < 1 THEN "borrow" ELSE "rate"

(* The first decision starts the pollers; there are no rules yet, so it is *)
(* the local sampler's.                                                    *)
FirstDecision ==
  /\ ~started
  /\ started' = TRUE
  /\ Fetch
  /\ UNCHANGED <<now, serviceVars, cacheVars, reports, historyVars>>

(* processMatchedRule.  Without a rule in force the local sampler decides, *)
(* and nothing changes here.                                               *)
DecideBy(r) ==
  /\ started /\ ~IsExpired
  /\ r \in rules /\ untold[r] < MaxRequests[r]
  /\ LET res == ThisSec(reservoir[r]) IN Decided(r, res, Sampling(r, res))
  /\ UNCHANGED <<now, started, serviceVars, rules, cached, lastUpdated, callVars, granted, left>>

-----------------------------------------------------------------------------
(* The target poller. *)

\* Slip: a report leaves the counts as they are.
CountsKept(rs) == counts' = counts

(* snapshotStatistics: what is reported starts again from zero. *)
Snapshot(rs) == counts' = [r \in Rule |-> IF r \in rs THEN 0 ELSE counts[r]]

(* refresh, with the rules whose time to report has come. *)
Report(rs) ==
  /\ started /\ Len(reports) < MaxReports
  /\ rs # {} /\ \A r \in rs : r \in rules /\ counts[r] > 0
  /\ reports' = Append(reports, [docs |-> [r \in rs |-> counts[r]],
                                 version |-> 0, answer |-> NoAnswer])
  /\ Snapshot(rs)
  /\ UNCHANGED <<now, started, serviceVars, rules, cached, lastUpdated, reservoir,
                 fetches, historyVars>>

(* loadNewQuota: a value of 0 is taken for one that is missing. *)
NewQuota(r, target) ==
  [reservoir[r] EXCEPT !.quota = IF target.quota # 0 THEN target.quota ELSE @,
                       !.ttl = IF target.ttl # 0 THEN target.ttl ELSE @]

\* Slip: the comparison is the wrong way round.
FresherCache(answer) == ~NotBefore(answer.freshness, lastUpdated)

Outdated(answer) == After(answer.freshness, lastUpdated)

(* The millisecond that the service means by a date it gives. *)
Meant(date) == IF inSeconds THEN 1000 * date ELSE date

(* The callback of fetchTargets: loadTargets, and the out-of-band poll. *)
TargetsArrive(i) ==
  LET answer == reports[i].answer
      mapped == rules \cap DOMAIN answer.targets
  IN
  /\ reports[i].version # 0
  /\ reports' = RemoveAt(reports, i)
  /\ reservoir' = [r \in Rule |-> IF r \in mapped THEN NewQuota(r, answer.targets[r])
                                                  ELSE reservoir[r]]
  /\ granted' = [r \in Rule |-> IF r \in mapped
                                  THEN [quota |-> answer.targets[r].quota,
                                        until |-> Meant(answer.targets[r].ttl), held |-> TRUE]
                                  ELSE granted[r]]
  /\ IF Outdated(answer) THEN Len(fetches) < MaxFetches /\ Fetch ELSE fetches' = fetches
  /\ UNCHANGED <<now, started, serviceVars, rules, cached, lastUpdated, counts,
                 untold, spent, left>>

(* The reports with a count of r that the service has not read. *)
Unread(r) == {i \in 1..Len(reports) : reports[i].version = 0 /\ r \in DOMAIN reports[i].docs}

(* The report fails, before or after the service has taken note of it. *)
ReportFails(i) ==
  /\ reports' = RemoveAt(reports, i)
  /\ untold' = [r \in Rule |-> IF i \in Unread(r) THEN untold[r] - reports[i].docs[r] ELSE untold[r]]
  /\ UNCHANGED <<now, started, serviceVars, cacheVars, fetches, granted, spent, left>>

-----------------------------------------------------------------------------
(* The service, which is not part of the repository. *)

Modify ==
  /\ Current < Len(Published)
  /\ \E part \in Part : LET at == 1000 * now + part IN
       at >= modifiedAt[Current] /\ modifiedAt' = Append(modifiedAt, at)
  /\ UNCHANGED <<now, started, inSeconds, cacheVars, callVars, historyVars>>

ReadRules(i) ==
  /\ fetches[i].version = 0
  /\ fetches' = [fetches EXCEPT ![i].version = Current]
  /\ UNCHANGED <<now, started, serviceVars, cacheVars, reports, historyVars>>

(* A time as the service gives it.  Of what it is given, Date() drops the  *)
(* fractions.                                                              *)
Given(time) == IF inSeconds THEN time \div 1000 ELSE time

ReadReport(i, quotas) ==
  LET rs == DOMAIN reports[i].docs IN
  /\ reports[i].version = 0
  /\ reports' = [reports EXCEPT
       ![i].version = Current,
       ![i].answer = [freshness |-> Given(modifiedAt[Current]),
                      targets |-> [r \in rs |-> [quota |-> quotas[r],
                                                 ttl |-> Given(1000 * (now + Lease))]]]]
  /\ untold' = [r \in Rule |-> IF r \in rs THEN untold[r] - reports[i].docs[r] ELSE untold[r]]
  /\ UNCHANGED <<now, started, serviceVars, cacheVars, fetches, granted, spent, left>>

Service ==
  \/ Modify
  \/ \E i \in 1..Len(fetches) : ReadRules(i)
  \/ \E i \in 1..Len(reports) : \E quotas \in [Rule -> Quota] : ReadReport(i, quotas)

Sampler ==
  \/ FirstDecision
  \/ \E r \in Rule : DecideBy(r)

Pollers ==
  \/ PollRules
  \/ \E i \in 1..Len(fetches) : RulesArrive(i) \/ RulesFail(i)
  \/ \E rs \in SUBSET Rule : Report(rs)
  \/ \E i \in 1..Len(reports) : TargetsArrive(i) \/ ReportFails(i)

Next == Tick \/ Service \/ Sampler \/ Pollers

Spec == Init /\ [][Next]_vars

-----------------------------------------------------------------------------
(* Properties. *)

(* The cache is never marked as fresher than it is: it is stamped no later *)
(* than any change of the rules that it does not have, in whatever order   *)
(* the answers arrive (refreshCache, timestamp).                           *)
NeverFresherThanItIs == \A v \in (cached + 1)..Current : 1000 * lastUpdated <= modifiedAt[v]

(* No decision is made by rules that were replaced longer ago than the TTL *)
(* of the cache (getMatchedRule, isExpired).                               *)
NoDecisionByExpiredRules ==
  [][\A r \in Rule : untold'[r] > untold[r] /\ cached < Current =>
        1000 * now <= modifiedAt[cached + 1] + 1000 * RuleTTL]_vars

(* An answer that tells of newer rules, in milliseconds, leaves the cache  *)
(* with them, or with a fetch under way that was sent after the answer,    *)
(* unless the rules changed in the very millisecond in which the second of *)
(* the stamp begins.  An answer in seconds leads to no fetch, whatever it  *)
(* tells (the callback of fetchTargets, dateToEpoch).                      *)
NewerRulesAreFetched ==
  [][\A i \in 1..Len(reports) :
       TargetsArrive(i) =>
         IF inSeconds
           THEN fetches' = fetches
           ELSE LET v == reports[i].version IN
                \/ cached >= v
                \/ 1000 * lastUpdated = modifiedAt[v]
                \/ \E j \in 1..Len(fetches') : fetches'[j] = [sent |-> now, version |-> 0]]_vars

(* Nothing is borrowed while a quota is in force that was granted in       *)
(* milliseconds to the rule of the cache, not even after the rules were    *)
(* fetched again.  A rule that left the cache comes back without the grant *)
(* (borrowOrTake, loadNewQuota, merge, dateToEpoch).                       *)
BorrowOnlyWithoutGrant ==
  [][\A r \in Rule : spent'[r].borrowed > spent[r].borrowed =>
        inSeconds \/ ~granted[r].held \/ granted[r].until < 1000 * now]_vars

(* At most one request a second is borrowed, and one more for each time    *)
(* the rule has left the cache within that second: it comes back with a    *)
(* reservoir of its own (borrowOrTake, adjustThisSec, loadRules, merge).   *)
OneBorrowASecond == \A r \in Rule : spent[r].borrowed <= 1 + left[r]

(* What is taken in a second is within the quota last granted, except that *)
(* a quota of 0 does not replace the one before, and that a rule which     *)
(* left the cache within the second starts again.  Of what is granted in   *)
(* seconds nothing is taken (loadNewQuota, borrowOrTake, dateToEpoch).     *)
TakesWithinPositiveGrant ==
  [][\A r \in Rule : spent'[r].taken > spent[r].taken =>
        /\ ~inSeconds /\ granted[r].held /\ granted[r].until >= 1000 * now
        /\ granted[r].quota = 0 \/ left[r] > 0 \/ spent'[r].taken <= granted[r].quota]_vars

(* How many of the requests r decided are in a report on its way. *)
OnItsWay(r) == SumFunctionOnSet([i \in Unread(r) |-> reports[i].docs[r]], Unread(r))

(* Every request a rule decided is in its counts or in one report that is  *)
(* on its way, until the service is told of it: none is reported twice,    *)
(* and only a failed call or the end of the rule loses some                *)
(* (snapshotStatistics, merge).                                            *)
ReportedOnce ==
  /\ TypeOK
  /\ \A r \in Rule : untold[r] = counts[r] + OnItsWay(r)
=============================================================================
