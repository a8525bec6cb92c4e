----------------------- MODULE CentralSamplingProofs -----------------------
(***************************************************************************)
(* Proofs about CentralSampling for any rules, versions, quotas, lifetimes *)
(* and numbers of calls under way, whether the service gives its times in  *)
(* milliseconds, as dateToEpoch takes them, or in seconds.                 *)
(***************************************************************************)
EXTENDS CentralSampling, SequenceTheorems, SumTheorems, TLAPS

Reservoir == [quota : Nat, ttl : Nat, sec : Nat, taken : Nat, borrowed : Nat]
Target == [quota : Nat, ttl : Nat \ {0}]
Docs == UNION {[rs -> Nat] : rs \in SUBSET Rule}
Targets == UNION {[rs -> Target] : rs \in SUBSET Rule}
Answer == [freshness : Nat, targets : Targets \cup {<<>>}]

(* A date in seconds, taken for milliseconds, is long past.                *)
LongPast(date) == inSeconds => date < 1000 * Epoch

(* What is under way: a fetch was sent no later than any change of the     *)
(* rules after the version it brings; a report brings back the time of the *)
(* version it was answered with.                                           *)
SoundFetch ==
  {f \in [sent : Nat, version : Nat] :
     /\ Epoch <= f.sent /\ f.sent <= now /\ f.version <= Current
     /\ \A v \in f.version + 1 .. Current : f.version # 0 => 1000 * f.sent <= modifiedAt[v]}

SoundReport ==
  {q \in [docs : Docs, version : Nat, answer : Answer] :
     /\ q.version <= Current
     /\ q.version # 0 =>
          /\ q.answer.targets \in Targets
          /\ LongPast(q.answer.freshness)
          /\ \A r \in DOMAIN q.answer.targets : LongPast(q.answer.targets[r].ttl)
          /\ ~inSeconds => q.answer.freshness = modifiedAt[q.version]}

ClockSound ==
  /\ now \in Nat /\ Epoch <= now /\ now <= Epoch + MaxTime
  /\ inSeconds \in BOOLEAN
  /\ modifiedAt \in Seq(Nat) /\ Current > 0
  /\ \A v \in 1 .. Current : modifiedAt[v] <= 1000 * now + 999
  /\ cached \in Nat /\ cached <= Current
  /\ lastUpdated \in Nat /\ lastUpdated <= now

CallsSound == fetches \in Seq(SoundFetch) /\ reports \in Seq(SoundReport)

(* Without rules there has been nothing to report.                         *)
StampSound ==
  /\ lastUpdated # 0 => Epoch <= lastUpdated
  /\ lastUpdated = 0 => rules = {} /\ reports = <<>>

FieldsSound ==
  /\ counts \in [Rule -> Nat] /\ reservoir \in [Rule -> Reservoir]
  /\ untold \in [Rule -> Int] /\ left \in [Rule -> Nat]
  /\ granted \in [Rule -> [quota : Nat, until : Nat, held : BOOLEAN]]
  /\ spent \in [Rule -> [taken : Nat, borrowed : Nat]]

(* A reservoir of this second has what was spent in it since the rule last *)
(* left the cache; what was spent before was one for each time it left.    *)
SpentSound ==
  \A r \in Rule :
    /\ reservoir[r].sec <= now /\ reservoir[r].borrowed <= 1
    /\ left[r] = 0 =>
         spent[r].taken = IF reservoir[r].sec = now THEN reservoir[r].taken ELSE 0
    /\ spent[r].borrowed <=
         left[r] + (IF reservoir[r].sec = now THEN reservoir[r].borrowed ELSE 0)
    /\ r \notin rules => reservoir[r] = NewReservoir

(* The reservoir has the last grant, a quota of 0 apart, or none.          *)
GrantSound ==
  \A r \in Rule :
    /\ LongPast(reservoir[r].ttl)
    /\ ~granted[r].held => reservoir[r].ttl = 0
    /\ granted[r].held =>
         /\ r \in rules
         /\ granted[r].until = Meant(reservoir[r].ttl)
         /\ granted[r].quota # 0 => granted[r].quota = reservoir[r].quota

SamplingInv ==
  /\ ClockSound /\ CallsSound /\ StampSound /\ FieldsSound /\ SpentSound /\ GrantSound
  /\ NeverFresherThanItIs

-----------------------------------------------------------------------------
(* Sequences of what is under way.                                         *)
LEMMA Removed ==
  ASSUME NEW S, NEW s \in Seq(S), NEW i \in 1 .. Len(s)
  PROVE  RemoveAt(s, i) \in Seq(S)
<1>1. Len(s) \in Nat /\ \A j \in 1 .. Len(s) : s[j] \in S
  BY LenProperties, ElementOfSeq
<1>2. SubSeq(s, 1, i - 1) \in Seq(S)
  BY <1>1, SubSeqProperties
<1>3. SubSeq(s, i + 1, Len(s)) \in Seq(S)
  BY <1>1, SubSeqProperties
<1> QED BY <1>2, <1>3, ConcatProperties DEF RemoveAt

LEMMA SeqGrows ==
  ASSUME NEW S, NEW T, S \subseteq T, NEW s \in Seq(S)
  PROVE  s \in Seq(T)
<1>1. \A j \in 1 .. Len(s) : s[j] \in T
  BY ElementOfSeq
<1> QED BY <1>1, LenProperties, SeqDef

(* What is sound stays sound while time passes and rules change.           *)
LEMMA CallsStay ==
  ASSUME SamplingInv, now' \in Nat, now <= now', inSeconds' = inSeconds,
         \/ modifiedAt' = modifiedAt
         \/ \E at \in Nat : 1000 * now <= at /\ modifiedAt' = Append(modifiedAt, at)
  PROVE  SoundFetch \subseteq SoundFetch' /\ SoundReport \subseteq SoundReport'
<1>1. /\ now \in Nat /\ modifiedAt \in Seq(Nat) /\ Len(modifiedAt) \in Nat
      /\ \A v \in 1 .. Len(modifiedAt) : modifiedAt[v] \in Nat
  BY LenProperties, ElementOfSeq DEF SamplingInv, ClockSound
<1>2. /\ Len(modifiedAt') \in {Len(modifiedAt), Len(modifiedAt) + 1}
      /\ \A v \in 1 .. Len(modifiedAt) : modifiedAt'[v] = modifiedAt[v]
      /\ \A v \in Len(modifiedAt) + 1 .. Len(modifiedAt') :
           modifiedAt'[v] \in Nat /\ 1000 * now <= modifiedAt'[v]
  <2>1. CASE modifiedAt' = modifiedAt
    BY <1>1, <2>1
  <2>2. CASE \E at \in Nat : 1000 * now <= at /\ modifiedAt' = Append(modifiedAt, at)
    <3>0. PICK at \in Nat : 1000 * now <= at /\ modifiedAt' = Append(modifiedAt, at)
      BY <2>2
    <3>1. /\ Len(modifiedAt') = Len(modifiedAt) + 1
          /\ \A v \in 1 .. Len(modifiedAt) : modifiedAt'[v] = modifiedAt[v]
          /\ modifiedAt'[Len(modifiedAt) + 1] = at
      BY <1>1, <3>0, AppendProperties
    <3>2. \A v \in Len(modifiedAt) + 1 .. Len(modifiedAt) + 1 : v = Len(modifiedAt) + 1
      BY <1>1
    <3> QED BY <3>0, <3>1, <3>2
  <2> QED BY <2>1, <2>2
<1>3. ASSUME NEW f \in SoundFetch PROVE f \in SoundFetch'
  <2>1. /\ f \in [sent : Nat, version : Nat] /\ f.version <= Len(modifiedAt)
        /\ Epoch <= f.sent /\ f.sent <= now
        /\ \A v \in f.version + 1 .. Len(modifiedAt) :
             f.version # 0 => 1000 * f.sent <= modifiedAt[v]
    BY DEF SoundFetch, Current
  <2>2. f.sent <= now' /\ f.version <= Len(modifiedAt')
    BY <1>1, <1>2, <2>1
  <2>3. ASSUME NEW v \in f.version + 1 .. Len(modifiedAt'), f.version # 0
        PROVE  1000 * f.sent <= modifiedAt'[v]
    <3>1. CASE v \in 1 .. Len(modifiedAt)
      BY <1>2, <2>1, <2>3, <3>1
    <3>2. CASE v \notin 1 .. Len(modifiedAt)
      <4>1. v \in Len(modifiedAt) + 1 .. Len(modifiedAt')
        BY <1>1, <1>2, <2>1, <3>2
      <4> QED BY <1>1, <1>2, <2>1, <4>1
    <3> QED BY <3>1, <3>2
  <2> QED BY <2>1, <2>2, <2>3 DEF SoundFetch, Current
<1>4. ASSUME NEW q \in SoundReport PROVE q \in SoundReport'
  <2>1. /\ q \in [docs : Docs, version : Nat, answer : Answer] /\ q.version <= Len(modifiedAt)
        /\ q.version # 0 =>
             /\ q.answer.targets \in Targets
             /\ LongPast(q.answer.freshness)
             /\ \A r \in DOMAIN q.answer.targets : LongPast(q.answer.targets[r].ttl)
             /\ ~inSeconds => q.answer.freshness = modifiedAt[q.version]
    BY DEF SoundReport, Current
  <2>2. q.version # 0 => q.version \in 1 .. Len(modifiedAt)
    BY <1>1, <2>1
  <2>3. q.version <= Len(modifiedAt')
    BY <1>1, <1>2, <2>1
  <2> QED BY <1>2, <2>1, <2>2, <2>3 DEF SoundReport, Current, LongPast
<1> QED BY <1>3, <1>4

LEMMA WholeSeconds ==
  /\ \A t \in Nat : (1000 * t) \div 1000 = t
  /\ \A t, n \in Nat : t <= 1000 * n + 999 => t \div 1000 \in Nat /\ t \div 1000 <= n
OBVIOUS

(* Two fields of a record at once.                                         *)
LEMMA TwoFields ==
  ASSUME NEW q \in [docs : Docs, version : Nat, answer : Answer], NEW v \in Nat, NEW a \in Answer
  PROVE  [q EXCEPT !.version = v, !.answer = a] = [docs |-> q.docs, version |-> v, answer |-> a]
<1> DEFINE first == [q EXCEPT !.version = v]
<1>1. first = [docs |-> q.docs, version |-> v, answer |-> q.answer]
  OBVIOUS
<1>2. [q EXCEPT !.version = v, !.answer = a] = [first EXCEPT !.answer = a]
  OBVIOUS
<1> HIDE DEF first
<1>3. [first EXCEPT !.answer = a] = [docs |-> q.docs, version |-> v, answer |-> a]
  BY <1>1
<1> QED BY <1>2, <1>3

LEMMA InitKeepsSampling == Init => SamplingInv
<1> SUFFICES ASSUME Init PROVE SamplingInv
  OBVIOUS
<1>1. modifiedAt \in Seq(Nat) /\ Len(modifiedAt) = 1 /\ modifiedAt[1] = 0
  BY DEF Init
<1>2. ClockSound /\ StampSound
  BY <1>1, TimeAssumption, BoundAssumption DEF Init, ClockSound, StampSound, Current
<1>3. CallsSound
  BY DEF Init, CallsSound
<1>4. FieldsSound
  BY DEF Init, FieldsSound, NewReservoir, Reservoir, NoGrant, NothingSpent
<1>5. SpentSound /\ GrantSound
  BY TimeAssumption
  DEF Init, SpentSound, GrantSound, LongPast, NewReservoir, NoGrant, NothingSpent
<1>6. NeverFresherThanItIs
  BY <1>1 DEF Init, NeverFresherThanItIs, Current
<1> QED BY <1>2, <1>3, <1>4, <1>5, <1>6 DEF SamplingInv

LEMMA TickKeeps == ASSUME SamplingInv, Tick PROVE SamplingInv'
<1> USE DEF SamplingInv
<1>1. /\ now \in Nat /\ now' = now + 1 /\ now < Epoch + MaxTime
      /\ spent' = [r \in Rule |-> NothingSpent] /\ left' = [r \in Rule |-> 0]
      /\ UNCHANGED <<started, serviceVars, cacheVars, callVars, untold, granted>>
  BY DEF ClockSound, Tick
<1> USE DEF serviceVars, cacheVars, callVars
<1>2. ClockSound' /\ StampSound' /\ NeverFresherThanItIs'
  <2>1. ASSUME NEW v \in 1 .. Current PROVE modifiedAt[v] <= 1000 * now' + 999
    BY <1>1, ElementOfSeq DEF ClockSound, Current
  <2>2. now' \in Nat /\ Epoch <= now' /\ now' <= Epoch + MaxTime
    BY <1>1, TimeAssumption, BoundAssumption DEF ClockSound
  <2> QED BY <1>1, <2>1, <2>2 DEF ClockSound, StampSound, NeverFresherThanItIs, Current
<1>3. CallsSound'
  <2>1. SoundFetch \subseteq SoundFetch' /\ SoundReport \subseteq SoundReport'
    BY <1>1, CallsStay
  <2> QED BY <1>1, <2>1, SeqGrows DEF CallsSound
<1>4. FieldsSound' /\ GrantSound'
  BY <1>1 DEF FieldsSound, GrantSound, LongPast, Meant, NothingSpent
<1>5. SpentSound'
  BY <1>1 DEF FieldsSound, SpentSound, NothingSpent, Reservoir
<1> QED BY <1>2, <1>3, <1>4, <1>5

-----------------------------------------------------------------------------
(* Steps of the service.                                                   *)
LEMMA ModifyKeeps == ASSUME SamplingInv, Modify PROVE SamplingInv'
<1> USE DEF SamplingInv
<1>1. PICK part \in Part : modifiedAt' = Append(modifiedAt, 1000 * now + part)
  BY DEF Modify
<1> DEFINE at == 1000 * now + part
<1>2. UNCHANGED <<now, started, inSeconds, cacheVars, callVars, historyVars>>
  BY DEF Modify
<1> USE DEF cacheVars, callVars, historyVars
<1>3. now \in Nat /\ at \in Nat /\ 1000 * now <= at /\ at <= 1000 * now + 999
  BY TimeAssumption DEF ClockSound
<1>4. modifiedAt' = Append(modifiedAt, at)
  BY <1>1
<1> HIDE DEF at
<1>5. /\ modifiedAt \in Seq(Nat) /\ Len(modifiedAt) \in Nat
      /\ cached \in Nat /\ lastUpdated \in Nat /\ lastUpdated <= now
      /\ modifiedAt' \in Seq(Nat) /\ Len(modifiedAt') = Len(modifiedAt) + 1
      /\ \A v \in 1 .. Len(modifiedAt) : modifiedAt'[v] = modifiedAt[v]
      /\ modifiedAt'[Len(modifiedAt) + 1] = at
  BY <1>3, <1>4, AppendProperties, LenProperties DEF ClockSound
<1>6. ASSUME NEW v \in 1 .. Len(modifiedAt) + 1
      PROVE  /\ modifiedAt'[v] <= 1000 * now + 999
             /\ v >= cached + 1 => 1000 * lastUpdated <= modifiedAt'[v]
  <2>1. CASE v = Len(modifiedAt) + 1
    BY <1>3, <1>5, <2>1
  <2>2. CASE v # Len(modifiedAt) + 1
    <3>1. v \in 1 .. Len(modifiedAt) /\ (v >= cached + 1 => v \in cached + 1 .. Len(modifiedAt))
      BY <1>5, <2>2
    <3> QED BY <1>5, <3>1 DEF ClockSound, NeverFresherThanItIs, Current
  <2> QED BY <2>1, <2>2
<1>7. ClockSound' /\ StampSound'
  BY <1>2, <1>5, <1>6 DEF ClockSound, StampSound, Current
<1>8. NeverFresherThanItIs'
  <2> SUFFICES ASSUME NEW v \in cached + 1 .. Len(modifiedAt) + 1
               PROVE  1000 * lastUpdated <= modifiedAt'[v]
    BY <1>2, <1>5 DEF NeverFresherThanItIs, Current
  <2>1. v \in 1 .. Len(modifiedAt) + 1 /\ v >= cached + 1
    BY <1>5
  <2> QED BY <1>6, <2>1
<1>9. CallsSound'
  <2>1. SoundFetch \subseteq SoundFetch' /\ SoundReport \subseteq SoundReport'
    BY <1>2, <1>3, <1>4, CallsStay
  <2> QED BY <1>2, <2>1, SeqGrows DEF CallsSound
<1>10. FieldsSound' /\ GrantSound' /\ SpentSound'
  BY <1>2 DEF FieldsSound, GrantSound, LongPast, Meant, SpentSound
<1> QED BY <1>7, <1>8, <1>9, <1>10

(* The parts of the invariant that do not look at the calls under way.     *)
LEMMA CallsOnly ==
  ASSUME SamplingInv, CallsSound',
         UNCHANGED <<now, serviceVars, cacheVars, reports, historyVars>>
  PROVE  SamplingInv'
<1> USE DEF SamplingInv, serviceVars, cacheVars, historyVars
<1>1. ClockSound' /\ StampSound' /\ NeverFresherThanItIs'
  BY DEF ClockSound, StampSound, NeverFresherThanItIs, Current
<1>2. FieldsSound' /\ SpentSound' /\ GrantSound'
  BY DEF FieldsSound, SpentSound, GrantSound, LongPast, Meant
<1> QED BY <1>1, <1>2

LEMMA CallsFixed ==
  ASSUME UNCHANGED <<now, serviceVars>>
  PROVE  SoundFetch' = SoundFetch /\ SoundReport' = SoundReport
BY DEF SoundFetch, SoundReport, LongPast, Current, serviceVars

LEMMA ReadRulesKeeps ==
  ASSUME SamplingInv, NEW i \in 1 .. Len(fetches), ReadRules(i)
  PROVE  SamplingInv'
<1>1. /\ fetches' = [fetches EXCEPT ![i].version = Current]
      /\ UNCHANGED <<now, serviceVars, cacheVars, reports, historyVars>>
  BY DEF ReadRules
<1>2. Current \in Nat /\ fetches \in Seq(SoundFetch) /\ reports \in Seq(SoundReport)
  BY LenProperties DEF SamplingInv, ClockSound, CallsSound, Current
<1>3. fetches[i] \in SoundFetch
  BY <1>2, ElementOfSeq
<1>4. [fetches[i] EXCEPT !.version = Current] \in SoundFetch
  <2> DEFINE f == [fetches[i] EXCEPT !.version = Current]
  <2>1. f \in [sent : Nat, version : Nat] /\ f.sent = fetches[i].sent /\ f.version = Current
    BY <1>2, <1>3 DEF SoundFetch
  <2>2. Epoch <= f.sent /\ f.sent <= now
    BY <1>3, <2>1 DEF SoundFetch
  <2> HIDE DEF f
  <2>3. f.version + 1 .. Current = {}
    BY <1>2, <2>1
  <2>4. f \in SoundFetch
    BY <1>2, <2>1, <2>2, <2>3 DEF SoundFetch
  <2> QED BY <2>4 DEF f
<1>5. fetches' \in Seq(SoundFetch)
  BY <1>1, <1>2, <1>4, ExceptSeq
<1>6. CallsSound'
  BY <1>1, <1>2, <1>5, CallsFixed DEF CallsSound
<1> QED BY <1>1, <1>6, CallsOnly

LEMMA ReadReportKeeps ==
  ASSUME SamplingInv, NEW i \in 1 .. Len(reports), NEW quotas \in [Rule -> Quota],
         ReadReport(i, quotas)
  PROVE  SamplingInv'
<1> DEFINE rs == DOMAIN reports[i].docs
           date == Given(1000 * (now + Lease))
           targets == [r \in rs |-> [quota |-> quotas[r], ttl |-> date]]
           answer == [freshness |-> Given(modifiedAt[Current]), targets |-> targets]
<1>1. /\ reports' = [reports EXCEPT ![i].version = Current, ![i].answer = answer]
      /\ untold' = [r \in Rule |-> IF r \in rs THEN untold[r] - reports[i].docs[r] ELSE untold[r]]
      /\ UNCHANGED <<now, serviceVars, cacheVars, fetches, granted, spent, left>>
  BY DEF ReadReport
<1>2. /\ Current \in Nat /\ Current > 0 /\ now \in Nat
      /\ fetches \in Seq(SoundFetch) /\ reports \in Seq(SoundReport)
      /\ modifiedAt[Current] \in Nat /\ modifiedAt[Current] <= 1000 * now + 999
  BY LenProperties, ElementOfSeq DEF SamplingInv, ClockSound, CallsSound, Current
<1>3. reports[i] \in SoundReport
  BY <1>2, ElementOfSeq
<1>4. rs \in SUBSET Rule /\ reports[i].docs \in [rs -> Nat]
  BY <1>3 DEF SoundReport, Docs
<1>5. now + Lease \in Nat \ {0} /\ now < 1000 * Epoch /\ now + Lease < 1000 * Epoch
  BY <1>2, TimeAssumption, BoundAssumption DEF SamplingInv, ClockSound
<1>6. date \in Nat \ {0} /\ LongPast(date)
  <2>1. CASE inSeconds
    <3>1. date = now + Lease
      BY <1>5, <2>1, WholeSeconds DEF Given
    <3> QED BY <1>5, <3>1 DEF LongPast
  <2>2. CASE ~inSeconds
    BY <1>5, <2>2 DEF Given, LongPast
  <2> QED BY <2>1, <2>2
<1>7. /\ answer.freshness \in Nat /\ LongPast(answer.freshness)
      /\ ~inSeconds => answer.freshness = modifiedAt[Current]
  <2>1. modifiedAt[Current] \div 1000 \in Nat /\ modifiedAt[Current] \div 1000 <= now
    BY <1>2, WholeSeconds
  <2>2. modifiedAt[Current] \div 1000 < 1000 * Epoch
    BY <1>2, <1>5, <2>1, TimeAssumption
  <2> QED BY <1>2, <2>1, <2>2 DEF Given, LongPast
<1> HIDE DEF date
<1>8. /\ answer.targets \in Targets /\ answer \in Answer
      /\ \A r \in DOMAIN answer.targets : LongPast(answer.targets[r].ttl)
  <2> HIDE DEF rs
  <2>1. \A r \in rs : quotas[r] \in Nat
    <3>1. \A r \in Rule : quotas[r] \in Quota
      OBVIOUS
    <3>2. rs \subseteq Rule
      BY <1>4
    <3>3. Quota \subseteq Nat
      BY TimeAssumption
    <3> QED BY <3>1, <3>2, <3>3
  <2>2. targets \in [rs -> Target]
    BY <1>6, <2>1 DEF Target
  <2>3. targets \in Targets
    BY <1>4, <2>2 DEF Targets
  <2> QED BY <1>6, <1>7, <2>3 DEF Answer
<1> HIDE DEF answer
<1>9. [reports[i] EXCEPT !.version = Current, !.answer = answer] \in SoundReport
  <2>1. reports[i] \in [docs : Docs, version : Nat, answer : Answer]
    BY <1>3 DEF SoundReport
  <2>2. [docs |-> reports[i].docs, version |-> Current, answer |-> answer] \in SoundReport
    BY <1>2, <1>7, <1>8, <2>1 DEF SoundReport
  <2>3. [reports[i] EXCEPT !.version = Current, !.answer = answer] =
          [docs |-> reports[i].docs, version |-> Current, answer |-> answer]
    BY <1>2, <1>8, <2>1, TwoFields
  <2> QED BY <2>2, <2>3
<1>10. reports' \in Seq(SoundReport)
  <2>1. reports' = [reports EXCEPT ![i] = [reports[i] EXCEPT !.version = Current, !.answer = answer]]
    BY <1>1
  <2> QED BY <1>2, <1>9, <2>1, ExceptSeq
<1>11. CallsSound'
  BY <1>1, <1>2, <1>10, CallsFixed DEF CallsSound
<1>12. ClockSound' /\ NeverFresherThanItIs' /\ SpentSound' /\ GrantSound'
  BY <1>1
  DEF SamplingInv, ClockSound, NeverFresherThanItIs, Current, SpentSound, GrantSound, LongPast,
      Meant, serviceVars, cacheVars
<1>13. StampSound'
  <2>1. lastUpdated # 0
    BY <1>2 DEF SamplingInv, StampSound
  <2> QED BY <1>1, <2>1 DEF SamplingInv, StampSound, cacheVars
<1>14. FieldsSound'
  BY <1>1, <1>4 DEF SamplingInv, FieldsSound, cacheVars
<1> QED BY <1>11, <1>12, <1>13, <1>14 DEF SamplingInv

-----------------------------------------------------------------------------
(* Polls, and calls that fail.                                             *)
LEMMA FetchSound ==
  ASSUME SamplingInv, Fetch, UNCHANGED <<now, serviceVars>>
  PROVE  fetches' \in Seq(SoundFetch')
<1>1. now \in Nat /\ Epoch <= now /\ Current \in Nat /\ fetches \in Seq(SoundFetch)
  BY LenProperties DEF SamplingInv, ClockSound, CallsSound, Current
<1>2. [sent |-> now, version |-> 0] \in SoundFetch
  BY <1>1 DEF SoundFetch
<1> QED BY <1>1, <1>2, CallsFixed DEF Fetch

LEMMA FetchKeeps ==
  ASSUME SamplingInv, FirstDecision \/ PollRules
  PROVE  SamplingInv'
<1>1. Fetch /\ UNCHANGED <<now, serviceVars, cacheVars, reports, historyVars>>
  BY DEF FirstDecision, PollRules
<1>2. CallsSound'
  BY <1>1, FetchSound, CallsFixed DEF SamplingInv, CallsSound
<1> QED BY <1>1, <1>2, CallsOnly

LEMMA RulesFailKeeps ==
  ASSUME SamplingInv, NEW i \in 1 .. Len(fetches), RulesFail(i)
  PROVE  SamplingInv'
<1>1. fetches' = RemoveAt(fetches, i) /\ UNCHANGED <<now, serviceVars, cacheVars, reports, historyVars>>
  BY DEF RulesFail
<1>2. CallsSound'
  BY <1>1, Removed, CallsFixed DEF SamplingInv, CallsSound
<1> QED BY <1>1, <1>2, CallsOnly

LEMMA ReportFailsKeeps ==
  ASSUME SamplingInv, NEW i \in 1 .. Len(reports), ReportFails(i)
  PROVE  SamplingInv'
<1>1. /\ reports' = RemoveAt(reports, i)
      /\ untold' = [r \in Rule |-> IF i \in Unread(r) THEN untold[r] - reports[i].docs[r] ELSE untold[r]]
      /\ UNCHANGED <<now, serviceVars, cacheVars, fetches, granted, spent, left>>
  BY DEF ReportFails
<1>2. CallsSound'
  BY <1>1, Removed, CallsFixed DEF SamplingInv, CallsSound
<1>3. reports[i] \in SoundReport
  BY ElementOfSeq DEF SamplingInv, CallsSound
<1>4. \A r \in Rule : i \in Unread(r) => reports[i].docs[r] \in Nat
  BY <1>3 DEF SoundReport, Docs, Unread
<1>5. ClockSound' /\ NeverFresherThanItIs' /\ SpentSound' /\ GrantSound'
  BY <1>1
  DEF SamplingInv, ClockSound, NeverFresherThanItIs, Current, SpentSound, GrantSound, LongPast,
      Meant, serviceVars, cacheVars
<1>6. StampSound'
  <2>1. lastUpdated # 0
    BY DEF SamplingInv, StampSound
  <2> QED BY <1>1, <2>1 DEF SamplingInv, StampSound, cacheVars
<1>7. FieldsSound'
  BY <1>1, <1>4 DEF SamplingInv, FieldsSound, cacheVars
<1> QED BY <1>2, <1>5, <1>6, <1>7 DEF SamplingInv

LEMMA ReportKeeps ==
  ASSUME SamplingInv, NEW rs \in SUBSET Rule, Report(rs)
  PROVE  SamplingInv'
<1> DEFINE q == [docs |-> [r \in rs |-> counts[r]], version |-> 0, answer |-> NoAnswer]
<1>1. /\ reports' = Append(reports, q) /\ rs # {} /\ rs \subseteq rules
      /\ counts' = [r \in Rule |-> IF r \in rs THEN 0 ELSE counts[r]]
      /\ UNCHANGED <<now, serviceVars, rules, cached, lastUpdated, reservoir, fetches, historyVars>>
  BY DEF Report, Snapshot
<1>2. q \in SoundReport
  <2>1. [r \in rs |-> counts[r]] \in [rs -> Nat]
    BY DEF SamplingInv, FieldsSound
  <2>2. q \in [docs : Docs, version : Nat, answer : Answer]
    BY <2>1 DEF Docs, Answer, NoAnswer
  <2> QED BY <2>2, LenProperties DEF SoundReport, SamplingInv, ClockSound, Current
<1> HIDE DEF q
<1>3. CallsSound'
  BY <1>1, <1>2, CallsFixed DEF SamplingInv, CallsSound
<1>4. ClockSound' /\ NeverFresherThanItIs' /\ SpentSound' /\ GrantSound'
  BY <1>1
  DEF SamplingInv, ClockSound, NeverFresherThanItIs, Current, SpentSound, GrantSound, LongPast,
      Meant, serviceVars, historyVars
<1>5. StampSound'
  <2>1. lastUpdated # 0
    BY <1>1 DEF SamplingInv, StampSound
  <2> QED BY <1>1, <2>1 DEF SamplingInv, StampSound
<1>6. FieldsSound'
  BY <1>1 DEF SamplingInv, FieldsSound, historyVars
<1> QED BY <1>3, <1>4, <1>5, <1>6 DEF SamplingInv

-----------------------------------------------------------------------------
(* Rules and quotas that arrive.                                           *)
LEMMA RulesArriveKeeps ==
  ASSUME SamplingInv, NEW i \in 1 .. Len(fetches), RulesArrive(i)
  PROVE  SamplingInv'
<1> USE DEF SamplingInv
<1> DEFINE f == fetches[i]
           new == Published[f.version]
<1>1. /\ f.version # 0 /\ fetches' = RemoveAt(fetches, i) /\ rules' = new
      /\ reservoir' = [r \in Rule |-> IF r \in rules \cap new THEN reservoir[r] ELSE NewReservoir]
      /\ counts' = [r \in Rule |-> IF r \in rules \cap new THEN counts[r] ELSE 0]
      /\ lastUpdated' = f.sent /\ cached' = f.version
      /\ untold' = [r \in Rule |-> IF r \in rules \ new THEN untold[r] - counts[r] ELSE untold[r]]
      /\ granted' = [r \in Rule |-> IF r \in rules \ new THEN [granted[r] EXCEPT !.held = FALSE]
                                                         ELSE granted[r]]
      /\ left' = [r \in Rule |-> IF r \in rules \ new THEN left[r] + 1 ELSE left[r]]
      /\ UNCHANGED <<now, serviceVars, reports, spent>>
  BY DEF RulesArrive, Merged, Stamp
<1>2. f \in SoundFetch
  BY ElementOfSeq DEF CallsSound
<1> HIDE DEF f, new
<1>3. ClockSound' /\ NeverFresherThanItIs'
  BY <1>1, <1>2 DEF ClockSound, NeverFresherThanItIs, SoundFetch, Current, serviceVars
<1>4. CallsSound'
  BY <1>1, Removed, CallsFixed DEF CallsSound
<1>5. StampSound'
  BY <1>1, <1>2, TimeAssumption DEF StampSound, SoundFetch
<1>6. FieldsSound'
  <2>1. NewReservoir \in Reservoir
    BY DEF NewReservoir, Reservoir
  <2>2. reservoir' \in [Rule -> Reservoir] /\ counts' \in [Rule -> Nat] /\ left' \in [Rule -> Nat]
    BY <1>1, <2>1 DEF FieldsSound
  <2>3. \A r \in Rule : untold[r] - counts[r] \in Int
    BY DEF FieldsSound
  <2>4. untold' \in [Rule -> Int]
    BY <1>1, <2>3 DEF FieldsSound
  <2>5. \A r \in Rule : [granted[r] EXCEPT !.held = FALSE] \in [quota : Nat, until : Nat, held : BOOLEAN]
    BY DEF FieldsSound
  <2>6. granted' \in [Rule -> [quota : Nat, until : Nat, held : BOOLEAN]]
    BY <1>1, <2>5 DEF FieldsSound
  <2> QED BY <1>1, <2>2, <2>4, <2>6 DEF FieldsSound
<1>7. SpentSound'
  <2> SUFFICES ASSUME NEW r \in Rule
               PROVE  /\ reservoir'[r].sec <= now /\ reservoir'[r].borrowed <= 1
                      /\ left'[r] = 0 =>
                           spent[r].taken = IF reservoir'[r].sec = now THEN reservoir'[r].taken ELSE 0
                      /\ spent[r].borrowed <=
                           left'[r] + (IF reservoir'[r].sec = now THEN reservoir'[r].borrowed ELSE 0)
                      /\ r \notin new => reservoir'[r] = NewReservoir
    BY <1>1 DEF SpentSound
  <2>1. CASE r \in rules \cap new
    BY <1>1, <2>1 DEF SpentSound
  <2>2. CASE r \notin rules
    <3>1. reservoir'[r] = NewReservoir /\ reservoir[r] = NewReservoir /\ left'[r] = left[r]
      BY <1>1, <2>2 DEF SpentSound
    <3> QED BY <3>1 DEF SpentSound, NewReservoir
  <2>3. CASE r \in rules \ new
    <3>1. reservoir'[r] = NewReservoir /\ left'[r] = left[r] + 1 /\ left[r] \in Nat
      BY <1>1, <2>3 DEF FieldsSound
    <3>2. spent[r].borrowed <= left[r] + 1
      <4>1. /\ reservoir[r].borrowed <= 1 /\ reservoir[r].borrowed \in Nat /\ spent[r].borrowed \in Nat
            /\ spent[r].borrowed <=
                 left[r] + (IF reservoir[r].sec = now THEN reservoir[r].borrowed ELSE 0)
        BY DEF SpentSound, FieldsSound, Reservoir
      <4> QED BY <3>1, <4>1
    <3>3. now \in Nat /\ 0 <= now /\ now # 0
      BY TimeAssumption DEF ClockSound
    <3> QED BY <2>3, <3>1, <3>2, <3>3 DEF NewReservoir, FieldsSound
  <2> QED BY <2>1, <2>2, <2>3
<1>8. GrantSound'
  <2> SUFFICES ASSUME NEW r \in Rule
               PROVE  /\ LongPast(reservoir'[r].ttl)
                      /\ ~granted'[r].held => reservoir'[r].ttl = 0
                      /\ granted'[r].held =>
                           /\ r \in new
                           /\ granted'[r].until = Meant(reservoir'[r].ttl)
                           /\ granted'[r].quota # 0 => granted'[r].quota = reservoir'[r].quota
    BY <1>1 DEF GrantSound, LongPast, Meant, serviceVars
  <2>1. CASE r \in rules \cap new
    BY <1>1, <2>1 DEF GrantSound
  <2>2. CASE r \notin rules \cap new
    <3>1. reservoir'[r].ttl = 0
      BY <1>1, <2>2 DEF NewReservoir
    <3>2. ~granted'[r].held
      <4>1. CASE r \in rules
        BY <1>1, <2>2, <4>1 DEF FieldsSound
      <4>2. CASE r \notin rules
        BY <1>1, <4>2 DEF GrantSound
      <4> QED BY <4>1, <4>2
    <3>3. LongPast(0)
      BY TimeAssumption DEF LongPast
    <3> QED BY <3>1, <3>2, <3>3
  <2> QED BY <2>1, <2>2
<1> QED BY <1>3, <1>4, <1>5, <1>6, <1>7, <1>8

LEMMA TargetsArriveKeeps ==
  ASSUME SamplingInv, NEW i \in 1 .. Len(reports), TargetsArrive(i)
  PROVE  SamplingInv'
<1> USE DEF SamplingInv
<1> DEFINE answer == reports[i].answer
           mapped == rules \cap DOMAIN answer.targets
<1>1. /\ reports[i].version # 0 /\ reports' = RemoveAt(reports, i)
      /\ reservoir' = [r \in Rule |-> IF r \in mapped THEN NewQuota(r, answer.targets[r]) ELSE reservoir[r]]
      /\ granted' = [r \in Rule |-> IF r \in mapped
                                     THEN [quota |-> answer.targets[r].quota,
                                           until |-> Meant(answer.targets[r].ttl), held |-> TRUE]
                                     ELSE granted[r]]
      /\ Fetch \/ fetches' = fetches
      /\ UNCHANGED <<now, serviceVars, rules, cached, lastUpdated, counts, untold, spent, left>>
  BY DEF TargetsArrive
<1>2. /\ answer.targets \in Targets
      /\ \A r \in DOMAIN answer.targets : LongPast(answer.targets[r].ttl)
  <2>1. reports[i] \in SoundReport
    BY ElementOfSeq DEF CallsSound
  <2> QED BY <1>1, <2>1 DEF SoundReport
<1> HIDE DEF answer
<1>3. ASSUME NEW r \in Rule, r \in mapped
      PROVE  /\ answer.targets[r].quota \in Nat
             /\ answer.targets[r].ttl \in Nat /\ answer.targets[r].ttl # 0
             /\ Meant(answer.targets[r].ttl) \in Nat
             /\ LongPast(answer.targets[r].ttl)
  <2>1. answer.targets[r] \in Target
    BY <1>2, <1>3 DEF Targets
  <2>2. \A t \in Nat : 1000 * t \in Nat
    OBVIOUS
  <2> QED BY <1>2, <1>3, <2>1, <2>2 DEF Target, Meant
<1>4. ASSUME NEW r \in Rule, r \in mapped
      PROVE  /\ reservoir'[r] \in Reservoir
             /\ reservoir'[r].ttl = answer.targets[r].ttl
             /\ answer.targets[r].quota # 0 => reservoir'[r].quota = answer.targets[r].quota
             /\ reservoir'[r].sec = reservoir[r].sec /\ reservoir'[r].taken = reservoir[r].taken
             /\ reservoir'[r].borrowed = reservoir[r].borrowed
             /\ r \in rules
  <2>1. reservoir[r] \in Reservoir /\ reservoir'[r] = NewQuota(r, answer.targets[r]) /\ r \in rules
    BY <1>1, <1>4 DEF FieldsSound
  <2> DEFINE t == answer.targets[r]
  <2>2. t.quota \in Nat /\ t.ttl \in Nat /\ t.ttl # 0
    BY <1>3, <1>4
  <2>3. reservoir'[r] = [reservoir[r] EXCEPT !.quota = IF t.quota # 0 THEN t.quota ELSE @,
                                             !.ttl = t.ttl]
    BY <2>1, <2>2 DEF NewQuota
  <2> HIDE DEF t
  <2>4. /\ reservoir'[r] \in Reservoir /\ reservoir'[r].ttl = t.ttl
        /\ t.quota # 0 => reservoir'[r].quota = t.quota
        /\ reservoir'[r].sec = reservoir[r].sec /\ reservoir'[r].taken = reservoir[r].taken
        /\ reservoir'[r].borrowed = reservoir[r].borrowed
    <3> DEFINE q == IF t.quota # 0 THEN t.quota ELSE reservoir[r].quota
    <3>1. q \in Nat /\ (t.quota # 0 => q = t.quota)
      BY <2>1, <2>2 DEF Reservoir
    <3> DEFINE first == [reservoir[r] EXCEPT !.quota = q]
    <3>2. reservoir'[r] = [first EXCEPT !.ttl = t.ttl]
      BY <2>3
    <3>3. /\ first \in Reservoir /\ first.quota = q /\ first.sec = reservoir[r].sec
          /\ first.taken = reservoir[r].taken /\ first.borrowed = reservoir[r].borrowed
      BY <2>1, <3>1 DEF Reservoir
    <3> HIDE DEF q, first
    <3> QED BY <2>2, <3>1, <3>2, <3>3 DEF Reservoir
  <2> QED BY <2>1, <2>4 DEF t
<1> HIDE DEF mapped
<1>5. ClockSound' /\ NeverFresherThanItIs'
  BY <1>1 DEF ClockSound, NeverFresherThanItIs, Current, serviceVars
<1>6. CallsSound'
  <2>1. fetches' \in Seq(SoundFetch')
    BY <1>1, FetchSound, CallsFixed DEF CallsSound
  <2> QED BY <1>1, <2>1, Removed, CallsFixed DEF CallsSound
<1>7. StampSound'
  <2>1. lastUpdated # 0
    BY DEF StampSound
  <2> QED BY <1>1, <2>1 DEF StampSound
<1>8. FieldsSound'
  BY <1>1, <1>3, <1>4 DEF FieldsSound
<1>9. SpentSound'
  <2>1. \A r \in Rule : r \notin rules => reservoir'[r] = reservoir[r]
    BY <1>1 DEF mapped
  <2> QED BY <1>1, <1>4, <2>1 DEF SpentSound
<1>10. GrantSound'
  <2> SUFFICES ASSUME NEW r \in Rule
               PROVE  /\ LongPast(reservoir'[r].ttl)
                      /\ ~granted'[r].held => reservoir'[r].ttl = 0
                      /\ granted'[r].held =>
                           /\ r \in rules
                           /\ granted'[r].until = Meant(reservoir'[r].ttl)
                           /\ granted'[r].quota # 0 => granted'[r].quota = reservoir'[r].quota
    BY <1>1 DEF GrantSound, LongPast, Meant, serviceVars
  <2>1. CASE r \in mapped
    BY <1>1, <1>3, <1>4, <2>1
  <2>2. CASE r \notin mapped
    BY <1>1, <2>2 DEF GrantSound
  <2> QED BY <2>1, <2>2
<1> QED BY <1>5, <1>6, <1>7, <1>8, <1>9, <1>10

-----------------------------------------------------------------------------
(* Decisions.                                                              *)
Plus(test) == IF test THEN 1 ELSE 0

(* The reservoir a decision is made with has what the rule spent this      *)
(* second since it last left the cache.                                    *)
LEMMA ThisSecIsSpent ==
  ASSUME SamplingInv, NEW r \in Rule
  PROVE  LET res == ThisSec(reservoir[r]) IN
         /\ res \in Reservoir /\ res.sec = now
         /\ res.quota = reservoir[r].quota /\ res.ttl = reservoir[r].ttl
         /\ res.borrowed <= 1
         /\ left[r] = 0 => spent[r].taken = res.taken
         /\ spent[r].borrowed <= left[r] + res.borrowed
<1>1. reservoir[r] \in Reservoir /\ now \in Nat
  BY DEF SamplingInv, FieldsSound, ClockSound
<1>2. /\ reservoir[r].borrowed <= 1
      /\ left[r] = 0 =>
           spent[r].taken = IF reservoir[r].sec = now THEN reservoir[r].taken ELSE 0
      /\ spent[r].borrowed <=
           left[r] + (IF reservoir[r].sec = now THEN reservoir[r].borrowed ELSE 0)
  BY DEF SamplingInv, SpentSound
<1>3. CASE reservoir[r].sec = now
  BY <1>1, <1>2, <1>3 DEF ThisSec
<1>4. CASE reservoir[r].sec # now
  <2> DEFINE old == reservoir[r]
             first == [old EXCEPT !.sec = now]
             second == [first EXCEPT !.taken = 0]
  <2>1. ThisSec(old) = [second EXCEPT !.borrowed = 0]
    BY <1>4 DEF ThisSec
  <2> HIDE DEF old
  <2>2. old \in Reservoir
    BY <1>1 DEF old
  <2>3. /\ first \in Reservoir /\ first.sec = now /\ first.quota = old.quota /\ first.ttl = old.ttl
    BY <1>1, <2>2 DEF Reservoir
  <2> HIDE DEF first
  <2>4. /\ second \in Reservoir /\ second.sec = now /\ second.quota = old.quota
        /\ second.ttl = old.ttl /\ second.taken = 0
    BY <2>3 DEF Reservoir
  <2> HIDE DEF second
  <2>5. /\ ThisSec(old) \in Reservoir /\ ThisSec(old).sec = now /\ ThisSec(old).quota = old.quota
        /\ ThisSec(old).ttl = old.ttl /\ ThisSec(old).taken = 0 /\ ThisSec(old).borrowed = 0
    BY <2>1, <2>4 DEF Reservoir
  <2> QED BY <1>2, <1>4, <2>5 DEF old
<1> QED BY <1>3, <1>4

LEMMA DecidedChanges ==
  ASSUME SamplingInv, NEW r \in Rule, NEW res \in Reservoir, NEW sampling, Decided(r, res, sampling)
  PROVE  LET take == Plus(sampling = "take")
             borrow == Plus(sampling = "borrow")
         IN
         /\ reservoir' \in [Rule -> Reservoir]
         /\ \A o \in Rule \ {r} : reservoir'[o] = reservoir[o]
         /\ reservoir'[r].quota = res.quota /\ reservoir'[r].ttl = res.ttl
         /\ reservoir'[r].sec = res.sec
         /\ reservoir'[r].taken = res.taken + take /\ reservoir'[r].borrowed = res.borrowed + borrow
<1> DEFINE take == Plus(sampling = "take")
           borrow == Plus(sampling = "borrow")
           first == [res EXCEPT !.taken = res.taken + take]
<1>1. take \in Nat /\ borrow \in Nat
  BY DEF Plus
<1>2. reservoir' = [reservoir EXCEPT ![r] = [first EXCEPT !.borrowed = res.borrowed + borrow]]
  <2>1. first.borrowed = res.borrowed
    BY DEF Reservoir
  <2> QED BY <2>1 DEF Decided, Plus
<1> HIDE DEF take, borrow
<1>3. /\ first \in Reservoir /\ first.quota = res.quota /\ first.ttl = res.ttl
      /\ first.sec = res.sec /\ first.taken = res.taken + take
  BY <1>1 DEF Reservoir
<1> HIDE DEF first
<1> DEFINE second == [first EXCEPT !.borrowed = res.borrowed + borrow]
<1>4. /\ second \in Reservoir /\ second.quota = res.quota /\ second.ttl = res.ttl
      /\ second.sec = res.sec /\ second.taken = res.taken + take
      /\ second.borrowed = res.borrowed + borrow
  BY <1>1, <1>3 DEF Reservoir
<1> HIDE DEF second
<1>5. reservoir' = [reservoir EXCEPT ![r] = second] /\ reservoir \in [Rule -> Reservoir]
  BY <1>2 DEF second, SamplingInv, FieldsSound
<1> QED BY <1>4, <1>5 DEF take, borrow

LEMMA DecidedSpends ==
  ASSUME SamplingInv, NEW r \in Rule, NEW res, NEW sampling, Decided(r, res, sampling)
  PROVE  LET take == Plus(sampling = "take")
             borrow == Plus(sampling = "borrow")
         IN
         /\ spent' \in [Rule -> [taken : Nat, borrowed : Nat]]
         /\ \A o \in Rule \ {r} : spent'[o] = spent[o]
         /\ spent'[r] = [taken |-> spent[r].taken + take, borrowed |-> spent[r].borrowed + borrow]
<1> DEFINE take == Plus(sampling = "take")
           borrow == Plus(sampling = "borrow")
           first == [spent EXCEPT ![r].taken = @ + take]
<1>1. take \in Nat /\ borrow \in Nat
  BY DEF Plus
<1>2. spent' = [first EXCEPT ![r].borrowed = @ + borrow]
  BY DEF Decided, Plus
<1> HIDE DEF take, borrow
<1>3. spent \in [Rule -> [taken : Nat, borrowed : Nat]]
  BY DEF SamplingInv, FieldsSound
<1>4. /\ first \in [Rule -> [taken : Nat, borrowed : Nat]]
      /\ \A o \in Rule \ {r} : first[o] = spent[o]
      /\ first[r] = [taken |-> spent[r].taken + take, borrowed |-> spent[r].borrowed]
  BY <1>1, <1>3
<1> HIDE DEF first
<1>5. /\ spent' \in [Rule -> [taken : Nat, borrowed : Nat]]
      /\ \A o \in Rule \ {r} : spent'[o] = spent[o]
      /\ spent'[r] = [taken |-> spent[r].taken + take, borrowed |-> spent[r].borrowed + borrow]
  BY <1>1, <1>2, <1>3, <1>4
<1> QED BY <1>5 DEF take, borrow

LEMMA DecideByKeeps ==
  ASSUME SamplingInv, NEW r \in Rule, DecideBy(r)
  PROVE  SamplingInv'
<1> DEFINE res == ThisSec(reservoir[r])
           sampling == Sampling(r, res)
<1>1. Decided(r, res, sampling)
  BY DEF DecideBy
<1>2. /\ UNCHANGED <<now, serviceVars, rules, cached, lastUpdated, fetches, reports, granted, left>>
      /\ r \in rules
  BY DEF DecideBy, callVars
<1>3. /\ res \in Reservoir /\ res.sec = now
      /\ res.quota = reservoir[r].quota /\ res.ttl = reservoir[r].ttl
      /\ res.borrowed <= 1
      /\ left[r] = 0 => spent[r].taken = res.taken
      /\ spent[r].borrowed <= left[r] + res.borrowed
  BY ThisSecIsSpent
<1>4. sampling = "borrow" => res.borrowed < 1
  <2> HIDE DEF res
  <2> QED BY DEF Sampling
<1> HIDE DEF res, sampling
<1> DEFINE take == Plus(sampling = "take")
           borrow == Plus(sampling = "borrow")
<1>5. /\ reservoir' \in [Rule -> Reservoir]
      /\ \A o \in Rule \ {r} : reservoir'[o] = reservoir[o]
      /\ reservoir'[r].quota = res.quota /\ reservoir'[r].ttl = res.ttl
      /\ reservoir'[r].sec = res.sec
      /\ reservoir'[r].taken = res.taken + take /\ reservoir'[r].borrowed = res.borrowed + borrow
  BY <1>1, <1>3, DecidedChanges
<1>6. /\ spent' \in [Rule -> [taken : Nat, borrowed : Nat]]
      /\ \A o \in Rule \ {r} : spent'[o] = spent[o]
      /\ spent'[r] = [taken |-> spent[r].taken + take, borrowed |-> spent[r].borrowed + borrow]
  BY <1>1, DecidedSpends
<1>7. counts' = [counts EXCEPT ![r] = @ + 1] /\ untold' = [untold EXCEPT ![r] = @ + 1]
  BY <1>1 DEF Decided
<1>8. /\ take \in Nat /\ borrow \in Nat
      /\ borrow # 0 => borrow = 1 /\ sampling = "borrow"
  BY DEF Plus
<1> HIDE DEF take, borrow
<1>9. ClockSound' /\ NeverFresherThanItIs' /\ StampSound'
  BY <1>2 DEF SamplingInv, ClockSound, NeverFresherThanItIs, Current, StampSound, serviceVars
<1>10. CallsSound'
  BY <1>2, CallsFixed DEF SamplingInv, CallsSound
<1>11. FieldsSound'
  BY <1>2, <1>5, <1>6, <1>7 DEF SamplingInv, FieldsSound
<1>12. GrantSound'
  <2>1. ASSUME NEW o \in Rule
        PROVE  reservoir'[o].ttl = reservoir[o].ttl /\ reservoir'[o].quota = reservoir[o].quota
    BY <1>3, <1>5
  <2> QED BY <1>2, <2>1 DEF SamplingInv, GrantSound, LongPast, Meant, serviceVars
<1>13. SpentSound'
  <2>1. ASSUME NEW o \in Rule, o # r
        PROVE  reservoir'[o] = reservoir[o] /\ spent'[o] = spent[o] /\ left'[o] = left[o]
    BY <1>2, <1>5, <1>6, <2>1
  <2>2. /\ reservoir'[r].sec = now /\ reservoir'[r].borrowed <= 1
        /\ left[r] = 0 => spent'[r].taken = reservoir'[r].taken
        /\ spent'[r].borrowed <= left[r] + reservoir'[r].borrowed
    <3>1. /\ spent[r].borrowed \in Nat /\ spent[r].taken \in Nat /\ left[r] \in Nat
          /\ res.borrowed \in Nat /\ res.taken \in Nat
      BY <1>3 DEF SamplingInv, FieldsSound, Reservoir
    <3>2. res.borrowed + borrow <= 1
      BY <1>3, <1>4, <1>8, <3>1
    <3> QED BY <1>3, <1>5, <1>6, <1>8, <3>1, <3>2
  <2>3. now \in Nat
    BY DEF SamplingInv, ClockSound
  <2> SUFFICES ASSUME NEW o \in Rule
               PROVE  /\ reservoir'[o].sec <= now /\ reservoir'[o].borrowed <= 1
                      /\ left[o] = 0 =>
                           spent'[o].taken = IF reservoir'[o].sec = now THEN reservoir'[o].taken ELSE 0
                      /\ spent'[o].borrowed <=
                           left[o] + (IF reservoir'[o].sec = now THEN reservoir'[o].borrowed ELSE 0)
                      /\ o \notin rules => reservoir'[o] = NewReservoir
    BY <1>2 DEF SpentSound
  <2>4. CASE o = r
    BY <1>2, <2>2, <2>3, <2>4
  <2>5. CASE o # r
    BY <2>1, <2>5 DEF SamplingInv, SpentSound
  <2> QED BY <2>4, <2>5
<1> QED BY <1>9, <1>10, <1>11, <1>12, <1>13 DEF SamplingInv

-----------------------------------------------------------------------------
LEMMA StepKeepsSampling == ASSUME SamplingInv, [Next]_vars PROVE SamplingInv'
<1>1. ASSUME Service PROVE SamplingInv'
  BY <1>1, ModifyKeeps, ReadRulesKeeps, ReadReportKeeps DEF Service
<1>2. ASSUME Sampler PROVE SamplingInv'
  BY <1>2, FetchKeeps, DecideByKeeps DEF Sampler
<1>3. ASSUME Pollers PROVE SamplingInv'
  BY <1>3, FetchKeeps, RulesArriveKeeps, RulesFailKeeps, ReportKeeps, TargetsArriveKeeps,
     ReportFailsKeeps DEF Pollers
<1>4. ASSUME UNCHANGED vars PROVE SamplingInv'
  <2>1. UNCHANGED <<now, serviceVars, cacheVars, fetches, reports, historyVars>>
    BY <1>4 DEF vars, callVars
  <2>2. CallsSound'
    BY <2>1, CallsFixed DEF SamplingInv, CallsSound
  <2> QED BY <2>1, <2>2, CallsOnly
<1> QED BY <1>1, <1>2, <1>3, <1>4, TickKeeps DEF Next

LEMMA SamplingInvariant == Spec => []SamplingInv
<1>1. SamplingInv /\ [Next]_vars => SamplingInv'
  BY StepKeepsSampling
<1> QED BY <1>1, InitKeepsSampling, PTL DEF Spec

(* The cache is never marked as fresher than it is, whatever becomes of    *)
(* the fetches and in whatever order they are answered (refreshCache,      *)
(* timestamp).                                                             *)
THEOREM CacheIsNeverFresher == Spec => []NeverFresherThanItIs
<1>1. SamplingInv => NeverFresherThanItIs
  BY DEF SamplingInv
<1> QED BY <1>1, SamplingInvariant, PTL

(* At most one request a second is borrowed, and one more for each time    *)
(* the rule has left the cache within that second: however often rules and *)
(* quotas arrive, and in whatever order (borrowOrTake, adjustThisSec,      *)
(* loadRules, merge).                                                      *)
THEOREM OnlyOneIsBorrowed == Spec => []OneBorrowASecond
<1>1. SamplingInv => OneBorrowASecond
  <2> SUFFICES ASSUME SamplingInv, NEW r \in Rule PROVE spent[r].borrowed <= 1 + left[r]
    BY DEF OneBorrowASecond
  <2>1. /\ reservoir[r].borrowed <= 1 /\ reservoir[r].borrowed \in Nat /\ spent[r].borrowed \in Nat
        /\ left[r] \in Nat
        /\ spent[r].borrowed <=
             left[r] + (IF reservoir[r].sec = now THEN reservoir[r].borrowed ELSE 0)
    BY DEF SamplingInv, SpentSound, FieldsSound, Reservoir
  <2> QED BY <2>1
<1> QED BY <1>1, SamplingInvariant, PTL

-----------------------------------------------------------------------------
(* What only a decision does.                                              *)
LEMMA OnlyDecisions ==
  ASSUME SamplingInv, [Next]_vars, NEW r \in Rule
  PROVE  \/ DecideBy(r)
         \/ /\ untold'[r] <= untold[r]
            /\ spent'[r].taken <= spent[r].taken /\ spent'[r].borrowed <= spent[r].borrowed
<1> DEFINE Same == untold'[r] = untold[r] /\ spent'[r] = spent[r]
           Less == /\ untold'[r] <= untold[r]
                   /\ spent'[r].taken <= spent[r].taken /\ spent'[r].borrowed <= spent[r].borrowed
<1>1. /\ untold[r] \in Int /\ spent[r] \in [taken : Nat, borrowed : Nat]
      /\ counts[r] \in Nat
      /\ \A i \in 1 .. Len(reports) : r \in DOMAIN reports[i].docs => reports[i].docs[r] \in Nat
  <2>1. \A i \in 1 .. Len(reports) : reports[i] \in SoundReport
    BY ElementOfSeq DEF SamplingInv, CallsSound
  <2> QED BY <2>1 DEF SamplingInv, FieldsSound, SoundReport, Docs
<1>2. Same => Less
  BY <1>1
<1>3. ASSUME Tick PROVE Less
  BY <1>1, <1>3 DEF Tick, NothingSpent
<1>4. ASSUME Service PROVE Less
  <2>1. ASSUME NEW i \in 1 .. Len(reports), NEW quotas \in [Rule -> Quota], ReadReport(i, quotas)
        PROVE  Less
    <3>1. untold'[r] \in {untold[r], untold[r] - reports[i].docs[r]} /\ spent' = spent
      BY <2>1 DEF ReadReport
    <3>2. r \notin DOMAIN reports[i].docs => untold'[r] = untold[r]
      BY <2>1 DEF ReadReport
    <3> QED BY <1>1, <3>1, <3>2
  <2>2. Modify \/ (\E i \in 1 .. Len(fetches) : ReadRules(i)) => Same
    BY DEF Modify, ReadRules, historyVars
  <2> QED BY <1>2, <1>4, <2>1, <2>2 DEF Service
<1>5. ASSUME Sampler PROVE DecideBy(r) \/ Less
  <2>1. FirstDecision => Same
    BY DEF FirstDecision, historyVars
  <2>2. ASSUME NEW o \in Rule, o # r, DecideBy(o) PROVE Same
    <3> DEFINE res == ThisSec(reservoir[o])
               sampling == Sampling(o, res)
    <3>1. Decided(o, res, sampling)
      BY <2>2 DEF DecideBy
    <3> HIDE DEF res, sampling
    <3>2. spent'[r] = spent[r]
      BY <2>2, <3>1, DecidedSpends
    <3>3. untold'[r] = untold[r]
      BY <2>2, <3>1 DEF Decided, SamplingInv, FieldsSound
    <3> QED BY <3>2, <3>3
  <2> QED BY <1>2, <1>5, <2>1, <2>2 DEF Sampler
<1>6. ASSUME Pollers PROVE Less
  <2>1. ASSUME NEW i \in 1 .. Len(fetches), RulesArrive(i) PROVE Less
    <3>1. untold'[r] \in {untold[r], untold[r] - counts[r]} /\ spent' = spent
      BY <2>1 DEF RulesArrive
    <3> QED BY <1>1, <3>1
  <2>2. ASSUME NEW i \in 1 .. Len(reports), ReportFails(i) PROVE Less
    <3>1. untold'[r] = (IF i \in Unread(r) THEN untold[r] - reports[i].docs[r] ELSE untold[r])
          /\ spent' = spent
      BY <2>2 DEF ReportFails
    <3>2. i \in Unread(r) => r \in DOMAIN reports[i].docs
      BY DEF Unread
    <3> QED BY <1>1, <3>1, <3>2
  <2>3. \/ PollRules
        \/ \E i \in 1 .. Len(fetches) : RulesFail(i)
        \/ \E rs \in SUBSET Rule : Report(rs)
        \/ \E i \in 1 .. Len(reports) : TargetsArrive(i)
        => Same
    BY DEF PollRules, RulesFail, Report, TargetsArrive, historyVars
  <2> QED BY <1>2, <1>6, <2>1, <2>2, <2>3 DEF Pollers
<1>7. ASSUME UNCHANGED vars PROVE Same
  BY <1>7 DEF vars, historyVars
<1> QED BY <1>2, <1>3, <1>4, <1>5, <1>6, <1>7 DEF Next

(* A decision and its kind: what is borrowed needs a grant that is over,   *)
(* what is taken one that has some left.                                   *)
LEMMA DecisionIsCovered ==
  ASSUME SamplingInv, NEW r \in Rule, DecideBy(r)
  PROVE  /\ spent'[r].borrowed > spent[r].borrowed =>
              inSeconds \/ ~granted[r].held \/ granted[r].until < 1000 * now
         /\ spent'[r].taken > spent[r].taken =>
              /\ ~inSeconds /\ granted[r].held /\ granted[r].until >= 1000 * now
              /\ granted[r].quota = 0 \/ left[r] > 0 \/ spent'[r].taken <= granted[r].quota
<1> DEFINE res == ThisSec(reservoir[r])
           sampling == Sampling(r, res)
<1>1. Decided(r, res, sampling)
  BY DEF DecideBy
<1>2. /\ res \in Reservoir /\ (left[r] = 0 => spent[r].taken = res.taken)
      /\ res.quota = reservoir[r].quota /\ res.ttl = reservoir[r].ttl
  BY ThisSecIsSpent
<1>3. /\ sampling = "borrow" => res.ttl < 1000 * now
      /\ sampling = "take" => res.ttl >= 1000 * now /\ res.taken < res.quota
  <2>1. res.ttl \in Nat /\ now \in Nat /\ res.taken \in Nat /\ res.quota \in Nat
    BY <1>2 DEF Reservoir, SamplingInv, ClockSound
  <2> HIDE DEF res
  <2> QED BY <2>1 DEF Sampling, NotBefore
<1> HIDE DEF res, sampling
<1>4. /\ ~granted[r].held => res.ttl = 0
      /\ inSeconds => res.ttl < 1000 * Epoch
      /\ granted[r].held /\ ~inSeconds => granted[r].until = res.ttl
      /\ granted[r].held /\ granted[r].quota # 0 => granted[r].quota = res.quota
  BY <1>2 DEF SamplingInv, GrantSound, LongPast, Meant
<1>5. /\ spent[r] \in [taken : Nat, borrowed : Nat] /\ left[r] \in Nat
      /\ inSeconds \in BOOLEAN /\ granted[r].held \in BOOLEAN
      /\ now \in Nat /\ Epoch \in Nat \ {0} /\ Epoch <= now
  BY TimeAssumption DEF SamplingInv, ClockSound, FieldsSound
<1>6. spent'[r] = [taken |-> spent[r].taken + Plus(sampling = "take"),
                   borrowed |-> spent[r].borrowed + Plus(sampling = "borrow")]
  BY <1>1, DecidedSpends
<1>7. /\ sampling # "borrow" => spent'[r].borrowed = spent[r].borrowed
      /\ sampling # "take" => spent'[r].taken = spent[r].taken
      /\ sampling = "take" => spent'[r].taken = spent[r].taken + 1
  BY <1>5, <1>6 DEF Plus
<1>8. ASSUME sampling = "borrow", ~inSeconds, granted[r].held
      PROVE  granted[r].until < 1000 * now
  BY <1>3, <1>4, <1>8
<1>9. ASSUME sampling = "take"
      PROVE  /\ ~inSeconds /\ granted[r].held /\ granted[r].until >= 1000 * now
             /\ granted[r].quota = 0 \/ left[r] > 0 \/ spent[r].taken + 1 <= granted[r].quota
  <2>1. res.ttl \in Nat /\ res.taken \in Nat /\ res.quota \in Nat
    BY <1>2 DEF Reservoir
  <2>2. ~inSeconds /\ granted[r].held
    BY <1>3, <1>4, <1>5, <1>9, <2>1
  <2>3. granted[r].until >= 1000 * now
    BY <1>3, <1>4, <1>9, <2>2
  <2>4. granted[r].quota = 0 \/ left[r] > 0 \/ spent[r].taken + 1 <= granted[r].quota
    <3>1. SUFFICES ASSUME granted[r].quota # 0, left[r] = 0
                   PROVE  spent[r].taken + 1 <= granted[r].quota
      BY <1>5
    <3>2. granted[r].quota = res.quota /\ spent[r].taken = res.taken /\ res.taken < res.quota
      BY <1>2, <1>3, <1>4, <1>9, <2>2, <3>1
    <3> QED BY <2>1, <3>2
  <2> QED BY <2>2, <2>3, <2>4
<1>10. spent[r].taken \in Nat /\ spent[r].borrowed \in Nat
  BY <1>5
<1>11. ASSUME spent'[r].borrowed > spent[r].borrowed
       PROVE  inSeconds \/ ~granted[r].held \/ granted[r].until < 1000 * now
  <2>1. sampling = "borrow"
    BY <1>7, <1>10, <1>11
  <2> QED BY <1>8, <2>1
<1>12. ASSUME spent'[r].taken > spent[r].taken
       PROVE  /\ ~inSeconds /\ granted[r].held /\ granted[r].until >= 1000 * now
              /\ granted[r].quota = 0 \/ left[r] > 0 \/ spent'[r].taken <= granted[r].quota
  <2>1. sampling = "take"
    BY <1>7, <1>10, <1>12
  <2> QED BY <1>7, <1>9, <2>1
<1> QED BY <1>11, <1>12

(* Nothing is borrowed while a quota is in force that was granted, in      *)
(* milliseconds, to the rule of the cache: however often rules and quotas  *)
(* arrive, and in whatever order (borrowOrTake, loadNewQuota, merge,       *)
(* dateToEpoch).                                                           *)
THEOREM BorrowsAreUncovered == Spec => BorrowOnlyWithoutGrant
<1>1. SamplingInv /\ [Next]_vars =>
        [\A r \in Rule : spent'[r].borrowed > spent[r].borrowed =>
           inSeconds \/ ~granted[r].held \/ granted[r].until < 1000 * now]_vars
  <2> SUFFICES ASSUME SamplingInv, [Next]_vars, NEW r \in Rule,
                      spent'[r].borrowed > spent[r].borrowed
               PROVE  inSeconds \/ ~granted[r].held \/ granted[r].until < 1000 * now
    OBVIOUS
  <2>1. SamplingInv' /\ spent[r].borrowed \in Nat /\ spent'[r].borrowed \in Nat
    BY StepKeepsSampling DEF SamplingInv, FieldsSound
  <2>2. DecideBy(r)
    BY <2>1, OnlyDecisions
  <2> QED BY <2>2, DecisionIsCovered
<1> QED BY <1>1, SamplingInvariant, PTL DEF Spec, BorrowOnlyWithoutGrant

(* What is taken in a second is within the quota last granted, a quota of  *)
(* 0 and a rule that left the cache apart; of what is granted in seconds   *)
(* nothing is taken (borrowOrTake, loadNewQuota, dateToEpoch).             *)
THEOREM TakesAreGranted == Spec => TakesWithinPositiveGrant
<1>1. SamplingInv /\ [Next]_vars =>
        [\A r \in Rule : spent'[r].taken > spent[r].taken =>
           /\ ~inSeconds /\ granted[r].held /\ granted[r].until >= 1000 * now
           /\ granted[r].quota = 0 \/ left[r] > 0 \/ spent'[r].taken <= granted[r].quota]_vars
  <2> SUFFICES ASSUME SamplingInv, [Next]_vars, NEW r \in Rule,
                      spent'[r].taken > spent[r].taken
               PROVE  /\ ~inSeconds /\ granted[r].held /\ granted[r].until >= 1000 * now
                      /\ granted[r].quota = 0 \/ left[r] > 0 \/ spent'[r].taken <= granted[r].quota
    OBVIOUS
  <2>1. SamplingInv' /\ spent[r].taken \in Nat /\ spent'[r].taken \in Nat
    BY StepKeepsSampling DEF SamplingInv, FieldsSound
  <2>2. DecideBy(r)
    BY <2>1, OnlyDecisions
  <2> QED BY <2>2, DecisionIsCovered
<1> QED BY <1>1, SamplingInvariant, PTL DEF Spec, TakesWithinPositiveGrant

(* No decision is made by rules that were replaced longer ago than the TTL *)
(* of the cache (getMatchedRule, isExpired).                               *)
THEOREM DecisionsAreTimely == Spec => NoDecisionByExpiredRules
<1>1. SamplingInv /\ [Next]_vars =>
        [\A r \in Rule : untold'[r] > untold[r] /\ cached < Current =>
           1000 * now <= modifiedAt[cached + 1] + 1000 * RuleTTL]_vars
  <2> SUFFICES ASSUME SamplingInv, [Next]_vars, NEW r \in Rule,
                      untold'[r] > untold[r], cached < Current
               PROVE  1000 * now <= modifiedAt[cached + 1] + 1000 * RuleTTL
    OBVIOUS
  <2>1. SamplingInv' /\ untold[r] \in Int /\ untold'[r] \in Int
    BY StepKeepsSampling DEF SamplingInv, FieldsSound
  <2>2. DecideBy(r)
    BY <2>1, OnlyDecisions
  <2>3. /\ now \in Nat /\ lastUpdated \in Nat /\ RuleTTL \in Nat /\ cached \in Nat /\ Current \in Nat
        /\ modifiedAt[cached + 1] \in Nat
    <3>1. Current \in Nat /\ cached \in Nat /\ modifiedAt \in Seq(Nat)
      BY LenProperties DEF SamplingInv, ClockSound, Current
    <3>2. cached + 1 \in 1 .. Len(modifiedAt)
      BY <3>1 DEF Current
    <3> QED BY <3>1, <3>2, ElementOfSeq, TimeAssumption DEF SamplingInv, ClockSound
  <2>4. now <= lastUpdated + RuleTTL
    BY <2>2, <2>3 DEF DecideBy, IsExpired
  <2>5. 1000 * lastUpdated <= modifiedAt[cached + 1]
    BY <2>3 DEF SamplingInv, NeverFresherThanItIs
  <2> QED BY <2>3, <2>4, <2>5
<1> QED BY <1>1, SamplingInvariant, PTL DEF Spec, NoDecisionByExpiredRules

(* An answer that tells of newer rules, in milliseconds, leaves the cache  *)
(* with them or with a fetch under way that was sent after it, unless the  *)
(* rules changed in the very millisecond in which the second of the stamp  *)
(* begins; an answer in seconds leads to no fetch (the callback of         *)
(* fetchTargets, dateToEpoch).                                             *)
THEOREM NewsIsFetched == Spec => NewerRulesAreFetched
<1>1. SamplingInv /\ [Next]_vars =>
        [\A i \in 1 .. Len(reports) :
           TargetsArrive(i) =>
             IF inSeconds
               THEN fetches' = fetches
               ELSE LET v == reports[i].version IN
                    \/ cached >= v
                    \/ 1000 * lastUpdated = modifiedAt[v]
                    \/ \E j \in 1 .. Len(fetches') : fetches'[j] = [sent |-> now, version |-> 0]]_vars
  <2> SUFFICES ASSUME SamplingInv, NEW i \in 1 .. Len(reports), TargetsArrive(i)
               PROVE  IF inSeconds
                        THEN fetches' = fetches
                        ELSE \/ cached >= reports[i].version
                             \/ 1000 * lastUpdated = modifiedAt[reports[i].version]
                             \/ \E j \in 1 .. Len(fetches') :
                                  fetches'[j] = [sent |-> now, version |-> 0]
    OBVIOUS
  <2> DEFINE v == reports[i].version
             at == reports[i].answer.freshness
  <2>1. /\ v \in Nat /\ v # 0 /\ v <= Current /\ at \in Nat /\ LongPast(at)
        /\ ~inSeconds => at = modifiedAt[v]
    <3>1. reports[i] \in SoundReport
      BY ElementOfSeq DEF SamplingInv, CallsSound
    <3> QED BY <3>1 DEF SoundReport, TargetsArrive, Answer
  <2>2. /\ modifiedAt[v] \in Nat /\ cached \in Nat /\ lastUpdated \in Nat /\ Current \in Nat
    <3>1. Current \in Nat /\ modifiedAt \in Seq(Nat)
      BY LenProperties DEF SamplingInv, ClockSound, Current
    <3>2. v \in 1 .. Len(modifiedAt)
      BY <2>1, <3>1 DEF Current
    <3> QED BY <3>1, <3>2, ElementOfSeq DEF SamplingInv, ClockSound
  <2>3. Epoch <= lastUpdated /\ Epoch \in Nat
    <3>1. lastUpdated # 0
      BY DEF SamplingInv, StampSound
    <3> QED BY <3>1, TimeAssumption DEF SamplingInv, StampSound
  <2>4. IF at > 1000 * lastUpdated THEN Fetch ELSE fetches' = fetches
    BY DEF TargetsArrive, Outdated, After
  <2> HIDE DEF v, at
  <2>5. CASE inSeconds
    <3>1. ~(at > 1000 * lastUpdated)
      BY <2>1, <2>2, <2>3, <2>5 DEF LongPast
    <3> QED BY <2>4, <2>5, <3>1
  <2>6. CASE ~inSeconds /\ modifiedAt[v] > 1000 * lastUpdated
    <3>1. Fetch
      BY <2>1, <2>4, <2>6
    <3>2. /\ fetches' = Append(fetches, [sent |-> now, version |-> 0])
          /\ fetches \in Seq(SoundFetch)
      BY <3>1 DEF Fetch, SamplingInv, CallsSound
    <3>3. /\ Len(fetches') = Len(fetches) + 1 /\ Len(fetches) \in Nat
          /\ fetches'[Len(fetches) + 1] = [sent |-> now, version |-> 0]
      BY <3>2, LenProperties
    <3> QED BY <2>6, <3>3
  <2>7. CASE ~inSeconds /\ ~(modifiedAt[v] > 1000 * lastUpdated)
    <3>1. cached < v => 1000 * lastUpdated <= modifiedAt[v]
      <4>1. cached < v => v \in cached + 1 .. Current
        BY <2>1, <2>2
      <4> QED BY <4>1 DEF SamplingInv, NeverFresherThanItIs
    <3> QED BY <2>1, <2>2, <2>7, <3>1 DEF v
  <2> QED BY <2>5, <2>6, <2>7
<1> QED BY <1>1, SamplingInvariant, PTL DEF Spec, NewerRulesAreFetched

-----------------------------------------------------------------------------
(* Reports on their way, and what they hold.                               *)
LEMMA RemovedFrom ==
  ASSUME NEW S, NEW s \in Seq(S), NEW i \in 1 .. Len(s)
  PROVE  /\ Len(RemoveAt(s, i)) = Len(s) - 1
         /\ \A k \in 1 .. Len(s) - 1 : RemoveAt(s, i)[k] = IF k < i THEN s[k] ELSE s[k + 1]
<1>1. Len(s) \in Nat /\ i \in Nat
  BY LenProperties
<1> DEFINE front == SubSeq(s, 1, i - 1)
           rear == SubSeq(s, i + 1, Len(s))
<1>2. front \in Seq(S) /\ Len(front) = i - 1 /\ \A k \in 1 .. i - 1 : front[k] = s[k]
  BY <1>1, SubSeqProperties
<1>3. rear \in Seq(S) /\ Len(rear) = Len(s) - i /\ \A k \in 1 .. Len(s) - i : rear[k] = s[i + k]
  BY <1>1, SubSeqProperties
<1> HIDE DEF front, rear
<1>4. RemoveAt(s, i) = front \o rear
  BY DEF RemoveAt, front, rear
<1>5. /\ Len(front \o rear) = Len(front) + Len(rear) /\ Len(front) + Len(rear) = Len(s) - 1
      /\ \A k \in 1 .. Len(s) - 1 :
           (front \o rear)[k] = IF k <= Len(front) THEN front[k] ELSE rear[k - Len(front)]
  <2>1. Len(front) + Len(rear) = Len(s) - 1
    BY <1>1, <1>2, <1>3
  <2>2. /\ Len(front \o rear) = Len(front) + Len(rear)
        /\ \A k \in 1 .. Len(front) + Len(rear) :
             (front \o rear)[k] = IF k <= Len(front) THEN front[k] ELSE rear[k - Len(front)]
    BY <1>2, <1>3, ConcatProperties
  <2> QED BY <2>1, <2>2
<1>6. ASSUME NEW k \in 1 .. Len(s) - 1
      PROVE  (front \o rear)[k] = IF k < i THEN s[k] ELSE s[k + 1]
  <2>1. CASE k < i
    BY <1>1, <1>2, <1>5, <2>1
  <2>2. CASE ~(k < i)
    <3>1. k - (i - 1) \in 1 .. Len(s) - i /\ i + (k - (i - 1)) = k + 1 /\ ~(k <= i - 1)
      BY <1>1, <2>2
    <3> QED BY <1>3, <1>5, <2>2, <3>1
  <2> QED BY <2>1, <2>2
<1> QED BY <1>4, <1>5, <1>6

Sent == [docs : Docs, version : Nat, answer : Answer]
UnreadIn(q, r) == {i \in 1 .. Len(q) : q[i].version = 0 /\ r \in DOMAIN q[i].docs}
HeldIn(q, r) == [i \in UnreadIn(q, r) |-> q[i].docs[r]]
Total(q, r) == SumFunctionOnSet(HeldIn(q, r), UnreadIn(q, r))

LEMMA HeldIsCounted ==
  ASSUME NEW q \in Seq(Sent), NEW r
  PROVE  /\ Len(q) \in Nat
         /\ UnreadIn(q, r) \subseteq 1 .. Len(q) /\ IsFiniteSet(UnreadIn(q, r))
         /\ \A i \in UnreadIn(q, r) : HeldIn(q, r)[i] = q[i].docs[r] /\ HeldIn(q, r)[i] \in Nat
         /\ Total(q, r) \in Nat
<1>1. Len(q) \in Nat /\ UnreadIn(q, r) \subseteq 1 .. Len(q)
  BY LenProperties DEF UnreadIn
<1>2. IsFiniteSet(UnreadIn(q, r))
  <2>1. IsFiniteSet(1 .. Len(q))
    BY <1>1, FS_Interval
  <2> QED BY <1>1, <2>1, FS_Subset
<1>3. ASSUME NEW i \in UnreadIn(q, r)
      PROVE  HeldIn(q, r)[i] = q[i].docs[r] /\ HeldIn(q, r)[i] \in Nat
  <2>1. q[i] \in Sent /\ r \in DOMAIN q[i].docs
    BY <1>1, ElementOfSeq DEF UnreadIn
  <2> QED BY <2>1 DEF HeldIn, Sent, Docs
<1>4. Total(q, r) \in Nat
  BY <1>2, <1>3, SumNat DEF Total
<1> QED BY <1>1, <1>2, <1>3, <1>4

LEMMA HeldApart ==
  ASSUME NEW q \in Seq(Sent), NEW r, NEW i \in UnreadIn(q, r)
  PROVE  /\ q[i].docs[r] \in Nat
         /\ Total(q, r) = q[i].docs[r]
                            + SumFunctionOnSet(HeldIn(q, r), UnreadIn(q, r) \ {i})
<1> DEFINE f == HeldIn(q, r)
           old == UnreadIn(q, r)
<1>1. IsFiniteSet(old) /\ (\A k \in old : f[k] \in Int)
  BY HeldIsCounted
<1>2. f[i] = q[i].docs[r] /\ f[i] \in Nat
  BY HeldIsCounted
<1>3. i \in old
  OBVIOUS
<1> HIDE DEF f, old
<1>4. SumFunctionOnSet(f, old) = f[i] + SumFunctionOnSet(f, old \ {i})
  BY ONLY <1>1, <1>3, SumTake
<1> QED BY <1>2, <1>4 DEF Total, f, old

(* A report that is sent is on its way.                                    *)
LEMMA SentIsOnItsWay ==
  ASSUME NEW q \in Seq(Sent), NEW r, NEW e \in Sent, e.version = 0
  PROVE  Total(Append(q, e), r) = Total(q, r) + (IF r \in DOMAIN e.docs THEN e.docs[r] ELSE 0)
<1> DEFINE p == Append(q, e)
           n == Len(q) + 1
           old == UnreadIn(q, r)
           new == UnreadIn(p, r)
           f == HeldIn(q, r)
           g == HeldIn(p, r)
<1>1. /\ Len(q) \in Nat /\ old \subseteq 1 .. Len(q) /\ IsFiniteSet(old)
      /\ \A i \in old : f[i] = q[i].docs[r] /\ f[i] \in Nat
      /\ Total(q, r) = SumFunctionOnSet(f, old) /\ Total(q, r) \in Nat
  BY HeldIsCounted DEF Total
<1>2. /\ p \in Seq(Sent) /\ Len(p) = n /\ p[n] = e
      /\ \A i \in 1 .. Len(q) : p[i] = q[i]
  BY <1>1, AppendProperties
<1>3. /\ IsFiniteSet(new)
      /\ \A i \in new : g[i] = p[i].docs[r] /\ g[i] \in Nat
      /\ Total(p, r) = SumFunctionOnSet(g, new)
  BY <1>2, HeldIsCounted DEF Total
<1> HIDE DEF p
<1>4. new = old \cup (IF r \in DOMAIN e.docs THEN {n} ELSE {})
  BY <1>1, <1>2 DEF UnreadIn
<1>5. n \notin old
  BY <1>1
<1>6. \A i \in old : f[i] \in Int /\ g[i] = f[i]
  BY <1>1, <1>2, <1>3, <1>4
<1> HIDE DEF n, old, new, f, g
<1>7. SumFunctionOnSet(g, old) = SumFunctionOnSet(f, old)
  BY <1>1, <1>6, SumSame
<1>8. CASE r \in DOMAIN e.docs
  <2>1. n \in new /\ new \ {n} = old /\ g[n] = e.docs[r] /\ g[n] \in Nat
    BY <1>2, <1>3, <1>4, <1>5, <1>8
  <2>2. SumFunctionOnSet(g, new) = g[n] + SumFunctionOnSet(g, new \ {n})
    BY <1>3, <2>1, SumTake
  <2>3. Total(p, r) = g[n] + Total(q, r)
    BY <1>1, <1>3, <1>7, <2>1, <2>2
  <2>4. Total(p, r) = Total(q, r) + e.docs[r]
    BY <1>1, <2>1, <2>3
  <2> QED BY <1>8, <2>4 DEF p
<1>9. CASE r \notin DOMAIN e.docs
  <2>1. Total(p, r) = Total(q, r)
    BY <1>1, <1>3, <1>4, <1>7, <1>9
  <2> QED BY <1>1, <1>9, <2>1 DEF p
<1> QED BY <1>8, <1>9

(* One that is read, or gone, no longer is.                                *)
LEMMA ReadIsDone ==
  ASSUME NEW q \in Seq(Sent), NEW r, NEW i \in 1 .. Len(q), NEW d \in Sent, d.version # 0
  PROVE  Total([q EXCEPT ![i] = d], r)
           = Total(q, r) - (IF i \in UnreadIn(q, r) THEN q[i].docs[r] ELSE 0)
<1> DEFINE p == [q EXCEPT ![i] = d]
           old == UnreadIn(q, r)
           new == UnreadIn(p, r)
           f == HeldIn(q, r)
           g == HeldIn(p, r)
<1>1. /\ Len(q) \in Nat /\ old \subseteq 1 .. Len(q) /\ IsFiniteSet(old)
      /\ \A k \in old : f[k] = q[k].docs[r] /\ f[k] \in Nat
      /\ Total(q, r) = SumFunctionOnSet(f, old) /\ Total(q, r) \in Nat
  BY HeldIsCounted DEF Total
<1>2. /\ p \in Seq(Sent) /\ Len(p) = Len(q) /\ p[i] = d
      /\ \A k \in 1 .. Len(q) : k # i => p[k] = q[k]
  BY ExceptSeq
<1>3. /\ IsFiniteSet(new)
      /\ \A k \in new : g[k] = p[k].docs[r] /\ g[k] \in Nat
      /\ Total(p, r) = SumFunctionOnSet(g, new) /\ Total(p, r) \in Nat
  BY <1>2, HeldIsCounted DEF Total
<1> HIDE DEF p
<1>4. new = old \ {i}
  BY <1>2 DEF UnreadIn
<1>5. \A k \in new : f[k] \in Int /\ g[k] = f[k]
  BY <1>1, <1>2, <1>3, <1>4
<1> HIDE DEF old, new, f, g
<1>6. SumFunctionOnSet(g, new) = SumFunctionOnSet(f, new)
  BY <1>3, <1>5, SumSame
<1>7. CASE i \in old
  <2>1. /\ q[i].docs[r] \in Nat
        /\ Total(q, r) = q[i].docs[r] + SumFunctionOnSet(f, new)
    BY <1>4, <1>7, HeldApart DEF old, f
  <2>3. Total(p, r) = Total(q, r) - q[i].docs[r]
    BY <1>1, <1>3, <1>4, <1>6, <2>1
  <2> QED BY <1>7, <2>3 DEF old, p
<1>8. CASE i \notin old
  <2>1. new = old
    BY <1>4, <1>8
  <2>2. Total(p, r) = Total(q, r) - 0
    BY <1>1, <1>3, <1>6, <2>1
  <2> QED BY <1>8, <2>2 DEF old, p
<1> QED BY <1>7, <1>8

LEMMA GoneIsDone ==
  ASSUME NEW q \in Seq(Sent), NEW r, NEW i \in 1 .. Len(q)
  PROVE  Total(RemoveAt(q, i), r)
           = Total(q, r) - (IF i \in UnreadIn(q, r) THEN q[i].docs[r] ELSE 0)
<1> DEFINE p == RemoveAt(q, i)
           old == UnreadIn(q, r)
           rest == old \ {i}
           new == UnreadIn(p, r)
           f == HeldIn(q, r)
           g == HeldIn(p, r)
           j == [k \in rest |-> IF k < i THEN k ELSE k - 1]
<1>1. /\ Len(q) \in Nat /\ old \subseteq 1 .. Len(q) /\ IsFiniteSet(old)
      /\ \A k \in old : f[k] = q[k].docs[r] /\ f[k] \in Nat
      /\ Total(q, r) = SumFunctionOnSet(f, old) /\ Total(q, r) \in Nat
  BY HeldIsCounted DEF Total
<1>2. /\ p \in Seq(Sent) /\ Len(p) = Len(q) - 1
      /\ \A k \in 1 .. Len(q) - 1 : p[k] = IF k < i THEN q[k] ELSE q[k + 1]
  BY Removed, RemovedFrom
<1>3. /\ \A k \in new : g[k] = p[k].docs[r] /\ g[k] \in Nat
      /\ Total(p, r) = SumFunctionOnSet(g, new) /\ Total(p, r) \in Nat
  BY <1>2, HeldIsCounted DEF Total
<1> HIDE DEF p
<1>4. i \in Nat /\ \A k \in rest : k \in 1 .. Len(q) /\ k # i /\ k \in old
  BY <1>1
<1>5. ASSUME NEW k \in rest
      PROVE  /\ j[k] \in new /\ g[j[k]] = f[k]
             /\ f[k] \in Int
  <2>1. /\ k \in 1 .. Len(q) /\ k # i /\ f[k] = q[k].docs[r] /\ f[k] \in Nat
        /\ q[k].version = 0 /\ r \in DOMAIN q[k].docs
    BY <1>1, <1>4 DEF UnreadIn
  <2>2. j[k] \in 1 .. Len(q) - 1 /\ p[j[k]] = q[k]
    <3>1. CASE k < i
      BY <1>1, <1>2, <1>4, <2>1, <3>1
    <3>2. CASE ~(k < i)
      <4>1. j[k] = k - 1 /\ k - 1 \in 1 .. Len(q) - 1 /\ ~(k - 1 < i) /\ (k - 1) + 1 = k
        BY <1>1, <1>4, <2>1, <3>2
      <4> QED BY <1>2, <4>1
    <3> QED BY <3>1, <3>2
  <2> HIDE DEF j
  <2>3. j[k] \in new
    BY <1>2, <2>1, <2>2 DEF UnreadIn
  <2> HIDE DEF new, g, f
  <2> QED BY <1>3, <2>1, <2>2, <2>3
<1>6. ASSUME NEW m \in new PROVE \E k \in rest : j[k] = m
  <2>1. m \in 1 .. Len(q) - 1 /\ p[m].version = 0 /\ r \in DOMAIN p[m].docs
    BY <1>2 DEF UnreadIn
  <2>2. CASE m < i
    <3>1. m \in rest
      BY <1>1, <1>2, <1>4, <2>1, <2>2 DEF UnreadIn
    <3> QED BY <2>2, <3>1
  <2>3. CASE ~(m < i)
    <3>1. m + 1 \in rest /\ ~(m + 1 < i) /\ (m + 1) - 1 = m
      BY <1>1, <1>2, <1>4, <2>1, <2>3 DEF UnreadIn
    <3> QED BY <3>1
  <2> QED BY <2>2, <2>3
<1>7. \A k, m \in rest : j[k] = j[m] => k = m
  BY <1>1, <1>4
<1>8. j \in [rest -> new]
  BY <1>5
<1>9. IsFiniteSet(rest)
  BY <1>1, FS_RemoveElement
<1> HIDE DEF j, rest, new, f, g, old
<1>10. SumFunctionOnSet(g, new) = SumFunctionOnSet(f, rest)
  BY <1>5, <1>6, <1>7, <1>8, <1>9, SumRenamed
<1>11. CASE i \in old
  <2>1. /\ q[i].docs[r] \in Nat
        /\ Total(q, r) = q[i].docs[r] + SumFunctionOnSet(f, rest)
    BY <1>11, HeldApart DEF old, f, rest
  <2>3. Total(p, r) = Total(q, r) - q[i].docs[r]
    BY <1>1, <1>3, <1>10, <2>1
  <2> QED BY <1>11, <2>3 DEF old, p
<1>12. CASE i \notin old
  <2>1. rest = old
    BY <1>12 DEF rest
  <2>2. Total(p, r) = Total(q, r) - 0
    BY <1>1, <1>3, <1>10, <2>1
  <2> QED BY <1>12, <2>2 DEF old, p
<1> QED BY <1>11, <1>12

-----------------------------------------------------------------------------
(* The bounds, and the account of what was decided.                        *)
WithinBounds ==
  /\ started \in BOOLEAN /\ rules \subseteq Rule
  /\ Current <= Len(Published)
  /\ Len(fetches) <= MaxFetches /\ Len(reports) <= MaxReports
  /\ ~started => fetches = <<>> /\ reports = <<>>

Accounted ==
  \A r \in Rule :
    /\ untold[r] = counts[r] + Total(reports, r)
    /\ untold[r] <= MaxRequests[r]
    /\ r \notin rules => counts[r] = 0

ReportInv == SamplingInv /\ WithinBounds /\ Accounted

LEMMA CallsAreSent ==
  ASSUME SamplingInv
  PROVE  /\ reports \in Seq(Sent) /\ fetches \in Seq(SoundFetch)
         /\ Len(reports) \in Nat /\ Len(fetches) \in Nat
<1>1. SoundReport \subseteq Sent
  BY DEF SoundReport, Sent
<1> QED BY <1>1, SeqGrows, LenProperties DEF SamplingInv, CallsSound

LEMMA InitIsReported == Init => ReportInv
<1> SUFFICES ASSUME Init PROVE ReportInv
  OBVIOUS
<1>1. SamplingInv
  BY InitKeepsSampling
<1>2. WithinBounds
  <2>1. Len(Published) \in Nat /\ Len(Published) > 0
    BY RuleAssumption, LenProperties
  <2>2. Len(modifiedAt) = 1 /\ Len(fetches) = 0 /\ Len(reports) = 0
    BY DEF Init
  <2>3. /\ started = FALSE /\ rules = {} /\ fetches = <<>> /\ reports = <<>>
        /\ MaxFetches \in Nat /\ MaxReports \in Nat
    BY BoundAssumption DEF Init
  <2>4. Current <= Len(Published) /\ Len(fetches) <= MaxFetches /\ Len(reports) <= MaxReports
    BY <2>1, <2>2, <2>3 DEF Current
  <2> QED BY <2>3, <2>4 DEF WithinBounds
<1>3. Accounted
  <2> SUFFICES ASSUME NEW r \in Rule PROVE Total(reports, r) = 0
    BY BoundAssumption DEF Init, Accounted
  <2>1. UnreadIn(reports, r) = {}
    BY DEF Init, UnreadIn
  <2> QED BY <2>1, SumRec, FS_EmptySet DEF Total
<1> QED BY <1>1, <1>2, <1>3 DEF ReportInv

-----------------------------------------------------------------------------
(* The bounds.                                                             *)
LEMMA ExceptLength ==
  ASSUME NEW S, NEW s \in Seq(S), NEW i \in 1 .. Len(s), NEW e
  PROVE  Len([s EXCEPT ![i] = e]) = Len(s)
<1>1. s \in Seq(S \cup {e}) /\ e \in S \cup {e}
  BY SeqGrows
<1> QED BY <1>1, ExceptSeq

LEMMA CallsWithinBounds ==
  ASSUME ReportInv, UNCHANGED modifiedAt, started' \in BOOLEAN, rules' \subseteq Rule,
         Len(fetches') <= MaxFetches, Len(reports') <= MaxReports,
         started'
  PROVE  WithinBounds'
BY DEF ReportInv, WithinBounds, Current

LEMMA ClockWithinBounds ==
  ASSUME ReportInv, Tick \/ Modify
  PROVE  WithinBounds'
<1>1. modifiedAt \in Seq(Nat) /\ Len(modifiedAt) \in Nat /\ Len(Published) \in Nat
  BY LenProperties, RuleAssumption DEF ReportInv, SamplingInv, ClockSound
<1>2. UNCHANGED <<started, rules, fetches, reports>>
  BY DEF Tick, Modify, cacheVars, callVars
<1>3. Len(modifiedAt') <= Len(Published)
  <2>1. CASE Tick
    BY <2>1 DEF Tick, serviceVars, ReportInv, WithinBounds, Current
  <2>2. CASE Modify
    <3>1. Len(modifiedAt) < Len(Published)
      BY <2>2 DEF Modify, Current
    <3>2. PICK at \in Nat : modifiedAt' = Append(modifiedAt, at)
      <4>1. PICK part \in Part : modifiedAt' = Append(modifiedAt, 1000 * now + part)
        BY <2>2 DEF Modify
      <4>2. 1000 * now + part \in Nat
        BY TimeAssumption DEF ReportInv, SamplingInv, ClockSound
      <4> QED BY <4>1, <4>2
    <3>3. Len(modifiedAt') = Len(modifiedAt) + 1
      BY <1>1, <3>2, AppendProperties
    <3> QED BY <1>1, <3>1, <3>3
  <2> QED BY <2>1, <2>2
<1> QED BY <1>2, <1>3 DEF ReportInv, WithinBounds, Current

LEMMA StepWithinBounds ==
  ASSUME ReportInv, [Next]_vars
  PROVE  WithinBounds'
<1> USE DEF ReportInv
<1>1. /\ reports \in Seq(Sent) /\ fetches \in Seq(SoundFetch)
      /\ Len(reports) \in Nat /\ Len(fetches) \in Nat
      /\ MaxFetches \in Nat \ {0} /\ MaxReports \in Nat
      /\ rules \subseteq Rule /\ started \in BOOLEAN
      /\ Len(fetches) <= MaxFetches /\ Len(reports) <= MaxReports
  BY CallsAreSent, BoundAssumption DEF WithinBounds
<1>2. started \/ (Len(fetches) = 0 /\ Len(reports) = 0)
  BY <1>1 DEF WithinBounds
<1>3. ASSUME Fetch PROVE Len(fetches') = Len(fetches) + 1
  BY <1>1, <1>3, LenProperties DEF Fetch
<1>4. CASE Tick \/ Modify
  BY <1>4, ClockWithinBounds
<1>5. ASSUME NEW i \in 1 .. Len(fetches), ReadRules(i) PROVE WithinBounds'
  <2>1. started /\ UNCHANGED <<modifiedAt, started, rules, reports>> /\ Len(fetches') = Len(fetches)
    <3>1. /\ fetches' = [fetches EXCEPT ![i] = [fetches[i] EXCEPT !.version = Current]]
          /\ UNCHANGED <<modifiedAt, started, rules, reports>>
      BY <1>5 DEF ReadRules, serviceVars, cacheVars
    <3> QED BY <1>1, <1>2, <3>1, ExceptLength
  <2> QED BY <1>1, <2>1, CallsWithinBounds
<1>6. ASSUME NEW i \in 1 .. Len(reports), NEW quotas \in [Rule -> Quota], ReadReport(i, quotas)
      PROVE  WithinBounds'
  <2>1. started /\ UNCHANGED <<modifiedAt, started, rules, fetches>> /\ Len(reports') = Len(reports)
    <3>1. UNCHANGED <<modifiedAt, started, rules, fetches>>
      BY <1>6 DEF ReadReport, serviceVars, cacheVars
    <3>2. PICK e : reports' = [reports EXCEPT ![i] = e]
      BY <1>1, <1>6 DEF ReadReport
    <3> QED BY <1>1, <1>2, <3>1, <3>2, ExceptLength
  <2> QED BY <1>1, <2>1, CallsWithinBounds
<1>7. CASE FirstDecision
  <2>1. started' /\ UNCHANGED <<modifiedAt, rules, reports>> /\ Len(fetches') = 1
    BY <1>1, <1>2, <1>3, <1>7 DEF FirstDecision, serviceVars, cacheVars
  <2> QED BY <1>1, <1>7, <2>1, CallsWithinBounds DEF FirstDecision
<1>8. ASSUME NEW r \in Rule, DecideBy(r) PROVE WithinBounds'
  <2>1. started /\ UNCHANGED <<modifiedAt, started, rules, reports, fetches>>
    BY <1>8 DEF DecideBy, serviceVars, callVars
  <2> QED BY <1>1, <2>1, CallsWithinBounds
<1>9. CASE PollRules
  <2>1. started /\ UNCHANGED <<modifiedAt, started, rules, reports>> /\ Len(fetches') <= MaxFetches
    BY <1>1, <1>3, <1>9 DEF PollRules, serviceVars, cacheVars
  <2> QED BY <1>1, <2>1, CallsWithinBounds
<1>10. ASSUME NEW i \in 1 .. Len(fetches), RulesArrive(i) \/ RulesFail(i) PROVE WithinBounds'
  <2>1. /\ started /\ UNCHANGED <<modifiedAt, started, reports>> /\ Len(fetches') = Len(fetches) - 1
    BY <1>1, <1>2, <1>10, RemovedFrom DEF RulesArrive, RulesFail, serviceVars
  <2>2. rules' \subseteq Rule
    <3>1. CASE RulesFail(i)
      BY <1>1, <3>1 DEF RulesFail, cacheVars
    <3>2. CASE RulesArrive(i)
      <4>1. fetches[i].version # 0 /\ rules' = Published[fetches[i].version]
        BY <3>2 DEF RulesArrive
      <4>2. fetches[i].version \in Nat /\ fetches[i].version <= Len(modifiedAt)
        BY <1>1, ElementOfSeq DEF SoundFetch, Current
      <4>3. fetches[i].version \in 1 .. Len(Published)
        BY <4>1, <4>2, RuleAssumption, LenProperties DEF WithinBounds, Current, SamplingInv, ClockSound
      <4>4. Published[fetches[i].version] \in (SUBSET Rule) \ {{}}
        BY <4>3, RuleAssumption, ElementOfSeq
      <4> QED BY <4>1, <4>4
    <3> QED BY <1>10, <3>1, <3>2
  <2> QED BY <1>1, <2>1, <2>2, CallsWithinBounds
<1>11. ASSUME NEW rs \in SUBSET Rule, Report(rs) PROVE WithinBounds'
  <2>1. started /\ UNCHANGED <<modifiedAt, started, rules, fetches>> /\ Len(reports') = Len(reports) + 1
    BY <1>1, <1>11, LenProperties DEF Report, serviceVars
  <2>2. Len(reports') <= MaxReports
    BY <1>1, <1>11, <2>1 DEF Report
  <2> QED BY <1>1, <2>1, <2>2, CallsWithinBounds
<1>12. ASSUME NEW i \in 1 .. Len(reports), TargetsArrive(i) \/ ReportFails(i) PROVE WithinBounds'
  <2>1. /\ started /\ UNCHANGED <<modifiedAt, started, rules>> /\ Len(reports') = Len(reports) - 1
    BY <1>1, <1>2, <1>12, RemovedFrom DEF TargetsArrive, ReportFails, serviceVars, cacheVars
  <2>2. Len(fetches') <= MaxFetches
    BY <1>1, <1>3, <1>12 DEF TargetsArrive, ReportFails
  <2> QED BY <1>1, <2>1, <2>2, CallsWithinBounds
<1>13. CASE UNCHANGED vars
  BY <1>13 DEF WithinBounds, Current, vars, serviceVars, cacheVars, callVars
<1> QED BY <1>4, <1>5, <1>6, <1>7, <1>8, <1>9, <1>10, <1>11, <1>12, <1>13
    DEF Next, Service, Sampler, Pollers

-----------------------------------------------------------------------------
(* The account.                                                            *)
LEMMA SumsAreNumbers ==
  ASSUME ReportInv, NEW r \in Rule
  PROVE  /\ counts[r] \in Nat /\ untold[r] \in Int
         /\ Total(reports, r) \in Nat
         /\ untold[r] = counts[r] + Total(reports, r)
         /\ untold[r] <= MaxRequests[r] /\ MaxRequests[r] \in Nat
         /\ r \notin rules => counts[r] = 0
<1>1. Total(reports, r) \in Nat
  BY CallsAreSent, HeldIsCounted DEF ReportInv
<1> QED BY <1>1, BoundAssumption DEF ReportInv, SamplingInv, FieldsSound, Accounted

LEMMA AccountStays ==
  ASSUME ReportInv, UNCHANGED <<rules, counts, reports, untold>>
  PROVE  Accounted'
BY DEF ReportInv, Accounted

LEMMA DecidedAccounts ==
  ASSUME ReportInv, NEW r \in Rule, NEW res, NEW sampling, Decided(r, res, sampling),
         UNCHANGED <<rules, reports>>, untold[r] < MaxRequests[r], r \in rules
  PROVE  Accounted'
<1>1. counts' = [counts EXCEPT ![r] = @ + 1] /\ untold' = [untold EXCEPT ![r] = @ + 1]
  BY DEF Decided
<1>2. counts \in [Rule -> Nat] /\ untold \in [Rule -> Int]
  BY DEF ReportInv, SamplingInv, FieldsSound
<1> SUFFICES ASSUME NEW o \in Rule
             PROVE  /\ untold'[o] = counts'[o] + Total(reports, o)
                    /\ untold'[o] <= MaxRequests[o]
                    /\ o \notin rules => counts'[o] = 0
  BY DEF Accounted
<1>3. CASE o # r
  BY <1>1, <1>2, <1>3, SumsAreNumbers
<1>4. CASE o = r
  <2> DEFINE total == Total(reports, r)
  <2>1. /\ counts[r] \in Nat /\ total \in Nat /\ untold[r] = counts[r] + total
        /\ MaxRequests[r] \in Nat
    BY SumsAreNumbers
  <2> HIDE DEF total
  <2>2. untold'[r] = counts'[r] + total /\ untold'[r] <= MaxRequests[r]
    BY <1>1, <1>2, <2>1
  <2> QED BY <1>4, <2>2 DEF total
<1> QED BY <1>3, <1>4

LEMMA ReportAccounts ==
  ASSUME ReportInv, NEW rs \in SUBSET Rule, Report(rs)
  PROVE  Accounted'
<1> DEFINE q == [docs |-> [r \in rs |-> counts[r]], version |-> 0, answer |-> NoAnswer]
<1>1. /\ reports' = Append(reports, q) /\ untold' = untold
      /\ counts' = [r \in Rule |-> IF r \in rs THEN 0 ELSE counts[r]]
      /\ rules' = rules
  BY DEF Report, Snapshot, historyVars
<1>2. q \in Sent /\ q.version = 0 /\ q.docs = [r \in rs |-> counts[r]]
  <2>1. [r \in rs |-> counts[r]] \in [rs -> Nat]
    BY DEF ReportInv, SamplingInv, FieldsSound
  <2> QED BY <2>1 DEF Sent, Docs, Answer, NoAnswer
<1> HIDE DEF q
<1> SUFFICES ASSUME NEW r \in Rule
             PROVE  /\ untold[r] = counts'[r] + Total(reports', r)
                    /\ untold[r] <= MaxRequests[r]
                    /\ r \notin rules => counts'[r] = 0
  BY <1>1 DEF Accounted
<1>3. Total(reports', r) = Total(reports, r) + (IF r \in rs THEN counts[r] ELSE 0)
  <2>1. Total(reports', r) = Total(reports, r) + (IF r \in DOMAIN q.docs THEN q.docs[r] ELSE 0)
    BY <1>1, <1>2, CallsAreSent, SentIsOnItsWay DEF ReportInv
  <2> QED BY <1>2, <2>1
<1>4. CASE r \in rs
  BY <1>1, <1>3, <1>4, SumsAreNumbers
<1>5. CASE r \notin rs
  BY <1>1, <1>3, <1>5, SumsAreNumbers
<1> QED BY <1>4, <1>5

(* A report that the service reads, or that fails before.                  *)
LEMMA ToldAccounts ==
  ASSUME ReportInv, NEW i \in 1 .. Len(reports), UNCHANGED <<rules, counts>>,
         \A r \in Rule :
           LET told == IF i \in UnreadIn(reports, r) THEN reports[i].docs[r] ELSE 0 IN
           Total(reports', r) = Total(reports, r) - told /\ untold'[r] = untold[r] - told
  PROVE  Accounted'
<1> SUFFICES ASSUME NEW r \in Rule
             PROVE  /\ untold'[r] = counts[r] + Total(reports', r)
                    /\ untold'[r] <= MaxRequests[r]
                    /\ r \notin rules => counts[r] = 0
  BY DEF Accounted
<1> DEFINE told == IF i \in UnreadIn(reports, r) THEN reports[i].docs[r] ELSE 0
<1>1. told \in Nat
  BY CallsAreSent, HeldIsCounted DEF ReportInv
<1>2. Total(reports', r) = Total(reports, r) - told /\ untold'[r] = untold[r] - told
  OBVIOUS
<1> HIDE DEF told
<1> QED BY <1>1, <1>2, SumsAreNumbers

LEMMA ReadReportAccounts ==
  ASSUME ReportInv, SamplingInv', NEW i \in 1 .. Len(reports),
         NEW quotas \in [Rule -> Quota], ReadReport(i, quotas)
  PROVE  Accounted'
<1>1. /\ UNCHANGED <<rules, counts>> /\ reports[i].version = 0
      /\ untold' = [r \in Rule |-> IF r \in DOMAIN reports[i].docs THEN untold[r] - reports[i].docs[r]
                                                                   ELSE untold[r]]
  BY DEF ReadReport, cacheVars
<1>2. /\ reports \in Seq(Sent) /\ reports' \in Seq(SoundReport')
      /\ reports[i] \in Sent /\ Current \in Nat /\ Current > 0
  BY CallsAreSent, ElementOfSeq, LenProperties
  DEF ReportInv, SamplingInv, CallsSound, ClockSound, Current
<1> DEFINE answer == [freshness |-> Given(modifiedAt[Current]),
                      targets |-> [r \in DOMAIN reports[i].docs |->
                                     [quota |-> quotas[r], ttl |-> Given(1000 * (now + Lease))]]]
           q == [reports[i] EXCEPT !.version = Current, !.answer = answer]
<1>3. reports' = [reports EXCEPT ![i] = q]
  BY DEF ReadReport
<1>4. q.version # 0
  <2>1. q.version = Current
    BY <1>2 DEF Sent
  <2> HIDE DEF q
  <2> QED BY <1>2, <2>1
<1> HIDE DEF q
<1>5. q \in Sent
  <2>1. reports'[i] = q /\ i \in 1 .. Len(reports')
    BY <1>2, <1>3, LenProperties, ExceptLength
  <2>2. reports'[i] \in SoundReport'
    BY <1>2, <2>1, ElementOfSeq
  <2> QED BY <2>1, <2>2 DEF SoundReport, Sent
<1>6. ASSUME NEW r \in Rule
      PROVE  LET told == IF i \in UnreadIn(reports, r) THEN reports[i].docs[r] ELSE 0 IN
             Total(reports', r) = Total(reports, r) - told /\ untold'[r] = untold[r] - told
  <2>1. Total(reports', r)
          = Total(reports, r) - (IF i \in UnreadIn(reports, r) THEN reports[i].docs[r] ELSE 0)
    BY <1>2, <1>3, <1>4, <1>5, ReadIsDone
  <2>2. i \in UnreadIn(reports, r) <=> r \in DOMAIN reports[i].docs
    BY <1>1 DEF UnreadIn
  <2>3. untold[r] \in Int
    BY SumsAreNumbers
  <2> QED BY <1>1, <2>1, <2>2, <2>3
<1> QED BY <1>1, <1>6, ToldAccounts

LEMMA ReportFailsAccounts ==
  ASSUME ReportInv, NEW i \in 1 .. Len(reports), ReportFails(i)
  PROVE  Accounted'
<1>1. /\ UNCHANGED <<rules, counts>> /\ reports' = RemoveAt(reports, i)
      /\ untold' = [r \in Rule |-> IF i \in Unread(r) THEN untold[r] - reports[i].docs[r] ELSE untold[r]]
  BY DEF ReportFails, cacheVars
<1>2. ASSUME NEW r \in Rule
      PROVE  LET told == IF i \in UnreadIn(reports, r) THEN reports[i].docs[r] ELSE 0 IN
             Total(reports', r) = Total(reports, r) - told /\ untold'[r] = untold[r] - told
  <2>1. Total(reports', r)
          = Total(reports, r) - (IF i \in UnreadIn(reports, r) THEN reports[i].docs[r] ELSE 0)
    BY <1>1, CallsAreSent, GoneIsDone DEF ReportInv
  <2>2. Unread(r) = UnreadIn(reports, r)
    BY DEF Unread, UnreadIn
  <2>3. untold[r] \in Int
    BY SumsAreNumbers
  <2> QED BY <1>1, <2>1, <2>2, <2>3
<1> QED BY <1>1, <1>2, ToldAccounts

LEMMA TargetsArriveAccounts ==
  ASSUME ReportInv, NEW i \in 1 .. Len(reports), TargetsArrive(i)
  PROVE  Accounted'
<1>1. /\ UNCHANGED <<rules, counts, untold>> /\ reports' = RemoveAt(reports, i)
      /\ reports[i].version # 0
  BY DEF TargetsArrive
<1>2. ASSUME NEW r \in Rule PROVE Total(reports', r) = Total(reports, r)
  <2>1. i \notin UnreadIn(reports, r)
    BY <1>1 DEF UnreadIn
  <2>2. Total(reports', r) = Total(reports, r) - 0
    BY <1>1, <2>1, CallsAreSent, GoneIsDone DEF ReportInv
  <2> QED BY <2>2, SumsAreNumbers
<1> QED BY <1>1, <1>2 DEF ReportInv, Accounted

LEMMA RulesArriveAccounts ==
  ASSUME ReportInv, NEW i \in 1 .. Len(fetches), RulesArrive(i)
  PROVE  Accounted'
<1> DEFINE new == Published[fetches[i].version]
<1>1. /\ counts' = [r \in Rule |-> IF r \in rules \cap new THEN counts[r] ELSE 0]
      /\ untold' = [r \in Rule |-> IF r \in rules \ new THEN untold[r] - counts[r] ELSE untold[r]]
      /\ UNCHANGED reports /\ rules' = new
  BY DEF RulesArrive, Merged
<1> HIDE DEF new
<1> SUFFICES ASSUME NEW r \in Rule
             PROVE  /\ untold'[r] = counts'[r] + Total(reports, r)
                    /\ untold'[r] <= MaxRequests[r]
                    /\ r \notin new => counts'[r] = 0
  BY <1>1 DEF Accounted
<1>2. CASE r \in rules \cap new
  BY <1>1, <1>2, SumsAreNumbers
<1>3. CASE r \in rules \ new
  BY <1>1, <1>3, SumsAreNumbers
<1>4. CASE r \notin rules
  BY <1>1, <1>4, SumsAreNumbers
<1> QED BY <1>2, <1>3, <1>4

LEMMA StepAccounts ==
  ASSUME ReportInv, SamplingInv', [Next]_vars
  PROVE  Accounted'
<1>1. CASE Tick
  BY <1>1, AccountStays DEF Tick, cacheVars, callVars
<1>2. CASE Service
  <2>1. Modify => Accounted'
    BY AccountStays DEF Modify, cacheVars, callVars, historyVars
  <2>2. ASSUME NEW i \in 1 .. Len(fetches), ReadRules(i) PROVE Accounted'
    BY <2>2, AccountStays DEF ReadRules, cacheVars, historyVars
  <2> QED BY <1>2, <2>1, <2>2, ReadReportAccounts DEF Service
<1>3. CASE Sampler
  <2>1. FirstDecision => Accounted'
    BY AccountStays DEF FirstDecision, cacheVars, historyVars
  <2>2. ASSUME NEW r \in Rule, DecideBy(r) PROVE Accounted'
    <3> DEFINE res == ThisSec(reservoir[r])
               sampling == Sampling(r, res)
    <3>1. Decided(r, res, sampling)
      BY <2>2 DEF DecideBy
    <3> HIDE DEF res, sampling
    <3>2. UNCHANGED <<rules, reports>> /\ untold[r] < MaxRequests[r] /\ r \in rules
      BY <2>2 DEF DecideBy, callVars
    <3> QED BY <3>1, <3>2, DecidedAccounts
  <2> QED BY <1>3, <2>1, <2>2 DEF Sampler
<1>4. CASE Pollers
  <2>1. PollRules => Accounted'
    BY AccountStays DEF PollRules, cacheVars, historyVars
  <2>2. ASSUME NEW i \in 1 .. Len(fetches), RulesFail(i) PROVE Accounted'
    BY <2>2, AccountStays DEF RulesFail, cacheVars, historyVars
  <2> QED BY <1>4, <2>1, <2>2, RulesArriveAccounts, ReportAccounts, TargetsArriveAccounts,
             ReportFailsAccounts DEF Pollers
<1>5. CASE UNCHANGED vars
  BY <1>5, AccountStays DEF vars, cacheVars, callVars, historyVars
<1> QED BY <1>1, <1>2, <1>3, <1>4, <1>5 DEF Next

LEMMA ReportInvariant == Spec => []ReportInv
<1>1. ReportInv /\ [Next]_vars => ReportInv'
  BY StepKeepsSampling, StepWithinBounds, StepAccounts DEF ReportInv
<1> QED BY <1>1, InitIsReported, PTL DEF Spec

(* Every request a rule decided is in its counts or in one report on its   *)
(* way, and in no more than one, until the service is told of it: whatever *)
(* reports are read, answered or lost, in any order, and whatever rules    *)
(* come and go (snapshotStatistics, merge).                                *)
THEOREM DecisionsAreReportedOnce == Spec => []ReportedOnce
<1>1. ReportInv => ReportedOnce
  <2> SUFFICES ASSUME ReportInv PROVE ReportedOnce
    OBVIOUS
  <2>1. ASSUME NEW r \in Rule
        PROVE  untold[r] = counts[r] + OnItsWay(r) /\ untold[r] \in 0 .. MaxRequests[r]
    <3>1. OnItsWay(r) = Total(reports, r)
      BY DEF OnItsWay, Unread, Total, HeldIn, UnreadIn
    <3> QED BY <3>1, SumsAreNumbers
  <2>2. /\ Len(modifiedAt) \in Nat /\ Len(modifiedAt) > 0 /\ now \in Nat /\ modifiedAt \in Seq(Nat)
        /\ Epoch \in Nat /\ MaxTime \in Nat /\ Len(Published) \in Nat
        /\ DOMAIN Published = 1 .. Len(Published)
    BY LenProperties, RuleAssumption, TimeAssumption, BoundAssumption
    DEF ReportInv, SamplingInv, ClockSound, Current
  <2>3. Current \in Version /\ cached \in 0 .. Current
    BY <2>2 DEF ReportInv, WithinBounds, SamplingInv, ClockSound, Current, Version
  <2>4. now \in Epoch .. Epoch + MaxTime /\ lastUpdated \in Time
    BY <2>2 DEF ReportInv, SamplingInv, ClockSound, Time
  <2>5. counts \in [Rule -> Nat] /\ inSeconds \in BOOLEAN
    BY DEF ReportInv, SamplingInv, ClockSound, FieldsSound
  <2>6. TypeOK
    BY <2>1, <2>2, <2>3, <2>4, <2>5 DEF TypeOK, ReportInv, WithinBounds
  <2> QED BY <2>1, <2>6 DEF ReportedOnce
<1> QED BY <1>1, ReportInvariant, PTL
=============================================================================
