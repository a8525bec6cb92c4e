------------------------- MODULE RequestCycleProofs -------------------------
(***************************************************************************)
(* Proofs about RequestCycle for any number of requests, subsegments and   *)
(* frameworks: served requests are sent, when they are over, as often as   *)
(* there is a cause, and with their error.  And about what is decided when *)
(* they arrive, ArrivalDecision with Wildcard: wildcardMatch is right for  *)
(* all patterns and texts, the first matching rule decides, its target     *)
(* holds in every second, and names are those that were asked for.         *)
(***************************************************************************)
EXTENDS RequestCycle, ArrivalDecision, SumTheorems

(* A segment that is closed, with nothing open, has been sent, and none    *)
(* has before it was closed; what it was sent with it has recorded.        *)
SegmentSound ==
  /\ notTraced \subseteq Request /\ closed \subseteq Request
  /\ counter \in [Request -> 0 .. MaxWork]
  /\ errors \in [Request -> SUBSET Request] /\ told \in [Request -> SUBSET Request]
  /\ sent \in [Request -> Nat]
  /\ \A r \in Request :
       /\ told[r] \subseteq errors[r] /\ IsFiniteSet(errors[r])
       /\ sent[r] > 0 => r \in closed
       /\ r \in closed \ notTraced /\ counter[r] = 0 => sent[r] > 0

(* What has brought a segment to its close, by framework.                  *)
ClosedSound ==
  \A r \in closed :
    /\ framework = "koa" => handler[r] # "running"
    /\ framework \notin {"koa", "restify"} => r \in answered
    /\ framework = "express" \/ (framework = "fastify" /\ automatic) => r \in didEnd
    /\ framework = "restify" => r \in didEnd \/ errors[r] # {}

(* And what has closed it for certain.                                     *)
EndedIsClosed ==
  /\ didEnd \subseteq closed
  /\ framework \in {"koa", "hapi"} => didEnd = {}
  /\ framework = "koa" =>
       \A r \in Request : handler[r] \in {"done", "failed", "over"} => r \in closed

(* An error in time is on the segment before that is sent.                 *)
ErrorsSound ==
  /\ inTime \subseteq Request
  /\ \A r \in inTime : r \in errors[r] /\ (sent[r] > 0 => r \in told[r])

(* Restify's variable has the segment of a request that has come.          *)
SharedSound ==
  framework = "restify" =>
    /\ \A r \in Request : handler[r] # "none" => shared # NoRequest
    /\ shared # NoRequest => handler[shared] # "none"

(* The causes there are to send a segment: endSegment, the hook of the     *)
(* framework, the errors of Restify and late work.                         *)
ByHook == framework \in {"koa", "hapi"} \/ (framework = "fastify" /\ ~automatic)
Ends(r) == IF r \in didEnd THEN 1 ELSE 0
Hooks(r) == IF ByHook /\ r \in closed THEN 1 ELSE 0
Errs(r) == IF framework = "restify" THEN Cardinality(errors[r]) ELSE 0
Causes(r) == late[r] + Ends(r) + Hooks(r) + Errs(r)

(* A closed segment with something open is sent when that ends.            *)
Pending(r) == IF r \in closed /\ counter[r] > 0 THEN 1 ELSE 0
CausesSound ==
  /\ late \in [Request -> 0 .. MaxLate]
  /\ \A r \in Request : sent[r] + Pending(r) <= Causes(r)

CycleInv ==
  /\ TypeOK /\ SegmentSound /\ ClosedSound /\ EndedIsClosed
  /\ ErrorsSound /\ SharedSound /\ CausesSound

-----------------------------------------------------------------------------
(* What closing does to the segment: it is sent, or waits to be.           *)
Few(errs) == errs = {} \/ \E e \in Request : errs = {e}

LEMMA FewAreFinite ==
  ASSUME NEW errs, Few(errs), NEW S \in SUBSET Request, IsFiniteSet(S)
  PROVE  S \cup errs \in SUBSET Request /\ IsFiniteSet(S \cup errs)
BY FS_AddElement DEF Few

LEMMA CloseSound ==
  ASSUME CycleInv, NEW r \in Request, NEW errs, Few(errs), Close(r, errs)
  PROVE  /\ SegmentSound'
         /\ closed' = closed \cup {r}
         /\ \A q \in Request \ {r} :
              errors'[q] = errors[q] /\ sent'[q] = sent[q] /\ told'[q] = told[q]
         /\ errors'[r] = errors[r] \cup errs
         /\ \/ sent'[r] = sent[r] /\ told'[r] = told[r]
            \/ sent'[r] = sent[r] + 1 /\ told'[r] = told[r] \cup errors'[r]
         /\ sent'[r] > sent[r] => counter[r] = 0
         /\ UNCHANGED <<notTraced, counter>>
<1>1. \A q \in Request : errors[q] \in SUBSET Request /\ IsFiniteSet(errors[q])
  BY DEF CycleInv, SegmentSound
<1>2. errors[r] \cup errs \in SUBSET Request /\ IsFiniteSet(errors[r] \cup errs)
  BY <1>1, FewAreFinite
<1>3. /\ errors' = [errors EXCEPT ![r] = @ \cup errs] /\ closed' = closed \cup {r}
      /\ UNCHANGED <<notTraced, counter>>
      /\ \/ UNCHANGED <<sent, told>> /\ (counter[r] = 0 => r \in notTraced)
         \/ /\ counter[r] = 0
            /\ sent' = [sent EXCEPT ![r] = @ + 1]
            /\ told' = [told EXCEPT ![r] = @ \cup errors'[r]]
  BY DEF Close, Flush, NothingOpen, CycleInv, SegmentSound
<1>4. \A q \in Request \ {r} :
        errors'[q] = errors[q] /\ sent'[q] = sent[q] /\ told'[q] = told[q]
  BY <1>3 DEF CycleInv, SegmentSound
<1>5. errors'[r] = errors[r] \cup errs
  BY <1>3 DEF CycleInv, SegmentSound
<1>6. \/ sent'[r] = sent[r] /\ told'[r] = told[r] /\ (counter[r] = 0 => r \in notTraced)
      \/ sent'[r] = sent[r] + 1 /\ told'[r] = told[r] \cup errors'[r] /\ counter[r] = 0
  BY <1>3 DEF CycleInv, SegmentSound
<1>7. SegmentSound'
  <2>1. errors' \in [Request -> SUBSET Request] /\ sent' \in [Request -> Nat]
    BY <1>2, <1>3 DEF CycleInv, SegmentSound
  <2>2. told' \in [Request -> SUBSET Request]
    BY <1>3, <2>1 DEF CycleInv, SegmentSound
  <2>3. \A q \in Request : told'[q] \subseteq errors'[q] /\ IsFiniteSet(errors'[q])
    BY <1>2, <1>4, <1>5, <1>6 DEF CycleInv, SegmentSound
  <2>4. \A q \in Request : /\ sent'[q] > 0 => q \in closed'
                           /\ q \in closed' \ notTraced' /\ counter'[q] = 0 => sent'[q] > 0
    BY <1>3, <1>4, <1>6 DEF CycleInv, SegmentSound
  <2> QED BY <1>3, <2>1, <2>2, <2>3, <2>4 DEF CycleInv, SegmentSound
<1>8. sent'[r] > sent[r] => counter[r] = 0
  BY <1>6 DEF CycleInv, SegmentSound
<1> QED BY <1>3, <1>4, <1>5, <1>6, <1>7, <1>8

(* It is one cause to send r, and none to send another.                    *)
LEMMA CloseIsOneCause ==
  ASSUME CycleInv, NEW r \in Request, NEW errs, Few(errs), Close(r, errs)
  PROVE  \A q \in Request :
           /\ sent'[q] + Pending(q)' <= sent[q] + Pending(q) + IF q = r THEN 1 ELSE 0
           /\ Causes(q) \in Nat
<1>1. \A q \in Request : sent[q] \in Nat /\ counter[q] \in Nat /\ IsFiniteSet(errors[q])
  BY WorkAssumption DEF CycleInv, SegmentSound
<1>2. /\ closed' = closed \cup {r} /\ counter' = counter
      /\ \A q \in Request \ {r} : sent'[q] = sent[q]
      /\ sent'[r] = sent[r] \/ (sent'[r] = sent[r] + 1 /\ counter[r] = 0)
  <2>1. sent'[r] > sent[r] => counter[r] = 0
    BY CloseSound
  <2>2. sent'[r] = sent[r] \/ sent'[r] = sent[r] + 1
    BY CloseSound
  <2> QED BY <1>1, <2>1, <2>2, CloseSound
<1>3. \A q \in Request : Causes(q) \in Nat
  <2> TAKE q \in Request
  <2>1. Cardinality(errors[q]) \in Nat
    BY <1>1, FS_CardinalityType
  <2> QED BY <2>1, WorkAssumption DEF Causes, Ends, Hooks, Errs, CycleInv, CausesSound
<1> QED BY <1>1, <1>2, <1>3 DEF Pending

(* So it is enough that the step brings the cause.                         *)
LEMMA CausesGrow ==
  ASSUME CycleInv, NEW r \in Request, NEW errs, Few(errs), Close(r, errs), late' = late,
         SegmentSound', \A q \in Request : Causes(q)' >= Causes(q) + IF q = r THEN 1 ELSE 0
  PROVE  CausesSound'
<1>1. \A q \in Request :
        /\ sent'[q] + Pending(q)' <= sent[q] + Pending(q) + IF q = r THEN 1 ELSE 0
        /\ Causes(q) \in Nat
  BY CloseIsOneCause
<1>2. \A q \in Request : sent[q] + Pending(q) \in Nat /\ sent'[q] + Pending(q)' \in Nat
  BY DEF CycleInv, SegmentSound, Pending
<1>3. \A q \in Request : sent[q] + Pending(q) <= Causes(q) /\ late \in [Request -> 0 .. MaxLate]
  BY DEF CycleInv, CausesSound
<1>4. \A q \in Request : Causes(q)' \in Nat
  <2> TAKE q \in Request
  <2>1. Cardinality(errors'[q]) \in Nat
    BY FS_CardinalityType DEF SegmentSound
  <2> QED BY <1>3, <2>1, WorkAssumption DEF Causes, Ends, Hooks, Errs
<1>5. \A q \in Request : sent'[q] + Pending(q)' <= Causes(q)'
  BY <1>1, <1>2, <1>3, <1>4
<1> QED BY <1>3, <1>5 DEF CycleInv, CausesSound

LEMMA AddErrorSound ==
  ASSUME CycleInv, NEW r \in Request, NEW e \in Request, AddError(r, e)
  PROVE  /\ SegmentSound'
         /\ errors'[r] = errors[r] \cup {e}
         /\ \A q \in Request \ {r} : errors'[q] = errors[q]
         /\ UNCHANGED <<notTraced, closed, counter, sent, told>>
         /\ \A q \in Request : Errs(q) \in Nat
         /\ framework' = framework => \A q \in Request : Errs(q)' \in Nat /\ Errs(q)' >= Errs(q)
<1>1. \A q \in Request : errors[q] \in SUBSET Request /\ IsFiniteSet(errors[q])
  BY DEF CycleInv, SegmentSound
<1>2. /\ IsFiniteSet(errors[r] \cup {e})
      /\ Cardinality(errors[r] \cup {e}) =
           IF e \in errors[r] THEN Cardinality(errors[r]) ELSE Cardinality(errors[r]) + 1
  BY <1>1, FS_AddElement
<1>3. /\ errors'[r] = errors[r] \cup {e}
      /\ \A q \in Request \ {r} : errors'[q] = errors[q]
      /\ UNCHANGED <<notTraced, closed, counter, sent, told>>
  BY DEF AddError, CycleInv, SegmentSound
<1>4. SegmentSound'
  <2>1. \A q \in Request : told'[q] \subseteq errors'[q] /\ IsFiniteSet(errors'[q])
    BY <1>1, <1>2, <1>3 DEF CycleInv, SegmentSound
  <2>2. errors' \in [Request -> SUBSET Request]
    BY DEF AddError, CycleInv, SegmentSound
  <2> QED BY <1>3, <2>1, <2>2 DEF CycleInv, SegmentSound
<1>5. \A q \in Request : Cardinality(errors[q]) \in Nat
  BY <1>1, FS_CardinalityType
<1>6. \A q \in Request : Cardinality(errors'[q]) \in Nat /\ Cardinality(errors'[q]) >= Cardinality(errors[q])
  BY <1>2, <1>3, <1>5
<1> QED BY <1>3, <1>4, <1>5, <1>6 DEF Errs

(* Nothing of a segment changes.                                           *)
LEMMA SegmentsStay ==
  ASSUME CycleInv, UNCHANGED <<segmentVars, framework, automatic, didEnd, late>>
  PROVE  SegmentSound' /\ CausesSound'
BY DEF CycleInv, SegmentSound, CausesSound, Pending, Causes, Ends, Hooks, Errs, ByHook, segmentVars

LEMMA InitKeepsCycle == Init => CycleInv
<1> SUFFICES ASSUME Init PROVE CycleInv
  OBVIOUS
<1>1. TypeOK
  BY RequestAssumption, WorkAssumption DEF Init, TypeOK
<1>2. SegmentSound /\ ClosedSound
  BY WorkAssumption, FS_EmptySet DEF Init, SegmentSound, ClosedSound
<1>3. EndedIsClosed /\ ErrorsSound /\ SharedSound
  BY DEF Init, EndedIsClosed, ErrorsSound, SharedSound
<1>4. CausesSound
  BY WorkAssumption, FS_EmptySet
     DEF Init, CausesSound, Pending, Causes, Ends, Hooks, Errs
<1> QED BY <1>1, <1>2, <1>3, <1>4 DEF CycleInv

LEMMA ArrivesKeeps ==
  ASSUME CycleInv, NEW r \in Request, NEW header, NEW sampled, Arrives(r, header, sampled)
  PROVE  CycleInv'
<1> USE DEF CycleInv, Arrives, Variable, historyVars
<1>0. notTraced' \in SUBSET Request /\ r \notin closed /\ sent[r] = 0
      /\ notTraced \subseteq notTraced' /\ notTraced' \subseteq notTraced \cup {r}
  BY DEF TypeOK
<1>1. TypeOK'
  BY <1>0 DEF TypeOK
<1>2. SegmentSound'
  BY <1>0 DEF SegmentSound
<1>3. ClosedSound' /\ EndedIsClosed'
  BY <1>0 DEF ClosedSound, EndedIsClosed, TypeOK
<1>4. ErrorsSound'
  BY DEF ErrorsSound
<1>5. SharedSound'
  BY RequestAssumption DEF SharedSound, TypeOK
<1>6. CausesSound'
  BY DEF CausesSound, Pending, Causes, Ends, Hooks, Errs, ByHook
<1> QED BY <1>1, <1>2, <1>3, <1>4, <1>5, <1>6

LEMMA HandlerKeeps ==
  ASSUME CycleInv, NEW r \in Request, HandlerDone(r) \/ HandlerFails(r)
  PROVE  CycleInv'
<1>1. CASE HandlerDone(r)
  <2> USE DEF CycleInv, HandlerDone, historyVars
  <2>1. TypeOK'
    BY <1>1 DEF TypeOK, segmentVars
  <2>2. ClosedSound' /\ EndedIsClosed' /\ SharedSound' /\ ErrorsSound'
    BY <1>1 DEF ClosedSound, EndedIsClosed, SharedSound, ErrorsSound, TypeOK, segmentVars
  <2>3. SegmentSound' /\ CausesSound'
    BY <1>1, SegmentsStay
  <2> QED BY <2>1, <2>2, <2>3
<1>2. CASE HandlerFails(r)
  <2> USE DEF CycleInv, HandlerFails
  <2>0. /\ SegmentSound' /\ CausesSound'
        /\ UNCHANGED <<notTraced, closed, counter, sent, told>>
        /\ \A q \in Request : errors[q] \subseteq errors'[q]
        /\ \/ inTime' = inTime
           \/ /\ inTime' = inTime \cup {r} /\ r \in errors'[r]
              /\ r \notin answered /\ OnOwnSegment
    <3>1. CASE AddError(r, r)
      <4>1. UNCHANGED <<framework, automatic, didEnd, late>>
        BY <1>2
      <4>2. SegmentSound' /\ UNCHANGED <<notTraced, closed, counter, sent, told>>
        BY <3>1, AddErrorSound
      <4>3. \A q \in Request : Errs(q) \in Nat /\ Errs(q)' \in Nat /\ Errs(q)' >= Errs(q)
        BY <3>1, <4>1, AddErrorSound
      <4>4. \A q \in Request : errors[q] \subseteq errors'[q] /\ (q = r => r \in errors'[q])
        BY <3>1, AddErrorSound
      <4>5. CausesSound'
        <5> SUFFICES ASSUME NEW q \in Request PROVE sent[q] + Pending(q) <= Causes(q)'
          BY <4>1, <4>2 DEF CausesSound, Pending
        <5>1. sent[q] \in Nat /\ Pending(q) \in Nat /\ late[q] \in Nat /\ Ends(q) \in Nat /\ Hooks(q) \in Nat
          BY WorkAssumption DEF SegmentSound, CausesSound, Pending, Ends, Hooks
        <5>2. Ends(q)' = Ends(q) /\ Hooks(q)' = Hooks(q) /\ late'[q] = late[q]
          BY <4>1, <4>2 DEF Ends, Hooks, ByHook
        <5> QED BY <5>1, <5>2, <4>3 DEF CausesSound, Causes
      <4>6. OnOwnSegment \/ inTime' = inTime
        BY <1>2
      <4>7. inTime' = inTime \/ (inTime' = inTime \cup {r} /\ r \notin answered /\ OnOwnSegment)
        BY <1>2, <4>6
      <4> QED BY <4>2, <4>4, <4>5, <4>7
    <3>2. CASE UNCHANGED <<segmentVars, inTime>>
      BY <1>2, <3>2, SegmentsStay DEF segmentVars
    <3> QED BY <1>2, <3>1, <3>2
  <2>1. TypeOK'
    <3>1. \A q \in Request : told'[q] \subseteq errors'[q] /\ errors'[q] \subseteq Request
      BY <2>0 DEF SegmentSound
    <3> QED BY <1>2, <2>0, <3>1 DEF TypeOK
  <2>2. ClosedSound' /\ EndedIsClosed' /\ SharedSound'
    BY <1>2, <2>0 DEF ClosedSound, EndedIsClosed, SharedSound, TypeOK
  <2>3. ErrorsSound'
    <3>1. r \notin answered /\ OnOwnSegment => sent[r] = 0
      BY DEF SegmentSound, ClosedSound, OnOwnSegment
    <3> QED BY <2>0, <3>1 DEF ErrorsSound
  <2> QED BY <2>0, <2>1, <2>2, <2>3
<1> QED BY <1>1, <1>2

LEMMA AnswersKeeps ==
  ASSUME CycleInv, NEW r \in Request, Answers(r)
  PROVE  CycleInv'
<1> USE DEF CycleInv, Answers, historyVars
<1>1. TypeOK'
  BY DEF TypeOK, segmentVars
<1>2. ClosedSound' /\ EndedIsClosed' /\ SharedSound' /\ ErrorsSound'
  BY DEF ClosedSound, EndedIsClosed, SharedSound, ErrorsSound, segmentVars
<1>3. SegmentSound' /\ CausesSound'
  BY SegmentsStay
<1> QED BY <1>1, <1>2, <1>3

LEMMA WorkKeeps ==
  ASSUME CycleInv, NEW r \in Request, WorkStarts(r) \/ WorkEnds(r)
  PROVE  CycleInv'
<1> USE DEF CycleInv, cycleVars
<1>1. CASE WorkStarts(r)
  <2>0. /\ counter' = [counter EXCEPT ![r] = @ + 1] /\ counter'[r] \in 1 .. MaxWork
        /\ handler[r] # "none" /\ late' \in [Request -> 0 .. MaxLate]
        /\ \A q \in Request : late'[q] = IF q = r /\ r \in closed /\ counter[r] = 0
                                           THEN late[q] + 1 ELSE late[q]
        /\ UNCHANGED <<framework, automatic, cycleVars, notTraced, closed, errors, sent, told, inTime>>
    BY <1>1, WorkAssumption DEF WorkStarts, Finished, NothingOpen, SegmentSound, CausesSound
  <2>1. TypeOK'
    BY <2>0, WorkAssumption DEF TypeOK, SegmentSound
  <2>2. SegmentSound'
    BY <2>0, WorkAssumption DEF SegmentSound
  <2>3. ClosedSound' /\ EndedIsClosed' /\ SharedSound' /\ ErrorsSound'
    BY <2>0 DEF ClosedSound, EndedIsClosed, SharedSound, ErrorsSound
  <2>4. CausesSound'
    <3> SUFFICES ASSUME NEW q \in Request PROVE sent[q] + Pending(q)' <= Causes(q)'
      BY <2>0 DEF CausesSound
    <3>1. Ends(q)' = Ends(q) /\ Hooks(q)' = Hooks(q) /\ Errs(q)' = Errs(q)
      BY <2>0 DEF Ends, Hooks, Errs, ByHook
    <3>2. Cardinality(errors[q]) \in Nat
      BY FS_CardinalityType DEF SegmentSound
    <3>3. Ends(q) \in Nat /\ Hooks(q) \in Nat /\ Errs(q) \in Nat /\ sent[q] \in Nat
      BY <3>2 DEF Ends, Hooks, Errs, SegmentSound
    <3>4. late[q] \in Nat /\ counter[q] \in Nat /\ counter'[q] \in Nat
      BY <2>0, WorkAssumption DEF CausesSound, SegmentSound
    <3>5. sent[q] + Pending(q) <= Causes(q)
      BY DEF CausesSound
    <3>6. Pending(q)' - Pending(q) <= late'[q] - late[q]
      BY <2>0, <3>4 DEF Pending, SegmentSound
    <3>7. Pending(q)' \in Nat /\ Pending(q) \in Nat /\ late'[q] \in Nat
      BY <2>0, <3>4 DEF Pending
    <3> QED BY <3>1, <3>3, <3>4, <3>5, <3>6, <3>7 DEF Causes
  <2> QED BY <2>1, <2>2, <2>3, <2>4
<1>2. CASE WorkEnds(r)
  <2>0. /\ counter[r] > 0 /\ counter' = [counter EXCEPT ![r] = @ - 1]
        /\ \/ /\ UNCHANGED <<sent, told>>
              /\ r \in closed /\ counter[r] = 1 => r \in notTraced
           \/ /\ r \in closed /\ r \notin notTraced /\ counter[r] = 1
              /\ sent' = [sent EXCEPT ![r] = @ + 1]
              /\ told' = [told EXCEPT ![r] = @ \cup errors[r]]
        /\ UNCHANGED <<framework, automatic, cycleVars, notTraced, closed, errors, historyVars>>
    BY <1>2 DEF WorkEnds, LastOfClosed, Flush, SegmentSound
  <2>1. SegmentSound'
    <3>1. counter' \in [Request -> 0 .. MaxWork] /\ sent' \in [Request -> Nat]
          /\ told' \in [Request -> SUBSET Request]
      BY <2>0, WorkAssumption DEF SegmentSound
    <3>2. \A q \in Request : told'[q] \subseteq errors[q]
      BY <2>0 DEF SegmentSound
    <3>3. \A q \in Request : /\ sent'[q] > 0 => q \in closed
                             /\ q \in closed \ notTraced /\ counter'[q] = 0 => sent'[q] > 0
      BY <2>0 DEF SegmentSound
    <3> QED BY <2>0, <3>1, <3>2, <3>3 DEF SegmentSound
  <2>2. TypeOK'
    BY <2>0, <2>1 DEF TypeOK, SegmentSound, historyVars
  <2>3. ClosedSound' /\ EndedIsClosed' /\ SharedSound'
    BY <2>0 DEF ClosedSound, EndedIsClosed, SharedSound
  <2>4. ErrorsSound'
    BY <2>0 DEF ErrorsSound, SegmentSound, historyVars
  <2>5. CausesSound'
    <3> SUFFICES ASSUME NEW q \in Request PROVE sent'[q] + Pending(q)' <= sent[q] + Pending(q)
      <4>1. \A q \in Request : Causes(q)' = Causes(q)
        BY <2>0 DEF Causes, Ends, Hooks, Errs, ByHook, historyVars
      <4>2. \A q \in Request : Cardinality(errors[q]) \in Nat
        BY FS_CardinalityType DEF SegmentSound
      <4>3. \A q \in Request : Causes(q) \in Nat
        BY <4>2, WorkAssumption DEF Causes, Ends, Hooks, Errs, CausesSound
      <4>4. \A q \in Request : sent[q] + Pending(q) \in Nat /\ sent'[q] + Pending(q)' \in Nat
        BY <2>1 DEF SegmentSound, Pending
      <4> QED BY <2>0, <4>1, <4>3, <4>4 DEF CausesSound, historyVars
    <3>1. counter[q] \in Nat /\ sent[q] \in Nat
      BY WorkAssumption DEF SegmentSound
    <3> QED BY <2>0, <3>1 DEF Pending, SegmentSound
  <2> QED BY <2>1, <2>2, <2>3, <2>4, <2>5
<1> QED BY <1>1, <1>2

-----------------------------------------------------------------------------
(* The listeners and hooks that close a segment.                           *)
LEMMA EndSegmentKeeps ==
  ASSUME CycleInv, NEW r \in Request, EndSegment(r)
  PROVE  CycleInv'
<1> USE DEF CycleInv
<1>0. Close(r, {}) /\ r \in answered /\ r \notin didEnd /\ didEnd' = didEnd \cup {r}
      /\ framework \in {"express", "restify", "fastify"}
      /\ UNCHANGED <<framework, automatic, handler, answered, shared, inTime, late>>
  BY DEF EndSegment, FirstEvent, historyVars
<1>f. Few({})
  BY DEF Few
<1>1. /\ SegmentSound'
      /\ closed' = closed \cup {r} /\ UNCHANGED <<notTraced, counter>>
      /\ \A q \in Request \ {r} :
           errors'[q] = errors[q] /\ sent'[q] = sent[q] /\ told'[q] = told[q]
      /\ errors'[r] = errors[r] \cup {}
      /\ \/ sent'[r] = sent[r] /\ told'[r] = told[r]
         \/ sent'[r] = sent[r] + 1 /\ told'[r] = told[r] \cup errors'[r]
  BY <1>0, <1>f, CloseSound
<1>2. TypeOK'
  BY <1>0, <1>1 DEF TypeOK, SegmentSound
<1>3. ClosedSound' /\ EndedIsClosed'
  BY <1>0, <1>1 DEF ClosedSound, EndedIsClosed, SegmentSound
<1>4. SharedSound'
  BY <1>0 DEF SharedSound
<1>5. ErrorsSound'
  BY <1>0, <1>1 DEF ErrorsSound
<1>6. CausesSound'
  <2>1. \A q \in Request : Causes(q)' >= Causes(q) + IF q = r THEN 1 ELSE 0
    <3> TAKE q \in Request
    <3>1. Cardinality(errors[q]) \in Nat /\ errors'[q] = errors[q]
      BY <1>1, FS_CardinalityType DEF SegmentSound
    <3>2. Errs(q) \in Nat /\ Errs(q)' = Errs(q) /\ late[q] \in Nat /\ late'[q] = late[q]
      BY <1>0, <3>1, WorkAssumption DEF Errs, CausesSound
    <3>3. Ends(q)' = Ends(q) + IF q = r THEN 1 ELSE 0
      BY <1>0 DEF Ends
    <3>4. Hooks(q)' >= Hooks(q) /\ Hooks(q) \in Nat /\ Hooks(q)' \in Nat /\ Ends(q) \in Nat
      BY <1>0, <1>1 DEF Hooks, ByHook, Ends
    <3> QED BY <3>2, <3>3, <3>4 DEF Causes
  <2> QED BY <1>0, <1>1, <1>f, <2>1, CausesGrow
<1> QED BY <1>1, <1>2, <1>3, <1>4, <1>5, <1>6

LEMMA OnResponseKeeps ==
  ASSUME CycleInv, NEW r \in Request, OnResponse(r)
  PROVE  CycleInv'
<1> USE DEF CycleInv
<1>0. Close(r, {}) /\ r \in answered /\ r \notin closed /\ framework \in {"hapi", "fastify"}
      /\ (framework = "fastify" => ~automatic)
      /\ UNCHANGED <<framework, automatic, cycleVars, inTime, late>>
  BY DEF OnResponse, SegmentOfRequest, historyVars
<1>f. Few({})
  BY DEF Few
<1>1. /\ SegmentSound'
      /\ closed' = closed \cup {r} /\ UNCHANGED <<notTraced, counter>>
      /\ \A q \in Request \ {r} :
           errors'[q] = errors[q] /\ sent'[q] = sent[q] /\ told'[q] = told[q]
      /\ errors'[r] = errors[r] \cup {}
      /\ \/ sent'[r] = sent[r] /\ told'[r] = told[r]
         \/ sent'[r] = sent[r] + 1 /\ told'[r] = told[r] \cup errors'[r]
  BY <1>0, <1>f, CloseSound
<1>2. TypeOK'
  BY <1>0, <1>1 DEF TypeOK, SegmentSound, cycleVars
<1>3. ClosedSound' /\ EndedIsClosed' /\ SharedSound'
  BY <1>0, <1>1 DEF ClosedSound, EndedIsClosed, SharedSound, SegmentSound, cycleVars
<1>4. ErrorsSound'
  BY <1>0, <1>1 DEF ErrorsSound
<1>5. CausesSound'
  <2>1. \A q \in Request : Causes(q)' >= Causes(q) + IF q = r THEN 1 ELSE 0
    <3> TAKE q \in Request
    <3>1. Errs(q) = 0 /\ Errs(q)' = 0 /\ late[q] \in Nat /\ late'[q] = late[q]
      BY <1>0, WorkAssumption DEF Errs, CausesSound
    <3>2. Ends(q)' = Ends(q) /\ Ends(q) \in Nat
      BY <1>0 DEF Ends, cycleVars
    <3>3. Hooks(q)' = Hooks(q) + (IF q = r THEN 1 ELSE 0) /\ Hooks(q) \in Nat
      BY <1>0, <1>1 DEF Hooks, ByHook
    <3> QED BY <3>1, <3>2, <3>3 DEF Causes
  <2> QED BY <1>0, <1>1, <1>f, <2>1, CausesGrow
<1> QED BY <1>1, <1>2, <1>3, <1>4, <1>5

LEMMA ProcessResponseKeeps ==
  ASSUME CycleInv, NEW r \in Request, NEW fails \in BOOLEAN, ProcessResponse(r, fails)
  PROVE  CycleInv'
<1> USE DEF CycleInv
<1> DEFINE errs == IF fails THEN {r} ELSE {}
<1>0. /\ Close(r, errs) /\ framework = "koa" /\ handler[r] = "running"
      /\ handler' = [handler EXCEPT ![r] = IF fails THEN "failed" ELSE "done"]
      /\ inTime' = IF fails THEN inTime \cup {r} ELSE inTime
      /\ UNCHANGED <<framework, automatic, answered, didEnd, shared, late>>
  BY DEF ProcessResponse, ClosesWith
<1>1. r \notin closed
  BY <1>0 DEF ClosedSound
<1>f. Few(errs)
  BY DEF Few
<1>2. /\ SegmentSound'
      /\ closed' = closed \cup {r} /\ UNCHANGED <<notTraced, counter>>
      /\ \A q \in Request \ {r} :
           errors'[q] = errors[q] /\ sent'[q] = sent[q] /\ told'[q] = told[q]
      /\ errors'[r] = errors[r] \cup errs
      /\ \/ sent'[r] = sent[r] /\ told'[r] = told[r]
         \/ sent'[r] = sent[r] + 1 /\ told'[r] = told[r] \cup errors'[r]
  BY <1>0, <1>f, CloseSound
<1>3. TypeOK'
  BY <1>0, <1>2 DEF TypeOK, SegmentSound
<1>4. ClosedSound' /\ EndedIsClosed' /\ SharedSound'
  BY <1>0, <1>2 DEF ClosedSound, EndedIsClosed, SharedSound, TypeOK
<1>5. ErrorsSound'
  <2>1. sent[r] = 0
    BY <1>1 DEF SegmentSound
  <2> QED BY <1>0, <1>2, <2>1 DEF ErrorsSound
<1>6. CausesSound'
  <2>1. \A q \in Request : Causes(q)' >= Causes(q) + IF q = r THEN 1 ELSE 0
    <3> TAKE q \in Request
    <3>1. Errs(q) = 0 /\ Errs(q)' = 0 /\ late[q] \in Nat /\ late'[q] = late[q]
      BY <1>0, WorkAssumption DEF Errs, CausesSound
    <3>2. Ends(q)' = Ends(q) /\ Ends(q) \in Nat
      BY <1>0 DEF Ends
    <3>3. Hooks(q)' = Hooks(q) + (IF q = r THEN 1 ELSE 0) /\ Hooks(q) \in Nat
      BY <1>0, <1>1, <1>2 DEF Hooks, ByHook
    <3> QED BY <3>1, <3>2, <3>3 DEF Causes
  <2> QED BY <1>0, <1>2, <1>f, <2>1, CausesGrow
<1> QED BY <1>2, <1>3, <1>4, <1>5, <1>6

(* Restify closes, and records on, whatever segment its variable has.      *)
LEMMA RestifyKeeps ==
  ASSUME CycleInv, NEW r \in Request, UncaughtException(r) \/ After(r)
  PROVE  CycleInv'
<1> USE DEF CycleInv
<1>1. framework = "restify" /\ shared \in Request /\ handler[shared] # "none"
  BY DEF UncaughtException, After, SharedSound, TypeOK
<1>2. CASE UncaughtException(r)
  <2>1. /\ Close(shared, {r}) /\ UNCHANGED <<framework, automatic, cycleVars, late>>
        /\ inTime' = IF shared = r /\ sent[r] = 0 THEN inTime \cup {r} ELSE inTime
        /\ r \notin errors[shared]
    BY <1>1, <1>2 DEF UncaughtException, RestifyTells
  <2>f. Few({r})
    BY DEF Few
  <2>2. /\ SegmentSound'
        /\ closed' = closed \cup {shared} /\ UNCHANGED <<notTraced, counter>>
        /\ \A q \in Request \ {shared} :
             errors'[q] = errors[q] /\ sent'[q] = sent[q] /\ told'[q] = told[q]
        /\ errors'[shared] = errors[shared] \cup {r}
        /\ \/ sent'[shared] = sent[shared] /\ told'[shared] = told[shared]
           \/ sent'[shared] = sent[shared] + 1 /\ told'[shared] = told[shared] \cup errors'[shared]
    BY <1>1, <2>1, <2>f, CloseSound
  <2>3. TypeOK'
    BY <1>1, <2>1, <2>2 DEF TypeOK, SegmentSound, cycleVars
  <2>4. ClosedSound' /\ EndedIsClosed' /\ SharedSound'
    BY <1>1, <2>1, <2>2 DEF ClosedSound, EndedIsClosed, SharedSound, SegmentSound, cycleVars
  <2>5. ErrorsSound'
    BY <1>1, <2>1, <2>2 DEF ErrorsSound, SegmentSound
  <2>6. CausesSound'
    <3>1. \A q \in Request : Causes(q)' >= Causes(q) + IF q = shared THEN 1 ELSE 0
      <4> TAKE q \in Request
      <4>1. Cardinality(errors[q]) \in Nat /\ Cardinality(errors'[q]) \in Nat
        BY <2>2, FS_CardinalityType DEF SegmentSound
      <4>2. q = shared => Cardinality(errors'[q]) = Cardinality(errors[q]) + 1
        BY <2>1, <2>2, FS_AddElement DEF SegmentSound
      <4>3. Errs(q)' = Errs(q) + (IF q = shared THEN 1 ELSE 0) /\ Errs(q) \in Nat
        BY <1>1, <2>1, <2>2, <4>1, <4>2 DEF Errs
      <4>4. Ends(q)' = Ends(q) /\ Ends(q) \in Nat /\ late[q] \in Nat /\ late'[q] = late[q]
        BY <2>1, WorkAssumption DEF Ends, cycleVars, CausesSound
      <4>5. Hooks(q)' = Hooks(q) /\ Hooks(q) = 0
        BY <1>1, <2>1 DEF Hooks, ByHook
      <4> QED BY <4>3, <4>4, <4>5 DEF Causes
    <3> QED BY <1>1, <2>1, <2>2, <2>f, <3>1, CausesGrow
  <2> QED BY <2>2, <2>3, <2>4, <2>5, <2>6
<1>3. CASE After(r)
  <2>1. /\ AddError(shared, r) /\ handler' = [handler EXCEPT ![r] = "over"]
        /\ UNCHANGED <<framework, automatic, answered, didEnd, shared, late>>
        /\ inTime' = IF shared = r /\ sent[r] = 0 THEN inTime \cup {r} ELSE inTime
        /\ handler[r] = "failed"
    BY <1>3 DEF After, RestifyTells
  <2>2. /\ SegmentSound'
        /\ errors'[shared] = errors[shared] \cup {r}
        /\ \A q \in Request \ {shared} : errors'[q] = errors[q]
        /\ UNCHANGED <<notTraced, closed, counter, sent, told>>
    BY <1>1, <2>1, AddErrorSound
  <2>3. TypeOK'
    BY <1>1, <2>1, <2>2 DEF TypeOK, SegmentSound
  <2>4. ClosedSound' /\ EndedIsClosed' /\ SharedSound'
    BY <1>1, <2>1, <2>2 DEF ClosedSound, EndedIsClosed, SharedSound, SegmentSound, TypeOK
  <2>5. ErrorsSound'
    BY <1>1, <2>1, <2>2 DEF ErrorsSound, SegmentSound
  <2>6. CausesSound'
    <3> SUFFICES ASSUME NEW q \in Request PROVE sent[q] + Pending(q) <= Causes(q)'
      BY <2>1, <2>2 DEF CausesSound, Pending
    <3>1. sent[q] \in Nat /\ Pending(q) \in Nat /\ late[q] \in Nat /\ Ends(q) \in Nat /\ Hooks(q) \in Nat
      BY WorkAssumption DEF SegmentSound, CausesSound, Pending, Ends, Hooks
    <3>2. Ends(q)' = Ends(q) /\ Hooks(q)' = Hooks(q) /\ late'[q] = late[q]
      BY <2>1, <2>2 DEF Ends, Hooks, ByHook
    <3>3. Errs(q) \in Nat /\ Errs(q)' \in Nat /\ Errs(q)' >= Errs(q)
      BY <1>1, <2>1, AddErrorSound
    <3> QED BY <3>1, <3>2, <3>3 DEF CausesSound, Causes
  <2> QED BY <2>2, <2>3, <2>4, <2>5, <2>6
<1> QED BY <1>2, <1>3

-----------------------------------------------------------------------------
LEMMA StepKeepsCycle == CycleInv /\ [Next]_vars => CycleInv'
<1> SUFFICES ASSUME CycleInv, [Next]_vars PROVE CycleInv'
  OBVIOUS
<1>1. CASE Next
  <2> PICK r \in Request :
        \/ \E header \in {"0", "1", "none"}, sampled \in BOOLEAN : Arrives(r, header, sampled)
        \/ HandlerDone(r) \/ HandlerFails(r) \/ Answers(r)
        \/ WorkStarts(r) \/ WorkEnds(r)
        \/ EndSegment(r) \/ OnResponse(r)
        \/ \E fails \in BOOLEAN : ProcessResponse(r, fails)
        \/ UncaughtException(r) \/ After(r)
    BY <1>1 DEF Next
  <2> QED BY ArrivesKeeps, HandlerKeeps, AnswersKeeps, WorkKeeps, EndSegmentKeeps,
             OnResponseKeeps, ProcessResponseKeeps, RestifyKeeps
<1>2. CASE UNCHANGED vars
  <2> USE <1>2 DEF CycleInv, vars, cycleVars, segmentVars, historyVars
  <2>1. TypeOK'
    BY DEF TypeOK
  <2>2. ClosedSound' /\ EndedIsClosed' /\ SharedSound' /\ ErrorsSound'
    BY DEF ClosedSound, EndedIsClosed, SharedSound, ErrorsSound
  <2>3. SegmentSound' /\ CausesSound'
    BY SegmentsStay
  <2> QED BY <2>1, <2>2, <2>3
<1> QED BY <1>1, <1>2

(* A served request is closed, and so sent.                                *)
LEMMA ServedSent ==
  ASSUME CycleInv, NEW r \in Request, Served(r), r \notin notTraced
  PROVE  sent[r] > 0
<1>1. r \in closed
  BY FrameworkAssumption DEF CycleInv, TypeOK, Served, EndedIsClosed
<1> QED BY <1>1 DEF CycleInv, SegmentSound, Served

(* The segment of a sampled request that was served has been sent          *)
(* (traceRequestResponseCycle, Segment.close, decrementCounter).           *)
THEOREM ServedRequestIsSent == Spec => []ServedIsSent
<1>1. CycleInv => ServedIsSent
  BY ServedSent DEF ServedIsSent, CycleInv
<1> QED BY <1>1, InitKeepsCycle, StepKeepsCycle, PTL DEF Spec

(* No step sends a segment before its request is over, and with something  *)
(* open.                                                                   *)
THEOREM NothingSentEarly == Spec => SentOnlyWhenOver
<1> DEFINE Over(r) == /\ counter'[r] = 0
                      /\ \/ r \in answered
                         \/ framework = "koa" /\ handler'[r] # "running"
                         \/ framework = "restify" /\ errors'[r] # {}
           OverWhenSent == \A r \in Request : sent'[r] > sent[r] => Over(r)
<1>1. CycleInv /\ CycleInv' /\ [Next]_vars => [OverWhenSent]_vars
  <2> SUFFICES ASSUME CycleInv, CycleInv', Next, NEW r \in Request, sent'[r] > sent[r]
               PROVE  Over(r)
    OBVIOUS
  <2>0. sent[r] \in Nat /\ sent'[r] \in Nat
    BY DEF CycleInv, SegmentSound
  <2>1. r \in closed'
    BY <2>0 DEF CycleInv, SegmentSound
  <2>2. PICK q \in Request :
          \/ WorkEnds(q) \/ EndSegment(q) \/ OnResponse(q)
          \/ \E fails \in BOOLEAN : ProcessResponse(q, fails)
          \/ UncaughtException(q)
    <3>1. sent' # sent
      BY <2>0
    <3> QED BY <3>1 DEF Next, Arrives, HandlerDone, HandlerFails, Answers, WorkStarts, After,
                        AddError, segmentVars
  <2>3. counter'[r] = 0
    <3>1. CASE WorkEnds(q)
      <4>1. q = r /\ counter'[r] <= 0
        BY <2>0, <3>1 DEF WorkEnds, LastOfClosed, Flush, CycleInv, SegmentSound
      <4> QED BY <4>1, WorkAssumption DEF CycleInv, SegmentSound
    <3>2. ASSUME NEW c \in Request, NEW errs, Few(errs), Close(c, errs) PROVE counter'[r] = 0
      <4>1. \A p \in Request \ {c} : sent'[p] = sent[p]
        BY <3>2, CloseSound
      <4>2. c = r
        BY <2>0, <4>1
      <4>3. counter[r] = 0 /\ counter' = counter
        BY <3>2, <4>2, CloseSound
      <4> QED BY <4>3
    <3>3. CASE EndSegment(q) \/ OnResponse(q)
      BY <3>2, <3>3 DEF EndSegment, OnResponse, Few
    <3>4. CASE \E fails \in BOOLEAN : ProcessResponse(q, fails)
      <4>1. \E errs : Few(errs) /\ Close(q, errs)
        BY <3>4 DEF ProcessResponse, ClosesWith, Few
      <4> QED BY <3>2, <4>1
    <3>5. CASE UncaughtException(q)
      <4>1. shared \in Request
        BY <3>5 DEF UncaughtException, CycleInv, SharedSound, TypeOK
      <4>2. Few({q}) /\ Close(shared, {q})
        BY <3>5 DEF UncaughtException, Few
      <4> QED BY <3>2, <4>1, <4>2
    <3> QED BY <2>2, <3>1, <3>3, <3>4, <3>5
  <2>4. /\ framework' = framework
        /\ framework # "restify" => answered' = answered
        /\ framework = "restify" => answered' = answered
    BY <2>2 DEF WorkEnds, EndSegment, OnResponse, ProcessResponse, UncaughtException, cycleVars
  <2>5. /\ framework = "koa" => handler'[r] # "running"
        /\ framework \notin {"koa", "restify"} => r \in answered
        /\ framework = "restify" => r \in didEnd' \/ errors'[r] # {}
    BY <2>1, <2>4 DEF CycleInv, ClosedSound
  <2>6. didEnd' \subseteq answered'
    BY DEF CycleInv, TypeOK
  <2> QED BY <2>3, <2>4, <2>5, <2>6
<1> QED BY <1>1, InitKeepsCycle, StepKeepsCycle, PTL DEF Spec, SentOnlyWhenOver

(* Two events end a response, and its segment is sent once; more often     *)
(* only with late work, with errors of Restify, and in the manual mode of  *)
(* Fastify.                                                                *)
THEOREM RequestSentOnce == Spec => []SentOnceBut
<1>1. CycleInv => SentOnceBut
  <2> SUFFICES ASSUME CycleInv, NEW r \in Request
               PROVE  sent[r] <= 1 + late[r] + Errs(r)
                                 + (IF framework = "fastify" /\ ~automatic THEN 1 ELSE 0)
    BY DEF SentOnceBut, Errs
  <2>1. sent[r] + Pending(r) <= Causes(r) /\ sent[r] \in Nat /\ Pending(r) \in Nat
    BY DEF CycleInv, CausesSound, SegmentSound, Pending
  <2>2. Cardinality(errors[r]) \in Nat
    BY FS_CardinalityType DEF CycleInv, SegmentSound
  <2>3. late[r] \in Nat /\ Errs(r) \in Nat
    BY <2>2, WorkAssumption DEF CycleInv, CausesSound, Errs
  <2>4. Ends(r) + Hooks(r) <= 1 + IF framework = "fastify" /\ ~automatic THEN 1 ELSE 0
    BY DEF Ends, Hooks, ByHook, CycleInv, EndedIsClosed
  <2>5. Ends(r) \in Nat /\ Hooks(r) \in Nat
    BY DEF Ends, Hooks
  <2> QED BY <2>1, <2>3, <2>4, <2>5 DEF Causes
<1> QED BY <1>1, InitKeepsCycle, StepKeepsCycle, PTL DEF Spec

(* The error that is put on its segment in time is in what is sent.        *)
THEOREM ErrorIsSent == Spec => []ErrorIsTold
<1>1. CycleInv => ErrorIsTold
  BY ServedSent DEF CycleInv, ErrorsSound, ErrorIsTold
<1> QED BY <1>1, InitKeepsCycle, StepKeepsCycle, PTL DEF Spec

-----------------------------------------------------------------------------
(* The wildcards of the rules. *)

(* What matchArray is before the first character of the pattern, and what  *)
(* it means that it has been computed for the first n of them.             *)
FirstRow(text) == [i \in 0 .. Len(text) |-> i = 0]
AreRows(row, pattern, text, n) ==
  row = [j \in 0 .. n |-> IF j = 0 THEN FirstRow(text) ELSE NextRow(pattern[j], text, row[j - 1])]

(* The table can be computed row by row. *)
LEMMA RowsExist ==
  ASSUME NEW pattern, NEW text, NEW n \in Nat
  PROVE  \E row : AreRows(row, pattern, text, n)
<1> DEFINE bad == {k \in Nat : ~ \E row : AreRows(row, pattern, text, k)}
<1> SUFFICES ASSUME bad # {} PROVE FALSE
  OBVIOUS
<1>1. PICK m \in bad : \A k \in bad : m <= k
  BY HasLeast
<1>2. m # 0
  <2>1. AreRows([j \in 0 .. 0 |-> FirstRow(text)], pattern, text, 0)
    BY DEF AreRows
  <2> QED BY <2>1
<1>3. PICK row : AreRows(row, pattern, text, m - 1)
  <2>1. m - 1 \in Nat /\ ~ (m <= m - 1)
    BY <1>2
  <2> QED BY <1>1, <2>1
<1> DEFINE next == [j \in 0 .. m |-> IF j = m THEN NextRow(pattern[m], text, row[m - 1]) ELSE row[j]]
<1>4. \A j \in 0 .. m - 1 : row[j] = IF j = 0 THEN FirstRow(text) ELSE NextRow(pattern[j], text, row[j - 1])
  BY <1>3 DEF AreRows
<1>5. next = [j \in 0 .. m |-> IF j = 0 THEN FirstRow(text) ELSE NextRow(pattern[j], text, next[j - 1])]
  <2>1. \A j \in 0 .. m : next[j] = IF j = 0 THEN FirstRow(text) ELSE NextRow(pattern[j], text, next[j - 1])
    <3> SUFFICES ASSUME NEW j \in 0 .. m 
                 PROVE next[j] = IF j = 0 THEN FirstRow(text) ELSE NextRow(pattern[j], text, next[j - 1])
      OBVIOUS
    <3>1. CASE j = m
      <4>1. next[m - 1] = row[m - 1]
        BY <1>2
      <4> QED BY <1>2, <3>1, <4>1
    <3>2. CASE j # m /\ j # 0
      <4>1. j - 1 \in 0 .. m /\ j - 1 # m /\ j \in 0 .. m - 1
        BY <3>2
      <4>2. next[j - 1] = row[j - 1] /\ next[j] = row[j]
        BY <3>2, <4>1
      <4> QED BY <3>2, <1>4, <4>1, <4>2
    <3>3. CASE j = 0
      <4>1. next[0] = row[0] /\ 0 \in 0 .. m - 1
        BY <1>2
      <4> QED BY <1>4, <4>1, <3>3
    <3> QED BY <3>1, <3>2, <3>3
  <2> HIDE DEF next
  <2>2. next = [j \in 0 .. m |-> next[j]]
    BY DEF next
  <2> QED BY <2>1, <2>2
<1>6. AreRows(next, pattern, text, m)
  BY <1>5 DEF AreRows
<1> QED BY <1>6

(* Rows is that table. *)
LEMMA RowsAre ==
  ASSUME NEW pattern, NEW text, Len(pattern) \in Nat
  PROVE  AreRows(Rows(pattern, text), pattern, text, Len(pattern))
<1>1. \E row : AreRows(row, pattern, text, Len(pattern))
  BY RowsExist
<1>2. \E row : row = [j \in 0 .. Len(pattern) |->
                        IF j = 0 THEN [i \in 0 .. Len(text) |-> i = 0]
                        ELSE NextRow(pattern[j], text, row[j - 1])]
  BY <1>1 DEF AreRows, FirstRow
<1> QED BY <1>2 DEF Rows, AreRows, FirstRow
(* The text is cut for the first j characters of the pattern, the j-th and *)
(* all of them; the last cut is at i.  Matches says that of the whole.     *)
Laid(pattern, text, cut, j) ==
  IF pattern[j] = "*" THEN cut[j - 1] <= cut[j]
  ELSE cut[j] = cut[j - 1] + 1 /\ Fits(pattern[j], text[cut[j]])

Cuts(pattern, text, j, i) ==
  \E cut \in [0 .. j -> 0 .. Len(text)] :
    cut[0] = 0 /\ cut[j] = i /\ \A k \in 1 .. j : Laid(pattern, text, cut, k)

(* What the last character of the pattern asks of the cut before. *)
LEMMA LastCut ==
  ASSUME NEW pattern, NEW text, Len(text) \in Nat, NEW j \in Nat \ {0}, NEW i \in 0 .. Len(text)
  PROVE  Cuts(pattern, text, j, i) <=>
           IF pattern[j] = "*" THEN \E k \in 0 .. i : Cuts(pattern, text, j - 1, k)
           ELSE i > 0 /\ Cuts(pattern, text, j - 1, i - 1) /\ Fits(pattern[j], text[i])
<1>1. ASSUME Cuts(pattern, text, j, i)
      PROVE  IF pattern[j] = "*" THEN \E k \in 0 .. i : Cuts(pattern, text, j - 1, k)
             ELSE i > 0 /\ Cuts(pattern, text, j - 1, i - 1) /\ Fits(pattern[j], text[i])
  <2>1. PICK cut \in [0 .. j -> 0 .. Len(text)] :
          cut[0] = 0 /\ cut[j] = i /\ \A k \in 1 .. j : Laid(pattern, text, cut, k)
    BY <1>1 DEF Cuts
  <2> DEFINE before == [k \in 0 .. j - 1 |-> cut[k]]
  <2>2. Cuts(pattern, text, j - 1, cut[j - 1])
    <3>1. before \in [0 .. j - 1 -> 0 .. Len(text)] /\ before[0] = 0 /\ before[j - 1] = cut[j - 1]
      BY <2>1
    <3>2. ASSUME NEW k \in 1 .. j - 1 PROVE Laid(pattern, text, before, k)
      <4>1. before[k] = cut[k] /\ before[k - 1] = cut[k - 1] /\ k \in 1 .. j
        OBVIOUS
      <4> HIDE DEF before
      <4> QED BY <2>1, <4>1 DEF Laid
    <3> HIDE DEF before
    <3> QED BY <3>1, <3>2 DEF Cuts
  <2>3. Laid(pattern, text, cut, j) /\ cut[j - 1] \in 0 .. Len(text)
    BY <2>1
  <2> QED BY <2>1, <2>2, <2>3 DEF Laid
<1>2. ASSUME NEW k \in 0 .. i, Cuts(pattern, text, j - 1, k),
             IF pattern[j] = "*" THEN TRUE ELSE i = k + 1 /\ Fits(pattern[j], text[i])
      PROVE  Cuts(pattern, text, j, i)
  <2>1. PICK cut \in [0 .. j - 1 -> 0 .. Len(text)] :
          cut[0] = 0 /\ cut[j - 1] = k /\ \A n \in 1 .. j - 1 : Laid(pattern, text, cut, n)
    BY <1>2 DEF Cuts
  <2> DEFINE longer == [n \in 0 .. j |-> IF n = j THEN i ELSE cut[n]]
  <2>2. longer \in [0 .. j -> 0 .. Len(text)] /\ longer[0] = 0 /\ longer[j] = i /\ longer[j - 1] = k
    BY <2>1
  <2>3. ASSUME NEW n \in 1 .. j PROVE Laid(pattern, text, longer, n)
    <3>1. CASE n = j
      <4> HIDE DEF longer
      <4> QED BY <3>1, <2>2, <1>2 DEF Laid
    <3>2. CASE n # j
      <4>1. longer[n] = cut[n] /\ longer[n - 1] = cut[n - 1] /\ n \in 1 .. j - 1
        BY <3>2
      <4> HIDE DEF longer
      <4> QED BY <2>1, <4>1 DEF Laid
    <3> QED BY <3>1, <3>2
  <2> HIDE DEF longer
  <2> QED BY <2>2, <2>3 DEF Cuts
<1>3. CASE pattern[j] = "*"
  BY <1>1, <1>2, <1>3
<1>4. CASE pattern[j] # "*"
  <2>1. ASSUME i > 0, Cuts(pattern, text, j - 1, i - 1), Fits(pattern[j], text[i])
        PROVE  Cuts(pattern, text, j, i)
    <3>1. i - 1 \in 0 .. i /\ i = (i - 1) + 1
      BY <2>1
    <3> QED BY <1>2, <1>4, <2>1, <3>1
  <2> QED BY <1>1, <1>4, <2>1
<1> QED BY <1>3, <1>4

(* Nothing is only laid over nothing. *)
LEMMA FirstCut ==
  ASSUME NEW pattern, NEW text, Len(text) \in Nat, NEW i \in 0 .. Len(text)
  PROVE  Cuts(pattern, text, 0, i) <=> i = 0
<1>1. ASSUME i = 0 PROVE Cuts(pattern, text, 0, i)
  <2> DEFINE cut == [k \in 0 .. 0 |-> 0]
  <2>1. cut \in [0 .. 0 -> 0 .. Len(text)] /\ cut[0] = 0
    OBVIOUS
  <2> HIDE DEF cut
  <2> QED BY <1>1, <2>1 DEF Cuts
<1> QED BY <1>1 DEF Cuts

(* matchArray[i], after j characters of the pattern, is set exactly when   *)
(* the first i of the text can be cut for them.                            *)
LEMMA RowIsCuts ==
  ASSUME NEW pattern, NEW text, Len(pattern) \in Nat, Len(text) \in Nat,
         NEW j \in 0 .. Len(pattern), NEW i \in 0 .. Len(text)
  PROVE  Rows(pattern, text)[j][i] <=> Cuts(pattern, text, j, i)
<1> DEFINE row == Rows(pattern, text)
           Agree(n) == \A k \in 0 .. Len(text) : row[n][k] <=> Cuts(pattern, text, n, k)
           bad == {n \in 0 .. Len(pattern) : ~ Agree(n)}
<1> HIDE DEF row, Agree
<1> SUFFICES bad = {}
  BY DEF row, Agree
<1> SUFFICES ASSUME bad # {} PROVE FALSE
  OBVIOUS
<1>1. PICK m \in bad : \A k \in bad : m <= k
  <2>1. bad \in SUBSET Nat
    OBVIOUS
  <2> HIDE DEF bad
  <2> QED BY <2>1, HasLeast
<1>2. \A n \in 0 .. Len(pattern) :
        row[n] = IF n = 0 THEN FirstRow(text) ELSE NextRow(pattern[n], text, row[n - 1])
  BY RowsAre DEF AreRows, row
<1>3. PICK k \in 0 .. Len(text) : ~ (row[m][k] <=> Cuts(pattern, text, m, k))
  BY <1>1 DEF Agree
<1>4. CASE m = 0
  <2>1. row[0][k] <=> k = 0
    BY <1>1, <1>2, <1>4 DEF FirstRow
  <2> QED BY <2>1, <1>3, <1>4, FirstCut
<1>5. CASE m # 0
  <2>1. m \in 1 .. Len(pattern) /\ m - 1 \in 0 .. Len(pattern)
    BY <1>1, <1>5
  <2>2. \A n \in 0 .. Len(text) : row[m - 1][n] <=> Cuts(pattern, text, m - 1, n)
    <3>1. Agree(m - 1)
      BY <1>1, <2>1
    <3> QED BY <3>1 DEF Agree
  <2>3. row[m][k] <=> IF k = 0 THEN MatchStart(pattern[m], row[m - 1])
                      ELSE IF pattern[m] = "*" THEN \E n \in 0 .. k : row[m - 1][n]
                      ELSE row[m - 1][k - 1] /\ Fits(pattern[m], text[k])
    <3>1. row[m] = NextRow(pattern[m], text, row[m - 1])
      BY <1>2, <1>5, <2>1
    <3> QED BY <3>1 DEF NextRow
  <2>4. Cuts(pattern, text, m, k) <=>
           IF pattern[m] = "*" THEN \E n \in 0 .. k : Cuts(pattern, text, m - 1, n)
           ELSE k > 0 /\ Cuts(pattern, text, m - 1, k - 1) /\ Fits(pattern[m], text[k])
    BY <2>1, LastCut
  <2>5. CASE k = 0
    <3>1. 0 .. k = {0} /\ (row[m - 1][0] <=> Cuts(pattern, text, m - 1, 0))
      BY <2>2, <2>5
    <3> QED BY <1>3, <2>3, <2>4, <2>5, <3>1 DEF MatchStart
  <2>6. CASE k # 0
    <3>1. \A n \in 0 .. k : row[m - 1][n] <=> Cuts(pattern, text, m - 1, n)
      BY <2>2
    <3>2. row[m - 1][k - 1] <=> Cuts(pattern, text, m - 1, k - 1)
      BY <2>2, <2>6
    <3> QED BY <1>3, <2>3, <2>4, <2>6, <3>1, <3>2
  <2> QED BY <2>5, <2>6
<1> QED BY <1>4, <1>5

(* The reference in these terms. *)
LEMMA MatchesMeansCuts ==
  ASSUME NEW pattern, NEW text
  PROVE  Matches(pattern, text) <=> Cuts(pattern, text, Len(pattern), Len(text))
BY DEF Matches, Cuts, Laid

(* Without a * there is one cut, at every character. *)
LEMMA PlainCut ==
  ASSUME NEW pattern, NEW text, Len(text) \in Nat, NEW j \in Nat, NEW i \in 0 .. Len(text),
         \A k \in 1 .. j : pattern[k] # "*"
  PROVE  Cuts(pattern, text, j, i) <=> i = j /\ \A k \in 1 .. j : Fits(pattern[k], text[k])
<1>1. ASSUME Cuts(pattern, text, j, i)
      PROVE  i = j /\ \A k \in 1 .. j : Fits(pattern[k], text[k])
  <2>1. PICK cut \in [0 .. j -> 0 .. Len(text)] :
          cut[0] = 0 /\ cut[j] = i /\ \A k \in 1 .. j : Laid(pattern, text, cut, k)
    BY <1>1 DEF Cuts
  <2>2. \A k \in 1 .. j : cut[k] = cut[k - 1] + 1 /\ Fits(pattern[k], text[cut[k]])
    BY <2>1 DEF Laid
  <2> DEFINE bad == {k \in 0 .. j : cut[k] # k}
  <2>3. bad = {}
    <3> SUFFICES ASSUME bad # {} PROVE FALSE
      OBVIOUS
    <3>1. PICK m \in bad : \A k \in bad : m <= k
      <4>1. bad \in SUBSET Nat
        OBVIOUS
      <4> HIDE DEF bad
      <4> QED BY <4>1, HasLeast
    <3>2. m \in 1 .. j /\ m - 1 \in 0 .. j /\ m - 1 \notin bad
      BY <2>1, <3>1
    <3> QED BY <2>2, <3>1, <3>2
  <2>4. \A k \in 0 .. j : cut[k] = k
    BY <2>3
  <2> HIDE DEF bad
  <2>5. \A k \in 1 .. j : k \in 0 .. j
    OBVIOUS
  <2>6. i = j
    BY <2>1, <2>4
  <2>7. \A k \in 1 .. j : Fits(pattern[k], text[k])
    BY <2>2, <2>4, <2>5
  <2> QED BY <2>6, <2>7
<1>2. ASSUME i = j, \A k \in 1 .. j : Fits(pattern[k], text[k])
      PROVE  Cuts(pattern, text, j, i)
  <2> DEFINE cut == [k \in 0 .. j |-> k]
  <2>1. cut \in [0 .. j -> 0 .. Len(text)] /\ cut[0] = 0 /\ cut[j] = i
    BY <1>2
  <2>2. ASSUME NEW k \in 1 .. j PROVE Laid(pattern, text, cut, k)
    <3>1. cut[k] = k /\ cut[k - 1] = k - 1
      OBVIOUS
    <3> HIDE DEF cut
    <3> QED BY <1>2, <3>1 DEF Laid
  <2> HIDE DEF cut
  <2> QED BY <2>1, <2>2 DEF Cuts
<1> QED BY <1>1, <1>2

(* The walk that simpleWildcardMatch makes finds the same. *)
LEMMA SimpleIsCuts ==
  ASSUME NEW Char, NEW pattern \in Seq(Char), NEW text \in Seq(Char),
         \A k \in 1 .. Len(pattern) - 1 : pattern[k] # "*"
  PROVE  SimpleMatch(pattern, text) <=> Cuts(pattern, text, Len(pattern), Len(text))
<1>1. Len(pattern) \in Nat /\ Len(text) \in Nat /\ (pattern = <<>> <=> Len(pattern) = 0)
  OBVIOUS
<1>2. CASE pattern # <<>> /\ pattern[Len(pattern)] = "*"
  <2> DEFINE fixed == Len(pattern) - 1
  <2>1. fixed \in Nat /\ Len(pattern) \in Nat \ {0}
    BY <1>1, <1>2
  <2>2. Cuts(pattern, text, Len(pattern), Len(text)) <=>
          \E k \in 0 .. Len(text) : Cuts(pattern, text, fixed, k)
    BY <1>1, <1>2, <2>1, LastCut
  <2>3. \A k \in 0 .. Len(text) :
          Cuts(pattern, text, fixed, k) <=> k = fixed /\ \A n \in 1 .. fixed : Fits(pattern[n], text[n])
    BY <1>1, <2>1, PlainCut
  <2>4. SimpleMatch(pattern, text) <=> fixed <= Len(text) /\ \A n \in 1 .. fixed : Fits(pattern[n], text[n])
    BY <1>2 DEF SimpleMatch
  <2> HIDE DEF fixed
  <2> QED BY <1>1, <2>1, <2>2, <2>3, <2>4
<1>3. CASE ~ (pattern # <<>> /\ pattern[Len(pattern)] = "*")
  <2>1. \A k \in 1 .. Len(pattern) : pattern[k] # "*"
    BY <1>1, <1>3
  <2>2. Cuts(pattern, text, Len(pattern), Len(text)) <=>
          Len(text) = Len(pattern) /\ \A n \in 1 .. Len(pattern) : Fits(pattern[n], text[n])
    BY <1>1, <2>1, PlainCut
  <2>3. SimpleMatch(pattern, text) <=>
          Len(pattern) = Len(text) /\ \A n \in 1 .. Len(pattern) : Fits(pattern[n], text[n])
    BY <1>3 DEF SimpleMatch
  <2> QED BY <2>2, <2>3
<1> QED BY <1>2, <1>3

(* wildcardMatch answers true exactly when the text can be cut into pieces *)
(* for the pattern, for all patterns and texts: its comment, the shortcuts *)
(* and the table that overwrites itself agree.                             *)
THEOREM WildcardIsRight ==
  ASSUME NEW Char, NEW pattern \in Seq(Char), NEW text \in Seq(Char)
  PROVE  WildcardMatch(pattern, text) <=> Matches(pattern, text)
<1>1. Len(pattern) \in Nat /\ Len(text) \in Nat
  OBVIOUS
<1>2. CASE pattern = <<"*">>
  <2>1. Len(pattern) = 1 /\ pattern[1] = "*"
    BY <1>2
  <2>2. Cuts(pattern, text, 1, Len(text)) <=> \E k \in 0 .. Len(text) : Cuts(pattern, text, 0, k)
    BY <1>1, <2>1, LastCut
  <2>3. Cuts(pattern, text, 0, 0)
    BY <1>1, FirstCut
  <2>4. Cuts(pattern, text, Len(pattern), Len(text))
    <3>1. 0 \in 0 .. Len(text)
      BY <1>1
    <3> QED BY <2>1, <2>2, <2>3, <3>1
  <2>5. WildcardMatch(pattern, text)
    BY <1>2 DEF WildcardMatch
  <2> QED BY <2>4, <2>5, MatchesMeansCuts
<1>3. CASE pattern # <<"*">> /\ \A k \in 1 .. Len(pattern) - 1 : pattern[k] # "*"
  BY <1>3, SimpleIsCuts, MatchesMeansCuts DEF WildcardMatch
<1>4. CASE pattern # <<"*">> /\ ~ \A k \in 1 .. Len(pattern) - 1 : pattern[k] # "*"
  <2>1. MatchArray(pattern, text) <=> Cuts(pattern, text, Len(pattern), Len(text))
    BY <1>1, RowIsCuts DEF MatchArray
  <2> QED BY <1>4, <2>1, MatchesMeansCuts DEF WildcardMatch
<1> QED BY <1>2, <1>3, <1>4

-----------------------------------------------------------------------------
(* The rules and their reservoirs. *)

(* Seconds are numbers and grow with time. *)
LEMMA SecondsGrow ==
  /\ \A t \in Time : Second(t) \in Nat /\ Second(t) \in Seconds
  /\ \A t, u \in Time : t <= u => Second(t) <= Second(u)
BY RuleAssumption DEF Time, Second, Seconds

(* What the configurations are. *)
LEMMA RulesAre ==
  ASSUME NEW rs \in RuleSet
  PROVE  /\ DOMAIN rs = 1 .. Len(rs) /\ Len(rs) \in Nat \ {0} /\ rs[Len(rs)].default
         /\ \A i \in DOMAIN rs : rs[i].target \in Nat
BY RuleAssumption DEF IsRule

(* Some rule applies, and the first is found. *)
LEMMA SomeRuleMatches ==
  ASSUME ArrivalTypeOK, NEW q
  PROVE  Matched(q) \in DOMAIN rules
<1> DEFINE fit == {i \in DOMAIN rules : Applies(rules[i], q)}
<1>1. fit \in SUBSET Nat /\ Len(rules) \in fit
  BY RulesAre DEF ArrivalTypeOK, Applies
<1> HIDE DEF fit
<1>2. \E m \in fit : \A k \in fit : m <= k
  BY <1>1, HasLeast
<1>3. Min(fit) \in fit
  BY <1>2 DEF Min
<1> QED BY <1>3 DEF Matched, fit

(* In every state the first rule that matches is the one that decides.     *)
LEMMA FirstRuleDecides == ArrivalTypeOK => FirstMatchingRule
<1> SUFFICES ASSUME ArrivalTypeOK, NEW q \in [host : Host \cup {None}, method : Method, path : Path]
             PROVE  LET intended == {i \in DOMAIN rules :
                          \/ rules[i].default
                          \/ /\ Matches(rules[i].host, q.host)
                             /\ Matches(rules[i].method, q.method) /\ Matches(rules[i].path, q.path)}
                    IN  Matched(q) = IF q.host = None THEN 1 ELSE Min(intended)
  BY DEF FirstMatchingRule
<1>1. CASE q.host = None
  <2>1. {i \in DOMAIN rules : Applies(rules[i], q)} = DOMAIN rules
    BY <1>1 DEF Applies
  <2>2. Matched(q) \in DOMAIN rules /\ DOMAIN rules = 1 .. Len(rules) /\ Len(rules) \in Nat \ {0}
    BY SomeRuleMatches, RulesAre DEF ArrivalTypeOK
  <2>3. \E m \in 1 .. Len(rules) : \A k \in 1 .. Len(rules) : m <= k
    BY <2>2
  <2>4. \A k \in 1 .. Len(rules) : Min(1 .. Len(rules)) <= k
    BY <2>3 DEF Min
  <2>5. Matched(q) = Min(1 .. Len(rules))
    BY <2>1, <2>2 DEF Matched
  <2>6. Matched(q) = 1
    BY <2>2, <2>4, <2>5
  <2> QED BY <1>1, <2>6
<1>2. CASE q.host # None
  <2>1. ASSUME NEW i \in DOMAIN rules
        PROVE  Applies(rules[i], q) <=>
                 \/ rules[i].default
                 \/ /\ Matches(rules[i].host, q.host)
                    /\ Matches(rules[i].method, q.method) /\ Matches(rules[i].path, q.path)
    <3>1. CASE rules[i].default
      BY <3>1 DEF Applies
    <3>2. CASE ~ rules[i].default
      <4>1. {rules[i].host, rules[i].method, rules[i].path} \subseteq Seq(Character)
        BY <3>2, RuleAssumption DEF ArrivalTypeOK, IsRule
      <4>2. {q.host, q.method, q.path} \subseteq Seq(Character)
        BY <1>2, TextAssumption
      <4>3. /\ WildcardMatch(rules[i].host, q.host) <=> Matches(rules[i].host, q.host)
            /\ WildcardMatch(rules[i].method, q.method) <=> Matches(rules[i].method, q.method)
            /\ WildcardMatch(rules[i].path, q.path) <=> Matches(rules[i].path, q.path)
        BY <4>1, <4>2, WildcardIsRight
      <4> QED BY <1>2, <3>2, <4>3 DEF Applies
    <3> QED BY <3>1, <3>2
  <2>2. {i \in DOMAIN rules : Applies(rules[i], q)} =
          {i \in DOMAIN rules :
              \/ rules[i].default
              \/ /\ Matches(rules[i].host, q.host)
                 /\ Matches(rules[i].method, q.method) /\ Matches(rules[i].path, q.path)}
    BY <2>1
  <2> QED BY <1>2, <2>2 DEF Matched
<1> QED BY <1>1, <1>2

(* At the start nothing was taken. *)
LEMMA ArrivalInitEstablishes == ArrivalInit => ArrivalInv
<1> SUFFICES ASSUME ArrivalInit PROVE ArrivalInv
  OBVIOUS
<1>1. /\ rules = Default /\ Default \in RuleSet /\ now = 0 /\ now \in Time
      /\ \A i \in DOMAIN rules : window[i] = [second |-> None, used |-> 0] /\ rules[i].target \in Nat
      /\ \A i \in DOMAIN rules, s \in Seconds : taken[i][s] = 0
  BY RuleAssumption, RulesAre DEF ArrivalInit, Fresh, NothingTaken, Time
<1>2. ArrivalTypeOK
  <2>1. /\ window \in [DOMAIN rules -> [second : Nat \cup {None}, used : Nat]]
        /\ taken \in [DOMAIN rules -> [Seconds -> Nat]]
    BY <1>1 DEF ArrivalInit, Fresh, NothingTaken
  <2> QED BY <1>1, <2>1 DEF ArrivalInit, ArrivalTypeOK
<1>3. TargetASecond
  BY <1>1, <1>2 DEF TargetASecond
<1>4. WindowIsLatest
  BY <1>1 DEF WindowIsLatest
<1>5. PatternIsWanted
  BY DEF ArrivalInit, PatternIsWanted
<1> QED BY <1>3, <1>4, <1>5 DEF ArrivalInv

(* A decision of a reservoir keeps the counts of its rule. *)
LEMMA LocalSamplePreserves ==
  ASSUME ArrivalInv, NEW i \in DOMAIN rules, NEW traced, LocalSample(i, traced), UNCHANGED now
  PROVE  /\ window' \in [DOMAIN rules -> [second : Nat \cup {None}, used : Nat]]
         /\ taken' \in [DOMAIN rules -> [Seconds -> Nat]]
         /\ rules' = rules
         /\ \A j \in DOMAIN rules :
              /\ \A s \in Seconds : taken'[j][s] <= rules[j].target
              /\ window'[j].second # None => window'[j].used = taken'[j][window'[j].second]
         /\ WindowIsLatest'
<1> DEFINE second == Second(now)
           w == Window(i)
<1>1. /\ ArrivalTypeOK /\ WindowIsLatest
      /\ \A j \in DOMAIN rules :
           /\ \A s \in Seconds : taken[j][s] <= rules[j].target
           /\ window[j].second # None => window[j].used = taken[j][window[j].second]
  BY DEF ArrivalInv, TargetASecond
<1>2. now \in Time /\ second \in Nat /\ second \in Seconds /\ None \notin Nat /\ second # None
  BY <1>1, SecondsGrow, RuleAssumption DEF ArrivalTypeOK
<1>3. \A s \in Seconds : s \in Nat
  BY SecondsGrow DEF Seconds
<1>4. \A j \in DOMAIN rules :
        /\ window[j] \in [second : Nat \cup {None}, used : Nat] /\ taken[j] \in [Seconds -> Nat]
        /\ rules[j].target \in Nat
  BY <1>1, RulesAre DEF ArrivalTypeOK
<1> HIDE DEF second
<1>5. w = [second |-> second, used |-> taken[i][second]]
  <2>1. CASE window[i].second = second
    <3>1. window[i].used = taken[i][second]
      BY <1>1, <1>2, <2>1
    <3> QED BY <1>4, <2>1, <3>1 DEF Window, second
  <2>2. CASE window[i].second # second
    <3>1. window[i].second # None => window[i].second < second
      BY <1>1, <1>2, <1>3, <2>2 DEF WindowIsLatest, second
    <3>2. taken[i][second] = 0
      BY <1>1, <1>2, <3>1 DEF WindowIsLatest
    <3> QED BY <2>2, <3>2 DEF Window, second
  <2> QED BY <2>1, <2>2
<1>6. \A s \in Seconds : second < s => taken[i][s] = 0
  <2> SUFFICES ASSUME NEW s \in Seconds, second < s PROVE taken[i][s] = 0
    OBVIOUS
  <2>1. window[i].second # None => window[i].second < s
    BY <1>1, <1>2, <1>3 DEF WindowIsLatest, second
  <2> QED BY <1>1, <2>1 DEF WindowIsLatest
<1>7. taken[i][second] \in Nat
  BY <1>2, <1>4
<1> HIDE DEF w
<1>8. CASE w.used >= rules[i].target
  <2>1. window' = [window EXCEPT ![i] = w] /\ taken' = taken /\ rules' = rules
    BY <1>8 DEF LocalSample, w
  <2>2. window' \in [DOMAIN rules -> [second : Nat \cup {None}, used : Nat]]
    BY <1>1, <1>2, <1>5, <1>7, <2>1 DEF ArrivalTypeOK
  <2>3. \A j \in DOMAIN rules : window'[j] = IF j = i THEN w ELSE window[j]
    BY <1>1, <2>1 DEF ArrivalTypeOK
  <2>4. \A j \in DOMAIN rules : window'[j].second # None => window'[j].used = taken[j][window'[j].second]
    BY <1>1, <1>5, <2>3
  <2>5. WindowIsLatest'
    <3> SUFFICES ASSUME NEW j \in DOMAIN rules
                 PROVE  /\ window'[j].second # None =>
                             window'[j].second \in Seconds /\ window'[j].second <= second
                        /\ \A s \in Seconds :
                             (window'[j].second # None => window'[j].second < s) => taken[j][s] = 0
      BY <2>1 DEF WindowIsLatest, second
    <3>1. CASE j = i
      BY <1>2, <1>5, <1>6, <2>3, <3>1
    <3>2. CASE j # i
      BY <1>1, <2>3, <3>2 DEF WindowIsLatest, second
    <3> QED BY <3>1, <3>2
  <2> QED BY <1>1, <2>1, <2>2, <2>4, <2>5 DEF ArrivalTypeOK
<1>9. CASE ~ (w.used >= rules[i].target)
  <2>1. /\ window' = [window EXCEPT ![i] = [w EXCEPT !.used = @ + 1]]
        /\ taken' = [taken EXCEPT ![i][second] = @ + 1] /\ rules' = rules
    BY <1>9 DEF LocalSample, w, second
  <2>2. [w EXCEPT !.used = @ + 1] = [second |-> second, used |-> taken[i][second] + 1]
    BY <1>5
  <2>3. window' \in [DOMAIN rules -> [second : Nat \cup {None}, used : Nat]]
    BY <1>1, <1>2, <1>7, <2>1, <2>2 DEF ArrivalTypeOK
  <2>4. \A j \in DOMAIN rules :
          window'[j] = IF j = i THEN [second |-> second, used |-> taken[i][second] + 1] ELSE window[j]
    BY <1>1, <2>1, <2>2 DEF ArrivalTypeOK
  <2>5. \A j \in DOMAIN rules, s \in Seconds :
          taken'[j][s] = IF j = i /\ s = second THEN taken[i][second] + 1 ELSE taken[j][s]
    BY <1>1, <1>4, <2>1 DEF ArrivalTypeOK
  <2>6. taken' \in [DOMAIN rules -> [Seconds -> Nat]]
    BY <1>1, <1>2, <1>4, <1>7, <2>1 DEF ArrivalTypeOK
  <2>7. taken[i][second] + 1 <= rules[i].target
    BY <1>4, <1>5, <1>7, <1>9
  <2>8. \A j \in DOMAIN rules :
          /\ \A s \in Seconds : taken'[j][s] <= rules[j].target
          /\ window'[j].second # None => window'[j].used = taken'[j][window'[j].second]
    <3> SUFFICES ASSUME NEW j \in DOMAIN rules
                 PROVE  /\ \A s \in Seconds : taken'[j][s] <= rules[j].target
                        /\ window'[j].second # None => window'[j].used = taken'[j][window'[j].second]
      OBVIOUS
    <3>1. CASE j = i
      BY <1>1, <1>2, <2>4, <2>5, <2>7, <3>1
    <3>2. CASE j # i
      <4>1. window'[j] = window[j] /\ \A s \in Seconds : taken'[j][s] = taken[j][s]
        BY <2>4, <2>5, <3>2
      <4>2. window[j].second # None => window[j].second \in Seconds
        BY <1>1 DEF WindowIsLatest
      <4> QED BY <1>1, <4>1, <4>2
    <3> QED BY <3>1, <3>2
  <2>9. WindowIsLatest'
    <3> SUFFICES ASSUME NEW j \in DOMAIN rules
                 PROVE  /\ window'[j].second # None =>
                             window'[j].second \in Seconds /\ window'[j].second <= second
                        /\ \A s \in Seconds :
                             (window'[j].second # None => window'[j].second < s) => taken'[j][s] = 0
      BY <2>1 DEF WindowIsLatest, second
    <3>1. CASE j = i
      BY <1>2, <1>3, <1>6, <2>4, <2>5, <3>1
    <3>2. CASE j # i
      BY <1>1, <2>4, <2>5, <3>2 DEF WindowIsLatest, second
    <3> QED BY <3>1, <3>2
  <2> QED BY <2>1, <2>3, <2>6, <2>8, <2>9
<1> QED BY <1>8, <1>9

(* A request changes only the reservoir of the rule that decides. *)
LEMMA ArrivePreserves ==
  ASSUME ArrivalInv, NEW q \in Arriving, Arrive(q)
  PROVE  ArrivalInv'
<1>1. PICK traced \in BOOLEAN :
        /\ Decides(q, traced)
        /\ arrived' = IF q.sampled = "?!" THEN None ELSE [name |-> ResolveName(q.host), traced |-> traced]
        /\ UNCHANGED <<now, sampler, namingVars>>
  BY DEF Arrive
<1>2. ArrivalTypeOK /\ PatternIsWanted /\ WindowIsLatest /\ TargetASecond
  BY DEF ArrivalInv, TargetASecond
<1>3. arrived' = None \/ arrived' \in [name : Host \cup {DefaultName}, traced : BOOLEAN]
  <2>1. q.host \in Host \cup {None}
    BY DEF Arriving
  <2>2. ResolveName(q.host) \in Host \cup {DefaultName}
    BY <2>1 DEF ResolveName
  <2> QED BY <1>1, <2>2
<1>4. /\ rules' = rules
      /\ window' \in [DOMAIN rules -> [second : Nat \cup {None}, used : Nat]]
      /\ taken' \in [DOMAIN rules -> [Seconds -> Nat]]
      /\ \A j \in DOMAIN rules :
           /\ \A s \in Seconds : taken'[j][s] <= rules[j].target
           /\ window'[j].second # None => window'[j].used = taken'[j][window'[j].second]
      /\ WindowIsLatest'
  <2>1. CASE UNCHANGED ruleVars
    BY <1>1, <1>2, <2>1 DEF ruleVars, ArrivalTypeOK, TargetASecond, WindowIsLatest
  <2>2. CASE LocalSample(Matched(q), traced)
    <3>1. Matched(q) \in DOMAIN rules
      BY <1>2, SomeRuleMatches
    <3> HIDE DEF Matched
    <3> QED BY <1>1, <2>2, <3>1, LocalSamplePreserves
  <2> QED BY <1>1, <2>1, <2>2 DEF Decides
<1>5. ArrivalTypeOK'
  BY <1>1, <1>2, <1>3, <1>4 DEF ArrivalTypeOK, namingVars
<1>6. TargetASecond'
  BY <1>4, <1>5 DEF TargetASecond
<1>7. PatternIsWanted'
  BY <1>1, <1>2 DEF PatternIsWanted, namingVars
<1> QED BY <1>4, <1>6, <1>7 DEF ArrivalInv

(* New rules come with reservoirs of their own. *)
LEMMA SetRulesPreserves ==
  ASSUME ArrivalInv, NEW rs \in RuleSet, SetSamplingRules(rs)
  PROVE  ArrivalInv'
<1>1. ArrivalTypeOK /\ PatternIsWanted
  BY DEF ArrivalInv, TargetASecond
<1>2. /\ rules' = rs /\ UNCHANGED <<now, sampler, namingVars, arrived>>
      /\ \A i \in DOMAIN rs : window'[i] = [second |-> None, used |-> 0] /\ rs[i].target \in Nat
      /\ \A i \in DOMAIN rs, s \in Seconds : taken'[i][s] = 0
      /\ window' \in [DOMAIN rs -> [second : Nat \cup {None}, used : Nat]]
      /\ taken' \in [DOMAIN rs -> [Seconds -> Nat]]
  BY RulesAre DEF SetSamplingRules, Fresh, NothingTaken
<1>3. ArrivalTypeOK'
  BY <1>1, <1>2 DEF ArrivalTypeOK, namingVars
<1>4. TargetASecond'
  BY <1>2, <1>3 DEF TargetASecond
<1>5. WindowIsLatest'
  BY <1>2 DEF WindowIsLatest
<1>6. PatternIsWanted'
  BY <1>1, <1>2 DEF PatternIsWanted, namingVars
<1> QED BY <1>4, <1>5, <1>6 DEF ArrivalInv

(* The clock, and what concerns names, leaves the reservoirs alone.        *)
LEMMA OthersPreserve ==
  ASSUME ArrivalInv, UNCHANGED <<ruleVars, arrived>>,
         now' \in Time, now <= now', sampler' \in {"default", "local"},
         dynamicNaming' \in BOOLEAN, hostPattern' \in HostPattern \cup {None}, PatternIsWanted'
  PROVE  ArrivalInv'
<1>1. ArrivalTypeOK /\ WindowIsLatest /\ TargetASecond
  BY DEF ArrivalInv, TargetASecond
<1>2. ArrivalTypeOK'
  BY <1>1 DEF ArrivalTypeOK, ruleVars
<1>3. TargetASecond'
  BY <1>1, <1>2 DEF TargetASecond, ruleVars
<1>4. Second(now) <= Second(now') /\ Second(now) \in Nat /\ Second(now') \in Nat
  BY <1>1, SecondsGrow DEF ArrivalTypeOK
<1>5. \A s \in Seconds : s \in Nat
  BY SecondsGrow DEF Seconds
<1>6. WindowIsLatest'
  BY <1>1, <1>4, <1>5 DEF WindowIsLatest, ruleVars
<1> QED BY <1>3, <1>6 DEF ArrivalInv

(* Every step of the arriving requests and the configuration. *)
LEMMA ArrivalNextPreserves ==
  ASSUME ArrivalInv, [ArrivalNext]_arrivalVars
  PROVE  ArrivalInv'
<1>1. ArrivalTypeOK /\ PatternIsWanted
  BY DEF ArrivalInv, TargetASecond
<1>2. now \in Time /\ \A t \in Time : t \in Nat
  BY <1>1, RuleAssumption DEF ArrivalTypeOK, Time
<1>3. ASSUME NEW q \in Arriving, Arrive(q) PROVE ArrivalInv'
  BY <1>3, ArrivePreserves
<1>4. ASSUME NEW rs \in RuleSet, SetSamplingRules(rs) PROVE ArrivalInv'
  BY <1>4, SetRulesPreserves
<1>5. CASE DisableCentralizedSampling
  BY <1>1, <1>2, <1>5, OthersPreserve
     DEF DisableCentralizedSampling, ArrivalTypeOK, PatternIsWanted, namingVars
<1>6. ASSUME NEW p \in HostPattern \cup {None}, EnableDynamicNaming(p) PROVE ArrivalInv'
  BY <1>1, <1>2, <1>6, OthersPreserve DEF EnableDynamicNaming, ArrivalTypeOK, PatternIsWanted
<1>7. CASE RefuseDynamicNaming
  BY <1>1, <1>2, <1>7, OthersPreserve DEF RefuseDynamicNaming, ArrivalTypeOK, PatternIsWanted
<1>8. CASE Tick
  <2>1. now' \in Time /\ now <= now'
    BY <1>2, <1>8, RuleAssumption DEF Tick, Time
  <2> QED BY <1>1, <1>8, <2>1, OthersPreserve DEF Tick, ArrivalTypeOK, PatternIsWanted, namingVars
<1>9. CASE UNCHANGED arrivalVars
  BY <1>1, <1>2, <1>9, OthersPreserve DEF arrivalVars, ArrivalTypeOK, PatternIsWanted, namingVars
<1> QED BY <1>3, <1>4, <1>5, <1>6, <1>7, <1>8, <1>9 DEF ArrivalNext

(* The inductive invariant holds. *)
LEMMA ArrivalInvariant == ArrivalSpec => []ArrivalInv
<1>1. ArrivalInit => ArrivalInv
  BY ArrivalInitEstablishes
<1>2. ArrivalInv /\ [ArrivalNext]_arrivalVars => ArrivalInv'
  BY ArrivalNextPreserves
<1> QED BY <1>1, <1>2, PTL DEF ArrivalSpec

(* In no second does a local rule give more than its target, nor does its  *)
(* reservoir count more than was given, whatever the rules and however     *)
(* they are replaced (LocalReservoir.isSampled, setLocalRules).            *)
THEOREM TargetsHold == ArrivalSpec => []TargetASecond
<1>1. ArrivalInv => TargetASecond
  BY DEF ArrivalInv
<1> QED BY <1>1, ArrivalInvariant, PTL

(* A request with a host is decided by the first rule it matches in the    *)
(* sense of the reference, one without a host by the first rule, for all   *)
(* rules and requests (LocalSampler.shouldSample).                         *)
THEOREM FirstRuleDecidesAlways == ArrivalSpec => []FirstMatchingRule
<1>1. ArrivalInv => FirstMatchingRule
  BY FirstRuleDecides DEF ArrivalInv, TargetASecond
<1> QED BY <1>1, ArrivalInvariant, PTL

(* The step that names a segment. *)
LEMMA NamesAreAllowed ==
  ASSUME ArrivalInv, [ArrivalNext]_arrivalVars, arrived' # arrived, arrived' # None
  PROVE  \/ arrived'.name = DefaultName
         \/ wanted = {} /\ dynamicNaming
         \/ \E p \in wanted : p = None \/ Matches(p, arrived'.name)
<1>1. ArrivalTypeOK /\ PatternIsWanted
  BY DEF ArrivalInv, TargetASecond
<1>2. PICK q \in Arriving : Arrive(q)
  BY DEF ArrivalNext, arrivalVars, SetSamplingRules, DisableCentralizedSampling, EnableDynamicNaming,
         RefuseDynamicNaming, Tick
<1>3. arrived'.name = ResolveName(q.host)
  BY <1>2 DEF Arrive
<1>4. CASE arrived'.name = DefaultName
  BY <1>4
<1>5. CASE arrived'.name # DefaultName
  <2>1. /\ dynamicNaming /\ arrived'.name = q.host /\ q.host # None
        /\ hostPattern # None => WildcardMatch(hostPattern, q.host)
    BY <1>3, <1>5 DEF ResolveName
  <2>2. q.host \in Seq(Character)
    BY <2>1, TextAssumption DEF Arriving
  <2>3. hostPattern # None => Matches(hostPattern, q.host)
    <3>1. hostPattern # None => hostPattern \in Seq(Character)
      BY <1>1, TextAssumption DEF ArrivalTypeOK
    <3> QED BY <2>1, <2>2, <3>1, WildcardIsRight
  <2> QED BY <1>1, <2>1, <2>3 DEF PatternIsWanted
<1> QED BY <1>4, <1>5

(* Segments are named after hosts only as enableDynamicNaming was told, a  *)
(* call that was refused notwithstanding (resolveName).                    *)
THEOREM NamesAreAskedFor == ArrivalSpec => NameIsAllowed
<1>1. ArrivalInv /\ [ArrivalNext]_arrivalVars =>
        [arrived' # arrived /\ arrived' # None =>
           \/ arrived'.name = DefaultName
           \/ wanted = {} /\ dynamicNaming
           \/ \E p \in wanted : p = None \/ Matches(p, arrived'.name)]_arrivalVars
  BY NamesAreAllowed
<1> QED BY <1>1, ArrivalInvariant, PTL DEF ArrivalSpec, NameIsAllowed
=============================================================================
