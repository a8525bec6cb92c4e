---------------------------- MODULE LambdaFacade ----------------------------
(***************************************************************************)
(* The SDK inside AWS Lambda: packages/core/lib/env/aws_lambda.js and      *)
(* LambdaUtils in utils.js.  The process serves one invocation after       *)
(* another.  The segment is a facade that belongs to Lambda: it never      *)
(* counts, closes or is sent, and takes trace id and decision from the     *)
(* header of the invocation whenever the program asks for it.  Subsegments *)
(* that an invocation leaves open outlive it: the process is frozen and    *)
(* thawed for the next one.  The tree below the facade is SegmentTree's,   *)
(* with Facade = TRUE and Threshold = 0.                                   *)
(***************************************************************************)
EXTENDS SegmentTree

CONSTANTS
  Header,        \* the trace headers Lambda may set, see HeaderAssumption
  NoHeader,      \* no header is set
  InvalidTrace,  \* TraceID.Invalid()
  NewTrace,      \* a trace id made up on the spot
  MaxInvocation  \* bound: how many invocations the process serves

ASSUME HeaderAssumption ==
  /\ Header \subseteq [root : {"valid", "malformed", "none"}, parent : BOOLEAN,
                       sampled : {"1", "0", "none"}]
  /\ NoHeader \notin Header
ASSUME InvocationAssumption == MaxInvocation \in Nat \ {0}
ASSUME TraceAssumption == InvalidTrace \notin Nat \cup {NewTrace}

(* What init sets: the tree is that of a facade, with threshold 0. *)
FacadeOnly == Facade /\ Threshold = 0

VARIABLES
  invocation,  \* the number of the invocation being served
  header,      \* its header, in the environment or the invoke store
  prev,        \* xAmznTraceIdPrev: the invocation whose header was taken over, or 0
  trace,       \* trace_id of the facade: the invocation it came from, or one of
               \* InvalidTrace, NewTrace
  noOp,        \* the nodes with noOp set
  asked,       \* history: the program has asked for the facade in this invocation
  bornIn,      \* bornIn[s]: the invocation during which s, or what it is nested
               \* in, was added to the facade; 0 for none
  sentUnder,   \* sentUnder[s]: the trace ids s was sent with
  loose        \* history: the subsegments that outlived their invocation, what was
               \* nested in those, and those closed while a child was open

facadeVars == <<invocation, header, prev, trace, noOp, asked, bornIn, sentUnder, loose>>
lambdaVars == <<vars, facadeVars>>

Trace == 1..MaxInvocation \cup {InvalidTrace, NewTrace}

LambdaTypeOK ==
  /\ TypeOK /\ counter[Root] = 1
  /\ invocation \in 1..MaxInvocation
  /\ header \in Header \cup {NoHeader}
  /\ prev \in 0..invocation
  /\ trace \in Trace
  /\ noOp \subseteq Node /\ asked \in BOOLEAN
  /\ bornIn \in [Subsegment -> 0..invocation]
  /\ sentUnder \in [Subsegment -> SUBSET Trace]
  /\ loose \subseteq live

-----------------------------------------------------------------------------
(* validTraceData and what populateTraceData computes from a header. *)

HasAll(h) == h.root # "none" /\ h.parent /\ h.sampled # "none"
PassThrough(h) == h.root # "none" /\ ~h.parent /\ h.sampled = "none"

PopulatedTrace(h) == IF h.root = "valid" THEN invocation ELSE NewTrace
PopulatedNotTraced(h) ==
  IF h.sampled = "1" THEN notTraced \ {Root} ELSE notTraced \cup {Root}
PopulatedNoOp(h) == IF PassThrough(h) THEN noOp \cup {Root} ELSE noOp
Valid(h) == (PassThrough(h) \/ HasAll(h)) /\ h.root # "malformed"

(* init and facadeSegment: the segment is taken over at once only when a   *)
(* whole header is already there.                                          *)
LambdaInit ==
  /\ live = {} /\ withSegment = {} /\ kept = {} /\ open = {}
  /\ up = [n \in Node |-> {}]
  /\ counter = [n \in Node |-> IF n = Root THEN 1 ELSE 0]
  /\ sent = [n \in Node |-> 0]
  /\ invocation = 1
  /\ header \in Header \cup {NoHeader}
  /\ IF header # NoHeader /\ HasAll(header)
       THEN /\ trace = IF header.root = "valid" THEN 1 ELSE NewTrace
            /\ notTraced = IF header.sampled = "1" THEN {} ELSE {Root}
            /\ prev = IF Valid(header) THEN 1 ELSE 0
       ELSE trace = InvalidTrace /\ notTraced = {Root} /\ prev = 0
  /\ noOp = {} /\ asked = FALSE
  /\ bornIn = [s \in Subsegment |-> 0]
  /\ sentUnder = [s \in Subsegment |-> {}]
  /\ loose = {}

(* Lambda sets the header of the next invocation.  What is still open has  *)
(* outlived the one it belongs to.                                         *)
Invoke(h) ==
  /\ invocation < MaxInvocation
  /\ invocation' = invocation + 1
  /\ header' = h
  /\ asked' = FALSE
  /\ loose' = loose \cup open
  /\ UNCHANGED <<vars, prev, trace, noOp, bornIn, sentUnder>>

\* Slip: once a header was taken over, no later one is.
TakenOver == prev # 0

(* The header is the one that was taken over last. *)
Known == prev = invocation

ChildrenOfRoot == {s \in live : up[s] = {Root}}

\* Slip: a reset without a header leaves the old decision.
ResetKeepsDecision ==
  /\ trace' = InvalidTrace
  /\ kept' = kept \ ChildrenOfRoot
  /\ notTraced' = notTraced
  /\ UNCHANGED <<prev, noOp>>

(* reset, when nothing else follows. *)
Reset ==
  /\ trace' = InvalidTrace
  /\ kept' = kept \ ChildrenOfRoot
  /\ notTraced' = notTraced \cup {Root}
  /\ UNCHANGED <<prev, noOp>>

(* contextUtils.getSegment, on the facade: resolveLambdaTraceData. *)
Resolve ==
  /\ asked' = TRUE
  /\ \/ header = NoHeader /\ Reset
     \/ header # NoHeader /\ Known /\ UNCHANGED <<trace, kept, notTraced, noOp, prev>>
     \/ /\ header # NoHeader /\ ~Known
        /\ trace' = PopulatedTrace(header)
        /\ kept' = kept \ ChildrenOfRoot
        /\ notTraced' = PopulatedNotTraced(header)
        /\ noOp' = PopulatedNoOp(header)
        /\ prev' = IF Valid(header) THEN invocation ELSE prev
  /\ UNCHANGED <<live, up, withSegment, open, counter, sent,
                 invocation, header, bornIn, sentUnder, loose>>

(* A subsegment is sent with the trace id the facade has at that moment    *)
(* (Subsegment.format).                                                    *)
RecordTrace ==
  sentUnder' = [s \in Subsegment |->
    IF sent'[s] > sent[s] THEN sentUnder[s] \cup {trace} ELSE sentUnder[s]]

(* addNewSubsegment on the facade, which getSegment has returned, or on a  *)
(* subsegment of any invocation.                                           *)
LambdaAdd(p, s, unsampled) ==
  /\ p = Root => asked
  /\ AddNewSubsegment(p, s, unsampled)
  /\ noOp' = IF p \in noOp THEN noOp \cup {s} ELSE noOp
  /\ bornIn' = [bornIn EXCEPT ![s] = IF p = Root THEN invocation ELSE bornIn[p]]
  /\ RecordTrace
  /\ loose' = IF p \in loose THEN loose \cup {s} ELSE loose
  /\ UNCHANGED <<invocation, header, prev, trace, asked>>

LambdaClose(s) ==
  /\ CloseOpen(s)
  /\ RecordTrace
  /\ loose' = IF OpenUnder(s) = {} THEN loose ELSE loose \cup {s}
  /\ UNCHANGED <<invocation, header, prev, trace, noOp, asked, bornIn>>

-----------------------------------------------------------------------------
(* Programs add to what is open and close everything once, but need not    *)
(* await what they start.                                                  *)

AddOpen(p, s, unsampled) == p \in open \cup {Root} /\ LambdaAdd(p, s, unsampled)

LambdaNext ==
  \/ \E h \in Header \cup {NoHeader} : Invoke(h)
  \/ Resolve
  \/ \E p \in Node, s \in Subsegment, unsampled \in BOOLEAN : AddOpen(p, s, unsampled)
  \/ \E s \in Subsegment : LambdaClose(s)

LambdaSpec == LambdaInit /\ [][LambdaNext]_lambdaVars

-----------------------------------------------------------------------------
(* Properties. *)

(* A subsegment is never sent with the trace of another invocation than    *)
(* the one it was added in, unless it or its parent outlived that one or   *)
(* it was closed before its children.  aws_lambda.js: the reset is there   *)
(* "to not leak data between invocations".  An id made up for a bad header *)
(* is nobody's.                                                            *)
NoLeakBetweenInvocations ==
  /\ LambdaTypeOK
  /\ \A s \in live \ loose : sentUnder[s] \subseteq {bornIn[s], NewTrace}

(* Every traced subsegment that was closed after its children and within   *)
(* its invocation has been sent when nothing is open: with threshold 0     *)
(* each close streams (aws_lambda.js, init; Subsegment.close).             *)
AwaitedIsSent ==
  open = {} => \A s \in live \ loose : s \in notTraced \/ sent[s] > 0

(* Nothing carries the invalid trace id, in any program: without a header  *)
(* the facade is not traced either (reset).                                *)
InvalidTraceIsSilent == \A s \in Subsegment : InvalidTrace \notin sentUnder[s]

(* What is added under a facade that is not traced is never sent, even if  *)
(* it closes while a later, sampled invocation is served: the decision is  *)
(* copied when it is added, and goes with the subtree.                     *)
UnsampledStaysSilent ==
  \A s \in live : (up[s] \cup {s}) \ {Root} \subseteq notTraced => sent[s] = 0
-----------------------------------------------------------------------------
(* The inductive invariant behind these, in named parts. *)

(* The counters below the facade, which does not count itself. *)
CountedBelow == \A s \in Subsegment : counter[s] = Cardinality(OpenUnder(s))

(* Once it was asked for, the facade has the trace and the decision of the *)
(* header in force; it is traced with no other header than a sampled one.  *)
TraceInForce ==
  /\ trace = InvalidTrace => Root \in notTraced
  /\ asked \/ Known =>
       /\ trace \in {invocation, NewTrace, InvalidTrace}
       /\ Root \notin notTraced => header # NoHeader /\ header.sampled = "1"

(* What is open and outlived nothing was added in this invocation, under a *)
(* facade that is still traced if it was traced then.                      *)
OpenIsOfNow ==
  \A s \in open \ loose : asked /\ bornIn[s] = invocation /\ (Root \in notTraced => s \in notTraced)

(* What was closed in time left the tree when it was closed, sent. *)
ClosedIsGone ==
  \A s \in live \ (open \cup loose) : s \notin kept /\ (s \in notTraced \/ sent[s] > 0)

NothingBeforeItsTime == \A s \in Subsegment \ live : sent[s] = 0 /\ sentUnder[s] = {}

LambdaInv ==
  /\ NoLeakBetweenInvocations
  /\ TreeShape /\ Root \notin open
  /\ CountedBelow
  /\ TraceInForce
  /\ OpenIsOfNow
  /\ ClosedIsGone
  /\ NothingBeforeItsTime
  /\ InvalidTraceIsSilent
  /\ UnsampledStaysSilent
=============================================================================
