---------------------------- MODULE SegmentTree ----------------------------
(***************************************************************************)
(* One segment of the X-Ray SDK with the tree of subsegments below it:     *)
(* packages/core/lib/segments/segment.js and attributes/subsegment.js.     *)
(*                                                                         *)
(* Every node counts the open subsegments below it.  The segment is sent   *)
(* to the daemon when it is closed and its counter is not positive.  While *)
(* its counter is over the streaming threshold, complete subsegments are   *)
(* sent on their own and taken out of the tree ("streamed").               *)
(*                                                                         *)
(* The objects' fields are the variables.  `up' stands for the pointer     *)
(* `parent': up[n] is the set of the nodes one passes by following it from *)
(* n.  `subsegments' arrays are the set `kept': s is kept iff it is in the *)
(* array of its parent.  Text, times and annotations are left out.         *)
(***************************************************************************)
EXTENDS Integers, FiniteSets

CONSTANTS
  Root,        \* the segment
  Subsegment,  \* the subsegments a program may create
  Threshold,   \* SegmentUtils.streamingThreshold
  Facade       \* TRUE for the segment of AWS Lambda (env/aws_lambda.js), whose
               \* counting, closing and flushing functions are silent

ASSUME SubsegmentAssumption == IsFiniteSet(Subsegment) /\ Root \notin Subsegment
ASSUME ThresholdAssumption == Threshold \in Nat
ASSUME FacadeAssumption == Facade \in BOOLEAN

Node == {Root} \cup Subsegment

VARIABLES
  live,        \* the subsegments constructed so far
  up,          \* up[n]: the ancestors of n
  withSegment, \* the subsegments whose field `segment' is set (to Root)
  kept,        \* the subsegments that are in their parent's array
  open,        \* the nodes whose in_progress is true
  counter,     \* counter[n]: what n counts as open below it
  notTraced,   \* the nodes with notTraced set
  sent         \* sent[n]: in how many documents n has been sent

vars == <<live, up, withSegment, kept, open, counter, notTraced, sent>>

TypeOK ==
  /\ live \subseteq Subsegment
  /\ up \in [Node -> SUBSET Node]
  /\ withSegment \subseteq live
  /\ kept \subseteq live
  /\ open \subseteq Node
  /\ counter \in [Node -> Nat]
  /\ notTraced \subseteq Node
  /\ sent \in [Node -> Nat]

(* The segment starts open, with the sampling decision already made. *)
Init ==
  /\ live = {}
  /\ up = [n \in Node |-> {}]
  /\ withSegment = {}
  /\ kept = {}
  /\ open = {Root}
  /\ counter = [n \in Node |-> 0]
  /\ notTraced \in {{}, {Root}}
  /\ sent = [n \in Node |-> 0]

-----------------------------------------------------------------------------
(* incrementCounter and decrementCounter: called on a node, they climb to  *)
(* the segment.  The facade's two functions do nothing.                    *)

Chain(n) == {n} \cup up[n]

Counted(nodes, k) ==
  [n \in Node |-> IF n \in nodes /\ ~(Facade /\ n = Root)
                    THEN counter[n] + k
                    ELSE counter[n]]

-----------------------------------------------------------------------------
(* What a document holds and what streaming sends.  `a' are the ancestors, *)
(* `k' the subsegments in arrays at that point of the call.                *)

(* The subsegments reached from n through the arrays. *)
Within(a, k, n) == {d \in k : n \in a[d] /\ \A b \in a[d] : n \in a[b] => b \in k}

(* What is serialised with n: n and everything nested in it. *)
Document(a, k, n) == {n} \cup Within(a, k, n)

\* Slip: a subsegment is taken as complete although a child is still open.
ClosedOnly(o, c) == {s \in Subsegment : s \notin o}

(* isClosed() && counter <= 0 *)
Complete(o, c) == {s \in Subsegment : s \notin o /\ c[s] <= 0}

(* The subsegments for which streamSubsegments, called on n, returns true:  *)
(* n itself when it is complete, else the topmost complete ones below it.   *)
(* On the segment it stands for the loop of incrementCounter.               *)
Streamed(a, k, n, done) ==
  IF n \in done
    THEN {n}
    ELSE LET reached == Within(a, k, n) \cap done
         IN {x \in reached : a[x] \cap reached = {}}

\* Slip: the decision made for the subsegment itself is not looked at.
FlushableBySegment == {x \in withSegment : Root \notin notTraced}

(* Subsegment.flush sends only with a segment, and only what is traced. *)
Flushable == {x \in withSegment : Root \notin notTraced /\ x \notin notTraced}

(* One document for every node of docs. *)
Emitted(a, k, docs) ==
  [n \in Node |-> IF \E x \in docs : n \in Document(a, k, x)
                    THEN sent[n] + 1
                    ELSE sent[n]]

\* Slip: what was streamed stays in the arrays.
NotPruned(k, streamed) == k

(* The arrays after streaming: what was streamed has left them. *)
Pruned(k, streamed) == k \ streamed

\* Slip: breach of the threshold at the threshold itself is not noticed until
\* two more subsegments are open.
OverByTwo(c) == c[Root] > Threshold + 1

OverThreshold(c) == c[Root] > Threshold

-----------------------------------------------------------------------------
(* addSubsegment of a segment or subsegment p, its call of incrementCounter *)
(* and, on the segment, the streaming that this may start.  A subsegment    *)
(* counts its new child before it pushes it, the segment after.  Reads      *)
(* open', which the caller has fixed.                                       *)

Decision(p, s, unsampled) ==
  IF unsampled \/ p \in notTraced THEN notTraced \cup {s} ELSE notTraced

\* Slip: what is already open below s is not counted.
JustOne(s) == 1

(* incrementCounter(subsegment.counter) adds s and what is open below it. *)
Added(s) == counter[s] + 1

Attach(p, s, unsampled) ==
  LET climbs == s \in open'
      array  == IF p = Root THEN kept \cup {s} ELSE kept
  IN
  /\ up' = [d \in Node |-> IF d = s \/ s \in up[d] THEN up[d] \cup Chain(p) ELSE up[d]]
  /\ withSegment' = IF p = Root \/ p \in withSegment THEN withSegment \cup {s}
                                                     ELSE withSegment
  /\ notTraced' = Decision(p, s, unsampled)
  /\ counter' = IF climbs THEN Counted(Chain(p), Added(s)) ELSE counter
  /\ IF climbs /\ Root \in Chain(p) /\ ~Facade /\ OverThreshold(counter')
       THEN LET streamed == Streamed(up', array, Root, Complete(open', counter'))
            IN /\ sent' = Emitted(up', array, streamed \cap Flushable)
               /\ kept' = Pruned(array, streamed) \cup {s}
       ELSE /\ sent' = sent
            /\ kept' = kept \cup {s}

(* addNewSubsegment and addNewSubsegmentWithoutSampling. *)
AddNewSubsegment(p, s, unsampled) ==
  /\ s \notin live
  /\ p \in {Root} \cup live
  /\ live' = live \cup {s}
  /\ open' = open \cup {s}
  /\ Attach(p, s, unsampled)

(* Segment.flush: the whole tree in one document, unless not sampled.  It  *)
(* runs with the arrays as they are.                                       *)
FlushSegment ==
  sent' = IF Root \in notTraced THEN sent ELSE Emitted(up, kept, {Root})

\* Slip: the last subsegment to close does not look whether the segment is closed.
ForgotFlush(s) == FALSE

(* Segment.decrementCounter flushes a closed segment on the last decrement. *)
LastOfClosedSegment(s) ==
  Root \in up[s] /\ ~Facade /\ Root \notin open /\ counter'[Root] <= 0

(* Subsegment.close. *)
CloseSubsegment(s) ==
  /\ s \in live
  /\ open' = open \ {s}
  /\ counter' = Counted(up[s], -1)
  /\ IF LastOfClosedSegment(s)
       THEN FlushSegment /\ kept' = kept
     ELSE IF s \in withSegment /\ OverThreshold(counter')
       THEN LET streamed == Streamed(up, kept, s, Complete(open', counter'))
            IN /\ sent' = Emitted(up, kept, streamed \cap Flushable)
               /\ kept' = Pruned(kept, streamed)
     ELSE sent' = sent /\ kept' = kept
  /\ UNCHANGED <<live, up, withSegment, notTraced>>

\* Slip: the segment is flushed when it is closed, whatever is still open.
CloseFlushesAlways ==
  /\ ~Facade
  /\ open' = open \ {Root}
  /\ FlushSegment
  /\ UNCHANGED <<live, up, withSegment, kept, counter, notTraced>>

(* Segment.close. *)
CloseSegment ==
  /\ ~Facade
  /\ open' = open \ {Root}
  /\ IF counter[Root] <= 0 THEN FlushSegment ELSE sent' = sent
  /\ UNCHANGED <<live, up, withSegment, kept, counter, notTraced>>

-----------------------------------------------------------------------------
(* The structured use of the API: a subsegment is added to a node that is  *)
(* still open, and every node is closed once.  Nodes may be closed in any  *)
(* order: callbacks and promises outlive what started them.                *)

AddToOpen(p, s, unsampled) == p \in open /\ AddNewSubsegment(p, s, unsampled)
CloseOpen(s) == s \in open /\ CloseSubsegment(s)
CloseOpenSegment == Root \in open /\ CloseSegment

Next ==
  \/ \E p \in Node, s \in Subsegment, unsampled \in BOOLEAN : AddToOpen(p, s, unsampled)
  \/ \E s \in Subsegment : CloseOpen(s)
  \/ CloseOpenSegment

Spec == Init /\ [][Next]_vars

-----------------------------------------------------------------------------
(* Properties. *)

OpenUnder(n) == {s \in Subsegment : s \in open /\ n \in up[s]}

(* The counter of every node is the number of open subsegments below it,   *)
(* whatever the order of the closes and whatever was streamed away         *)
(* (incrementCounter, decrementCounter).                                   *)
CounterExact == \A n \in Node : counter[n] = Cardinality(OpenUnder(n))

(* Once everything is closed, every node that was to be traced has been    *)
(* sent: out of band or with the segment (close, flush, streamSubsegments).*)
NothingLost ==
  open = {} => \A n \in {Root} \cup live : n \in notTraced \/ sent[n] > 0

(* No node is in two documents: streaming takes it out of what the segment *)
(* will send (streamSubsegments, removeSubsegment).                        *)
NothingSentTwice == \A n \in Node : sent[n] <= 1

(* A subsegment of the segment leaves its tree only when it has been sent, *)
(* or is not to be traced at all (streamSubsegments, removeSubsegment).    *)
MemberPrunedOnlyWhenSent ==
  \A s \in withSegment \ kept : s \in notTraced \/ sent[s] > 0

(* Nothing of a segment that is not sampled is ever sent, not even the     *)
(* subsegments that are streamed (the two flush functions).                *)
UnsampledSegmentIsSilent == Root \in notTraced => \A n \in Node : sent[n] = 0

(* A node is sent only when it is closed and everything below it is, so no *)
(* document has to be corrected later.                                     *)
OnlyCompleteIsSent ==
  [][\A n \in Node : sent'[n] > sent[n] =>
        n \notin open' /\ \A s \in open' : n \notin up'[s]]_vars

(* When a new subsegment breaches the threshold, no complete subsegment is *)
(* left in the tree (Segment.incrementCounter).                            *)
BreachSendsCompleted ==
  [][counter'[Root] > counter[Root] /\ counter'[Root] > Threshold =>
       Within(up', kept', Root) \cap Complete(open', counter') = {}]_vars

(* What a closed node sent cannot be extended afterwards: once the segment *)
(* has been sent nothing is sent or added any more.                        *)
SentSegmentIsFinal == [][sent[Root] > 0 => UNCHANGED sent]_vars

(* The tree implements the abstract delivery: what is not open is done.    *)
Delivery == INSTANCE TraceDelivery
  WITH started <- {Root} \cup live, done <- ({Root} \cup live) \ open,
       untraced <- notTraced, delivered <- sent

(* Every step of a structured program is a step of TraceDelivery or leaves *)
(* it unchanged: streaming loses nothing, repeats nothing and never runs   *)
(* ahead of a close.                                                       *)
ImplementsDelivery == Delivery!Spec

-----------------------------------------------------------------------------
(* The inductive invariant behind the safety properties, in named parts.   *)

(* The subsegments the segment would send now. *)
InTree == Within(up, kept, Root)

(* `up' is the ancestor relation of a tree with root Root over live. *)
TreeShape ==
  /\ up[Root] = {}
  /\ \A s \in Subsegment \ live : up[s] = {}
  /\ \A s \in live : Root \in up[s] /\ up[s] \subseteq {Root} \cup live /\ s \notin up[s]
  /\ \A s \in live : \A b \in up[s] : up[b] \subseteq up[s]
  /\ \A s \in live : \A b, c \in up[s] : b = c \/ b \in up[c] \/ c \in up[b]
  /\ withSegment = live
  /\ open \subseteq {Root} \cup live

(* What is below an untraced node is untraced. *)
DecisionInherited == \A s \in live : \A b \in up[s] : b \in notTraced => s \in notTraced

(* What was pruned is complete. *)
PrunedIsComplete == \A s \in live \ kept : s \notin open /\ OpenUnder(s) = {}

(* Before the segment is sent, what it holds has not been sent.  What it   *)
(* does not hold has been, once.                                           *)
SentOrHeld ==
  /\ \A n \in Node : sent[n] <= 1
  /\ \A s \in Subsegment \ live : sent[s] = 0
  /\ sent[Root] = 0 => \A s \in InTree : sent[s] = 0
  /\ \A s \in live \ InTree : s \notin notTraced => sent[s] = 1
  /\ Root \in notTraced => \A n \in Node : sent[n] = 0

(* The segment is sent exactly when the last of its nodes is closed. *)
SentWhenAllClosed ==
  /\ sent[Root] = 1 => open = {} /\ \A s \in live : s \notin notTraced => sent[s] = 1
  /\ open = {} /\ Root \notin notTraced => sent[Root] = 1

IInv ==
  /\ TypeOK
  /\ TreeShape
  /\ CounterExact
  /\ DecisionInherited
  /\ PrunedIsComplete
  /\ SentOrHeld
  /\ SentWhenAllClosed
=============================================================================
