----------------------- MODULE InstrumentedCallsProofs -----------------------
(***************************************************************************)
(* Proofs about InstrumentedCalls for every set of subsegments and         *)
(* callbacks and every threshold: CallsInv is inductive.  Its first part   *)
(* holds of every program; the counters, and what is sent by them, only    *)
(* until a call is closed twice or a callback returns twice.               *)
(***************************************************************************)
EXTENDS InstrumentedCalls, SegmentTreeProofs

-----------------------------------------------------------------------------
(* Consequences of the invariant used by every action. *)

(* What the shape says of single nodes. *)
LEMMA CallFacts ==
  ASSUME ShapeInv
  PROVE  /\ ~Facade
         /\ Root \in Node /\ Root \notin Subsegment /\ live \subseteq Subsegment
         /\ live \subseteq Node /\ None \notin Node /\ None \notin Callback
         /\ kept \subseteq live /\ withSegment = live /\ open \subseteq {Root} \cup live
         /\ Ordered(up, live)
         /\ \A n \in Node : up[n] \subseteq {Root} \cup live
         /\ \A n \in {Root} \cup live : Root \in Chain(n) /\ Chain(n) \subseteq {Root} \cup live
         /\ \A s \in live : Root \in up[s]
         /\ \A c \in Callback : base[c] # None => base[c] \in {Root} \cup live
<1>1. /\ ~Facade /\ Root \in Node /\ Root \notin Subsegment /\ live \subseteq Subsegment
      /\ live \subseteq Node /\ None \notin Node /\ None \notin Callback
      /\ kept \subseteq live /\ withSegment = live /\ open \subseteq {Root} \cup live
      /\ \A c \in Callback : base[c] # None => base[c] \in {Root} \cup live
  BY SubsegmentAssumption, CallbackAssumption DEF ShapeInv, CallsTypeOK, TreeShape, Node
<1>2. Ordered(up, live)
  BY DEF ShapeInv, TreeShape, Ordered
<1>3. \A n \in Node : up[n] \subseteq {Root} \cup live
  BY DEF ShapeInv, TreeShape, Node
<1>4. \A s \in live : Root \in up[s]
  BY DEF ShapeInv, TreeShape
<1>5. \A n \in {Root} \cup live : Root \in Chain(n) /\ Chain(n) \subseteq {Root} \cup live
  BY <1>1, <1>3, <1>4 DEF Chain
<1> QED BY <1>1, <1>2, <1>3, <1>4, <1>5

(* The sets that are counted are finite. *)
LEMMA CallsFinite ==
  ASSUME NEW n
  PROVE  IsFiniteSet(OpenCalls(n)) /\ IsFiniteSet(Holding(n))
<1>1. OpenCalls(n) \in SUBSET Subsegment /\ Holding(n) \in SUBSET Callback
  BY DEF OpenCalls, OpenUnder, Holding, Wrapped
<1> QED BY <1>1, SubsegmentAssumption, CallbackAssumption, FS_Subset

(* What a step sends is counted, and is only what exists. *)
LEMMA SentTypes ==
  ASSUME ShapeInv, NEW a, NEW l \in SUBSET Subsegment, live \subseteq l, NEW k \in SUBSET l,
         NEW docs \in SUBSET ({Root} \cup l), sent' = Emitted(a, k, docs)
  PROVE  sent' \in [Node -> Nat] /\ \A n \in Subsegment \ l : sent'[n] = 0
<1>1. sent \in [Node -> Nat] /\ \A n \in Subsegment \ l : sent[n] = 0
  BY DEF ShapeInv, CallsTypeOK
<1>2. sent' \in [Node -> Nat]
  BY <1>1 DEF Emitted
<1>3. ASSUME NEW n \in Subsegment \ l, NEW x \in docs PROVE n \notin Document(a, k, x)
  BY <1>3, SubsegmentAssumption DEF Document, Within
<1>4. \A n \in Subsegment \ l : n \in Node /\ sent'[n] = sent[n]
  BY <1>3 DEF Emitted, Node
<1> QED BY <1>1, <1>2, <1>4

(* A tree in which nothing is added, and nothing opened, keeps its shape.  *)
LEMMA SameTree ==
  ASSUME TreeShape, DecisionInherited, UNCHANGED <<live, up, withSegment, notTraced>>,
         open' \subseteq open
  PROVE  TreeShape' /\ DecisionInherited'
  BY DEF TreeShape, DecisionInherited

(* What streaming takes out of the arrays is complete, and below the node  *)
(* it starts from.                                                         *)
LEMMA StreamedBelow ==
  ASSUME NEW a, NEW k, NEW t, NEW o, NEW c, NEW docs, docs = Streamed(a, k, t, Complete(o, c))
  PROVE  /\ docs \subseteq Document(a, k, t)
         /\ \A x \in docs : x \in Subsegment /\ x \notin o /\ c[x] <= 0
<1>1. CASE t \in Complete(o, c)
  <2>1. docs = {t}
    BY <1>1 DEF Streamed
  <2> QED BY <1>1, <2>1 DEF Document, Complete
<1>2. CASE t \notin Complete(o, c)
  <2>1. docs \subseteq Within(a, k, t) \cap Complete(o, c)
    BY <1>2 DEF Streamed
  <2> QED BY <2>1 DEF Document, Complete
<1> QED BY <1>1, <1>2

-----------------------------------------------------------------------------
(* The shape of the tree, and what its program keeps beside it.            *)

(* addNewSubsegment, on whatever node the context gives. *)
LEMMA AddEffect ==
  ASSUME ShapeInv, NEW p \in {Root} \cup live, NEW s \in Subsegment, AddNewSubsegment(p, s, FALSE)
  PROVE  /\ s \notin live /\ s \notin open /\ s \notin kept /\ s \in Node /\ s # Root /\ p # s
         /\ live' = live \cup {s} /\ open' = open \cup {s}
         /\ up' \in [Node -> SUBSET Node] /\ up'[s] = Chain(p)
         /\ \A d \in Node : (d # s => up'[d] = up[d]) /\ s \notin up'[d] /\ s \notin up[d]
         /\ Ordered(up', live') /\ TreeShape' /\ DecisionInherited'
         /\ notTraced \subseteq notTraced' /\ notTraced' \subseteq notTraced \cup {s}
         /\ counter' \in [Node -> Int]
         /\ counter' = Counted(Chain(p), Added(s))
         /\ kept' \subseteq kept \cup {s} /\ s \in kept'
         /\ sent' \in [Node -> Nat] /\ \A n \in Subsegment \ live' : sent'[n] = 0
<1>1. /\ s \notin live /\ live' = live \cup {s} /\ open' = open \cup {s}
      /\ Attach(p, s, FALSE)
  BY DEF AddNewSubsegment
<1>2. /\ s \notin open /\ s \notin kept /\ s \in Node /\ s # Root /\ p # s /\ p \in Node
      /\ \A d \in Node : s \notin up[d]
  BY <1>1, CallFacts DEF Node
<1>3. /\ up' = [d \in Node |-> IF d = s \/ s \in up[d] THEN up[d] \cup Chain(p) ELSE up[d]]
      /\ withSegment' = IF p = Root \/ p \in withSegment THEN withSegment \cup {s}
                                                         ELSE withSegment
      /\ notTraced' = Decision(p, s, FALSE)
  BY <1>1 DEF Attach
<1>4. TreeShape /\ DecisionInherited /\ up \in [Node -> SUBSET Node] /\ live \subseteq Subsegment
  BY DEF ShapeInv, CallsTypeOK
<1>5. /\ up' \in [Node -> SUBSET Node] /\ up'[s] = Chain(p)
      /\ \A d \in Node : d # s => up'[d] = up[d]
      /\ \A d \in Node : s \notin up'[d]
      /\ Ordered(up', live') /\ TreeShape'
  BY <1>1, <1>3, <1>4, GrowShape
<1>6. DecisionInherited'
  <2>1. \A d \in live : up'[d] = up[d]
    BY <1>1, <1>5, CallFacts
  <2> QED BY <2>1, <1>1, <1>3, <1>4, <1>5, GrowDecision
<1>7. notTraced \subseteq notTraced' /\ notTraced' \subseteq notTraced \cup {s}
  BY <1>3 DEF Decision
<1>8. counter' = Counted(Chain(p), Added(s))
  BY <1>1 DEF Attach
<1>9. counter' \in [Node -> Int]
  <2>1. counter \in [Node -> Int] /\ Added(s) \in Int
    BY <1>2 DEF ShapeInv, CallsTypeOK, Added
  <2> QED BY <1>8, <2>1 DEF Counted
<1> DEFINE array == IF p = Root THEN kept \cup {s} ELSE kept
           docs == Streamed(up', array, Root, Complete(open', counter'))
           flushed == docs \cap Flushable
<1>10. \/ sent' = sent /\ kept' = kept \cup {s}
       \/ sent' = Emitted(up', array, flushed) /\ kept' = (array \ docs) \cup {s}
  BY <1>1 DEF Attach, Pruned
<1>11. array \in SUBSET live' /\ array \subseteq kept \cup {s} /\ flushed \in SUBSET ({Root} \cup live')
  BY <1>1, CallFacts DEF Flushable
<1> HIDE DEF array, docs, flushed
<1>12. kept' \subseteq kept \cup {s} /\ s \in kept'
  BY <1>10, <1>11
<1>13. sent' \in [Node -> Nat] /\ \A n \in Subsegment \ live' : sent'[n] = 0
  <2>1. sent \in [Node -> Nat] /\ \A n \in Subsegment \ live' : sent[n] = 0
    BY <1>1 DEF ShapeInv, CallsTypeOK
  <2>2. CASE sent' = sent
    BY <2>1, <2>2
  <2>3. CASE sent' = Emitted(up', array, flushed)
    <3>1. live \subseteq live' /\ live' \in SUBSET Subsegment
      BY <1>1, <1>4
    <3> QED BY <1>11, <2>3, <3>1, SentTypes
  <2> QED BY <1>10, <2>2, <2>3
<1> QED BY <1>1, <1>2, <1>5, <1>6, <1>7, <1>8, <1>9, <1>12, <1>13

(* Calls, and captureFunc for a callback, add a subsegment. *)
LEMMA CallsShape ==
  ASSUME ShapeInv, NEW p \in Node, NEW s \in Subsegment, NEW k \in Kind, Calls(p, s, k)
  PROVE  ShapeInv'
<1>1. /\ p \in {Root} \cup live /\ (p # Root => phase[p] \notin {"built", "presigned"})
      /\ AddNewSubsegment(p, s, FALSE)
      /\ kind' = [kind EXCEPT ![s] = k]
      /\ phase' = [phase EXCEPT ![s] = IF k = "aws" THEN "built" ELSE "waiting"]
      /\ late' = (late \/ sent[Root] > 0)
      /\ UNCHANGED <<base, running, again, due, pledged, made>>
  BY CallFacts DEF Calls, Contexts, callbackVars
<1>2. /\ s \notin live /\ s \notin open /\ s \notin kept /\ s \in Node /\ s # Root /\ p # s
      /\ live' = live \cup {s} /\ open' = open \cup {s}
      /\ up' \in [Node -> SUBSET Node] /\ up'[s] = Chain(p)
      /\ \A d \in Node : (d # s => up'[d] = up[d]) /\ s \notin up'[d] /\ s \notin up[d]
      /\ TreeShape' /\ DecisionInherited'
      /\ notTraced' \subseteq notTraced \cup {s}
      /\ counter' \in [Node -> Int]
      /\ kept' \subseteq kept \cup {s}
      /\ sent' \in [Node -> Nat] /\ \A n \in Subsegment \ live' : sent'[n] = 0
  BY <1>1, AddEffect
<1>3. /\ phase' \in [Subsegment -> Phase] /\ kind' \in [Subsegment -> Kind]
      /\ phase'[s] \in {"built", "waiting"} /\ \A d \in Subsegment : d # s => phase'[d] = phase[d]
  BY <1>1 DEF ShapeInv, CallsTypeOK, Phase
<1>4. ASSUME NEW t \in live', phase'[t] \in {"built", "presigned"}
      PROVE  (\A d \in live' : t \notin up'[d]) /\ \A c \in Callback : base'[c] # t
  <2>1. CASE t = s
    BY <2>1, <1>1, <1>2, CallFacts DEF ShapeInv, CallsTypeOK
  <2>2. CASE t # s
    <3>1. /\ t \in live /\ phase[t] \in {"built", "presigned"} /\ t # p /\ t # Root
          /\ (\A d \in live : t \notin up[d]) /\ \A c \in Callback : base[c] # t
      BY <2>2, <1>1, <1>2, <1>3, <1>4, CallFacts DEF ShapeInv, CallsTypeOK
    <3>2. t \notin Chain(p)
      BY <3>1, <1>1 DEF Chain, ShapeInv, TreeShape
    <3>3. \A d \in live : up'[d] = up[d]
      BY <1>2, CallFacts
    <3> QED BY <3>1, <3>2, <3>3, <1>1, <1>2
  <2> QED BY <2>1, <2>2
<1>5. CallsTypeOK'
  <2>1. live' \subseteq Subsegment /\ kept' \subseteq live' /\ withSegment' = live'
    BY <1>2, CallFacts DEF TreeShape
  <2>2. \A t \in Subsegment : t \in live' <=> phase'[t] # "none"
    BY <1>2, <1>3 DEF ShapeInv, CallsTypeOK
  <2>3. /\ base' \in [Callback -> {Root} \cup live' \cup {None}]
        /\ running' \in {Idle} \cup Callback \X live'
        /\ again' \subseteq live' /\ made' \subseteq live' /\ pledged' \subseteq Callback
        /\ due' \in [Callback -> Int] /\ late' \in BOOLEAN
    BY <1>1, <1>2 DEF ShapeInv, CallsTypeOK
  <2> QED BY <1>2, <1>3, <1>4, <2>1, <2>2, <2>3 DEF CallsTypeOK
<1>6. PhaseTells'
  <2>1. \A t \in live' : t \in open' <=> phase'[t] \in {"built", "waiting", "responded", "presigned"}
    BY <1>2, <1>3, CallFacts DEF ShapeInv, PhaseTells
  <2>2. \A t \in live' : phase'[t] = "presigned" => t \notin kept'
    BY <1>2, <1>3, CallFacts DEF ShapeInv, PhaseTells
  <2>3. \A t \in made' : phase'[t] \notin {"built", "presigned"}
    BY <1>1, <1>2, <1>3 DEF ShapeInv, PhaseTells, CallsTypeOK
  <2> QED BY <2>1, <2>2, <2>3 DEF PhaseTells
<1>7. DueOnce'
  BY <1>1 DEF ShapeInv, DueOnce, Idle
<1>8. notTraced' \subseteq Node
  BY <1>2 DEF ShapeInv
<1> QED BY <1>2, <1>5, <1>6, <1>7, <1>8 DEF ShapeInv

(* It is called, and its subsegment becomes the one that runs. *)
LEMMA CallbackStartsShape ==
  ASSUME ShapeInv, NEW c \in Callback, NEW p \in Node, NEW s \in Subsegment,
         CallbackStarts(c, p, s)
  PROVE  ShapeInv'
<1>1. /\ p \in {Root} \cup live /\ (p # Root => phase[p] \notin {"built", "presigned"})
      /\ AddNewSubsegment(p, s, FALSE)
      /\ base[c] # None
      /\ phase' = [phase EXCEPT ![s] = "waiting"]
      /\ running' = <<c, s>>
      /\ made' \subseteq made \cup {s}
      /\ late' = (late \/ sent[Root] > 0)
      /\ UNCHANGED <<kind, base, again, due, pledged>>
  BY CallFacts DEF CallbackStarts, Contexts
<1>2. /\ s \notin live /\ s \notin open /\ s \notin kept /\ s \in Node /\ s # Root /\ p # s
      /\ live' = live \cup {s} /\ open' = open \cup {s}
      /\ up' \in [Node -> SUBSET Node] /\ up'[s] = Chain(p)
      /\ \A d \in Node : (d # s => up'[d] = up[d]) /\ s \notin up'[d] /\ s \notin up[d]
      /\ TreeShape' /\ DecisionInherited'
      /\ notTraced' \subseteq notTraced \cup {s}
      /\ counter' \in [Node -> Int]
      /\ kept' \subseteq kept \cup {s}
      /\ sent' \in [Node -> Nat] /\ \A n \in Subsegment \ live' : sent'[n] = 0
  BY <1>1, AddEffect
<1>3. /\ phase' \in [Subsegment -> Phase]
      /\ phase'[s] = "waiting" /\ \A d \in Subsegment : d # s => phase'[d] = phase[d]
  BY <1>1 DEF ShapeInv, CallsTypeOK, Phase
<1>4. ASSUME NEW t \in live', phase'[t] \in {"built", "presigned"}
      PROVE  (\A d \in live' : t \notin up'[d]) /\ \A b \in Callback : base'[b] # t
  <2>1. /\ t \in live /\ phase[t] \in {"built", "presigned"} /\ t # p /\ t # Root
        /\ (\A d \in live : t \notin up[d]) /\ \A b \in Callback : base[b] # t
    BY <1>1, <1>2, <1>3, <1>4, CallFacts DEF ShapeInv, CallsTypeOK
  <2>2. t \notin Chain(p)
    BY <2>1, <1>1 DEF Chain, ShapeInv, TreeShape
  <2>3. \A d \in live : up'[d] = up[d]
    BY <1>2, CallFacts
  <2> QED BY <2>1, <2>2, <2>3, <1>1, <1>2
<1>5. CallsTypeOK'
  <2>1. live' \subseteq Subsegment /\ kept' \subseteq live' /\ withSegment' = live'
    BY <1>2, CallFacts DEF TreeShape
  <2>2. \A t \in Subsegment : t \in live' <=> phase'[t] # "none"
    BY <1>2, <1>3 DEF ShapeInv, CallsTypeOK
  <2>3. /\ base' \in [Callback -> {Root} \cup live' \cup {None}]
        /\ again' \subseteq live' /\ made' \subseteq live' /\ pledged' \subseteq Callback
        /\ due' \in [Callback -> Int] /\ late' \in BOOLEAN
        /\ kind' \in [Subsegment -> Kind]
    BY <1>1, <1>2 DEF ShapeInv, CallsTypeOK
  <2>4. running' \in {Idle} \cup Callback \X live'
    BY <1>1, <1>2
  <2> QED BY <1>2, <1>3, <1>4, <2>1, <2>2, <2>3, <2>4 DEF CallsTypeOK
<1>6. PhaseTells'
  <2>1. \A t \in live' : t \in open' <=> phase'[t] \in {"built", "waiting", "responded", "presigned"}
    BY <1>2, <1>3, CallFacts DEF ShapeInv, PhaseTells
  <2>2. \A t \in live' : phase'[t] = "presigned" => t \notin kept'
    BY <1>2, <1>3, CallFacts DEF ShapeInv, PhaseTells
  <2>3. \A t \in made' : phase'[t] \notin {"built", "presigned"}
    BY <1>1, <1>2, <1>3 DEF ShapeInv, PhaseTells, CallsTypeOK
  <2> QED BY <2>1, <2>2, <2>3 DEF PhaseTells
<1>7. DueOnce'
  <2>1. running'[1] = c
    BY <1>1
  <2> QED BY <1>1, <2>1 DEF ShapeInv, DueOnce
<1>8. notTraced' \subseteq Node
  BY <1>2 DEF ShapeInv
<1> QED BY <1>2, <1>5, <1>6, <1>7, <1>8 DEF ShapeInv

(* Subsegment.close, once or again. *)
LEMMA CloseEffect ==
  ASSUME ShapeInv, NEW s \in Subsegment, CloseSubsegment(s)
  PROVE  /\ s \in live /\ open' = open \ {s} /\ UNCHANGED <<live, up, withSegment, notTraced>>
         /\ TreeShape' /\ DecisionInherited'
         /\ counter' \in [Node -> Int] /\ counter' = Counted(up[s], -1)
         /\ kept' \subseteq kept
         /\ sent' \in [Node -> Nat] /\ \A n \in Subsegment \ live : sent'[n] = 0
<1>1. /\ s \in live /\ open' = open \ {s} /\ UNCHANGED <<live, up, withSegment, notTraced>>
      /\ counter' = Counted(up[s], -1)
  BY DEF CloseSubsegment
<1>2. TreeShape' /\ DecisionInherited'
  BY <1>1, SameTree DEF ShapeInv
<1>3. counter' \in [Node -> Int]
  BY <1>1 DEF Counted, ShapeInv, CallsTypeOK
<1> DEFINE docs == Streamed(up, kept, s, Complete(open', counter'))
           flushed == docs \cap Flushable
<1>4. \/ sent' = sent /\ kept' = kept
      \/ sent' = Emitted(up, kept, flushed) /\ kept' = kept \ docs
      \/ sent' = Emitted(up, kept, {Root}) /\ kept' = kept
  BY DEF CloseSubsegment, FlushSegment, Pruned
<1>5. /\ kept \in SUBSET live /\ live \in SUBSET Subsegment
      /\ flushed \in SUBSET ({Root} \cup live) /\ {Root} \in SUBSET ({Root} \cup live)
  BY CallFacts DEF Flushable
<1>6. sent \in [Node -> Nat] /\ \A n \in Subsegment \ live : sent[n] = 0
  BY DEF ShapeInv, CallsTypeOK
<1> HIDE DEF docs, flushed
<1>7. sent' \in [Node -> Nat] /\ \A n \in Subsegment \ live : sent'[n] = 0
  <2>1. CASE sent' = sent
    BY <1>6, <2>1
  <2>2. CASE sent' = Emitted(up, kept, flushed)
    BY <1>5, <2>2, SentTypes
  <2>3. CASE sent' = Emitted(up, kept, {Root})
    BY <1>5, <2>3, SentTypes
  <2> QED BY <1>4, <2>1, <2>2, <2>3
<1> QED BY <1>1, <1>2, <1>3, <1>4, <1>7

(* A subsegment that is closed, by an event of its call or by captureFunc, *)
(* and what it is in after that.                                           *)
LEMMA ClosesShape ==
  ASSUME ShapeInv, NEW s \in Subsegment, CloseSubsegment(s),
         NEW to \in {"ended", "failed", "over"},
         phase[s] \in {"waiting", "responded", "ended", "failed"},
         phase' = [phase EXCEPT ![s] = to], kind' \in [Subsegment -> Kind],
         again' \subseteq live, running' \in {running, Idle},
         UNCHANGED <<base, due, pledged, made, late>>
  PROVE  ShapeInv'
<1>1. /\ s \in live /\ open' = open \ {s} /\ UNCHANGED <<live, up, withSegment, notTraced>>
      /\ TreeShape' /\ DecisionInherited'
      /\ counter' \in [Node -> Int] /\ kept' \subseteq kept
      /\ sent' \in [Node -> Nat] /\ \A n \in Subsegment \ live : sent'[n] = 0
  BY CloseEffect
<1>2. /\ phase' \in [Subsegment -> Phase]
      /\ phase'[s] = to /\ \A d \in Subsegment : d # s => phase'[d] = phase[d]
  BY DEF ShapeInv, CallsTypeOK, Phase
<1>3. CallsTypeOK'
  <2>1. \A t \in Subsegment : t \in live <=> phase'[t] # "none"
    BY <1>1, <1>2 DEF ShapeInv, CallsTypeOK
  <2>2. \A t \in live : phase'[t] \in {"built", "presigned"} =>
          (\A d \in live : t \notin up[d]) /\ \A c \in Callback : base[c] # t
    BY <1>1, <1>2 DEF ShapeInv, CallsTypeOK
  <2>3. running' \in {Idle} \cup Callback \X live
    BY DEF ShapeInv, CallsTypeOK
  <2>4. /\ live \subseteq Subsegment /\ kept' \subseteq live /\ withSegment = live
        /\ base \in [Callback -> {Root} \cup live \cup {None}]
        /\ made \subseteq live /\ pledged \subseteq Callback
        /\ due \in [Callback -> Int] /\ late \in BOOLEAN
    BY <1>1 DEF ShapeInv, CallsTypeOK
  <2> QED BY <1>1, <1>2, <2>1, <2>2, <2>3, <2>4 DEF CallsTypeOK
<1>4. PhaseTells'
  <2>1. \A t \in live : t \in open' <=> phase'[t] \in {"built", "waiting", "responded", "presigned"}
    BY <1>1, <1>2, CallFacts DEF ShapeInv, PhaseTells
  <2>2. \A t \in live : phase'[t] = "presigned" => t \notin kept'
    BY <1>1, <1>2, CallFacts DEF ShapeInv, PhaseTells
  <2>3. \A t \in made : phase'[t] \notin {"built", "presigned"}
    BY <1>1, <1>2 DEF ShapeInv, PhaseTells, CallsTypeOK
  <2> QED BY <1>1, <2>1, <2>2, <2>3 DEF PhaseTells
<1>5. DueOnce'
  BY DEF ShapeInv, DueOnce
<1> QED BY <1>1, <1>3, <1>4, <1>5 DEF ShapeInv

(* A step that leaves the tree, and so its shape, alone. *)
LEMMA QuietShape ==
  ASSUME ShapeInv, UNCHANGED <<live, up, withSegment, notTraced, phase>>,
         kind' \in [Subsegment -> Kind],
         open' = open \/ open' = open \ {Root}, kept' \subseteq kept,
         counter' \in [Node -> Int],
         sent' \in [Node -> Nat], \A n \in Subsegment \ live : sent'[n] = 0,
         base' \in [Callback -> {Root} \cup live \cup {None}], running' \in {running, Idle},
         \A t \in live : phase[t] \in {"built", "presigned"} => \A c \in Callback : base'[c] # t,
         pledged' \subseteq Callback, due' \in [Callback -> Int], late' \in BOOLEAN,
         UNCHANGED <<again, made>>, DueOnce'
  PROVE  ShapeInv'
<1>1. TreeShape' /\ DecisionInherited'
  BY SameTree DEF ShapeInv
<1>2. CallsTypeOK'
  <2>1. \A t \in live : phase[t] \in {"built", "presigned"} =>
          (\A d \in live : t \notin up[d]) /\ \A c \in Callback : base'[c] # t
    BY DEF ShapeInv, CallsTypeOK
  <2>2. running' \in {Idle} \cup Callback \X live
    BY DEF ShapeInv, CallsTypeOK
  <2>3. /\ live \subseteq Subsegment /\ kept' \subseteq live /\ withSegment = live
        /\ phase \in [Subsegment -> Phase]
        /\ \A t \in Subsegment : t \in live <=> phase[t] # "none"
        /\ made \subseteq live /\ again \subseteq live
    BY CallFacts DEF ShapeInv, CallsTypeOK
  <2> QED BY <2>1, <2>2, <2>3 DEF CallsTypeOK
<1>3. PhaseTells'
  <2>1. \A t \in live : t \in open' <=> t \in open
    BY CallFacts
  <2> QED BY <2>1 DEF ShapeInv, PhaseTells
<1> QED BY <1>1, <1>2, <1>3 DEF ShapeInv

(* The events that close the subsegment of a call. *)
Ends(s) ==
  Completes(s) \/ ResponseEnds(s) \/ RequestErrs(s) \/ QueryEnds(s) \/ QueryErrs(s)

(* The close they come to, and what they leave alone. *)
LEMMA EndsEffect ==
  ASSUME ShapeInv, NEW s \in Subsegment, Ends(s)
  PROVE  /\ CloseSubsegment(s) /\ running = Idle
         /\ phase[s] \in {"waiting", "responded", "ended", "failed"}
         /\ \E to \in {"ended", "failed", "over"} : phase' = [phase EXCEPT ![s] = to]
         /\ kind' \in [Subsegment -> Kind]
         /\ again' = IF s \in open THEN again ELSE again \cup {s}
         /\ UNCHANGED <<base, running, due, pledged, made, late>>
<1>1. PICK to \in {"ended", "failed", "over"} : Closes(s, to)
  BY DEF Ends, Completes, ResponseEnds, RequestErrs, QueryEnds, QueryErrs
<1>2. phase[s] \in {"waiting", "responded", "ended", "failed"}
  BY DEF Ends, Completes, ResponseEnds, RequestErrs, QueryEnds, QueryErrs
<1>3. kind \in [Subsegment -> Kind] /\ "once" \in Kind
  BY DEF ShapeInv, CallsTypeOK, Kind
<1>4. kind' \in [Subsegment -> Kind]
  BY <1>1, <1>3 DEF Closes
<1> QED BY <1>1, <1>2, <1>4 DEF Closes, callbackVars

(* It keeps the shape. *)
LEMMA EndsShape ==
  ASSUME ShapeInv, NEW s \in Subsegment, Ends(s)
  PROVE  ShapeInv'
<1>1. s \in live
  BY EndsEffect DEF CloseSubsegment
<1>2. again' \subseteq live
  BY <1>1, EndsEffect DEF ShapeInv, CallsTypeOK
<1> QED BY <1>2, EndsEffect, ClosesShape

(* So does the close when a callback ends. *)
LEMMA CallbackEndsShape ==
  ASSUME ShapeInv, NEW throws \in BOOLEAN, CallbackEnds(throws)
  PROVE  ShapeInv'
<1>1. running[2] \in Subsegment
  BY DEF CallbackEnds, ShapeInv, CallsTypeOK
<1>2. kind \in [Subsegment -> Kind] /\ again \subseteq live
  BY DEF ShapeInv, CallsTypeOK
<1> QED BY <1>1, <1>2, ClosesShape DEF CallbackEnds, historyVars

(* A call that gets on without the tree: it is sent, or its response comes. *)
LEMMA MovesShape ==
  ASSUME ShapeInv, NEW s \in Subsegment, Responds(s) \/ Sends(s)
  PROVE  ShapeInv'
<1>1. PICK to \in {"waiting", "responded"} : phase' = [phase EXCEPT ![s] = to]
  BY DEF Responds, Sends
<1>2. /\ UNCHANGED <<vars, callbackVars, historyVars>>
      /\ phase[s] \in {"built", "waiting"}
  BY DEF Responds, Sends
<1>3. kind' \in [Subsegment -> Kind]
  BY DEF Responds, Sends, ShapeInv, CallsTypeOK, Kind
<1>4. /\ phase' \in [Subsegment -> Phase]
      /\ phase'[s] = to /\ \A d \in Subsegment : d # s => phase'[d] = phase[d]
  BY <1>1 DEF ShapeInv, CallsTypeOK, Phase
<1>5. CallsTypeOK'
  <2>1. \A t \in Subsegment : t \in live <=> phase'[t] # "none"
    BY <1>2, <1>4 DEF ShapeInv, CallsTypeOK
  <2>2. \A t \in live : phase'[t] \in {"built", "presigned"} =>
          (\A d \in live : t \notin up[d]) /\ \A c \in Callback : base[c] # t
    BY <1>4, CallFacts DEF ShapeInv, CallsTypeOK
  <2> QED BY <1>2, <1>3, <1>4, <2>1, <2>2
          DEF CallsTypeOK, ShapeInv, vars, callbackVars, historyVars
<1>6. PhaseTells'
  <2>1. \A t \in live : t \in open <=> phase'[t] \in {"built", "waiting", "responded", "presigned"}
    BY <1>2, <1>4, CallFacts DEF ShapeInv, PhaseTells
  <2>2. \A t \in live : phase'[t] = "presigned" => t \notin kept
    BY <1>4, CallFacts DEF ShapeInv, PhaseTells
  <2>3. \A t \in made : phase'[t] \notin {"built", "presigned"}
    BY <1>4 DEF ShapeInv, PhaseTells, CallsTypeOK
  <2> QED BY <1>2, <2>1, <2>2, <2>3 DEF PhaseTells, vars, historyVars
<1>7. TreeShape' /\ DecisionInherited' /\ DueOnce'
  BY <1>2, SameTree DEF ShapeInv, DueOnce, vars, callbackVars, historyVars
<1> QED BY <1>2, <1>5, <1>6, <1>7 DEF ShapeInv, vars

(* beforePresign. *)
LEMMA PresignsEffect ==
  ASSUME ShapeInv, NEW s \in Subsegment, Presigns(s)
  PROVE  /\ s \in live /\ s \in open /\ phase[s] = "built"
         /\ phase' \in [Subsegment -> Phase]
         /\ phase'[s] = "presigned" /\ \A d \in Subsegment : d # s => phase'[d] = phase[d]
         /\ counter' = Counted(up[s], -1) /\ counter' \in [Node -> Int]
         /\ kept' = kept \ {s}
         /\ sent' \in [Node -> Nat] /\ \A n \in Subsegment \ live : sent'[n] = 0
<1>1. phase[s] = "built" /\ s \in live /\ s \in open
  BY DEF Presigns, ShapeInv, CallsTypeOK, PhaseTells
<1>2. /\ phase' \in [Subsegment -> Phase]
      /\ phase'[s] = "presigned" /\ \A d \in Subsegment : d # s => phase'[d] = phase[d]
  BY DEF Presigns, ShapeInv, CallsTypeOK, Phase
<1>3. counter' = Counted(up[s], -1) /\ kept' = kept \ {s}
  BY DEF Presigns
<1>4. counter' \in [Node -> Int]
  BY <1>3 DEF Counted, ShapeInv, CallsTypeOK
<1>5. sent' = sent \/ sent' = Emitted(up, kept', {Root})
  BY DEF Presigns
<1>6. sent \in [Node -> Nat] /\ \A n \in Subsegment \ live : sent[n] = 0
  BY DEF ShapeInv, CallsTypeOK
<1>7. kept' \in SUBSET live /\ live \in SUBSET Subsegment /\ {Root} \in SUBSET ({Root} \cup live)
  BY <1>3, CallFacts
<1>8. sent' \in [Node -> Nat] /\ \A n \in Subsegment \ live : sent'[n] = 0
  <2>1. CASE sent' = sent
    BY <1>6, <2>1
  <2>2. CASE sent' = Emitted(up, kept', {Root})
    BY <1>7, <2>2, SentTypes
  <2> QED BY <1>5, <2>1, <2>2
<1> QED BY <1>1, <1>2, <1>3, <1>4, <1>8

(* The shape after it. *)
LEMMA PresignsShape ==
  ASSUME ShapeInv, NEW s \in Subsegment, Presigns(s)
  PROVE  ShapeInv'
<1>1. /\ UNCHANGED <<live, up, withSegment, open, notTraced, kind, base, running, again, due,
                     pledged, made, late>>
  BY DEF Presigns, callbackVars, historyVars
<1>2. CallsTypeOK'
  <2>1. \A t \in Subsegment : t \in live <=> phase'[t] # "none"
    BY PresignsEffect DEF ShapeInv, CallsTypeOK
  <2>2. \A t \in live : phase'[t] \in {"built", "presigned"} =>
          (\A d \in live : t \notin up[d]) /\ \A c \in Callback : base[c] # t
    BY PresignsEffect, CallFacts DEF ShapeInv, CallsTypeOK
  <2>3. kept' \subseteq live
    BY PresignsEffect, CallFacts
  <2> QED BY <1>1, <2>1, <2>2, <2>3, PresignsEffect DEF CallsTypeOK, ShapeInv
<1>3. PhaseTells'
  <2>1. \A t \in live : t \in open <=> phase'[t] \in {"built", "waiting", "responded", "presigned"}
    BY PresignsEffect, CallFacts DEF ShapeInv, PhaseTells
  <2>2. \A t \in live : phase'[t] = "presigned" => t \notin kept'
    BY PresignsEffect, CallFacts DEF ShapeInv, PhaseTells
  <2>3. \A t \in made : phase'[t] \notin {"built", "presigned"}
    BY PresignsEffect DEF ShapeInv, PhaseTells, CallsTypeOK
  <2> QED BY <1>1, <2>1, <2>2, <2>3 DEF PhaseTells
<1>4. TreeShape' /\ DecisionInherited' /\ DueOnce'
  BY <1>1, SameTree DEF ShapeInv, DueOnce
<1> QED BY <1>1, <1>2, <1>3, <1>4, PresignsEffect DEF ShapeInv

(* captureCallbackFunc: the increment of its base, and what that streams.  *)
LEMMA WrapsEffect ==
  ASSUME ShapeInv, NEW c \in Callback, NEW p \in Node, Wraps(c, p)
  PROVE  /\ p \in {Root} \cup live /\ base[c] = None /\ due[c] = 0
         /\ \A t \in live : phase[t] \in {"built", "presigned"} => t # p
         /\ base' = [base EXCEPT ![c] = p] /\ due' = [due EXCEPT ![c] = 1]
         /\ counter' = Counted(Chain(p), 1) /\ counter' \in [Node -> Int]
         /\ kept' \subseteq kept
         /\ sent' \in [Node -> Nat] /\ \A n \in Subsegment \ live : sent'[n] = 0
<1>1. /\ p \in {Root} \cup live /\ base[c] = None
      /\ \A t \in live : phase[t] \in {"built", "presigned"} => t # p
  BY CallFacts DEF Wraps, Contexts
<1>2. due[c] = 0
  BY <1>1 DEF ShapeInv, DueOnce
<1>3. base' = [base EXCEPT ![c] = p] /\ due' = [due EXCEPT ![c] = 1]
  BY <1>2 DEF Wraps, ShapeInv, CallsTypeOK
<1>4. counter' = Counted(Chain(p), 1)
  BY DEF Wraps, IncrementCounter
<1>5. counter' \in [Node -> Int]
  BY <1>4 DEF Counted, ShapeInv, CallsTypeOK
<1> DEFINE docs == Streamed(up, kept, Root, Complete(open, counter'))
           flushed == docs \cap Flushable
<1>6. \/ sent' = sent /\ kept' = kept
      \/ sent' = Emitted(up, kept, flushed) /\ kept' = kept \ docs
  BY DEF Wraps, IncrementCounter, Pruned
<1>7. sent \in [Node -> Nat] /\ \A n \in Subsegment \ live : sent[n] = 0
  BY DEF ShapeInv, CallsTypeOK
<1>8. kept \in SUBSET live /\ live \in SUBSET Subsegment /\ flushed \in SUBSET ({Root} \cup live)
  BY CallFacts DEF Flushable
<1> HIDE DEF docs, flushed
<1>9. sent' \in [Node -> Nat] /\ \A n \in Subsegment \ live : sent'[n] = 0
  <2>1. CASE sent' = sent
    BY <1>7, <2>1
  <2>2. CASE sent' = Emitted(up, kept, flushed)
    BY <1>8, <2>2, SentTypes
  <2> QED BY <1>6, <2>1, <2>2
<1> QED BY <1>1, <1>2, <1>3, <1>4, <1>5, <1>6, <1>9

(* The shape after it. *)
LEMMA WrapsShape ==
  ASSUME ShapeInv, NEW c \in Callback, NEW p \in Node, Wraps(c, p)
  PROVE  ShapeInv'
<1>1. /\ UNCHANGED <<live, up, withSegment, open, notTraced, kind, phase, running, again, made>>
      /\ pledged' \in {pledged, pledged \cup {c}} /\ late' = (late \/ sent[Root] > 0)
  BY DEF Wraps, callVars
<1>2. base \in [Callback -> {Root} \cup live \cup {None}] /\ due \in [Callback -> Int]
      /\ pledged \subseteq Callback /\ kind \in [Subsegment -> Kind] /\ late \in BOOLEAN
  BY DEF ShapeInv, CallsTypeOK
<1>3. /\ base' \in [Callback -> {Root} \cup live \cup {None}]
      /\ base'[c] = p /\ \A b \in Callback : b # c => base'[b] = base[b]
  BY <1>2, WrapsEffect
<1>4. /\ due' \in [Callback -> Int]
      /\ due'[c] = 1 /\ \A b \in Callback : b # c => due'[b] = due[b]
  BY <1>2, WrapsEffect
<1>5. \A t \in live : phase[t] \in {"built", "presigned"} => \A b \in Callback : base'[b] # t
  BY <1>3, WrapsEffect DEF ShapeInv, CallsTypeOK
<1>6. DueOnce'
  <2>1. p # None
    BY CallFacts
  <2>2. \A b \in Callback : due'[b] <= 1 /\ (base'[b] = None => due'[b] = 0)
    BY <1>3, <1>4, <2>1 DEF ShapeInv, DueOnce
  <2>3. \A b \in pledged' : base'[b] # None
    BY <1>1, <1>2, <1>3, <2>1 DEF ShapeInv, DueOnce
  <2>4. running # Idle => base'[running[1]] # None
    <3>1. running # Idle => running[1] \in Callback
      BY DEF ShapeInv, CallsTypeOK
    <3> QED BY <1>3, <2>1, <3>1 DEF ShapeInv, DueOnce
  <2> QED BY <1>1, <2>2, <2>3, <2>4 DEF DueOnce
<1>7. late' \in BOOLEAN /\ pledged' \subseteq Callback
  BY <1>1, <1>2
<1> QED BY <1>1, <1>2, <1>3, <1>4, <1>5, <1>6, <1>7, WrapsEffect, QuietShape

(* The decrement when it returns. *)
LEMMA ReturnsEffect ==
  ASSUME ShapeInv, CallbackReturns, NEW c, c = running[1]
  PROVE  /\ c \in Callback /\ base[c] \in {Root} \cup live
         /\ due' = [due EXCEPT ![c] = due[c] - 1]
         /\ counter' = Counted(Chain(base[c]), -1) /\ counter' \in [Node -> Int]
         /\ kept' = kept
         /\ sent' \in [Node -> Nat] /\ \A n \in Subsegment \ live : sent'[n] = 0
<1>1. c \in Callback /\ base[c] # None
  BY DEF CallbackReturns, ShapeInv, CallsTypeOK, DueOnce
<1>2. base[c] \in {Root} \cup live
  BY <1>1, CallFacts
<1>3. /\ due' = [due EXCEPT ![c] = due[c] - 1] /\ counter' = Counted(Chain(base[c]), -1)
      /\ kept' = kept
  BY DEF CallbackReturns
<1>4. counter' \in [Node -> Int]
  BY <1>3 DEF Counted, ShapeInv, CallsTypeOK
<1>5. sent' = sent \/ sent' = Emitted(up, kept, {Root})
  BY DEF CallbackReturns, FlushSegment
<1>6. sent \in [Node -> Nat] /\ \A n \in Subsegment \ live : sent[n] = 0
  BY DEF ShapeInv, CallsTypeOK
<1>7. kept \in SUBSET live /\ live \in SUBSET Subsegment /\ {Root} \in SUBSET ({Root} \cup live)
  BY CallFacts
<1>8. sent' \in [Node -> Nat] /\ \A n \in Subsegment \ live : sent'[n] = 0
  <2>1. CASE sent' = sent
    BY <1>6, <2>1
  <2>2. CASE sent' = Emitted(up, kept, {Root})
    BY <1>7, <2>2, SentTypes
  <2> QED BY <1>5, <2>1, <2>2
<1> QED BY <1>1, <1>2, <1>3, <1>4, <1>8

(* The shape after it. *)
LEMMA ReturnsShape ==
  ASSUME ShapeInv, CallbackReturns
  PROVE  ShapeInv'
<1>0. PICK c : c = running[1]
  OBVIOUS
<1>1. /\ UNCHANGED <<live, up, withSegment, open, kept, notTraced, kind, phase, base, again,
                     pledged, made, late>>
      /\ running' = Idle
  BY DEF CallbackReturns, callVars
<1>2. due \in [Callback -> Int] /\ c \in Callback
  BY <1>0, ReturnsEffect DEF ShapeInv, CallsTypeOK
<1>3. /\ due' \in [Callback -> Int]
      /\ due'[c] = due[c] - 1 /\ \A b \in Callback : b # c => due'[b] = due[b]
  BY <1>0, <1>2, ReturnsEffect
<1>4. DueOnce'
  <2>1. base[c] # None
    BY <1>0, ReturnsEffect, CallFacts
  <2>2. \A b \in Callback : due'[b] <= 1 /\ (base[b] = None => due'[b] = 0)
    BY <1>2, <1>3, <2>1 DEF ShapeInv, DueOnce
  <2> QED BY <1>1, <2>2 DEF DueOnce, ShapeInv
<1>5. /\ counter' \in [Node -> Int]
      /\ sent' \in [Node -> Nat] /\ \A n \in Subsegment \ live : sent'[n] = 0
  BY <1>0, ReturnsEffect
<1>6. /\ base \in [Callback -> {Root} \cup live \cup {None}] /\ kind \in [Subsegment -> Kind]
      /\ pledged \subseteq Callback /\ late \in BOOLEAN
      /\ \A t \in live : phase[t] \in {"built", "presigned"} => \A b \in Callback : base[b] # t
  BY DEF ShapeInv, CallsTypeOK
<1> QED BY <1>1, <1>3, <1>4, <1>5, <1>6, QuietShape

(* Segment.close. *)
LEMMA SegmentClosesEffect ==
  ASSUME ShapeInv, SegmentCloses
  PROVE  /\ Root \in open /\ open' = open \ {Root}
         /\ UNCHANGED <<live, up, withSegment, kept, counter, notTraced>>
         /\ UNCHANGED <<kind, phase, base, running, again, due, pledged, made, late>>
         /\ IF counter[Root] <= 0 THEN FlushSegment ELSE sent' = sent
         /\ sent' \in [Node -> Nat] /\ \A n \in Subsegment \ live : sent'[n] = 0
<1>1. /\ Root \in open /\ open' = open \ {Root}
      /\ UNCHANGED <<live, up, withSegment, kept, counter, notTraced>>
      /\ UNCHANGED <<kind, phase, base, running, again, due, pledged, made, late>>
      /\ IF counter[Root] <= 0 THEN FlushSegment ELSE sent' = sent
  BY DEF SegmentCloses, CloseOpenSegment, CloseSegment, callVars, callbackVars, historyVars
<1>2. sent' = sent \/ sent' = Emitted(up, kept, {Root})
  BY <1>1 DEF FlushSegment
<1>3. sent \in [Node -> Nat] /\ \A n \in Subsegment \ live : sent[n] = 0
  BY DEF ShapeInv, CallsTypeOK
<1>4. kept \in SUBSET live /\ live \in SUBSET Subsegment /\ {Root} \in SUBSET ({Root} \cup live)
  BY CallFacts
<1>5. sent' \in [Node -> Nat] /\ \A n \in Subsegment \ live : sent'[n] = 0
  <2>1. CASE sent' = sent
    BY <1>3, <2>1
  <2>2. CASE sent' = Emitted(up, kept, {Root})
    BY <1>4, <2>2, SentTypes
  <2> QED BY <1>2, <2>1, <2>2
<1> QED BY <1>1, <1>5

(* The shape after it. *)
LEMMA SegmentClosesShape ==
  ASSUME ShapeInv, SegmentCloses
  PROVE  ShapeInv'
<1>1. /\ base \in [Callback -> {Root} \cup live \cup {None}] /\ kind \in [Subsegment -> Kind]
      /\ pledged \subseteq Callback /\ late \in BOOLEAN /\ due \in [Callback -> Int]
      /\ counter \in [Node -> Int]
      /\ \A t \in live : phase[t] \in {"built", "presigned"} => \A b \in Callback : base[b] # t
  BY DEF ShapeInv, CallsTypeOK
<1>2. DueOnce'
  BY SegmentClosesEffect DEF ShapeInv, DueOnce
<1> QED BY <1>1, <1>2, SegmentClosesEffect, QuietShape

(* The shape holds at the start. *)
LEMMA InitShape ==
  ASSUME CallsInit
  PROVE  ShapeInv
<1>1. /\ Root \notin Subsegment /\ None \notin Callback
  BY SubsegmentAssumption, CallbackAssumption
<1>2. CallsTypeOK
  <2>1. /\ live = {} /\ kept = {} /\ withSegment = {} /\ again = {} /\ made = {} /\ pledged = {}
        /\ running = Idle /\ late = FALSE
    BY DEF CallsInit, Init
  <2>2. counter \in [Node -> Int] /\ sent \in [Node -> Nat] /\ due \in [Callback -> Int]
    BY DEF CallsInit, Init
  <2>3. kind \in [Subsegment -> Kind] /\ phase \in [Subsegment -> Phase]
    BY DEF CallsInit, Kind, Phase
  <2>4. \A s \in Subsegment : phase[s] = "none"
    BY DEF CallsInit
  <2>5. base \in [Callback -> {Root} \cup live \cup {None}]
    BY DEF CallsInit
  <2> QED BY <2>1, <2>2, <2>3, <2>4, <2>5 DEF CallsTypeOK
<1>3. TreeShape /\ DecisionInherited
  BY <1>1 DEF CallsInit, Init, TreeShape, DecisionInherited, Node
<1>4. PhaseTells /\ DueOnce
  BY DEF CallsInit, Init, PhaseTells, DueOnce
<1>5. up \in [Node -> SUBSET Node] /\ notTraced \subseteq Node
  BY DEF CallsInit, Init, Node
<1>6. \A s \in Subsegment : sent[s] = 0
  BY DEF CallsInit, Init, Node
<1> QED BY <1>2, <1>3, <1>4, <1>5, <1>6 DEF ShapeInv

(* Every step keeps the shape. *)
LEMMA StepShape ==
  ASSUME ShapeInv, [CallsNext]_allVars
  PROVE  ShapeInv'
<1>1. ASSUME NEW p \in Node, NEW s \in Subsegment, NEW k \in Kind, Calls(p, s, k) PROVE ShapeInv'
  BY <1>1, CallsShape
<1>2. ASSUME NEW s \in Subsegment, Ends(s) PROVE ShapeInv'
  BY <1>2, EndsShape
<1>3. ASSUME NEW s \in Subsegment, Responds(s) \/ Sends(s) PROVE ShapeInv'
  BY <1>3, MovesShape
<1>4. ASSUME NEW s \in Subsegment, Presigns(s) PROVE ShapeInv'
  BY <1>4, PresignsShape
<1>5. ASSUME NEW c \in Callback, NEW p \in Node, Wraps(c, p) PROVE ShapeInv'
  BY <1>5, WrapsShape
<1>6. ASSUME NEW c \in Callback, NEW p \in Node, NEW s \in Subsegment, CallbackStarts(c, p, s)
      PROVE  ShapeInv'
  BY <1>6, CallbackStartsShape
<1>7. ASSUME NEW throws \in BOOLEAN, CallbackEnds(throws) PROVE ShapeInv'
  BY <1>7, CallbackEndsShape
<1>8. CASE CallbackReturns
  BY <1>8, ReturnsShape
<1>9. CASE SegmentCloses
  BY <1>9, SegmentClosesShape
<1>10. CASE UNCHANGED allVars
  <2>1. kind' \in [Subsegment -> Kind] /\ counter \in [Node -> Int] /\ sent \in [Node -> Nat]
        /\ base \in [Callback -> {Root} \cup live \cup {None}]
        /\ pledged \subseteq Callback /\ due \in [Callback -> Int] /\ late \in BOOLEAN
        /\ \A n \in Subsegment \ live : sent[n] = 0
    BY <1>10 DEF allVars, callVars, ShapeInv, CallsTypeOK
  <2>2. /\ UNCHANGED <<live, up, withSegment, notTraced, phase, open, kept, counter, sent>>
        /\ UNCHANGED <<base, running, again, due, pledged, made, late>>
    BY <1>10 DEF allVars, vars, callVars, callbackVars, historyVars
  <2>3. DueOnce'
    BY <2>2 DEF ShapeInv, DueOnce
  <2>4. /\ kept' \subseteq kept /\ counter' \in [Node -> Int] /\ sent' \in [Node -> Nat]
        /\ base' \in [Callback -> {Root} \cup live \cup {None}] /\ running' \in {running, Idle}
        /\ pledged' \subseteq Callback /\ due' \in [Callback -> Int] /\ late' \in BOOLEAN
    BY <2>1, <2>2
  <2>5. \A n \in Subsegment \ live : sent'[n] = 0
    BY <2>1, <2>2
  <2>6. \A t \in live : phase[t] \in {"built", "presigned"} => \A c \in Callback : base'[c] # t
    <3>1. base' = base
      BY <2>2
    <3> QED BY <3>1 DEF ShapeInv, CallsTypeOK
  <2> QED BY <2>1, <2>2, <2>3, <2>4, <2>5, <2>6, QuietShape
<1> QED BY <1>1, <1>2, <1>3, <1>4, <1>5, <1>6, <1>7, <1>8, <1>9, <1>10 DEF CallsNext, Ends

-----------------------------------------------------------------------------
(* The counters, however often they are lowered. *)

(* The sets that are counted are finite, and what is due are numbers. *)
LEMMA AccountTypes ==
  ASSUME ShapeInv, NEW n
  PROVE  /\ IsFiniteSet(OpenCalls(n)) /\ Cardinality(OpenCalls(n)) \in Nat
         /\ IsFiniteSet(Twice(n)) /\ Cardinality(Twice(n)) \in Nat
         /\ IsFiniteSet(Wrapped(n)) /\ (\A c \in Wrapped(n) : due[c] \in Int) /\ Dues(n) \in Int
<1>1. Twice(n) \in SUBSET Subsegment /\ Wrapped(n) \in SUBSET Callback
  BY DEF Twice, Wrapped, ShapeInv, CallsTypeOK
<1>2. IsFiniteSet(OpenCalls(n)) /\ IsFiniteSet(Twice(n)) /\ IsFiniteSet(Wrapped(n))
  BY <1>1, CallsFinite, SubsegmentAssumption, CallbackAssumption, FS_Subset
<1>3. \A c \in Wrapped(n) : due[c] \in Int
  BY <1>1 DEF ShapeInv, CallsTypeOK
<1>4. Dues(n) \in Int
  BY <1>2, <1>3, SumInt DEF Dues
<1> QED BY <1>2, <1>3, <1>4, FS_CardinalityType

(* A subsegment that is added: one more open call below its chain. *)
LEMMA AddAccounts ==
  ASSUME ShapeInv, CounterAccounts, AgainIsOver, ShapeInv', NEW p \in {Root} \cup live,
         NEW s \in Subsegment, AddNewSubsegment(p, s, FALSE), phase'[s] # "presigned",
         \A d \in Subsegment : d # s => phase'[d] = phase[d],
         UNCHANGED <<base, due, again>>
  PROVE  CounterAccounts' /\ AgainIsOver'
<1>1. /\ s \notin live /\ s \in Node /\ s # Root /\ s \notin open /\ open' = open \cup {s}
      /\ up'[s] = Chain(p) /\ \A d \in Node : (d # s => up'[d] = up[d]) /\ s \notin up[d]
      /\ counter' = Counted(Chain(p), Added(s))
  BY AddEffect
<1>2. again \subseteq live /\ live \subseteq Node /\ s \notin again
      /\ \A c \in Callback : base[c] # None => base[c] # s /\ base[c] \in Node
  BY <1>1, CallFacts DEF ShapeInv, CallsTypeOK
<1>3. ASSUME NEW n \in Node
      PROVE  OpenCalls(n)' = IF n \in Chain(p) THEN OpenCalls(n) \cup {s} ELSE OpenCalls(n)
  <2>1. ASSUME NEW t \in Subsegment
        PROVE  t \in open' /\ n \in up'[t] /\ phase'[t] # "presigned" <=>
                 \/ t \in open /\ n \in up[t] /\ phase[t] # "presigned"
                 \/ t = s /\ n \in Chain(p)
    BY <1>1, <2>1 DEF Node
  <2> QED BY <2>1 DEF OpenCalls, OpenUnder
<1>4. ASSUME NEW n \in Node PROVE Twice(n)' = Twice(n)
  <2>1. \A t \in again : up'[t] = up[t]
    BY <1>1, <1>2
  <2> QED BY <2>1 DEF Twice
<1>5. ASSUME NEW n \in Node PROVE Dues(n)' = Dues(n)
  <2>1. \A c \in Callback : base[c] # None => up'[base[c]] = up[base[c]]
    BY <1>1, <1>2
  <2>2. Wrapped(n)' = Wrapped(n)
    BY <2>1 DEF Wrapped, Chain
  <2> QED BY <2>2 DEF Dues
<1>6. counter[s] = 0
  <2>1. OpenCalls(s) = {}
    BY <1>1 DEF OpenCalls, OpenUnder, Node
  <2>2. Twice(s) = {}
    BY <1>1, <1>2 DEF Twice
  <2>3. Wrapped(s) = {}
    BY <1>1, <1>2 DEF Wrapped, Chain
  <2>4. Dues(s) = 0
    BY <2>3, SumRec, FS_EmptySet DEF Dues
  <2>5. counter[s] = Cardinality({}) - Cardinality({}) + 0
    BY <1>1, <2>1, <2>2, <2>4 DEF CounterAccounts
  <2> QED BY <2>5, FS_EmptySet
<1>7. \A n \in Node : counter'[n] = IF n \in Chain(p) THEN counter[n] + 1 ELSE counter[n]
  <2>1. ~Facade
    BY CallFacts
  <2> QED BY <1>1, <1>6, <2>1 DEF Counted, Added
<1>8. ASSUME NEW n \in Node
      PROVE  counter'[n] = Cardinality(OpenCalls(n)') - Cardinality(Twice(n)') + Dues(n)'
  <2>1. counter[n] = Cardinality(OpenCalls(n)) - Cardinality(Twice(n)) + Dues(n)
    BY DEF CounterAccounts
  <2>2. Twice(n)' = Twice(n) /\ Dues(n)' = Dues(n)
    BY <1>4, <1>5
  <2>3. Cardinality(OpenCalls(n) \cup {s}) = Cardinality(OpenCalls(n)) + 1
    BY <1>1, AccountTypes, FS_AddElement DEF OpenCalls, OpenUnder
  <2>4. CASE n \in Chain(p)
    <3>1. Cardinality(OpenCalls(n)') = Cardinality(OpenCalls(n)) + 1
      BY <1>3, <2>3, <2>4
    <3> QED BY <1>7, <2>1, <2>2, <2>4, <3>1, AccountTypes
  <2>5. CASE n \notin Chain(p)
    BY <1>3, <1>7, <2>1, <2>2, <2>5
  <2> QED BY <2>4, <2>5
<1>9. AgainIsOver'
  <2>1. \A t \in again : t \in Subsegment /\ t # s
    BY <1>2 DEF ShapeInv, CallsTypeOK
  <2> QED BY <2>1 DEF AgainIsOver
<1> QED BY <1>8, <1>9 DEF CounterAccounts, ShapeInv

(* A subsegment that is closed or given up is one open call less if there  *)
(* is one for it, and has been closed twice otherwise.                     *)
LEMMA LessAccounts ==
  ASSUME ShapeInv, CounterAccounts, AgainIsOver, ShapeInv', NEW s \in live,
         \/ /\ s \in open /\ phase[s] # "presigned" /\ again' = again
            /\ s \notin open' \/ phase'[s] = "presigned"
         \/ /\ s \notin open /\ s \notin open' /\ again' = again \cup {s} /\ phase'[s] = "over",
         phase[s] # "over",
         \A d \in Subsegment : d # s => (d \in open' <=> d \in open) /\ phase'[d] = phase[d],
         counter' = Counted(up[s], -1), UNCHANGED <<up, base, due>>
  PROVE  CounterAccounts' /\ AgainIsOver'
<1>1. s \in Subsegment /\ s \notin again /\ again \subseteq Subsegment
  BY CallFacts DEF AgainIsOver, ShapeInv, CallsTypeOK
<1>2. AgainIsOver'
  <2>1. \A t \in again : phase'[t] = "over"
    BY <1>1 DEF AgainIsOver
  <2> QED BY <2>1 DEF AgainIsOver
<1>3. ASSUME NEW n \in Node
      PROVE  counter'[n] = Cardinality(OpenCalls(n)') - Cardinality(Twice(n)') + Dues(n)'
  <2>1. counter[n] = Cardinality(OpenCalls(n)) - Cardinality(Twice(n)) + Dues(n)
    BY DEF CounterAccounts
  <2>2. counter'[n] = IF n \in up[s] THEN counter[n] - 1 ELSE counter[n]
    BY CallFacts DEF Counted
  <2>3. Dues(n)' = Dues(n)
    <3>1. Wrapped(n)' = Wrapped(n)
      BY DEF Wrapped, Chain
    <3> QED BY <3>1 DEF Dues
  <2>4. CASE s \in open
    <3>1. Twice(n)' = Twice(n)
      BY <2>4 DEF Twice
    <3>2. OpenCalls(n)' = OpenCalls(n) \ {s}
      <4>1. ASSUME NEW t \in Subsegment
            PROVE  t \in open' /\ n \in up[t] /\ phase'[t] # "presigned" <=>
                     t # s /\ t \in open /\ n \in up[t] /\ phase[t] # "presigned"
        BY <2>4, <4>1
      <4> QED BY <4>1 DEF OpenCalls, OpenUnder
    <3>3. s \in OpenCalls(n) <=> n \in up[s]
      BY <1>1, <2>4 DEF OpenCalls, OpenUnder
    <3>4. Cardinality(OpenCalls(n) \ {s}) = IF n \in up[s] THEN Cardinality(OpenCalls(n)) - 1
                                                           ELSE Cardinality(OpenCalls(n))
      BY <3>3, AccountTypes, FS_RemoveElement
    <3>5. Cardinality(OpenCalls(n)') = IF n \in up[s] THEN Cardinality(OpenCalls(n)) - 1
                                                      ELSE Cardinality(OpenCalls(n))
      BY <3>2, <3>4
    <3> QED BY <2>1, <2>2, <2>3, <3>1, <3>5, AccountTypes
  <2>5. CASE s \notin open
    <3>1. OpenCalls(n)' = OpenCalls(n)
      <4>1. \A t \in Subsegment : t \in open' /\ phase'[t] # "presigned" <=>
                                    t \in open /\ phase[t] # "presigned"
        BY <2>5
      <4> QED BY <4>1 DEF OpenCalls, OpenUnder
    <3>2. Twice(n)' = IF n \in up[s] THEN Twice(n) \cup {s} ELSE Twice(n)
      BY <2>5 DEF Twice
    <3>3. s \notin Twice(n)
      BY <1>1 DEF Twice
    <3>4. Cardinality(Twice(n) \cup {s}) = Cardinality(Twice(n)) + 1
      BY <3>3, AccountTypes, FS_AddElement
    <3>5. Cardinality(Twice(n)') = IF n \in up[s] THEN Cardinality(Twice(n)) + 1
                                                  ELSE Cardinality(Twice(n))
      BY <3>2, <3>4
    <3> QED BY <2>1, <2>2, <2>3, <3>1, <3>5, AccountTypes
  <2> QED BY <2>4, <2>5
<1> QED BY <1>2, <1>3 DEF CounterAccounts, ShapeInv

(* What was counted up for a callback is one more. *)
LEMMA WrapsAccounts ==
  ASSUME ShapeInv, CounterAccounts, AgainIsOver, ShapeInv',
         NEW c \in Callback, NEW p \in Node, Wraps(c, p)
  PROVE  CounterAccounts' /\ AgainIsOver'
<1>1. UNCHANGED <<up, open, phase, again>>
  BY DEF Wraps, callVars
<1>2. p # None /\ base[c] = None
  BY CallFacts, WrapsEffect
<1>3. /\ base'[c] = p /\ \A b \in Callback : b # c => base'[b] = base[b]
      /\ due'[c] = 1 /\ \A b \in Callback : b # c => due'[b] = due[b]
  BY WrapsEffect DEF ShapeInv, CallsTypeOK
<1>4. ASSUME NEW n \in Node
      PROVE  counter'[n] = Cardinality(OpenCalls(n)') - Cardinality(Twice(n)') + Dues(n)'
  <2>1. counter[n] = Cardinality(OpenCalls(n)) - Cardinality(Twice(n)) + Dues(n)
    BY DEF CounterAccounts
  <2>2. counter'[n] = IF n \in Chain(p) THEN counter[n] + 1 ELSE counter[n]
    BY CallFacts, WrapsEffect DEF Counted
  <2>3. OpenCalls(n)' = OpenCalls(n) /\ Twice(n)' = Twice(n)
    BY <1>1 DEF OpenCalls, OpenUnder, Twice
  <2>4. Wrapped(n)' = IF n \in Chain(p) THEN Wrapped(n) \cup {c} ELSE Wrapped(n)
    <3>1. ASSUME NEW b \in Callback
          PROVE  base'[b] # None /\ n \in {base'[b]} \cup up[base'[b]] <=>
                   \/ base[b] # None /\ n \in {base[b]} \cup up[base[b]]
                   \/ b = c /\ n \in {p} \cup up[p]
      BY <1>2, <1>3, <3>1
    <3> QED BY <1>1, <3>1 DEF Wrapped, Chain
  <2>5. c \notin Wrapped(n)
    BY <1>2 DEF Wrapped
  <2>6. SumFunctionOnSet(due', Wrapped(n)) = Dues(n)
    <3>1. \A b \in Wrapped(n) : due[b] \in Int /\ due'[b] = due[b]
      BY <1>3, <2>5, AccountTypes DEF Wrapped
    <3> QED BY <3>1, AccountTypes, SumSame DEF Dues
  <2>7. CASE n \in Chain(p)
    <3> DEFINE all == Wrapped(n) \cup {c}
    <3>1. Wrapped(n)' = all /\ all \ {c} = Wrapped(n) /\ c \in all
      BY <2>4, <2>5, <2>7
    <3>2. IsFiniteSet(all)
      BY AccountTypes, FS_AddElement
    <3>3. \A b \in all : due'[b] \in Int
      BY <1>3, AccountTypes DEF Wrapped, ShapeInv, CallsTypeOK
    <3> HIDE DEF all
    <3>4. SumFunctionOnSet(due', all) = due'[c] + SumFunctionOnSet(due', all \ {c})
      BY <3>1, <3>2, <3>3, SumTake
    <3>5. Dues(n)' = 1 + Dues(n)
      BY <1>3, <2>6, <3>1, <3>4 DEF Dues
    <3> QED BY <2>1, <2>2, <2>3, <2>7, <3>5, AccountTypes
  <2>8. CASE n \notin Chain(p)
    <3>1. Dues(n)' = Dues(n)
      BY <2>4, <2>6, <2>8 DEF Dues
    <3> QED BY <2>1, <2>2, <2>3, <2>8, <3>1
  <2> QED BY <2>7, <2>8
<1>5. AgainIsOver'
  BY <1>1 DEF AgainIsOver
<1> QED BY <1>4, <1>5 DEF CounterAccounts, ShapeInv

(* When it returns, the first time or again, it is one less. *)
LEMMA ReturnsAccounts ==
  ASSUME ShapeInv, CounterAccounts, AgainIsOver, ShapeInv', CallbackReturns
  PROVE  CounterAccounts' /\ AgainIsOver'
<1>0. PICK c : c = running[1]
  OBVIOUS
<1>1. UNCHANGED <<up, open, phase, base, again>>
  BY DEF CallbackReturns, callVars
<1>2. c \in Callback /\ base[c] # None
  BY <1>0, CallFacts, ReturnsEffect
<1>3. /\ due \in [Callback -> Int] /\ due' \in [Callback -> Int]
      /\ due'[c] = due[c] - 1 /\ \A b \in Callback : b # c => due'[b] = due[b]
  BY <1>0, <1>2, ReturnsEffect DEF ShapeInv, CallsTypeOK
<1>4. ASSUME NEW n \in Node
      PROVE  counter'[n] = Cardinality(OpenCalls(n)') - Cardinality(Twice(n)') + Dues(n)'
  <2>1. counter[n] = Cardinality(OpenCalls(n)) - Cardinality(Twice(n)) + Dues(n)
    BY DEF CounterAccounts
  <2>2. counter'[n] = IF n \in Chain(base[c]) THEN counter[n] - 1 ELSE counter[n]
    <3>1. ~Facade /\ counter \in [Node -> Int] /\ counter' = Counted(Chain(base[c]), -1)
      BY <1>0, CallFacts, ReturnsEffect DEF ShapeInv, CallsTypeOK
    <3> QED BY <3>1 DEF Counted
  <2>3. OpenCalls(n)' = OpenCalls(n) /\ Twice(n)' = Twice(n) /\ Wrapped(n)' = Wrapped(n)
    BY <1>1 DEF OpenCalls, OpenUnder, Twice, Wrapped, Chain
  <2>4. c \in Wrapped(n) <=> n \in Chain(base[c])
    BY <1>2 DEF Wrapped
  <2>5. Wrapped(n) \subseteq Callback /\ \A b \in Wrapped(n) : due[b] \in Int /\ due'[b] \in Int
    BY <1>3 DEF Wrapped
  <2>6. CASE n \in Chain(base[c])
    <3>1. \A b \in Wrapped(n) : b # c => due'[b] = due[b]
      BY <1>3, <2>5
    <3>2. SumFunctionOnSet(due', Wrapped(n)) = SumFunctionOnSet(due, Wrapped(n)) - due[c] + due'[c]
      BY <2>4, <2>5, <2>6, <3>1, AccountTypes, SumChanges
    <3>3. Dues(n)' = Dues(n) - due[c] + due'[c]
      BY <2>3, <3>2 DEF Dues
    <3>4. due[c] \in Int /\ due'[c] = due[c] - 1
      BY <1>2, <1>3
    <3> QED BY <2>1, <2>2, <2>3, <2>6, <3>3, <3>4, AccountTypes
  <2>7. CASE n \notin Chain(base[c])
    <3>1. \A b \in Wrapped(n) : due[b] \in Int /\ due'[b] = due[b]
      BY <1>3, <2>4, <2>5, <2>7
    <3>2. SumFunctionOnSet(due', Wrapped(n)) = SumFunctionOnSet(due, Wrapped(n))
      BY <3>1, AccountTypes, SumSame
    <3> QED BY <2>1, <2>2, <2>3, <2>7, <3>2 DEF Dues
  <2> QED BY <2>6, <2>7
<1>5. AgainIsOver'
  BY <1>1 DEF AgainIsOver
<1> QED BY <1>4, <1>5 DEF CounterAccounts, ShapeInv

(* No other step counts. *)
LEMMA SameAccounts ==
  ASSUME ShapeInv, CounterAccounts, AgainIsOver, ShapeInv', UNCHANGED <<up, counter, base, due, again>>,
         \A d \in Subsegment : d \in open' <=> d \in open,
         \A d \in Subsegment : phase'[d] = "presigned" <=> phase[d] = "presigned",
         \A d \in Subsegment : phase[d] = "over" => phase'[d] = "over"
  PROVE  CounterAccounts' /\ AgainIsOver'
<1>1. ASSUME NEW n \in Node
      PROVE  OpenCalls(n)' = OpenCalls(n) /\ Twice(n)' = Twice(n) /\ Dues(n)' = Dues(n)
  <2>1. Wrapped(n)' = Wrapped(n)
    BY DEF Wrapped, Chain
  <2> QED BY <2>1 DEF OpenCalls, OpenUnder, Twice, Dues
<1>2. AgainIsOver'
  <2>1. again \subseteq Subsegment
    BY DEF ShapeInv, CallsTypeOK
  <2> QED BY <2>1 DEF AgainIsOver
<1>3. \A n \in Node :
        counter'[n] = Cardinality(OpenCalls(n)') - Cardinality(Twice(n)') + Dues(n)'
  BY <1>1 DEF CounterAccounts
<1> QED BY <1>2, <1>3 DEF CounterAccounts, ShapeInv

(* Every step keeps account. *)
LEMMA StepAccounts ==
  ASSUME ShapeInv, CounterAccounts, AgainIsOver, [CallsNext]_allVars
  PROVE  CounterAccounts' /\ AgainIsOver'
<1>0. ShapeInv'
  BY StepShape
<1>1. ASSUME NEW p \in Node, NEW s \in Subsegment, NEW k \in Kind, Calls(p, s, k)
      PROVE  CounterAccounts' /\ AgainIsOver'
  <2>1. /\ p \in {Root} \cup live /\ AddNewSubsegment(p, s, FALSE)
        /\ phase' = [phase EXCEPT ![s] = IF k = "aws" THEN "built" ELSE "waiting"]
        /\ UNCHANGED <<base, due, again>>
    BY <1>1, CallFacts DEF Calls, Contexts, callbackVars
  <2>2. phase'[s] # "presigned" /\ \A d \in Subsegment : d # s => phase'[d] = phase[d]
    BY <2>1 DEF ShapeInv, CallsTypeOK
  <2> QED BY <1>0, <2>1, <2>2, AddAccounts
<1>2. ASSUME NEW c \in Callback, NEW p \in Node, NEW s \in Subsegment, CallbackStarts(c, p, s)
      PROVE  CounterAccounts' /\ AgainIsOver'
  <2>1. /\ p \in {Root} \cup live /\ AddNewSubsegment(p, s, FALSE)
        /\ phase' = [phase EXCEPT ![s] = "waiting"]
        /\ UNCHANGED <<base, due, again>>
    BY <1>2, CallFacts DEF CallbackStarts, Contexts
  <2>2. phase'[s] # "presigned" /\ \A d \in Subsegment : d # s => phase'[d] = phase[d]
    BY <2>1 DEF ShapeInv, CallsTypeOK
  <2> QED BY <1>0, <2>1, <2>2, AddAccounts
<1>3. ASSUME NEW s \in Subsegment, Ends(s) PROVE CounterAccounts' /\ AgainIsOver'
  <2>1. /\ s \in live /\ open' = open \ {s} /\ up' = up /\ counter' = Counted(up[s], -1)
        /\ phase[s] \in {"waiting", "responded", "ended", "failed"}
        /\ again' = IF s \in open THEN again ELSE again \cup {s}
        /\ UNCHANGED <<base, due>>
    BY <1>3, EndsEffect, CloseEffect
  <2>2. /\ s \in open <=> phase[s] \in {"waiting", "responded"}
        /\ phase \in [Subsegment -> Phase]
    BY <2>1 DEF ShapeInv, PhaseTells, CallsTypeOK
  <2>3. /\ s \notin open => phase'[s] = "over"
        /\ \A d \in Subsegment : d # s => phase'[d] = phase[d]
    <3>1. PICK to \in {"ended", "failed", "over"} :
            phase' = [phase EXCEPT ![s] = to]
            /\ (phase[s] \notin {"waiting", "responded"} => to = "over")
      BY <1>3 DEF Ends, Completes, ResponseEnds, RequestErrs, QueryEnds, QueryErrs, Closes
    <3> QED BY <2>2, <3>1
  <2> QED BY <1>0, <2>1, <2>2, <2>3, LessAccounts
<1>4. ASSUME NEW throws \in BOOLEAN, CallbackEnds(throws) PROVE CounterAccounts' /\ AgainIsOver'
  <2> DEFINE s == running[2]
  <2>1. /\ s \in Subsegment /\ phase[s] = "waiting" /\ CloseSubsegment(s)
        /\ phase' = [phase EXCEPT ![s] = "over"]
        /\ UNCHANGED <<base, due, again>>
    BY <1>4 DEF CallbackEnds, historyVars, ShapeInv, CallsTypeOK
  <2> HIDE DEF s
  <2>2. s \in live /\ open' = open \ {s} /\ up' = up /\ counter' = Counted(up[s], -1)
    BY <2>1, CloseEffect
  <2>3. s \in open /\ \A d \in Subsegment : d # s => phase'[d] = phase[d]
    BY <2>1, <2>2 DEF ShapeInv, PhaseTells, CallsTypeOK
  <2> QED BY <1>0, <2>1, <2>2, <2>3, LessAccounts
<1>5. ASSUME NEW s \in Subsegment, Presigns(s) PROVE CounterAccounts' /\ AgainIsOver'
  <2>1. UNCHANGED <<open, up, base, due, again>>
    BY <1>5 DEF Presigns, callbackVars, historyVars
  <2> QED BY <1>0, <1>5, <2>1, PresignsEffect, LessAccounts
<1>6. ASSUME NEW s \in Subsegment, Responds(s) \/ Sends(s) PROVE CounterAccounts' /\ AgainIsOver'
  <2>1. /\ UNCHANGED <<up, open, counter, base, due, again>>
        /\ phase[s] \in {"built", "waiting"}
        /\ \E to \in {"waiting", "responded"} : phase' = [phase EXCEPT ![s] = to]
    BY <1>6 DEF Responds, Sends, vars, callbackVars, historyVars
  <2>2. \A d \in Subsegment : /\ phase'[d] = "presigned" <=> phase[d] = "presigned"
                              /\ phase[d] = "over" => phase'[d] = "over"
    BY <2>1 DEF ShapeInv, CallsTypeOK
  <2> QED BY <1>0, <2>1, <2>2, SameAccounts
<1>7. ASSUME NEW c \in Callback, NEW p \in Node, Wraps(c, p) PROVE CounterAccounts' /\ AgainIsOver'
  BY <1>0, <1>7, WrapsAccounts
<1>8. CASE CallbackReturns
  BY <1>0, <1>8, ReturnsAccounts
<1>9. CASE SegmentCloses
  <2>1. /\ UNCHANGED <<up, counter, phase, base, due, again>> /\ open' = open \ {Root}
        /\ Root \notin Subsegment
    BY <1>9, SegmentClosesEffect, CallFacts
  <2> QED BY <1>0, <2>1, SameAccounts
<1>10. CASE UNCHANGED allVars
  <2>1. UNCHANGED <<up, open, counter, phase, base, due, again>>
    BY <1>10 DEF allVars, vars, callVars, callbackVars, historyVars
  <2> QED BY <1>0, <2>1, SameAccounts
<1> QED BY <1>1, <1>2, <1>3, <1>4, <1>5, <1>6, <1>7, <1>8, <1>9, <1>10 DEF CallsNext, Ends

-----------------------------------------------------------------------------
(* The counters, while none is overdrawn. *)

(* What was overdrawn stays so. *)
LEMMA StillInCredit ==
  ASSUME ShapeInv, [CallsNext]_allVars, ~Overdrawn'
  PROVE  ~Overdrawn
<1>1. again' = {} /\ due \in [Callback -> Int] /\ due' \in [Callback -> Int]
      /\ \A c \in Callback : ~(due'[c] < 0)
  BY StepShape DEF Overdrawn, ShapeInv, CallsTypeOK
<1>2. again = {}
  <2>1. ASSUME NEW s \in Subsegment, Ends(s) PROVE again = {}
    BY <2>1, <1>1, EndsEffect
  <2> QED BY <1>1, <2>1 DEF CallsNext, Ends, Calls, Responds, Sends, Presigns, Wraps,
             CallbackStarts, CallbackEnds, CallbackReturns, SegmentCloses, historyVars, allVars
<1>3. ASSUME NEW c \in Callback PROVE ~(due[c] < 0)
  <2>1. ASSUME NEW s \in Subsegment, Ends(s) PROVE due' = due
    BY <2>1, EndsEffect
  <2>2. ASSUME NEW b \in Callback, NEW p \in Node, Wraps(b, p) PROVE ~(due[c] < 0)
    <3>1. due[b] = 0 /\ due' = [due EXCEPT ![b] = 1]
      BY <2>2, WrapsEffect
    <3> QED BY <3>1, <1>1
  <2>3. ASSUME CallbackReturns PROVE ~(due[c] < 0)
    <3>1. PICK b : b = running[1]
      OBVIOUS
    <3>2. b \in Callback /\ due' = [due EXCEPT ![b] = due[b] - 1]
      BY <2>3, <3>1, ReturnsEffect
    <3>3. due'[c] >= 0 /\ (c # b => due'[c] = due[c]) /\ due'[b] = due[b] - 1
      BY <1>1, <3>2
    <3> QED BY <1>1, <3>2, <3>3
  <2>4. due' = due => ~(due[c] < 0)
    BY <1>1
  <2>5. \/ due' = due
        \/ \E b \in Callback, p \in Node : Wraps(b, p)
        \/ CallbackReturns
    BY <2>1 DEF CallsNext, Ends, Calls, Responds, Sends, Presigns, CallbackStarts,
                CallbackEnds, SegmentCloses, historyVars, allVars
  <2> QED BY <2>2, <2>3, <2>4, <2>5
<1> QED BY <1>2, <1>3 DEF Overdrawn

(* A counter that is not positive counts nothing. *)
LEMMA NoneLeft ==
  ASSUME NEW A \in SUBSET Subsegment, NEW B \in SUBSET Callback,
         Cardinality(A) + Cardinality(B) <= 0
  PROVE  A = {} /\ B = {}
<1>1. IsFiniteSet(A) /\ IsFiniteSet(B)
  BY SubsegmentAssumption, CallbackAssumption, FS_Subset
<1>2. Cardinality(A) \in Nat /\ Cardinality(B) \in Nat
  BY <1>1, FS_CardinalityType
<1>3. Cardinality(A) = 0 /\ Cardinality(B) = 0
  BY <1>2
<1> QED BY <1>1, <1>3, FS_EmptySet

(* The segment is settled when it is closed and its counter says so.       *)
LEMMA SettledNextMeans ==
  ASSUME ShapeInv', CounterAgrees', ~Overdrawn'
  PROVE  Settled' <=> Root \notin open' /\ counter'[Root] <= 0
<1>1. OpenCalls(Root)' \in SUBSET Subsegment /\ Holding(Root)' \in SUBSET Callback
  BY DEF OpenCalls, OpenUnder, Holding, Wrapped
<1>2. counter'[Root] = Cardinality(OpenCalls(Root)') + Cardinality(Holding(Root)')
  BY DEF CounterAgrees, Node
<1>3. Holding(Root)' = {} <=> \A c \in Callback : due'[c] = 0
  <2>1. ASSUME NEW c \in Callback
        PROVE  /\ due'[c] \in {0, 1} /\ (base'[c] = None => due'[c] = 0)
               /\ (base'[c] # None => Root \in {base'[c]} \cup up'[base'[c]])
    <3>1. due'[c] \in Int /\ due'[c] <= 1 /\ (base'[c] = None => due'[c] = 0) /\ ~(due'[c] < 0)
      BY DEF ShapeInv, CallsTypeOK, DueOnce, Overdrawn
    <3>2. base'[c] # None => base'[c] \in {Root} \cup live'
      BY DEF ShapeInv, CallsTypeOK
    <3>3. \A s \in live' : Root \in up'[s]
      BY DEF ShapeInv, TreeShape
    <3> QED BY <3>1, <3>2, <3>3
  <2>2. Holding(Root)' = {c \in Callback : base'[c] # None /\ Root \in {base'[c]} \cup up'[base'[c]]
                                             /\ due'[c] = 1}
    BY DEF Holding, Wrapped, Chain
  <2> QED BY <2>1, <2>2
<1>4. Cardinality({}) = 0
  BY FS_EmptySet
<1>5. Settled' => counter'[Root] <= 0
  BY <1>2, <1>3, <1>4 DEF Settled
<1>6. counter'[Root] <= 0 => OpenCalls(Root)' = {} /\ Holding(Root)' = {}
  BY <1>1, <1>2, NoneLeft
<1> QED BY <1>3, <1>5, <1>6 DEF Settled

(* A subsegment that was added is one more below each node of its chain.   *)
LEMMA AddAgrees ==
  ASSUME ShapeInv, CounterAgrees, NEW p \in {Root} \cup live, NEW s \in Subsegment,
         AddNewSubsegment(p, s, FALSE), phase'[s] # "presigned",
         \A d \in Subsegment : d # s => phase'[d] = phase[d],
         UNCHANGED <<base, due>>
  PROVE  /\ CounterAgrees'
         /\ \A n \in Node : OpenCalls(n)' = IF n \in Chain(p) THEN OpenCalls(n) \cup {s}
                                                              ELSE OpenCalls(n)
         /\ \A n \in Node : Holding(n)' = Holding(n)
<1>1. /\ s \notin live /\ s \in Node /\ s # Root /\ s \notin open /\ open' = open \cup {s}
      /\ up'[s] = Chain(p) /\ \A d \in Node : (d # s => up'[d] = up[d]) /\ s \notin up[d]
      /\ counter' = Counted(Chain(p), Added(s))
  BY AddEffect
<1>2. ASSUME NEW n \in Node
      PROVE  OpenCalls(n)' = IF n \in Chain(p) THEN OpenCalls(n) \cup {s} ELSE OpenCalls(n)
  <2>1. ASSUME NEW t \in Subsegment
        PROVE  t \in open' /\ n \in up'[t] /\ phase'[t] # "presigned" <=>
                 \/ t \in open /\ n \in up[t] /\ phase[t] # "presigned"
                 \/ t = s /\ n \in Chain(p)
    BY <1>1, <2>1 DEF Node
  <2> QED BY <2>1 DEF OpenCalls, OpenUnder
<1>3. \A c \in Callback : base[c] # None => base[c] # s /\ base[c] \in Node
  BY <1>1, CallFacts
<1>4. ASSUME NEW n \in Node PROVE Holding(n)' = Holding(n)
  <2>1. \A c \in Callback : base[c] # None => up'[base[c]] = up[base[c]]
    BY <1>1, <1>3
  <2> QED BY <2>1 DEF Holding, Wrapped, Chain
<1>5. ~Facade /\ counter \in [Node -> Int]
  BY CallFacts DEF ShapeInv, CallsTypeOK
<1>6. counter[s] = 0
  <2>1. OpenCalls(s) = {}
    BY <1>1 DEF OpenCalls, OpenUnder, Node
  <2>2. Holding(s) = {}
    BY <1>1, <1>3 DEF Holding, Wrapped, Chain
  <2>3. counter[s] = Cardinality({}) + Cardinality({})
    BY <1>1, <2>1, <2>2 DEF CounterAgrees
  <2> QED BY <2>3, FS_EmptySet
<1>7. \A n \in Node : counter'[n] = IF n \in Chain(p) THEN counter[n] + 1 ELSE counter[n]
  BY <1>1, <1>5, <1>6 DEF Counted, Added
<1>8. ASSUME NEW n \in Node
      PROVE  counter'[n] = Cardinality(OpenCalls(n)') + Cardinality(Holding(n)')
  <2>1. counter[n] = Cardinality(OpenCalls(n)) + Cardinality(Holding(n))
    BY DEF CounterAgrees
  <2>2. IsFiniteSet(OpenCalls(n)) /\ IsFiniteSet(Holding(n)) /\ s \notin OpenCalls(n)
    BY <1>1, CallsFinite DEF OpenCalls, OpenUnder
  <2>3. Cardinality(OpenCalls(n) \cup {s}) = Cardinality(OpenCalls(n)) + 1
        /\ Cardinality(OpenCalls(n)) \in Nat /\ Cardinality(Holding(n)) \in Nat
    BY <2>2, FS_AddElement, FS_CardinalityType
  <2>4. Holding(n)' = Holding(n)
    BY <1>4
  <2>5. CASE n \in Chain(p)
    <3>1. OpenCalls(n)' = OpenCalls(n) \cup {s}
      BY <1>2, <2>5
    <3>2. Cardinality(OpenCalls(n)') = Cardinality(OpenCalls(n)) + 1
      BY <2>3, <3>1
    <3>3. counter'[n] = counter[n] + 1
      BY <1>7, <2>5
    <3> QED BY <2>1, <2>3, <2>4, <3>2, <3>3
  <2>6. CASE n \notin Chain(p)
    BY <2>1, <2>4, <2>6, <1>2, <1>7
  <2> QED BY <2>5, <2>6
<1> QED BY <1>2, <1>4, <1>8 DEF CounterAgrees

(* One that no call is open for any more is one less, whether it is closed *)
(* or given up.                                                            *)
LEMMA LessAgrees ==
  ASSUME ShapeInv, CounterAgrees, NEW s \in live,
         s \in open, phase[s] # "presigned", s \notin open' \/ phase'[s] = "presigned",
         \A d \in Subsegment : d # s => (d \in open' <=> d \in open) /\ phase'[d] = phase[d],
         counter' = Counted(up[s], -1), UNCHANGED <<up, base, due>>
  PROVE  /\ CounterAgrees'
         /\ \A n \in Node : OpenCalls(n)' = OpenCalls(n) \ {s}
         /\ \A n \in Node : Holding(n)' = Holding(n)
<1>1. s \in Subsegment /\ ~Facade /\ counter \in [Node -> Int]
  BY CallFacts DEF ShapeInv, CallsTypeOK
<1>2. ASSUME NEW n \in Node PROVE OpenCalls(n)' = OpenCalls(n) \ {s}
  <2>1. ASSUME NEW t \in Subsegment
        PROVE  t \in open' /\ n \in up[t] /\ phase'[t] # "presigned" <=>
                 t # s /\ t \in open /\ n \in up[t] /\ phase[t] # "presigned"
    BY <2>1
  <2> QED BY <2>1 DEF OpenCalls, OpenUnder
<1>3. ASSUME NEW n \in Node PROVE Holding(n)' = Holding(n)
  BY DEF Holding, Wrapped, Chain
<1>4. ASSUME NEW n \in Node
      PROVE  counter'[n] = Cardinality(OpenCalls(n)') + Cardinality(Holding(n)')
  <2>1. counter[n] = Cardinality(OpenCalls(n)) + Cardinality(Holding(n))
    BY DEF CounterAgrees
  <2>2. IsFiniteSet(OpenCalls(n)) /\ IsFiniteSet(Holding(n))
    BY CallsFinite
  <2>3. Cardinality(OpenCalls(n)) \in Nat /\ Cardinality(Holding(n)) \in Nat
    BY <2>2, FS_CardinalityType
  <2>4. counter'[n] = IF n \in up[s] THEN counter[n] - 1 ELSE counter[n]
    BY <1>1 DEF Counted
  <2>5. s \in OpenCalls(n) <=> n \in up[s]
    BY <1>1 DEF OpenCalls, OpenUnder
  <2>6. CASE n \in up[s]
    <3>1. Cardinality(OpenCalls(n) \ {s}) = Cardinality(OpenCalls(n)) - 1
      BY <2>2, <2>5, <2>6, FS_RemoveElement
    <3>2. OpenCalls(n)' = OpenCalls(n) \ {s} /\ Holding(n)' = Holding(n)
      BY <1>2, <1>3
    <3>3. Cardinality(OpenCalls(n)') = Cardinality(OpenCalls(n)) - 1
      BY <3>1, <3>2
    <3> QED BY <2>1, <2>3, <2>4, <2>6, <3>2, <3>3
  <2>7. CASE n \notin up[s]
    <3>1. OpenCalls(n) \ {s} = OpenCalls(n)
      BY <2>5, <2>7
    <3> QED BY <3>1, <2>1, <2>3, <2>4, <2>7, <1>2, <1>3
  <2> QED BY <2>6, <2>7
<1> QED BY <1>2, <1>3, <1>4 DEF CounterAgrees

(* A callback holds one count of every node of its base's chain, from when *)
(* it is wrapped until it returns.                                         *)
LEMMA WrapsAgrees ==
  ASSUME ShapeInv, CounterAgrees, NEW c \in Callback, NEW p \in Node, Wraps(c, p)
  PROVE  /\ CounterAgrees'
         /\ \A n \in Node : OpenCalls(n)' = OpenCalls(n)
         /\ \A n \in Node : Holding(n)' = IF n \in Chain(p) THEN Holding(n) \cup {c}
                                                            ELSE Holding(n)
<1>1. UNCHANGED <<live, up, open, phase>>
  BY DEF Wraps, callVars
<1>2. ~Facade /\ counter \in [Node -> Int] /\ p # None /\ base[c] = None
  BY CallFacts, WrapsEffect DEF ShapeInv, CallsTypeOK
<1>3. /\ base'[c] = p /\ \A b \in Callback : b # c => base'[b] = base[b]
      /\ due'[c] = 1 /\ \A b \in Callback : b # c => due'[b] = due[b]
  BY WrapsEffect DEF ShapeInv, CallsTypeOK
<1>4. ASSUME NEW n \in Node PROVE OpenCalls(n)' = OpenCalls(n)
  BY <1>1 DEF OpenCalls, OpenUnder
<1>5. ASSUME NEW n \in Node
      PROVE  Holding(n)' = IF n \in Chain(p) THEN Holding(n) \cup {c} ELSE Holding(n)
  <2>1. ASSUME NEW b \in Callback
        PROVE  base'[b] # None /\ n \in {base'[b]} \cup up[base'[b]] /\ due'[b] = 1 <=>
                 \/ base[b] # None /\ n \in {base[b]} \cup up[base[b]] /\ due[b] = 1
                 \/ b = c /\ n \in {p} \cup up[p]
    <3>1. CASE b = c
      BY <3>1, <1>2, <1>3
    <3>2. CASE b # c
      BY <3>2, <1>3
    <3> QED BY <3>1, <3>2
  <2> QED BY <1>1, <2>1 DEF Holding, Wrapped, Chain
<1>6. ASSUME NEW n \in Node
      PROVE  counter'[n] = Cardinality(OpenCalls(n)') + Cardinality(Holding(n)')
  <2>1. counter[n] = Cardinality(OpenCalls(n)) + Cardinality(Holding(n))
    BY DEF CounterAgrees
  <2>2. IsFiniteSet(OpenCalls(n)) /\ IsFiniteSet(Holding(n)) /\ c \notin Holding(n)
    BY <1>2, CallsFinite DEF Holding, Wrapped
  <2>3. Cardinality(Holding(n) \cup {c}) = Cardinality(Holding(n)) + 1
        /\ Cardinality(OpenCalls(n)) \in Nat /\ Cardinality(Holding(n)) \in Nat
    BY <2>2, FS_AddElement, FS_CardinalityType
  <2>4. counter'[n] = IF n \in Chain(p) THEN counter[n] + 1 ELSE counter[n]
    BY <1>2, WrapsEffect DEF Counted
  <2>5. OpenCalls(n)' = OpenCalls(n)
    BY <1>4
  <2>6. CASE n \in Chain(p)
    <3>1. Holding(n)' = Holding(n) \cup {c}
      BY <1>5, <2>6
    <3>2. Cardinality(Holding(n)') = Cardinality(Holding(n)) + 1
      BY <2>3, <3>1
    <3> QED BY <2>1, <2>3, <2>4, <2>5, <2>6, <3>2
  <2>7. CASE n \notin Chain(p)
    <3>1. Holding(n)' = Holding(n)
      BY <1>5, <2>7
    <3> QED BY <2>1, <2>4, <2>5, <2>7, <3>1
  <2> QED BY <2>6, <2>7
<1> QED BY <1>4, <1>5, <1>6 DEF CounterAgrees

(* Its return gives the counts back. *)
LEMMA ReturnsAgrees ==
  ASSUME ShapeInv, CounterAgrees, CallbackReturns, ~Overdrawn', NEW c, c = running[1]
  PROVE  /\ CounterAgrees' /\ due[c] = 1 /\ due'[c] = 0
         /\ \A b \in Callback : b # c => due'[b] = due[b]
         /\ \A n \in Node : OpenCalls(n)' = OpenCalls(n)
         /\ \A n \in Node : Holding(n)' = Holding(n) \ {c}
<1>1. UNCHANGED <<live, up, open, phase, base>>
  BY DEF CallbackReturns, callVars
<1>2. ~Facade /\ counter \in [Node -> Int] /\ c \in Callback /\ base[c] # None
      /\ due \in [Callback -> Int]
  BY CallFacts, ReturnsEffect DEF ShapeInv, CallsTypeOK
<1>3. /\ due'[c] = due[c] - 1 /\ \A b \in Callback : b # c => due'[b] = due[b]
  BY <1>2, ReturnsEffect
<1>4. due[c] = 1 /\ due'[c] = 0
  <2>1. due[c] \in Int /\ due[c] <= 1 /\ ~(due'[c] < 0)
    BY <1>2 DEF ShapeInv, DueOnce, Overdrawn
  <2> QED BY <2>1, <1>3
<1>5. ASSUME NEW n \in Node PROVE OpenCalls(n)' = OpenCalls(n)
  BY <1>1 DEF OpenCalls, OpenUnder
<1>6. ASSUME NEW n \in Node PROVE Holding(n)' = Holding(n) \ {c}
  <2>1. ASSUME NEW b \in Callback PROVE due'[b] = 1 <=> b # c /\ due[b] = 1
    BY <1>3, <1>4
  <2> QED BY <1>1, <2>1 DEF Holding, Wrapped, Chain
<1>7. ASSUME NEW n \in Node
      PROVE  counter'[n] = Cardinality(OpenCalls(n)') + Cardinality(Holding(n)')
  <2>1. counter[n] = Cardinality(OpenCalls(n)) + Cardinality(Holding(n))
    BY DEF CounterAgrees
  <2>2. IsFiniteSet(OpenCalls(n)) /\ IsFiniteSet(Holding(n))
    BY CallsFinite
  <2>3. Cardinality(OpenCalls(n)) \in Nat /\ Cardinality(Holding(n)) \in Nat
    BY <2>2, FS_CardinalityType
  <2>4. counter'[n] = IF n \in Chain(base[c]) THEN counter[n] - 1 ELSE counter[n]
    BY <1>2, ReturnsEffect DEF Counted
  <2>5. c \in Holding(n) <=> n \in Chain(base[c])
    BY <1>2, <1>4 DEF Holding, Wrapped
  <2>6. CASE n \in Chain(base[c])
    <3>1. Cardinality(Holding(n) \ {c}) = Cardinality(Holding(n)) - 1
      BY <2>2, <2>5, <2>6, FS_RemoveElement
    <3>2. OpenCalls(n)' = OpenCalls(n) /\ Holding(n)' = Holding(n) \ {c}
      BY <1>5, <1>6
    <3>3. Cardinality(Holding(n)') = Cardinality(Holding(n)) - 1
      BY <3>1, <3>2
    <3> QED BY <2>1, <2>3, <2>4, <2>6, <3>2, <3>3
  <2>7. CASE n \notin Chain(base[c])
    <3>1. Holding(n) \ {c} = Holding(n)
      BY <2>5, <2>7
    <3> QED BY <3>1, <2>1, <2>3, <2>4, <2>7, <1>5, <1>6
  <2> QED BY <2>6, <2>7
<1> QED BY <1>3, <1>4, <1>5, <1>6, <1>7 DEF CounterAgrees

(* Nothing else counts. *)
LEMMA SameAgrees ==
  ASSUME ShapeInv, CounterAgrees, UNCHANGED <<up, counter, base, due>>,
         \A d \in Subsegment : d \in open' <=> d \in open,
         \A d \in Subsegment : phase'[d] = "presigned" <=> phase[d] = "presigned"
  PROVE  /\ CounterAgrees'
         /\ \A n \in Node : OpenCalls(n)' = OpenCalls(n)
         /\ \A n \in Node : Holding(n)' = Holding(n)
<1>1. \A n \in Node : OpenCalls(n)' = OpenCalls(n)
  BY DEF OpenCalls, OpenUnder
<1>2. \A n \in Node : Holding(n)' = Holding(n)
  BY DEF Holding, Wrapped, Chain
<1> QED BY <1>1, <1>2 DEF CounterAgrees

-----------------------------------------------------------------------------
(* What is sent, while no counter is overdrawn. *)

(* What CallsInv says of the documents. *)
Delivered ==
  /\ OpenIsUnsent
  /\ PledgeHeld
  /\ MadeHeld
  /\ SettledIsSent
  /\ ~late => NotRepeated

(* What SegmentWaits says of a step. *)
Waits == sent'[Root] > sent[Root] => Settled'

(* A step streams docs, of which flushed are sent, out of the arrays k:    *)
(* nothing below them is open, and no callback will come back to them.     *)
Streaming(k, docs, flushed) ==
  /\ docs \subseteq live' /\ flushed \subseteq docs
  /\ kept' = k \ docs
  /\ sent' = Emitted(up', k, flushed)
  /\ \A x \in docs \ flushed : x \in notTraced'
  /\ \A x \in docs : x \notin open' /\ OpenCalls(x)' = {} /\ Holding(x)' = {}

(* The promises as they stand before anything is sent from k. *)
Promised(k) ==
  /\ k \subseteq live' /\ sent \in [Node -> Nat]
  /\ \A s \in live' : phase'[s] = "presigned" => s \notin k
  /\ \A s \in live' \cap open' : sent[s] = 0
  /\ \A c \in pledged' : due'[c] = 1 => base'[c] \in {Root} \cup Within(up', k, Root)
  /\ \A s \in made' : s \in notTraced' \/ sent[s] > 0 \/ s \in Within(up', k, Root)

(* Nothing that can be sent from k was sent before. *)
Fresh(k, docs) ==
  /\ sent[Root] = 0 /\ \A n \in Node : sent[n] <= 1
  /\ \A d \in Document(up', k, Root) : sent[d] = 0
  /\ \A s \in live' \cap open' : \A d \in Document(up', k, s) : sent[d] = 0
  /\ \A x \in docs : \A d \in Document(up', k, x) : sent[d] = 0

(* Nothing is below a presigned subsegment, and an open one without a      *)
(* presigned URL is an open call of what is above it.                      *)
LEMMA OpenFacts ==
  ASSUME ShapeInv', NEW s \in live'
  PROVE  /\ s \in Subsegment /\ s \in Node /\ s # Root /\ Root \in up'[s]
         /\ phase'[s] = "presigned" => \A d \in live' : s \notin up'[d]
         /\ \A x : s \in open' /\ x \in up'[s] /\ phase'[s] # "presigned" => s \in OpenCalls(x)'
<1>1. s \in Subsegment /\ s \in Node /\ s # Root
  BY SubsegmentAssumption DEF ShapeInv, CallsTypeOK, Node
<1>2. Root \in up'[s]
  BY DEF ShapeInv, TreeShape
<1>3. phase'[s] = "presigned" => \A d \in live' : s \notin up'[d]
  BY DEF ShapeInv, CallsTypeOK
<1>4. \A x : s \in open' /\ x \in up'[s] /\ phase'[s] # "presigned" => s \in OpenCalls(x)'
  BY <1>1 DEF OpenCalls, OpenUnder
<1> QED BY <1>1, <1>2, <1>3, <1>4

(* What is streamed is never what is open, nor above it. *)
LEMMA StreamedApart ==
  ASSUME ShapeInv', NEW k, NEW docs, NEW flushed, Promised(k), Streaming(k, docs, flushed),
         NEW s \in live' \cap open', NEW x \in docs
  PROVE  s \notin Document(up', k, x) /\ (x \in up'[s] => \A d \in live' : s \notin up'[d])
<1>1. x \notin open' /\ OpenCalls(x)' = {} /\ x # s
  BY DEF Streaming
<1>2. x \in up'[s] => phase'[s] = "presigned"
  BY <1>1, OpenFacts
<1>3. phase'[s] = "presigned" => s \notin k
  BY DEF Promised
<1> QED BY <1>1, <1>2, <1>3, OpenFacts DEF Document, Within

(* Streaming keeps the promises. *)
LEMMA StreamKeeps ==
  ASSUME ShapeInv', ~Settled', NEW k, NEW docs, NEW flushed,
         Promised(k), Streaming(k, docs, flushed), ~late' => Fresh(k, docs)
  PROVE  Delivered' /\ Waits
<1>1. /\ docs \in SUBSET live' /\ flushed \in SUBSET docs /\ k \in SUBSET live'
      /\ kept' = k \ docs /\ sent \in [Node -> Nat]
      /\ live' \in SUBSET Subsegment /\ Root \notin Subsegment /\ Root \in Node
      /\ Subsegment \subseteq Node
  BY SubsegmentAssumption DEF Streaming, Promised, ShapeInv, CallsTypeOK, Node
<1>2. Ordered(up', live')
  BY DEF ShapeInv, TreeShape, Ordered
<1>3. \A n \in Node : sent'[n] = IF \E x \in flushed : n \in Document(up', k, x)
                                   THEN sent[n] + 1 ELSE sent[n]
  BY DEF Streaming, Emitted
<1>4. \A d \in Subsegment : d \in InTree' <=>
        d \in Within(up', k, Root) /\ \A x \in docs : d \notin Document(up', k, x)
  <2>1. \A x \in docs : Root \in up'[x]
    BY <1>1, OpenFacts
  <2>2. \A d \in Subsegment : d \in Within(up', k \ docs, Root) <=>
          d \in Within(up', k, Root) /\ \A x \in docs : Root \in up'[x] => d \notin Document(up', k, x)
    BY <1>1, <1>2, CutAt
  <2> QED BY <1>1, <2>1, <2>2 DEF InTree
<1>5. \A s \in live' \cap open' : s \in Node /\ sent[s] = 0 /\ sent'[s] = 0
  <2>1. ASSUME NEW s \in live' \cap open' PROVE s \in Node /\ sent[s] = 0 /\ sent'[s] = 0
    <3>1. \A x \in docs : s \notin Document(up', k, x)
      BY StreamedApart
    <3>2. s \in Node /\ sent[s] = 0
      BY OpenFacts DEF Promised
    <3> QED BY <3>1, <3>2, <1>1, <1>3
  <2> QED BY <2>1
<1>6. OpenIsUnsent'
  BY <1>5 DEF OpenIsUnsent
<1>7. PledgeHeld'
  <2>1. ASSUME NEW c \in pledged', due'[c] = 1, base'[c] # Root
        PROVE  base'[c] \in InTree'
    <3>1. base'[c] \in Within(up', k, Root)
      BY <2>1 DEF Promised
    <3>2. c \in Callback /\ base'[c] # None /\ base'[c] \in Subsegment
      BY <2>1, <3>1, <1>1 DEF ShapeInv, CallsTypeOK, DueOnce, Within
    <3>3. ASSUME NEW x \in docs, base'[c] \in Document(up', k, x) PROVE FALSE
      <4>1. x \in {base'[c]} \cup up'[base'[c]]
        BY <3>3 DEF Document, Within
      <4>2. c \in Holding(x)'
        BY <4>1, <3>2, <2>1 DEF Holding, Wrapped, Chain
      <4> QED BY <4>2, <3>3 DEF Streaming
    <3> QED BY <3>1, <3>2, <3>3, <1>4
  <2> QED BY <2>1 DEF PledgeHeld
<1>8. MadeHeld'
  <2>1. ASSUME NEW s \in made', s \notin notTraced', ~(sent'[s] > 0)
        PROVE  s \in InTree'
    <3>1. s \in live' /\ s \in Node /\ s \in Subsegment
      BY <1>1 DEF ShapeInv, CallsTypeOK
    <3>2. ~(sent[s] > 0) /\ ~\E x \in flushed : s \in Document(up', k, x)
      BY <2>1, <3>1, <1>1, <1>3
    <3>3. s \in Within(up', k, Root)
      BY <2>1, <3>2 DEF Promised
    <3>4. ASSUME NEW x \in docs, s \in Document(up', k, x) PROVE FALSE
      <4>1. x \in notTraced' /\ (s = x \/ x \in up'[s])
        BY <3>2, <3>4 DEF Streaming, Document, Within
      <4> QED BY <4>1, <3>1, <2>1 DEF ShapeInv, DecisionInherited
    <3> QED BY <3>1, <3>3, <3>4, <1>4
  <2> QED BY <2>1 DEF MadeHeld
<1>9. sent'[Root] = sent[Root]
  <2>1. \A x \in flushed : Root \notin Document(up', k, x)
    BY <1>1 DEF Document, Within
  <2> QED BY <2>1, <1>1, <1>3
<1>10. ASSUME ~late' PROVE NotRepeated'
  <2>1. Fresh(k, docs)
    BY <1>10
  <2>2. \A n \in Node : sent'[n] <= 1
    <3>1. ASSUME NEW n \in Node PROVE sent'[n] <= 1
      <4>1. sent[n] \in Nat /\ sent[n] <= 1
        BY <2>1, <1>1 DEF Fresh
      <4>2. ASSUME NEW x \in flushed, n \in Document(up', k, x) PROVE sent[n] = 0
        BY <4>2, <2>1, <1>1 DEF Fresh
      <4> QED BY <4>1, <4>2, <1>3
    <3> QED BY <3>1
  <2>3. sent'[Root] = 0
    BY <2>1, <1>9 DEF Fresh
  <2>4. Unsent(Root)'
    <3>1. ASSUME NEW d \in Within(up', k \ docs, Root) PROVE sent'[d] = 0
      <4>1. d \in Subsegment /\ d \in Node
        BY <1>1 DEF Within
      <4>2. d \in InTree'
        BY <1>1 DEF InTree
      <4>3. d \in Within(up', k, Root) /\ \A x \in flushed : d \notin Document(up', k, x)
        BY <4>1, <4>2, <1>1, <1>4
      <4>4. sent[d] = 0
        BY <4>3, <2>1 DEF Fresh, Document
      <4> QED BY <4>1, <4>3, <4>4, <1>3
    <3> QED BY <3>1, <2>3, <1>1 DEF Unsent, Document
  <2>5. ASSUME NEW s \in live' \cap open' PROVE Unsent(s)'
    <3>1. ASSUME NEW d \in Within(up', k \ docs, s) PROVE sent'[d] = 0
      <4>1. d \in Subsegment /\ d \in Node /\ d \in live' /\ s \in up'[d]
        BY <1>1 DEF Within
      <4>2. d \in Within(up', k, s) /\ \A x \in docs : s \in up'[x] => d \notin Document(up', k, x)
        BY <4>1, <1>1, <1>2, CutAt
      <4>3. sent[d] = 0
        BY <4>2, <2>1 DEF Fresh, Document
      <4>4. ASSUME NEW x \in flushed, d \in Document(up', k, x) PROVE FALSE
        <5>1. x \in docs /\ x # s /\ s \notin up'[x]
          BY <4>2, <4>4, <1>1 DEF Streaming
        <5>2. x \in up'[d]
          BY <5>1, <4>1, <4>4 DEF Document, Within
        <5>3. x \in up'[s]
          BY <5>1, <5>2, <4>1, <1>2 DEF Ordered
        <5> QED BY <5>1, <5>3, <4>1, StreamedApart
      <4> QED BY <4>1, <4>3, <4>4, <1>3
    <3> QED BY <3>1, <1>1, <1>5 DEF Unsent, Document
  <2> QED BY <2>2, <2>3, <2>4, <2>5 DEF NotRepeated
<1>11. SettledIsSent'
  BY DEF SettledIsSent
<1>12. Waits
  BY <1>1, <1>9 DEF Waits
<1> QED BY <1>6, <1>7, <1>8, <1>10, <1>11, <1>12 DEF Delivered

(* So does the flush of the segment, once it is settled.                   *)
LEMMA FlushKeeps ==
  ASSUME ShapeInv', Settled', Promised(kept'),
         sent' = IF Root \in notTraced' THEN sent ELSE Emitted(up', kept', {Root}),
         ~late' => Fresh(kept', {})
  PROVE  Delivered' /\ Waits
<1>1. /\ kept' \in SUBSET live' /\ sent \in [Node -> Nat]
      /\ live' \in SUBSET Subsegment /\ Root \notin Subsegment /\ Root \in Node
      /\ Subsegment \subseteq Node
  BY SubsegmentAssumption DEF Promised, ShapeInv, CallsTypeOK, Node
<1>2. \A n \in Node : sent'[n] = IF Root \notin notTraced' /\ n \in Document(up', kept', Root)
                                   THEN sent[n] + 1 ELSE sent[n]
  BY DEF Emitted
<1>3. ASSUME NEW s \in live' \cap open'
      PROVE  s \in Node /\ s \notin kept' /\ sent[s] = 0 /\ sent'[s] = 0
             /\ \A d \in live' : s \notin up'[d]
  <2>1. OpenCalls(Root)' = {}
    BY DEF Settled
  <2>2. phase'[s] = "presigned" /\ s \in Node /\ s # Root /\ \A d \in live' : s \notin up'[d]
    BY <2>1, OpenFacts
  <2>3. s \notin kept' /\ sent[s] = 0
    BY <2>2 DEF Promised
  <2> QED BY <2>2, <2>3, <1>2 DEF Document, Within
<1>4. OpenIsUnsent'
  BY <1>3 DEF OpenIsUnsent
<1>5. PledgeHeld'
  BY DEF PledgeHeld, Promised, InTree
<1>6. MadeHeld'
  <2>1. ASSUME NEW s \in made' PROVE s \in notTraced' \/ sent'[s] > 0 \/ s \in InTree'
    <3>1. s \in Node
      BY <1>1 DEF ShapeInv, CallsTypeOK
    <3>2. sent[s] > 0 => sent'[s] > 0
      BY <3>1, <1>1, <1>2
    <3>3. s \in notTraced' \/ sent[s] > 0 \/ s \in InTree'
      BY DEF Promised, InTree
    <3> QED BY <3>2, <3>3
  <2> QED BY <2>1 DEF MadeHeld
<1>7. SettledIsSent'
  <2>1. ASSUME NEW s \in InTree' PROVE s \in notTraced' \/ sent'[s] > 0
    <3>1. s \in live' /\ s \in Node /\ Root \in up'[s] /\ s \in Document(up', kept', Root)
      BY <1>1 DEF InTree, Within, Document
    <3>2. Root \in notTraced' => s \in notTraced'
      BY <3>1 DEF ShapeInv, DecisionInherited
    <3>3. sent[s] \in Nat
      BY <3>1, <1>1
    <3>4. Root \notin notTraced' => sent'[s] = sent[s] + 1
      BY <3>1, <1>2
    <3> QED BY <3>2, <3>3, <3>4
  <2> QED BY <2>1 DEF SettledIsSent
<1>8. ASSUME ~late' PROVE NotRepeated'
  <2>1. Fresh(kept', {})
    BY <1>8
  <2>2. ASSUME NEW n \in Node PROVE sent'[n] <= 1
    BY <2>1, <1>1, <1>2 DEF Fresh
  <2>3. ASSUME NEW s \in live' \cap open' PROVE Unsent(s)'
    BY <1>1, <1>3 DEF Unsent, Document, Within
  <2>4. CASE Root \in notTraced'
    <3>1. sent'[Root] = 0 /\ Unsent(Root)'
      BY <2>1, <2>4 DEF Fresh, Unsent
    <3> QED BY <2>2, <2>3, <3>1 DEF NotRepeated
  <2>5. CASE Root \notin notTraced'
    <3>1. sent'[Root] = 1
      <4>1. Root \in Document(up', kept', Root)
        BY DEF Document
      <4>2. sent'[Root] = sent[Root] + 1
        BY <4>1, <2>5, <1>1, <1>2
      <4> QED BY <4>2, <2>1 DEF Fresh
    <3> QED BY <2>2, <2>3, <3>1 DEF NotRepeated
  <2> QED BY <2>4, <2>5
<1>9. Waits
  BY DEF Waits
<1> QED BY <1>4, <1>5, <1>6, <1>7, <1>8, <1>9 DEF Delivered

(* Nothing is streamed. *)
LEMMA NoStreaming ==
  ASSUME sent \in [Node -> Nat], sent' = sent, NEW k, kept' = k
  PROVE  Streaming(k, {}, {})
<1>1. sent = Emitted(up', k, {})
  BY DEF Emitted
<1> QED BY <1>1 DEF Streaming

(* A node that is complete holds nothing that is open or due.              *)
LEMMA CompleteIsDone ==
  ASSUME CounterAgrees', NEW x \in Node, counter'[x] <= 0
  PROVE  OpenCalls(x)' = {} /\ Holding(x)' = {}
<1>1. OpenCalls(x)' \in SUBSET Subsegment /\ Holding(x)' \in SUBSET Callback
  BY DEF OpenCalls, OpenUnder, Holding, Wrapped
<1>2. Cardinality(OpenCalls(x)') + Cardinality(Holding(x)') <= 0
  BY DEF CounterAgrees
<1> QED BY <1>1, <1>2, NoneLeft

(* Complete subsegments that are streamed, whatever of them is sent, are   *)
(* what Streaming asks for.                                                *)
LEMMA StreamsComplete ==
  ASSUME ShapeInv, ShapeInv', CounterAgrees', live \subseteq live', notTraced \subseteq notTraced',
         NEW k, NEW docs \in SUBSET live,
         \A x \in docs : x \notin open' /\ counter'[x] <= 0,
         kept' = k \ docs, sent' = Emitted(up', k, docs \cap Flushable)
  PROVE  Streaming(k, docs, docs \cap Flushable)
<1>1. ASSUME NEW x \in docs PROVE OpenCalls(x)' = {} /\ Holding(x)' = {}
  BY CallFacts, CompleteIsDone
<1>2. ASSUME NEW x \in docs, x \notin Flushable PROVE x \in notTraced
  <2>1. x \in withSegment /\ x \in live /\ Root \in up[x]
    BY CallFacts
  <2> QED BY <1>2, <2>1 DEF Flushable, ShapeInv, DecisionInherited
<1> QED BY <1>1, <1>2 DEF Streaming

(* Before the tree has changed the promises stand. *)
LEMMA PromisedSame ==
  ASSUME ShapeInv, Delivered, UNCHANGED <<live, up, notTraced, made>>, open' \subseteq open,
         \A s \in live : phase'[s] = "presigned" => s \notin kept,
         \A c \in pledged' : due'[c] = 1 => base'[c] \in {Root} \cup InTree
  PROVE  Promised(kept)
<1>1. kept \subseteq live' /\ sent \in [Node -> Nat]
  BY DEF ShapeInv, CallsTypeOK
<1>2. \A s \in live' \cap open' : sent[s] = 0
  BY DEF Delivered, OpenIsUnsent
<1>3. \A s \in made' : s \in notTraced' \/ sent[s] > 0 \/ s \in Within(up', kept, Root)
  BY DEF Delivered, MadeHeld, InTree
<1>4. \A c \in pledged' : due'[c] = 1 => base'[c] \in {Root} \cup Within(up', kept, Root)
  BY DEF InTree
<1> QED BY <1>1, <1>2, <1>3, <1>4 DEF Promised

(* While the segment is not settled, nothing of its tree has been sent,    *)
(* unless something came late.                                             *)
LEMMA NothingSentYet ==
  ASSUME Delivered, ~late, ~Settled \/ sent[Root] = 0
  PROVE  /\ sent[Root] = 0 /\ \A n \in Node : sent[n] <= 1
         /\ \A d \in Document(up, kept, Root) : sent[d] = 0
         /\ \A s \in live \cap open : \A d \in Document(up, kept, s) : sent[d] = 0
<1>1. NotRepeated
  BY DEF Delivered
<1>2. sent[Root] = 0
  BY <1>1 DEF NotRepeated
<1> QED BY <1>1, <1>2 DEF NotRepeated, Unsent

(* So nothing that is streamed from it, or from an open node, was sent.    *)
LEMMA FreshSame ==
  ASSUME ShapeInv, Delivered, ~late, ~Settled \/ sent[Root] = 0,
         UNCHANGED <<live, up>>, open' \subseteq open,
         NEW t \in {Root} \cup (live \cap open), NEW docs \in SUBSET Document(up, kept, t)
  PROVE  Fresh(kept, docs)
<1>1. \A x \in docs : Document(up, kept, x) \subseteq Document(up, kept, t)
  BY CallFacts, Nested
<1>2. \A d \in Document(up, kept, t) : sent[d] = 0
  BY NothingSentYet
<1> QED BY <1>1, <1>2, NothingSentYet DEF Fresh

(* The close of an open subsegment. *)
LEMMA CloseKeeps ==
  ASSUME ShapeInv, CounterAgrees, Delivered, ShapeInv', ~Overdrawn',
         NEW s \in Subsegment, CloseSubsegment(s), s \in open,
         phase[s] # "presigned", phase'[s] # "presigned",
         \A d \in Subsegment : d # s => phase'[d] = phase[d],
         UNCHANGED <<base, due, pledged, made, late>>
  PROVE  CounterAgrees' /\ Delivered' /\ Waits
<1>1. /\ s \in live /\ open' = open \ {s} /\ UNCHANGED <<live, up, withSegment, notTraced>>
      /\ counter' = Counted(up[s], -1) /\ Root \in up[s] /\ ~Facade /\ s # Root /\ s \in withSegment
  BY CloseEffect, CallFacts
<1>2. CounterAgrees'
  BY <1>1, LessAgrees
<1>3. Promised(kept)
  <2>1. \A d \in live : phase'[d] = "presigned" => d \notin kept
    BY CallFacts DEF ShapeInv, PhaseTells
  <2> QED BY <1>1, <2>1, PromisedSame DEF Delivered, PledgeHeld
<1>4. ~Settled
  <2>1. s \in OpenCalls(Root)
    BY <1>1 DEF OpenCalls, OpenUnder
  <2> QED BY <2>1 DEF Settled
<1>5. ASSUME NEW docs \in SUBSET Document(up, kept, s), ~late' PROVE Fresh(kept, docs)
  BY <1>1, <1>4, <1>5, FreshSame
<1>6. Settled' <=> Root \notin open' /\ counter'[Root] <= 0
  BY <1>2, SettledNextMeans
<1>7. counter'[Root] \in Int
  BY CloseEffect, CallFacts
<1>8. CASE LastOfClosedSegment(s)
  <2>1. sent' = (IF Root \in notTraced THEN sent ELSE Emitted(up, kept, {Root})) /\ kept' = kept
    BY <1>8 DEF CloseSubsegment, FlushSegment
  <2>2. Settled'
    BY <1>1, <1>6, <1>8 DEF LastOfClosedSegment
  <2>3. ~late' => Fresh(kept, {})
    BY <1>5
  <2> QED BY <1>1, <1>2, <1>3, <2>1, <2>2, <2>3, FlushKeeps
<1>9. CASE ~LastOfClosedSegment(s) /\ OverThreshold(counter')
  <2> DEFINE docs == Streamed(up, kept, s, Complete(open', counter'))
  <2>1. sent' = Emitted(up, kept, docs \cap Flushable) /\ kept' = kept \ docs
    BY <1>1, <1>9 DEF CloseSubsegment, Pruned
  <2>2. /\ docs \subseteq Document(up, kept, s)
        /\ \A x \in docs : x \in Subsegment /\ x \notin open' /\ counter'[x] <= 0
    BY StreamedBelow
  <2> HIDE DEF docs
  <2>3. docs \in SUBSET live
    BY <1>1, <2>2, CallFacts DEF Document, Within
  <2>4. Streaming(kept, docs, docs \cap Flushable)
    BY <1>1, <1>2, <2>1, <2>2, <2>3, StreamsComplete
  <2>5. ~Settled'
    BY <1>6, <1>7, <1>9, ThresholdAssumption DEF OverThreshold
  <2>6. ~late' => Fresh(kept, docs)
    BY <1>5, <2>2
  <2> QED BY <1>2, <1>3, <2>4, <2>5, <2>6, StreamKeeps
<1>10. CASE ~LastOfClosedSegment(s) /\ ~OverThreshold(counter')
  <2>1. sent' = sent /\ kept' = kept
    BY <1>10 DEF CloseSubsegment
  <2>2. Streaming(kept, {}, {})
    BY <2>1, NoStreaming DEF ShapeInv, CallsTypeOK
  <2>3. ~Settled'
    BY <1>1, <1>6, <1>10 DEF LastOfClosedSegment
  <2>4. ~late' => Fresh(kept, {})
    BY <1>5
  <2> QED BY <1>2, <1>3, <2>2, <2>3, <2>4, StreamKeeps
<1> QED BY <1>8, <1>9, <1>10

(* An event that ends a call closes it once. *)
LEMMA EndsKeeps ==
  ASSUME ShapeInv, CounterAgrees, Delivered, ~Overdrawn', NEW s \in Subsegment, Ends(s)
  PROVE  CounterAgrees' /\ Delivered' /\ Waits
<1>1. s \in open
  BY EndsEffect DEF Overdrawn
<1>2. ShapeInv'
  BY EndsShape
<1>3. phase[s] # "presigned"
  BY EndsEffect
<1>4. phase'[s] # "presigned" /\ \A d \in Subsegment : d # s => phase'[d] = phase[d]
  BY EndsEffect DEF ShapeInv, CallsTypeOK
<1>5. CloseSubsegment(s) /\ UNCHANGED <<base, due, pledged, made, late>>
  BY EndsEffect
<1> QED BY <1>1, <1>2, <1>3, <1>4, <1>5, CloseKeeps

(* The end of a callback closes the subsegment captureFunc gave it.        *)
LEMMA CallbackEndsKeeps ==
  ASSUME ShapeInv, CounterAgrees, Delivered, ~Overdrawn', NEW throws \in BOOLEAN,
         CallbackEnds(throws)
  PROVE  CounterAgrees' /\ Delivered' /\ Waits
<1>0. PICK s : s = running[2]
  OBVIOUS
<1>1. s \in Subsegment /\ s \in live
  BY <1>0 DEF CallbackEnds, ShapeInv, CallsTypeOK
<1>2. phase[s] = "waiting" /\ s \in open
  BY <1>0, <1>1 DEF CallbackEnds, ShapeInv, PhaseTells
<1>3. phase'[s] # "presigned" /\ \A d \in Subsegment : d # s => phase'[d] = phase[d]
  BY <1>0, <1>1 DEF CallbackEnds, ShapeInv, CallsTypeOK
<1>4. CloseSubsegment(s) /\ UNCHANGED <<base, due, pledged, made, late>>
  BY <1>0 DEF CallbackEnds, historyVars
<1>5. ShapeInv'
  BY CallbackEndsShape
<1> QED BY <1>1, <1>2, <1>3, <1>4, <1>5, CloseKeeps

(* A new subsegment, of a call or of a callback. *)
LEMMA AddKeeps ==
  ASSUME ShapeInv, CounterAgrees, Delivered, ShapeInv',
         NEW p \in {Root} \cup live, NEW s \in Subsegment, AddNewSubsegment(p, s, FALSE),
         phase'[s] # "presigned", \A d \in Subsegment : d # s => phase'[d] = phase[d],
         UNCHANGED <<base, due, pledged>>, late' = (late \/ sent[Root] > 0),
         made' = made \/ (made' = made \cup {s} /\ p \in {Root} \cup InTree)
  PROVE  CounterAgrees' /\ Delivered' /\ Waits
<1>0. PICK k : k = kept \cup {s}
  OBVIOUS
<1>1. /\ s \notin live /\ s \notin open /\ s \notin kept /\ s \in Node /\ s # Root /\ p # s
      /\ live' = live \cup {s} /\ open' = open \cup {s}
      /\ up'[s] = Chain(p)
      /\ \A d \in Node : (d # s => up'[d] = up[d]) /\ s \notin up'[d] /\ s \notin up[d]
      /\ Ordered(up', live')
      /\ notTraced \subseteq notTraced'
  BY AddEffect
<1>2. CounterAgrees'
  BY AddAgrees
<1>3. /\ kept \in SUBSET live /\ live \in SUBSET Subsegment /\ live \subseteq Node
      /\ k \in SUBSET live' /\ live' \in SUBSET Subsegment /\ Root \in Chain(p)
      /\ Chain(p) \subseteq {Root} \cup live /\ Root \in Node /\ Root \notin live /\ ~Facade
  BY <1>0, <1>1, CallFacts
<1>4. ASSUME NEW n \in {Root} \cup live, NEW d, d # s
      PROVE  d \in Within(up', k, n) <=> d \in Within(up, kept, n)
  <2>1. d \in k <=> d \in kept
    BY <1>0, <1>4
  <2>2. ASSUME d \in kept PROVE up'[d] = up[d] /\ \A b \in up[d] : up'[b] = up[b] /\ b # s
    <3>1. d \in Node /\ d \in live
      BY <2>2, <1>3
    <3>2. \A b \in up[d] : b \in Node /\ b # s
      BY <3>1, <1>1, CallFacts
    <3> QED BY <3>1, <3>2, <1>1, <1>4
  <2>3. \A b \in up[d] : d \in kept /\ b # s => (b \in k <=> b \in kept)
    BY <1>0
  <2> QED BY <2>1, <2>2, <2>3 DEF Within
<1>5. p \in {Root} \cup InTree => s \in Within(up', k, Root)
  <2>1. ASSUME p \in {Root} \cup InTree, NEW b \in Chain(p), Root \in up'[b] PROVE b \in k
    <3>1. b \in {Root} \cup live /\ up'[b] = up[b] /\ up[Root] = {}
      BY <2>1, <1>1, <1>3 DEF ShapeInv, TreeShape
    <3>2. p \in InTree
      BY <2>1, <3>1 DEF Chain
    <3> QED BY <2>1, <3>1, <3>2, <1>0 DEF Chain, InTree, Within
  <2> QED BY <2>1, <1>0, <1>1, <1>3 DEF Within
<1>6. ~Settled'
  <2>1. s \in OpenCalls(Root)'
    BY <1>1, <1>3 DEF OpenCalls, OpenUnder
  <2> QED BY <2>1 DEF Settled
<1>7. sent \in [Node -> Nat] /\ sent[s] = 0
  BY <1>1 DEF ShapeInv, CallsTypeOK
<1>8. Promised(k)
  <2>1. \A t \in live' : phase'[t] = "presigned" => t \notin k
    BY <1>0, <1>1, <1>3 DEF ShapeInv, PhaseTells
  <2>2. \A t \in live' \cap open' : sent[t] = 0
    BY <1>1, <1>7 DEF Delivered, OpenIsUnsent
  <2>3. ASSUME NEW c \in pledged', due'[c] = 1
        PROVE  base'[c] \in {Root} \cup Within(up', k, Root)
    <3>1. base'[c] \in {Root} \cup InTree
      BY <2>3 DEF Delivered, PledgeHeld
    <3>2. base'[c] \in InTree => base'[c] # s
      BY <1>1, <1>3 DEF InTree, Within
    <3> QED BY <3>1, <3>2, <1>4 DEF InTree
  <2>4. ASSUME NEW t \in made'
        PROVE  t \in notTraced' \/ sent[t] > 0 \/ t \in Within(up', k, Root)
    <3>1. CASE t \in made
      <4>1. t \in live /\ t # s
        BY <3>1, <1>1 DEF ShapeInv, CallsTypeOK
      <4> QED BY <3>1, <4>1, <1>1, <1>4 DEF Delivered, MadeHeld, InTree
    <3>2. CASE t \notin made
      BY <3>2, <2>4, <1>5
    <3> QED BY <3>1, <3>2
  <2> QED BY <2>1, <2>2, <2>3, <2>4, <1>3, <1>7 DEF Promised
<1>9. ASSUME NEW docs \in SUBSET Document(up', k, Root), ~late' PROVE Fresh(k, docs)
  <2>1. ~late /\ sent[Root] = 0
    <3>1. sent[Root] \in Nat
      BY <1>3, <1>7
    <3>2. ~late /\ ~(sent[Root] > 0)
      BY <1>9, Zenon
    <3> QED BY <3>1, <3>2
  <2>2. /\ \A n \in Node : sent[n] <= 1
        /\ \A d \in Document(up, kept, Root) : sent[d] = 0
        /\ \A t \in live \cap open : \A d \in Document(up, kept, t) : sent[d] = 0
    BY <2>1, NothingSentYet
  <2>3. \A d \in Document(up', k, Root) : sent[d] = 0
    BY <2>2, <1>4, <1>7 DEF Document
  <2>4. ASSUME NEW t \in live' \cap open', NEW d \in Document(up', k, t) PROVE sent[d] = 0
    <3>1. CASE t = s
      <4>1. d = s
        BY <2>4, <3>1, <1>1, <1>3 DEF Document, Within, Node
      <4> QED BY <4>1, <1>7
    <3>2. CASE t # s /\ d = s
      BY <3>2, <1>7
    <3>3. CASE t # s /\ d # s
      <4>1. t \in live \cap open
        BY <3>3, <1>1
      <4>2. d \in Document(up, kept, t)
        BY <4>1, <3>3, <2>4, <1>4 DEF Document
      <4> QED BY <4>1, <4>2, <2>2
    <3> QED BY <3>1, <3>2, <3>3
  <2>5. \A x \in docs : Document(up', k, x) \subseteq Document(up', k, Root)
    BY <1>1, <1>3, Nested
  <2> QED BY <2>1, <2>2, <2>3, <2>4, <2>5 DEF Fresh
<1>10. CASE OverThreshold(counter')
  <2> DEFINE array == IF p = Root THEN k ELSE kept
             docs == Streamed(up', array, Root, Complete(open', counter'))
             flushed == docs \cap Flushable
  <2>1. sent' = Emitted(up', array, flushed) /\ kept' = (array \ docs) \cup {s}
    BY <1>0, <1>1, <1>3, <1>10 DEF AddNewSubsegment, Attach, Pruned
  <2>2. /\ docs \subseteq Document(up', array, Root)
        /\ \A x \in docs : x \in Subsegment /\ x \notin open' /\ counter'[x] <= 0
    BY StreamedBelow
  <2>3. kept \subseteq array /\ array \subseteq k
    BY <1>0
  <2> HIDE DEF array, docs
  <2>4. docs \in SUBSET live /\ docs \in SUBSET Document(up', k, Root) /\ s \notin docs
    <3>1. docs \in SUBSET Document(up', k, Root)
      BY <2>2, <2>3 DEF Document, Within
    <3>2. s \notin docs /\ Root \notin docs
      BY <2>2, <1>1, SubsegmentAssumption
    <3> QED BY <3>1, <3>2, <1>0, <1>3 DEF Document, Within
  <2>5. kept' = k \ docs
    BY <2>1, <2>3, <2>4, <1>0
  <2>6. ASSUME NEW x \in docs PROVE Document(up', array, x) = Document(up', k, x)
    <3>1. x \in Node /\ counter'[x] <= 0
      BY <2>2, <2>4, <1>3
    <3>2. x \notin up'[s]
      <4>1. s \in open' /\ phase'[s] # "presigned"
        BY <1>1
      <4>2. OpenCalls(x)' = {}
        BY <3>1, <1>2, CompleteIsDone
      <4> QED BY <4>1, <4>2 DEF OpenCalls, OpenUnder
    <3>3. \A d \in Node : s \notin up'[d]
      BY <1>1
    <3>4. \A d : d \in Within(up', array, x) <=> d \in Within(up', k, x)
      <4>1. \A d : d \in k /\ d # s => d \in array /\ d \in Node
        BY <2>3, <1>0, <1>3
      <4>2. s \notin Within(up', array, x) /\ s \notin Within(up', k, x)
        BY <3>2 DEF Within
      <4>3. \A d : d \in Node => \A b \in up'[d] : b # s
        BY <3>3
      <4> QED BY <4>1, <4>2, <4>3, <2>3 DEF Within
    <3> QED BY <3>4 DEF Document
  <2>7. sent' = Emitted(up', k, flushed)
    BY <2>1, <2>6 DEF Emitted
  <2> HIDE DEF flushed
  <2>8. flushed = docs \cap Flushable
    BY DEF flushed
  <2>9. Streaming(k, docs, flushed)
    BY <1>1, <1>2, <2>2, <2>4, <2>5, <2>7, <2>8, StreamsComplete
  <2>10. ~late' => Fresh(k, docs)
    BY <1>9, <2>4
  <2> QED BY <1>2, <1>6, <1>8, <2>9, <2>10, StreamKeeps
<1>11. CASE ~OverThreshold(counter')
  <2>1. sent' = sent /\ kept' = k
    BY <1>0, <1>11 DEF AddNewSubsegment, Attach
  <2>2. Streaming(k, {}, {})
    BY <2>1, <1>7, NoStreaming
  <2>3. ~late' => Fresh(k, {})
    BY <1>9
  <2> QED BY <1>2, <1>6, <1>8, <2>2, <2>3, StreamKeeps
<1> QED BY <1>10, <1>11

(* A call adds its subsegment. *)
LEMMA CallsKeeps ==
  ASSUME ShapeInv, CounterAgrees, Delivered, NEW p \in Node, NEW s \in Subsegment, NEW k \in Kind,
         Calls(p, s, k)
  PROVE  CounterAgrees' /\ Delivered' /\ Waits
<1>1. /\ p \in {Root} \cup live /\ AddNewSubsegment(p, s, FALSE)
      /\ phase' = [phase EXCEPT ![s] = IF k = "aws" THEN "built" ELSE "waiting"]
      /\ late' = (late \/ sent[Root] > 0) /\ made' = made /\ UNCHANGED <<base, due, pledged>>
  BY DEF Calls, Contexts, callbackVars
<1>2. phase'[s] # "presigned" /\ \A d \in Subsegment : d # s => phase'[d] = phase[d]
  BY <1>1 DEF ShapeInv, CallsTypeOK
<1>3. ShapeInv'
  BY CallsShape
<1> QED BY <1>1, <1>2, <1>3, AddKeeps

(* A callback adds its own, where its base is held if it is its parent.    *)
LEMMA CallbackStartsKeeps ==
  ASSUME ShapeInv, CounterAgrees, Delivered, NEW c \in Callback, NEW p \in Node,
         NEW s \in Subsegment, CallbackStarts(c, p, s)
  PROVE  CounterAgrees' /\ Delivered' /\ Waits
<1>1. /\ p \in {Root} \cup live /\ AddNewSubsegment(p, s, FALSE)
      /\ phase' = [phase EXCEPT ![s] = "waiting"]
      /\ late' = (late \/ sent[Root] > 0) /\ UNCHANGED <<base, due, pledged>>
      /\ made' = IF p = base[c] /\ c \in pledged /\ due[c] > 0 THEN made \cup {s} ELSE made
  BY DEF CallbackStarts, Contexts
<1>2. phase'[s] # "presigned" /\ \A d \in Subsegment : d # s => phase'[d] = phase[d]
  BY <1>1 DEF ShapeInv, CallsTypeOK
<1>3. ShapeInv'
  BY CallbackStartsShape
<1>4. ASSUME p = base[c], c \in pledged, due[c] > 0 PROVE p \in {Root} \cup InTree
  <2>1. due[c] \in Int /\ due[c] <= 1
    BY DEF ShapeInv, CallsTypeOK, DueOnce
  <2>2. due[c] = 1
    BY <2>1, <1>4
  <2> QED BY <2>2, <1>4 DEF Delivered, PledgeHeld
<1>5. made' = made \/ (made' = made \cup {s} /\ p \in {Root} \cup InTree)
  BY <1>1, <1>4
<1> QED BY <1>1, <1>2, <1>3, <1>5, AddKeeps

(* A presigned URL. *)
LEMMA PresignsKeeps ==
  ASSUME ShapeInv, CounterAgrees, Delivered, ~Overdrawn', NEW s \in Subsegment, Presigns(s)
  PROVE  CounterAgrees' /\ Delivered' /\ Waits
<1>1. /\ UNCHANGED <<live, up, withSegment, open, notTraced, base, due, pledged, made, late>>
      /\ s \in live /\ s \in open /\ phase[s] = "built" /\ phase'[s] = "presigned"
      /\ \A d \in Subsegment : d # s => phase'[d] = phase[d]
      /\ counter' = Counted(up[s], -1) /\ kept' = kept \ {s} /\ Root \in up[s] /\ ~Facade
  BY PresignsEffect, CallFacts DEF Presigns, callbackVars, historyVars
<1>2. CounterAgrees'
  BY <1>1, LessAgrees
<1>3. ShapeInv'
  BY PresignsShape
<1>4. (\A d \in live : s \notin up[d]) /\ \A c \in Callback : base[c] # s
  BY <1>1 DEF ShapeInv, CallsTypeOK
<1>5. kept \in SUBSET live /\ live \in SUBSET Subsegment /\ Ordered(up, live) /\ s \in Subsegment
      /\ Root # s
  BY <1>1, CallFacts
<1>6. \A d \in InTree : d # s => d \in Within(up, kept', Root)
  <2>1. \A d \in InTree : d # s => d \notin Document(up, kept, s)
    BY <1>4, <1>5 DEF Document, Within, InTree
  <2>2. \A d \in InTree : d \in Subsegment /\ d \in Within(up, kept, Root)
    BY <1>5 DEF Within, InTree
  <2>3. {s} \in SUBSET live
    BY <1>1
  <2>4. \A d \in Subsegment : d \in Within(up, kept \ {s}, Root) <=>
          d \in Within(up, kept, Root) /\ \A x \in {s} : Root \in up[x] => d \notin Document(up, kept, x)
    BY <1>5, <2>3, CutAt
  <2> QED BY <1>1, <2>1, <2>2, <2>4
<1>7. \A n : Document(up, kept', n) \subseteq Document(up, kept, n)
  BY <1>1 DEF Document, Within
<1>8. Promised(kept')
  <2>1. kept' \subseteq live' /\ sent \in [Node -> Nat]
    BY <1>1, <1>5 DEF ShapeInv, CallsTypeOK
  <2>2. \A t \in live' : phase'[t] = "presigned" => t \notin kept'
    BY <1>3 DEF ShapeInv, PhaseTells
  <2>3. \A t \in live' \cap open' : sent[t] = 0
    BY <1>1 DEF Delivered, OpenIsUnsent
  <2>4. \A c \in pledged' : due'[c] = 1 => base'[c] \in {Root} \cup Within(up', kept', Root)
    <3>1. \A c \in pledged : c \in Callback
      BY DEF ShapeInv, CallsTypeOK
    <3> QED BY <1>1, <1>4, <1>6, <3>1 DEF Delivered, PledgeHeld
  <2>5. \A t \in made' : t \in notTraced' \/ sent[t] > 0 \/ t \in Within(up', kept', Root)
    <3>1. s \notin made
      BY <1>1 DEF ShapeInv, PhaseTells
    <3> QED BY <1>1, <1>6, <3>1 DEF Delivered, MadeHeld
  <2> QED BY <2>1, <2>2, <2>3, <2>4, <2>5 DEF Promised
<1>9. ASSUME ~late' PROVE Fresh(kept', {})
  <2>1. s \in OpenCalls(Root)
    BY <1>1, <1>5 DEF OpenCalls, OpenUnder
  <2>2. ~Settled
    BY <2>1 DEF Settled
  <2>3. Fresh(kept, {})
    BY <1>1, <1>9, <2>2, FreshSame
  <2> QED BY <2>3, <1>1, <1>7 DEF Fresh
<1>10. Settled' <=> Root \notin open' /\ counter'[Root] <= 0
  BY <1>2, <1>3, SettledNextMeans
<1>11. CASE LastOfClosedSegment(s)
  <2>1. sent' = IF Root \in notTraced' THEN sent ELSE Emitted(up', kept', {Root})
    BY <1>1, <1>11 DEF Presigns
  <2>2. Settled'
    BY <1>1, <1>10, <1>11 DEF LastOfClosedSegment
  <2> QED BY <1>2, <1>3, <1>8, <1>9, <2>1, <2>2, FlushKeeps
<1>12. CASE ~LastOfClosedSegment(s)
  <2>1. sent' = sent
    BY <1>12 DEF Presigns
  <2>2. Streaming(kept', {}, {})
    BY <2>1, NoStreaming DEF ShapeInv, CallsTypeOK
  <2>3. ~Settled'
    BY <1>1, <1>10, <1>12 DEF LastOfClosedSegment
  <2> QED BY <1>2, <1>3, <1>8, <1>9, <2>2, <2>3, StreamKeeps
<1> QED BY <1>11, <1>12

(* captureCallbackFunc. *)
LEMMA WrapsKeeps ==
  ASSUME ShapeInv, CounterAgrees, Delivered, ~Overdrawn',
         NEW c \in Callback, NEW p \in Node, Wraps(c, p)
  PROVE  CounterAgrees' /\ Delivered' /\ Waits
<1>1. /\ UNCHANGED <<live, up, withSegment, open, notTraced, phase, again, made>>
      /\ late' = (late \/ sent[Root] > 0)
      /\ pledged' = IF p \in {Root} \cup InTree THEN pledged \cup {c} ELSE pledged
  BY DEF Wraps, callVars
<1>2. base[c] = None /\ due[c] = 0 /\ base' = [base EXCEPT ![c] = p] /\ due' = [due EXCEPT ![c] = 1]
  BY WrapsEffect
<1>3. /\ base'[c] = p /\ \A b \in Callback : b # c => base'[b] = base[b]
      /\ due'[c] = 1 /\ \A b \in Callback : b # c => due'[b] = due[b]
  BY <1>2 DEF ShapeInv, CallsTypeOK
<1>4. ShapeInv' /\ CounterAgrees'
  BY WrapsShape, WrapsAgrees
<1>5. ~Settled'
  BY <1>3 DEF Settled
<1>6. Promised(kept)
  <2>1. \A b \in pledged' : due'[b] = 1 => base'[b] \in {Root} \cup InTree
    <3>1. c \notin pledged /\ \A b \in pledged : b \in Callback
      BY <1>2 DEF ShapeInv, CallsTypeOK, DueOnce
    <3> QED BY <1>1, <1>3, <3>1 DEF Delivered, PledgeHeld
  <2>2. \A t \in live : phase'[t] = "presigned" => t \notin kept
    BY <1>1 DEF ShapeInv, PhaseTells
  <2> QED BY <1>1, <2>1, <2>2, PromisedSame
<1>7. ASSUME NEW docs \in SUBSET Document(up, kept, Root), ~late' PROVE Fresh(kept, docs)
  <2>1. ~late /\ sent[Root] = 0
    <3>1. sent[Root] \in Nat
      BY CallFacts DEF ShapeInv, CallsTypeOK
    <3>2. ~late /\ ~(sent[Root] > 0)
      BY <1>1, <1>7, Zenon
    <3> QED BY <3>1, <3>2
  <2> QED BY <1>1, <2>1, FreshSame
<1>8. CASE OverThreshold(counter')
  <2> DEFINE docs == Streamed(up, kept, Root, Complete(open, counter'))
  <2>1. sent' = Emitted(up, kept, docs \cap Flushable) /\ kept' = kept \ docs
    BY <1>8 DEF Wraps, IncrementCounter, Pruned
  <2>2. /\ docs \subseteq Document(up, kept, Root)
        /\ \A x \in docs : x \in Subsegment /\ x \notin open /\ counter'[x] <= 0
    BY StreamedBelow
  <2> HIDE DEF docs
  <2>3. docs \in SUBSET live
    BY <2>2, CallFacts DEF Document, Within
  <2>4. Streaming(kept, docs, docs \cap Flushable)
    BY <1>1, <1>4, <2>1, <2>2, <2>3, StreamsComplete
  <2>5. ~late' => Fresh(kept, docs)
    BY <1>7, <2>2
  <2> QED BY <1>4, <1>5, <1>6, <2>4, <2>5, StreamKeeps
<1>9. CASE ~OverThreshold(counter')
  <2>1. sent' = sent /\ kept' = kept
    BY <1>9 DEF Wraps, IncrementCounter
  <2>2. Streaming(kept, {}, {})
    BY <2>1, NoStreaming DEF ShapeInv, CallsTypeOK
  <2>3. ~late' => Fresh(kept, {})
    BY <1>7
  <2> QED BY <1>4, <1>5, <1>6, <2>2, <2>3, StreamKeeps
<1> QED BY <1>8, <1>9

(* The return of a callback, which may settle the segment. *)
LEMMA ReturnsKeeps ==
  ASSUME ShapeInv, CounterAgrees, Delivered, ~Overdrawn', CallbackReturns
  PROVE  CounterAgrees' /\ Delivered' /\ Waits
<1>0. PICK c : c = running[1]
  OBVIOUS
<1>1. /\ UNCHANGED <<live, up, withSegment, kept, open, notTraced, phase, base, again, pledged, made,
                     late>>
      /\ IF Root \notin open /\ counter'[Root] <= 0 THEN FlushSegment ELSE sent' = sent
  BY DEF CallbackReturns, callVars
<1>2. c \in Callback /\ due[c] = 1 /\ due'[c] = 0
      /\ \A b \in Callback : b # c => due'[b] = due[b]
  BY <1>0, ReturnsEffect, ReturnsAgrees
<1>3. ShapeInv' /\ CounterAgrees'
  BY <1>0, ReturnsShape, ReturnsAgrees
<1>4. ~Settled
  BY <1>2 DEF Settled
<1>5. Promised(kept)
  <2>1. \A b \in pledged' : due'[b] = 1 => base'[b] \in {Root} \cup InTree
    <3>1. \A b \in pledged : b \in Callback
      BY DEF ShapeInv, CallsTypeOK
    <3> QED BY <1>1, <1>2, <3>1 DEF Delivered, PledgeHeld
  <2>2. \A t \in live : phase'[t] = "presigned" => t \notin kept
    BY <1>1 DEF ShapeInv, PhaseTells
  <2> QED BY <1>1, <2>1, <2>2, PromisedSame
<1>6. ~late' => Fresh(kept, {})
  BY <1>1, <1>4, FreshSame
<1>7. Settled' <=> Root \notin open' /\ counter'[Root] <= 0
  BY <1>3, SettledNextMeans
<1>8. CASE Root \notin open /\ counter'[Root] <= 0
  <2>1. sent' = IF Root \in notTraced' THEN sent ELSE Emitted(up', kept', {Root})
    BY <1>1, <1>8 DEF FlushSegment
  <2>2. kept' = kept /\ Settled'
    BY <1>1, <1>7, <1>8
  <2> QED BY <1>3, <1>5, <1>6, <2>1, <2>2, FlushKeeps
<1>9. CASE ~(Root \notin open /\ counter'[Root] <= 0)
  <2>1. sent' = sent /\ kept' = kept /\ ~Settled'
    BY <1>1, <1>7, <1>9
  <2>2. Streaming(kept, {}, {})
    BY <2>1, NoStreaming DEF ShapeInv, CallsTypeOK
  <2> QED BY <1>3, <1>5, <1>6, <2>1, <2>2, StreamKeeps
<1> QED BY <1>8, <1>9

(* Segment.close. *)
LEMMA SegmentClosesKeeps ==
  ASSUME ShapeInv, CounterAgrees, Delivered, ~Overdrawn', SegmentCloses
  PROVE  CounterAgrees' /\ Delivered' /\ Waits
<1>1. /\ Root \in open /\ open' = open \ {Root} /\ Root \notin Subsegment
      /\ UNCHANGED <<live, up, withSegment, kept, counter, notTraced>>
      /\ UNCHANGED <<kind, phase, base, running, again, due, pledged, made, late>>
      /\ IF counter[Root] <= 0 THEN FlushSegment ELSE sent' = sent
  BY SegmentClosesEffect, CallFacts
<1>2. \A d \in Subsegment : d \in open' <=> d \in open
  BY <1>1
<1>3. ShapeInv' /\ CounterAgrees'
  BY <1>1, <1>2, SegmentClosesShape, SameAgrees
<1>4. ~Settled
  BY <1>1 DEF Settled
<1>5. Promised(kept)
  <2>1. \A b \in pledged' : due'[b] = 1 => base'[b] \in {Root} \cup InTree
    BY <1>1 DEF Delivered, PledgeHeld
  <2>2. \A t \in live : phase'[t] = "presigned" => t \notin kept
    BY <1>1 DEF ShapeInv, PhaseTells
  <2> QED BY <1>1, <2>1, <2>2, PromisedSame
<1>6. ~late' => Fresh(kept, {})
  BY <1>1, <1>4, FreshSame
<1>7. Settled' <=> Root \notin open' /\ counter'[Root] <= 0
  BY <1>3, SettledNextMeans
<1>8. CASE counter[Root] <= 0
  <2>1. sent' = IF Root \in notTraced' THEN sent ELSE Emitted(up', kept', {Root})
    BY <1>1, <1>8 DEF FlushSegment
  <2>2. kept' = kept /\ Settled'
    BY <1>1, <1>7, <1>8
  <2> QED BY <1>3, <1>5, <1>6, <2>1, <2>2, FlushKeeps
<1>9. CASE ~(counter[Root] <= 0)
  <2>1. sent' = sent /\ kept' = kept /\ ~Settled'
    BY <1>1, <1>7, <1>9
  <2>2. Streaming(kept, {}, {})
    BY <2>1, NoStreaming DEF ShapeInv, CallsTypeOK
  <2> QED BY <1>3, <1>5, <1>6, <2>1, <2>2, StreamKeeps
<1> QED BY <1>8, <1>9

(* A step of a call that the tree does not see. *)
LEMMA QuietKeeps ==
  ASSUME ShapeInv, CounterAgrees, Delivered,
         UNCHANGED vars, UNCHANGED <<base, due, pledged, made, late>>,
         \A d \in Subsegment : phase'[d] = "presigned" <=> phase[d] = "presigned"
  PROVE  CounterAgrees' /\ Delivered' /\ Waits
<1>1. /\ UNCHANGED <<live, up, withSegment, kept, open, counter, notTraced, sent>>
      /\ UNCHANGED <<base, due, pledged, made, late>>
  BY DEF vars
<1>2. CounterAgrees' /\ OpenCalls(Root)' = OpenCalls(Root)
  BY <1>1, SameAgrees, CallFacts
<1>3. Settled' <=> Settled
  BY <1>1, <1>2 DEF Settled
<1>4. OpenIsUnsent' /\ PledgeHeld' /\ MadeHeld'
  BY <1>1 DEF Delivered, OpenIsUnsent, PledgeHeld, MadeHeld, InTree
<1>5. SettledIsSent'
  BY <1>1, <1>3 DEF Delivered, SettledIsSent, InTree
<1>6. ~late' => NotRepeated'
  BY <1>1, <1>3 DEF Delivered, NotRepeated, Unsent
<1>7. Waits
  <2>1. sent[Root] \in Nat
    BY CallFacts DEF ShapeInv, CallsTypeOK
  <2> QED BY <1>1, <2>1 DEF Waits
<1> QED BY <1>2, <1>4, <1>5, <1>6, <1>7 DEF Delivered

(* A call that is sent, or gets its response. *)
LEMMA MovesKeeps ==
  ASSUME ShapeInv, CounterAgrees, Delivered, NEW s \in Subsegment, Responds(s) \/ Sends(s)
  PROVE  CounterAgrees' /\ Delivered' /\ Waits
<1>1. PICK to \in {"waiting", "responded"} : phase' = [phase EXCEPT ![s] = to]
  BY DEF Responds, Sends
<1>2. UNCHANGED vars /\ UNCHANGED <<base, due, pledged, made, late>> /\ phase[s] \in {"built", "waiting"}
  BY DEF Responds, Sends, callbackVars, historyVars
<1>3. \A d \in Subsegment : phase'[d] = "presigned" <=> phase[d] = "presigned"
  BY <1>1, <1>2 DEF ShapeInv, CallsTypeOK
<1> QED BY <1>2, <1>3, QuietKeeps

-----------------------------------------------------------------------------
(* The theorems. *)

(* The counters agree, and what they promise is kept, for as long as none  *)
(* was overdrawn.                                                          *)
LEMMA InitKeeps ==
  ASSUME CallsInit
  PROVE  CallsInv
<1>1. ShapeInv
  BY InitShape
<1>2. CounterAgrees
  <2>1. \A n \in Node : counter[n] = 0 /\ OpenCalls(n) = {} /\ Holding(n) = {}
    <3>1. Root \notin Subsegment
      BY SubsegmentAssumption
    <3> QED BY <3>1 DEF CallsInit, Init, OpenCalls, OpenUnder, Holding, Wrapped
  <2> QED BY <2>1, FS_EmptySet DEF CounterAgrees
<1>3. CounterAccounts /\ AgainIsOver
  <2>1. \A n \in Node : counter[n] = 0 /\ OpenCalls(n) = {} /\ Twice(n) = {} /\ Wrapped(n) = {}
    BY SubsegmentAssumption DEF CallsInit, Init, OpenCalls, OpenUnder, Twice, Wrapped
  <2>2. \A n \in Node : Dues(n) = 0
    BY <2>1, SumRec, FS_EmptySet DEF Dues
  <2>3. \A n \in Node : counter[n] = Cardinality(OpenCalls(n)) - Cardinality(Twice(n)) + Dues(n)
    BY <2>1, <2>2, FS_EmptySet
  <2> QED BY <1>1, <2>3 DEF CounterAccounts, AgainIsOver, ShapeInv, CallsInit
<1>4. live = {} /\ pledged = {} /\ made = {} /\ InTree = {} /\ Root \in open
  BY DEF CallsInit, Init, InTree, Within
<1>5. \A n \in Node : sent[n] = 0
  BY DEF CallsInit, Init
<1>6. NotRepeated
  <2>1. Unsent(Root)
    BY <1>5 DEF Unsent, Document, Within, CallsInit, Init, Node
  <2>2. \A n \in Node : sent[n] <= 1
    BY <1>5
  <2> QED BY <2>1, <2>2, <1>4, <1>5 DEF NotRepeated, Node
<1> QED BY <1>1, <1>2, <1>4, <1>6, <1>3
        DEF CallsInv, OpenIsUnsent, PledgeHeld, MadeHeld, SettledIsSent

(* Every step keeps the invariant, and waits to send the segment. *)
LEMMA StepKeeps ==
  ASSUME CallsInv, [CallsNext]_allVars
  PROVE  CallsInv' /\ (~Overdrawn' => Waits)
<1>1. ShapeInv /\ ShapeInv' /\ CounterAccounts' /\ AgainIsOver'
  BY StepShape, StepAccounts DEF CallsInv
<1> SUFFICES ASSUME ~Overdrawn' PROVE CounterAgrees' /\ Delivered' /\ Waits
  BY <1>1 DEF CallsInv, Delivered
<1>2. CounterAgrees /\ Delivered
  BY <1>1, StillInCredit DEF CallsInv, Delivered
<1>3. ASSUME NEW p \in Node, NEW s \in Subsegment, NEW k \in Kind, Calls(p, s, k)
      PROVE  CounterAgrees' /\ Delivered' /\ Waits
  BY <1>1, <1>2, <1>3, CallsKeeps
<1>4. ASSUME NEW s \in Subsegment, Ends(s) PROVE CounterAgrees' /\ Delivered' /\ Waits
  BY <1>1, <1>2, <1>4, EndsKeeps
<1>5. ASSUME NEW s \in Subsegment, Responds(s) \/ Sends(s) PROVE CounterAgrees' /\ Delivered' /\ Waits
  BY <1>1, <1>2, <1>5, MovesKeeps
<1>6. ASSUME NEW s \in Subsegment, Presigns(s) PROVE CounterAgrees' /\ Delivered' /\ Waits
  BY <1>1, <1>2, <1>6, PresignsKeeps
<1>7. ASSUME NEW c \in Callback, NEW p \in Node, Wraps(c, p) PROVE CounterAgrees' /\ Delivered' /\ Waits
  BY <1>1, <1>2, <1>7, WrapsKeeps
<1>8. ASSUME NEW c \in Callback, NEW p \in Node, NEW s \in Subsegment, CallbackStarts(c, p, s)
      PROVE  CounterAgrees' /\ Delivered' /\ Waits
  BY <1>1, <1>2, <1>8, CallbackStartsKeeps
<1>9. ASSUME NEW throws \in BOOLEAN, CallbackEnds(throws) PROVE CounterAgrees' /\ Delivered' /\ Waits
  BY <1>1, <1>2, <1>9, CallbackEndsKeeps
<1>10. CASE CallbackReturns
  BY <1>1, <1>2, <1>10, ReturnsKeeps
<1>11. CASE SegmentCloses
  BY <1>1, <1>2, <1>11, SegmentClosesKeeps
<1>12. CASE UNCHANGED allVars
  <2>1. UNCHANGED vars /\ UNCHANGED <<base, due, pledged, made, late>> /\ phase' = phase
    BY <1>12 DEF allVars, callVars, callbackVars, historyVars
  <2> QED BY <1>1, <1>2, <2>1, QuietKeeps
<1> QED BY <1>3, <1>4, <1>5, <1>6, <1>7, <1>8, <1>9, <1>10, <1>11, <1>12 DEF CallsNext, Ends

(* CallsInv holds in every reachable state, whatever the program's calls   *)
(* and callbacks do and in whatever order.                                 *)
THEOREM CallsInvariant == CallsSpec => []CallsInv
<1>1. CallsInit => CallsInv
  BY InitKeeps
<1>2. CallsInv /\ [CallsNext]_allVars => CallsInv'
  BY StepKeeps
<1> QED BY <1>1, <1>2, PTL DEF CallsSpec

(* Whatever is closed twice and however often callbacks return, a counter  *)
(* is what is open and due, less the closes that came twice                *)
(* (incrementCounter, decrementCounter, beforePresign).                    *)
THEOREM CountersAreAccountedFor == CallsSpec => []CounterAccounts
<1>1. ASSUME CallsInv PROVE CounterAccounts
  BY <1>1 DEF CallsInv
<1> QED BY <1>1, CallsInvariant, PTL

(* What a wrapped callback adds is sent once nothing is left to do, however *)
(* late it ran (captureCallbackFunc).                                      *)
THEOREM LateCallbacksAreSent == CallsSpec => []CallbackWorkIsSent
<1>1. ASSUME CallsInv PROVE CallbackWorkIsSent
  BY <1>1 DEF CallsInv, CallbackWorkIsSent, MadeHeld, SettledIsSent
<1> QED BY <1>1, CallsInvariant, PTL

(* The segment is sent only when nothing of it is open and no callback has *)
(* still to return, unless a counter was overdrawn (Segment.flush).        *)
THEOREM SegmentWaitsForAll == CallsSpec => SegmentWaits
<1>1. ASSUME CallsInv, [CallsNext]_allVars, sent'[Root] > sent[Root], ~Overdrawn'
      PROVE  /\ Root \notin open' /\ OpenCalls(Root)' = {}
             /\ \A c \in Callback : due'[c] = 0
  BY <1>1, StepKeeps DEF Waits, Settled
<1>2. CallsInv /\ [CallsNext]_allVars =>
        [sent'[Root] > sent[Root] /\ ~Overdrawn' =>
           /\ Root \notin open'
           /\ OpenCalls(Root)' = {}
           /\ \A c \in Callback : due'[c] = 0]_allVars
  BY <1>1
<1> QED BY <1>2, CallsInvariant, PTL DEF CallsSpec, SegmentWaits

(* A presigned URL leaves no trace (beforePresign). *)
THEOREM PresigningLeavesNoTrace == CallsSpec => []PresignedIsSilent
<1>1. ASSUME CallsInv PROVE PresignedIsSilent
  BY <1>1 DEF CallsInv, ShapeInv, PhaseTells, OpenIsUnsent, PresignedIsSilent
<1> QED BY <1>1, CallsInvariant, PTL

(* Nothing is sent twice but for an overdrawn counter or late work (close, *)
(* flush).                                                                 *)
THEOREM RepeatsNeedACause == CallsSpec => []RepeatsExplained
<1>1. ASSUME CallsInv PROVE RepeatsExplained
  BY <1>1 DEF CallsInv, NotRepeated, RepeatsExplained
<1> QED BY <1>1, CallsInvariant, PTL

=============================================================================
