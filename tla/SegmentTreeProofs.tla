-------------------------- MODULE SegmentTreeProofs --------------------------
(***************************************************************************)
(* Proofs about SegmentTree, SegmentTreeLoose and LambdaFacade for every   *)
(* set of subsegments.  Of a segment (~Facade) with any threshold, IInv is *)
(* inductive under structured programs and LooseInv under all that the API *)
(* accepts; of the segment of Lambda (FacadeOnly), LambdaInv is.  They     *)
(* imply the safety properties.                                            *)
(***************************************************************************)
EXTENDS SegmentTreeLoose, LambdaFacade, SumTheorems

(* The shape of ancestors a over the subsegments l, as in TreeShape. *)
Ordered(a, l) ==
  /\ a \in [Node -> SUBSET Node]
  /\ a[Root] = {}
  /\ \A d \in l : \A b \in a[d] : b \in {Root} \cup l /\ a[b] \subseteq a[d]
  /\ \A d \in l : \A b, c \in a[d] : b = c \/ b \in a[c] \/ c \in a[b]

(* What is nested in a document is nested in every document that holds it. *)
LEMMA Nested ==
  ASSUME NEW a, NEW l \in SUBSET Subsegment, Ordered(a, l), NEW k \in SUBSET l,
         NEW t, NEW x \in Document(a, k, t)
  PROVE  Document(a, k, x) \subseteq Document(a, k, t)
<1> SUFFICES ASSUME NEW d \in Within(a, k, x), x # t PROVE d \in Within(a, k, t)
  BY DEF Document
<1>1. x \in k /\ t \in a[x] /\ d \in k /\ d \in l /\ x \in a[d]
  BY DEF Document, Within
<1>2. t \in a[d]
  BY <1>1 DEF Ordered
<1>3. ASSUME NEW b \in a[d], t \in a[b] PROVE b \in k
  <2>1. b = x \/ b \in a[x] \/ x \in a[b]
    BY <1>1 DEF Ordered
  <2>2. CASE b = x
    BY <2>2, <1>1
  <2>3. CASE b \in a[x]
    BY <2>3, <1>3 DEF Document, Within
  <2>4. CASE x \in a[b]
    BY <2>4 DEF Within
  <2> QED BY <2>1, <2>2, <2>3, <2>4
<1> QED BY <1>1, <1>2, <1>3 DEF Within

(* Without docs, n holds what it held but the documents cut out below it.  *)
LEMMA CutAt ==
  ASSUME NEW a, NEW l \in SUBSET Subsegment, Ordered(a, l), NEW k \in SUBSET l,
         NEW n, NEW docs \in SUBSET l, NEW d \in Subsegment
  PROVE  d \in Within(a, k \ docs, n) <=>
           d \in Within(a, k, n) /\ \A x \in docs : n \in a[x] => d \notin Document(a, k, x)
<1>1. ASSUME d \in Within(a, k \ docs, n), NEW x \in docs, n \in a[x], d \in Document(a, k, x)
      PROVE  FALSE
  <2>1. d \notin docs /\ \A b \in a[d] : n \in a[b] => b \in k \ docs
    BY <1>1 DEF Within
  <2> QED BY <1>1, <2>1 DEF Document, Within
<1>2. ASSUME d \in Within(a, k \ docs, n) PROVE d \in Within(a, k, n)
  BY <1>2 DEF Within
<1>3. ASSUME d \in Within(a, k, n), \A x \in docs : n \in a[x] => d \notin Document(a, k, x)
      PROVE  d \in Within(a, k \ docs, n)
  <2>1. d \in k \ docs /\ n \in a[d] /\ d \in l
    BY <1>3 DEF Within, Document
  <2>2. ASSUME NEW b \in a[d], n \in a[b] PROVE b \in k \ docs
    <3>1. b \in k
      BY <1>3, <2>2 DEF Within
    <3>2. ASSUME b \in docs PROVE FALSE
      <4>1. \A c \in a[d] : b \in a[c] => n \in a[c]
        BY <2>1, <2>2 DEF Ordered
      <4>2. d \in Within(a, k, b)
        BY <4>1, <1>3, <2>1, <2>2 DEF Within
      <4> QED BY <4>2, <2>2, <3>2, <1>3 DEF Document
    <3> QED BY <3>1, <3>2
  <2> QED BY <2>1, <2>2 DEF Within
<1> QED BY <1>1, <1>2, <1>3

(* A document is cut out of what the tree holds, and what is left is what  *)
(* the arrays hold once its top has been removed.                          *)
LEMMA Cut ==
  ASSUME NEW a, NEW l \in SUBSET Subsegment, Ordered(a, l), NEW k \in SUBSET l,
         NEW docs \in SUBSET Within(a, k, Root)
  PROVE  /\ \A x \in docs : Document(a, k, x) \subseteq Within(a, k, Root)
         /\ \A d \in Subsegment :
              d \in Within(a, k \ docs, Root) <=>
                d \in Within(a, k, Root) /\ \A x \in docs : d \notin Document(a, k, x)
<1>1. \A x \in docs : x \in l /\ x \in Document(a, k, Root) /\ Root \in a[x]
  BY DEF Within, Document
<1>2. ASSUME NEW x \in docs PROVE Document(a, k, x) \subseteq Within(a, k, Root)
  <2>1. Document(a, k, x) \subseteq Document(a, k, Root)
    BY <1>1, Nested
  <2>2. Root \notin Document(a, k, x)
    BY <1>1, SubsegmentAssumption DEF Document, Within
  <2> QED BY <2>1, <2>2 DEF Document
<1>3. docs \in SUBSET l
  BY <1>1
<1> QED BY <1>1, <1>2, <1>3, CutAt

(* Each of the subsegments l is either in the tree and not sent, or sent   *)
(* once; those of nt need not be.                                          *)
Accounted(a, l, k, nt, st) ==
  /\ st \in [Node -> Nat]
  /\ \A n \in Node : st[n] <= 1
  /\ \A d \in Within(a, k, Root) : st[d] = 0
  /\ \A d \in l \ Within(a, k, Root) : d \notin nt => st[d] = 1

Inherited(a, l, nt) == \A d \in l : \A b \in a[d] : b \in nt => d \in nt

(* The situation in which docs are streamed out of the arrays k, and       *)
(* flushed of them sent.                                                   *)
Streamable(a, l, k, nt, docs, flushed) ==
  /\ l \subseteq Subsegment /\ k \subseteq l
  /\ Ordered(a, l)
  /\ Accounted(a, l, k, nt, sent)
  /\ Inherited(a, l, nt)
  /\ docs \subseteq Within(a, k, Root)
  /\ flushed \subseteq docs
  /\ \A x \in docs \ flushed : x \in nt

(* Streaming keeps it so: some of what is held is taken out, and sent      *)
(* unless it is not traced.                                                *)
LEMMA StreamingKeepsAccounts ==
  ASSUME NEW a, NEW l, NEW k, NEW nt, NEW docs, NEW flushed,
         Streamable(a, l, k, nt, docs, flushed)
  PROVE  /\ Accounted(a, l, k \ docs, nt, Emitted(a, k, flushed))
         /\ \A n \in Node \ Within(a, k, Root) : Emitted(a, k, flushed)[n] = sent[n]
         /\ Root \notin Within(a, k, Root)
<1>0. PICK sent2 : sent2 = Emitted(a, k, flushed)
  OBVIOUS
<1> USE DEF Accounted, Inherited, Streamable
<1>1. /\ \A x \in docs : Document(a, k, x) \subseteq Within(a, k, Root)
      /\ \A d \in Subsegment :
           d \in Within(a, k \ docs, Root) <=>
             d \in Within(a, k, Root) /\ \A x \in docs : d \notin Document(a, k, x)
  BY Cut
<1>2. Within(a, k, Root) \subseteq l /\ Within(a, k \ docs, Root) \subseteq Within(a, k, Root)
      /\ l \subseteq Node /\ Root \notin l
  BY SubsegmentAssumption DEF Within, Node
<1>3. \A n \in Node : sent2[n] = IF \E x \in flushed : n \in Document(a, k, x)
                                   THEN sent[n] + 1 ELSE sent[n]
  BY <1>0 DEF Emitted
<1>4. \A n \in Node \ Within(a, k, Root) : sent2[n] = sent[n]
  BY <1>1, <1>3
<1>5. \A d \in Within(a, k, Root) : sent2[d] = IF \E x \in flushed : d \in Document(a, k, x)
                                                 THEN 1 ELSE 0
  BY <1>2, <1>3
<1>6. sent2 \in [Node -> Nat]
  BY <1>0 DEF Emitted
<1>7. \A n \in Node : sent2[n] <= 1
  BY <1>4, <1>5, <1>2, <1>6
<1>8. \A d \in Within(a, k \ docs, Root) : sent2[d] = 0
  BY <1>1, <1>2, <1>5
<1>9. ASSUME NEW d \in l \ Within(a, k \ docs, Root), d \notin nt PROVE sent2[d] = 1
  <2>1. CASE d \notin Within(a, k, Root)
    BY <2>1, <1>4, <1>9, <1>2
  <2>2. CASE d \in Within(a, k, Root)
    <3>1. PICK x \in docs : d \in Document(a, k, x)
      BY <2>2, <1>1, <1>2, <1>9
    <3>2. d = x \/ x \in a[d]
      BY <3>1 DEF Document, Within
    <3>3. x \notin nt
      BY <3>2, <1>9
    <3> QED BY <3>1, <3>3, <2>2, <1>5
  <2> QED BY <2>1, <2>2
<1> QED BY <1>0, <1>2, <1>4, <1>6, <1>7, <1>8, <1>9

-----------------------------------------------------------------------------
(* Consequences of the invariant used by every action. *)

(* What the invariant says of single nodes. *)
LEMMA TreeFacts ==
  ASSUME IInv
  PROVE  /\ Ordered(up, live)
         /\ Root \in Node /\ Root \notin Subsegment /\ live \subseteq Node
         /\ \A n \in Node : up[n] \subseteq {Root} \cup live
         /\ \A n \in Node : IsFiniteSet(OpenUnder(n))
         /\ \A n \in {Root} \cup live : Root \in Chain(n)
<1>1. Ordered(up, live)
  BY DEF IInv, TypeOK, TreeShape, Ordered
<1>2. Root \in Node /\ Root \notin Subsegment /\ live \subseteq Node
  BY SubsegmentAssumption DEF IInv, TypeOK, Node
<1>3. \A n \in Node : up[n] \subseteq {Root} \cup live
  BY DEF IInv, TreeShape, TypeOK, Node
<1>4. \A n \in Node : IsFiniteSet(OpenUnder(n))
  BY SubsegmentAssumption, FS_Subset DEF OpenUnder
<1>5. \A n \in {Root} \cup live : Root \in Chain(n)
  BY DEF IInv, TreeShape, Chain
<1> QED BY <1>1, <1>2, <1>3, <1>4, <1>5

(* While anything is open the segment has not been sent. *)
LEMMA OpenMeansUnsent ==
  ASSUME IInv, open # {}
  PROVE  sent[Root] = 0
<1>1. sent[Root] \in Nat /\ sent[Root] <= 1 /\ sent[Root] # 1
  BY TreeFacts DEF IInv, TypeOK, SentOrHeld, SentWhenAllClosed
<1> QED BY <1>1

(* What is open, and every ancestor of it, is in the tree. *)
LEMMA OpenIsHeld ==
  ASSUME IInv, NEW n \in open
  PROVE  /\ \A b \in Chain(n) : b \in live => b \in kept
         /\ n \in live => n \in InTree
<1>1. n \in {Root} \cup live /\ n \in Node
  BY TreeFacts DEF IInv, TreeShape, TypeOK
<1>2. ASSUME NEW b \in Chain(n), b \in live, b \notin kept PROVE FALSE
  <2>1. b \notin open /\ OpenUnder(b) = {}
    BY <1>2 DEF IInv, PrunedIsComplete
  <2>2. b \in up[n] /\ n \in live
    BY <2>1, <1>1, <1>2 DEF Chain, IInv, TreeShape
  <2>3. n \in OpenUnder(b)
    BY <2>2 DEF OpenUnder, IInv, TypeOK
  <2> QED BY <2>1, <2>3
<1>3. ASSUME n \in live PROVE n \in InTree
  <2>1. n \in kept /\ Root \in up[n]
    BY <1>2, <1>3 DEF Chain, IInv, TreeShape
  <2>2. \A b \in up[n] : Root \in up[b] => b \in kept
    BY <1>2, <1>3, TreeFacts DEF Chain, IInv, TreeShape
  <2> QED BY <2>1, <2>2 DEF InTree, Within
<1> QED BY <1>2, <1>3

-----------------------------------------------------------------------------
(* addNewSubsegment on an open node. *)

(* A tree that gets s as a new leaf below p. *)
LEMMA GrowShape ==
  ASSUME TreeShape, up \in [Node -> SUBSET Node], live \subseteq Subsegment,
         NEW p \in {Root} \cup live, NEW s \in Subsegment, s \notin live,
         live' = live \cup {s}, open' = open \cup {s},
         up' = [d \in Node |-> IF d = s \/ s \in up[d] THEN up[d] \cup Chain(p) ELSE up[d]],
         withSegment' = IF p = Root \/ p \in withSegment THEN withSegment \cup {s}
                                                         ELSE withSegment
  PROVE  /\ up' \in [Node -> SUBSET Node]
         /\ up'[s] = Chain(p) /\ Chain(p) \subseteq {Root} \cup live /\ Root \in Chain(p)
         /\ \A d \in Node : d # s => up'[d] = up[d]
         /\ \A d \in Node : s \notin up'[d]
         /\ up' = [d \in Node |-> IF d = s THEN Chain(p) ELSE up[d]]
         /\ Ordered(up', live')
         /\ TreeShape'
<1>1. /\ Root \in Node /\ Root \notin Subsegment /\ live \subseteq Node /\ s \in Node
      /\ s # Root /\ p # s /\ p \in Node
  BY SubsegmentAssumption DEF Node
<1>2. Ordered(up, live)
  BY DEF TreeShape, Ordered
<1>3. \A n \in Node : up[n] \subseteq {Root} \cup live
  BY DEF TreeShape, Node
<1>4. Chain(p) \subseteq {Root} \cup live /\ Root \in Chain(p)
  BY <1>1, <1>3 DEF Chain, TreeShape
<1>5. up[s] = {} /\ \A d \in Node : s \notin up[d]
  BY <1>1, <1>3 DEF TreeShape
<1>6. up' = [d \in Node |-> IF d = s THEN Chain(p) ELSE up[d]]
  BY <1>5
<1>7. /\ up'[s] = Chain(p) /\ up'[Root] = {}
      /\ \A d \in live : d \in Node /\ d # s /\ up'[d] = up[d] /\ up[d] \subseteq {Root} \cup live
  BY <1>1, <1>2, <1>3, <1>6 DEF Ordered
<1>8. up' \in [Node -> SUBSET Node]
  BY <1>1, <1>4, <1>6
<1>9. Ordered(up', live')
  <2>1. ASSUME NEW d \in live', NEW b \in up'[d]
        PROVE  b \in {Root} \cup live' /\ up'[b] \subseteq up'[d]
    <3>1. CASE d = s
      <4>1. b \in Chain(p) /\ b # s /\ b \in {Root} \cup live
        BY <3>1, <2>1, <1>1, <1>4, <1>7
      <4>2. up[b] \subseteq Chain(p)
        BY <4>1, <1>2 DEF Chain, Ordered
      <4>3. up'[b] = up[b]
        BY <4>1, <1>2, <1>7 DEF Ordered
      <4> QED BY <4>1, <4>2, <4>3, <3>1, <1>7
    <3>2. CASE d # s
      <4>1. d \in live /\ b \in up[d] /\ b \in {Root} \cup live
        BY <3>2, <2>1, <1>7
      <4>2. up'[b] = up[b]
        BY <4>1, <1>2, <1>7 DEF Ordered
      <4> QED BY <4>1, <4>2, <1>2, <1>7 DEF Ordered
    <3> QED BY <3>1, <3>2
  <2>2. ASSUME NEW d \in live', NEW b \in up'[d], NEW c \in up'[d]
        PROVE  b = c \/ b \in up'[c] \/ c \in up'[b]
    <3>1. b \in {Root} \cup live /\ c \in {Root} \cup live
      BY <2>2, <1>4, <1>7
    <3>2. b = c \/ b \in up[c] \/ c \in up[b]
      <4>1. CASE d = s
        <5>1. \A x, y \in up[p] : x = y \/ x \in up[y] \/ y \in up[x]
          BY <1>2 DEF Ordered
        <5> QED BY <4>1, <5>1, <2>2, <1>7 DEF Chain
      <4>2. CASE d # s
        BY <4>2, <2>2, <1>2, <1>7 DEF Ordered
      <4> QED BY <4>1, <4>2
    <3>3. up'[b] = up[b] /\ up'[c] = up[c]
      BY <3>1, <1>2, <1>7 DEF Ordered
    <3> QED BY <3>2, <3>3
  <2> QED BY <2>1, <2>2, <1>7, <1>8 DEF Ordered
<1>10. \A d \in Node : s \notin up'[d]
  BY <1>1, <1>4, <1>5, <1>6
<1>11. TreeShape'
  <2>1. \A n \in Subsegment \ live' : up'[n] = {}
    BY <1>6 DEF TreeShape, Node
  <2>2. \A d \in live' : Root \in up'[d] /\ up'[d] \subseteq {Root} \cup live' /\ d \notin up'[d]
    <3>1. \A d \in live : Root \in up[d] /\ up[d] \subseteq {Root} \cup live /\ d \notin up[d]
      BY DEF TreeShape
    <3> QED BY <3>1, <1>1, <1>4, <1>7
  <2>3. withSegment' = live'
    BY DEF TreeShape
  <2>4. open' \subseteq {Root} \cup live'
    BY DEF TreeShape
  <2> QED BY <2>1, <2>2, <2>3, <2>4, <1>9 DEF TreeShape, Ordered
<1> QED BY <1>4, <1>6, <1>7, <1>8, <1>9, <1>10, <1>11

(* What is below an untraced node stays so when s inherits from p.         *)
LEMMA GrowDecision ==
  ASSUME TreeShape, DecisionInherited, live \subseteq Subsegment,
         NEW p \in {Root} \cup live, NEW s \in Subsegment, s \notin live, NEW unsampled \in BOOLEAN,
         live' = live \cup {s}, notTraced' = Decision(p, s, unsampled),
         up'[s] = Chain(p), \A d \in live : up'[d] = up[d]
  PROVE  DecisionInherited'
<1>1. notTraced \subseteq notTraced' /\ notTraced' \subseteq notTraced \cup {s}
      /\ (p \in notTraced => s \in notTraced')
  BY DEF Decision
<1>2. ASSUME NEW d \in live', NEW b \in up'[d], b \in notTraced' PROVE d \in notTraced'
  <2>1. CASE d = s
    <3>1. b \in Chain(p) /\ b \in {Root} \cup live /\ b # s
      BY <2>1, <1>2, SubsegmentAssumption DEF Chain, TreeShape
    <3>2. b \in notTraced
      BY <3>1, <1>1, <1>2
    <3>3. p \in notTraced
      BY <3>1, <3>2 DEF Chain, DecisionInherited, TreeShape
    <3> QED BY <3>3, <2>1, <1>1
  <2>2. CASE d # s
    <3>1. d \in live /\ b \in up[d] /\ b \in {Root} \cup live /\ b # s
      BY <2>2, <1>2, SubsegmentAssumption DEF TreeShape
    <3> QED BY <3>1, <1>1, <1>2 DEF DecisionInherited
  <2> QED BY <2>1, <2>2
<1> QED BY <1>2 DEF DecisionInherited

(* The tree after it: s is a new leaf below p. *)
LEMMA AddShape ==
  ASSUME ~Facade, IInv, NEW p \in Node, NEW s \in Subsegment, NEW unsampled \in BOOLEAN,
         AddToOpen(p, s, unsampled)
  PROVE  /\ s \notin live /\ s \notin open /\ s \notin kept /\ p \in {Root} \cup live /\ p # s
         /\ live' = live \cup {s} /\ open' = open \cup {s} /\ withSegment' = live'
         /\ up' \in [Node -> SUBSET Node]
         /\ up'[s] = Chain(p) /\ Chain(p) \subseteq {Root} \cup live
         /\ \A d \in Node : d # s => up'[d] = up[d]
         /\ \A d \in Node : s \notin up'[d]
         /\ counter' = [n \in Node |-> IF n \in Chain(p) THEN counter[n] + 1 ELSE counter[n]]
         /\ Ordered(up', live')
         /\ TreeShape'
<1>1. /\ s \notin live /\ p \in open /\ p \in {Root} \cup live
      /\ live' = live \cup {s} /\ open' = open \cup {s} /\ Attach(p, s, unsampled)
  BY DEF AddToOpen, AddNewSubsegment
<1>2. s \notin open /\ s \notin kept /\ p # s /\ s # Root
  BY <1>1, TreeFacts DEF IInv, TypeOK, TreeShape
<1>3. counter[s] = 0
  <2>1. OpenUnder(s) = {}
    BY <1>1, <1>2, TreeFacts DEF OpenUnder, Node
  <2> QED BY <2>1, FS_EmptySet DEF IInv, CounterExact, Node
<1>4. TreeShape /\ up \in [Node -> SUBSET Node] /\ live \subseteq Subsegment
  BY DEF IInv, TypeOK
<1>5. /\ up' = [d \in Node |-> IF d = s \/ s \in up[d] THEN up[d] \cup Chain(p) ELSE up[d]]
      /\ withSegment' = IF p = Root \/ p \in withSegment THEN withSegment \cup {s}
                                                         ELSE withSegment
  BY <1>1 DEF Attach
<1>6. /\ up' \in [Node -> SUBSET Node]
      /\ up'[s] = Chain(p) /\ Chain(p) \subseteq {Root} \cup live
      /\ \A d \in Node : d # s => up'[d] = up[d]
      /\ \A d \in Node : s \notin up'[d]
      /\ Ordered(up', live')
      /\ TreeShape'
  BY <1>1, <1>4, <1>5, GrowShape
<1>7. counter' = [n \in Node |-> IF n \in Chain(p) THEN counter[n] + 1 ELSE counter[n]]
  BY <1>1, <1>3 DEF Attach, Added, Counted
<1>8. withSegment' = live'
  BY <1>6 DEF TreeShape
<1> QED BY <1>1, <1>2, <1>6, <1>7, <1>8

(* It adds s to what is open below p and the ancestors of p, and to what   *)
(* they count.                                                             *)
LEMMA AddCounts ==
  ASSUME ~Facade, IInv, NEW p \in Node, NEW s \in Subsegment, NEW unsampled \in BOOLEAN,
         AddToOpen(p, s, unsampled)
  PROVE  /\ \A n \in Node : OpenUnder(n)' = IF n \in Chain(p) THEN OpenUnder(n) \cup {s}
                                                              ELSE OpenUnder(n)
         /\ CounterExact' /\ counter' \in [Node -> Nat]
<1>1. ASSUME NEW n \in Node
      PROVE  OpenUnder(n)' = IF n \in Chain(p) THEN OpenUnder(n) \cup {s} ELSE OpenUnder(n)
  <2>1. \A t \in Subsegment : t \in open' /\ n \in up'[t] <=>
          \/ t \in open /\ n \in up[t]
          \/ t = s /\ n \in Chain(p)
    BY AddShape DEF Node
  <2> QED BY <2>1 DEF OpenUnder
<1>2. \A n \in Node : s \notin OpenUnder(n) /\ IsFiniteSet(OpenUnder(n))
  BY AddShape, TreeFacts DEF OpenUnder
<1>3. \A n \in Node : Cardinality(OpenUnder(n) \cup {s}) = Cardinality(OpenUnder(n)) + 1
  BY <1>2, FS_AddElement
<1>4. \A n \in Node : counter[n] = Cardinality(OpenUnder(n))
  BY DEF IInv, CounterExact
<1>5. \A n \in Node : counter'[n] = IF n \in Chain(p) THEN counter[n] + 1 ELSE counter[n]
  BY AddShape
<1>6. CounterExact'
  BY <1>1, <1>3, <1>4, <1>5 DEF CounterExact
<1>7. counter' \in [Node -> Nat]
  BY AddShape DEF IInv, TypeOK
<1> QED BY <1>1, <1>6, <1>7

(* A step streams docs, of which flushed are sent, from the arrays k of a  *)
(* tree with ancestors a: complete subsegments that are in the tree.       *)
Streams(a, k, docs, flushed) ==
  /\ docs \subseteq Within(a, k, Root)
  /\ flushed \subseteq docs
  /\ kept' = k \ docs
  /\ sent' = Emitted(a, k, flushed)
  /\ \A x \in docs \ flushed : x \in notTraced
  /\ \A x \in docs : x \notin open' /\ OpenUnder(x)' = {}

(* What it streams: complete subsegments that are in the tree, and never s  *)
(* or a node above it.                                                     *)
LEMMA AddStreams ==
  ASSUME ~Facade, IInv, NEW p \in Node, NEW s \in Subsegment, NEW unsampled \in BOOLEAN,
         AddToOpen(p, s, unsampled)
  PROVE  \E docs, flushed : Streams(up', kept \cup {s}, docs, flushed)
<1> DEFINE array == IF p = Root THEN kept \cup {s} ELSE kept
           done == Complete(open', counter')
           docs == Streamed(up', array, Root, done)
           flushed == docs \cap Flushable
<1>1. CASE OverThreshold(counter')
  <2>1. Root \in Chain(p) /\ s \in open'
    BY AddShape, TreeFacts
  <2>2. kept' = Pruned(array, docs) \cup {s} /\ sent' = Emitted(up', array, flushed)
    BY <1>1, <2>1 DEF AddToOpen, AddNewSubsegment, Attach
  <2>3. done \subseteq Subsegment /\ Root \notin done /\ s \notin done
    BY AddShape, TreeFacts DEF Complete
  <2>4. docs \subseteq Within(up', array, Root) /\ docs \subseteq done
    BY <2>3 DEF Streamed
  <2>5. \A x \in docs : x \in Subsegment /\ x \in Node /\ x # s /\ x \in array /\ Root \in up'[x]
    BY <2>3, <2>4 DEF Within, Node
  <2>6. \A x \in docs : x \notin open' /\ counter'[x] <= 0
    BY <2>4 DEF Complete
  <2>x. flushed \subseteq docs
    OBVIOUS
  <2> HIDE DEF docs
  <2>7. ASSUME NEW x \in docs PROVE OpenUnder(x)' = {} /\ x \notin Chain(p)
    <3>a. x \in Node /\ counter'[x] <= 0
      BY <2>5, <2>6
    <3>b. counter'[x] = 0
      BY <3>a, AddCounts
    <3>1. x \in Node /\ counter'[x] = 0 /\ counter'[x] = Cardinality(OpenUnder(x)')
      BY <3>a, <3>b, AddCounts DEF CounterExact
    <3>2. IsFiniteSet(OpenUnder(x)')
      BY SubsegmentAssumption, FS_Subset DEF OpenUnder
    <3>3. OpenUnder(x)' = {}
      BY <3>1, <3>2, FS_EmptySet
    <3> QED BY <3>1, <3>3, AddCounts
  <2>8. ASSUME NEW x \in docs
        PROVE  Document(up', array, x) = Document(up', kept \cup {s}, x)
    <3>1. x \notin up'[s]
      BY <2>7, AddShape
    <3>2. \A d \in Subsegment : s \notin up'[d]
      BY AddShape DEF Node
    <3>3. Within(up', array, x) \subseteq Subsegment /\ Within(up', kept \cup {s}, x) \subseteq Subsegment
      BY TreeFacts DEF Within, IInv, TypeOK
    <3>4. \A d \in Subsegment : d \in Within(up', array, x) <=> d \in Within(up', kept \cup {s}, x)
      BY <3>1, <3>2 DEF Within
    <3> QED BY <3>3, <3>4 DEF Document
  <2>9. sent' = Emitted(up', kept \cup {s}, flushed)
    BY <2>2, <2>8 DEF Emitted
  <2>10. docs \subseteq Within(up', kept \cup {s}, Root)
    BY <2>4 DEF Within
  <2>11. kept' = (kept \cup {s}) \ docs
    BY <2>2, <2>5 DEF Pruned
  <2>12. \A x \in docs \ flushed : x \in notTraced
    <3>1. ASSUME NEW x \in docs \ flushed PROVE x \in notTraced
      <4>1. x \in live /\ Root \in up'[x] /\ up'[x] = up[x]
        BY <2>5, AddShape DEF IInv, TypeOK
      <4>2. x \in withSegment
        BY <4>1 DEF IInv, TreeShape
      <4> QED BY <4>1, <4>2 DEF Flushable, IInv, DecisionInherited
    <3> QED BY <3>1
  <2>13. Streams(up', kept \cup {s}, docs, flushed)
    BY <2>x, <2>6, <2>7, <2>9, <2>10, <2>11, <2>12 DEF Streams
  <2> QED BY <2>13
<1>2. CASE ~OverThreshold(counter')
  <2>1. kept' = kept \cup {s} /\ sent' = sent
    BY <1>2 DEF AddToOpen, AddNewSubsegment, Attach
  <2>2. sent = Emitted(up', kept \cup {s}, {})
    BY DEF Emitted, IInv, TypeOK
  <2>3. Streams(up', kept \cup {s}, {}, {})
    BY <2>1, <2>2 DEF Streams
  <2> QED BY <2>3
<1> QED BY <1>1, <1>2

(* addNewSubsegment preserves the invariant.                               *)
LEMMA AddPreserves ==
  ASSUME ~Facade, IInv, NEW p \in Node, NEW s \in Subsegment, NEW unsampled \in BOOLEAN,
         AddToOpen(p, s, unsampled)
  PROVE  IInv'
<1>0. PICK array : array = kept \cup {s}
  OBVIOUS
<1>a. PICK docs, flushed : Streams(up', kept \cup {s}, docs, flushed)
  BY AddStreams
<1>1. /\ docs \subseteq Within(up', array, Root) /\ flushed \subseteq docs
      /\ kept' = array \ docs
      /\ sent' = Emitted(up', array, flushed)
      /\ \A x \in docs \ flushed : x \in notTraced
      /\ \A x \in docs : x \notin open' /\ OpenUnder(x)' = {}
  BY <1>0, <1>a DEF Streams
<1>2. /\ live' \subseteq Subsegment /\ array \subseteq live' /\ Ordered(up', live')
      /\ p \in open /\ Root \in Chain(p)
  BY <1>0, AddShape, TreeFacts DEF AddToOpen, IInv, TypeOK
<1>3. notTraced' = Decision(p, s, unsampled)
  BY DEF AddToOpen, AddNewSubsegment, Attach
<1>4. notTraced \subseteq notTraced' /\ notTraced' \subseteq notTraced \cup {s}
      /\ (p \in notTraced => s \in notTraced')
  BY <1>3 DEF Decision
<1>5. Within(up', array, Root) = InTree \cup {s}
  <2>1. \A d \in Subsegment : d # s => up'[d] = up[d] /\ s \notin up[d]
    BY AddShape DEF Node
  <2>2. \A d \in Subsegment : d # s => (d \in Within(up', array, Root) <=> d \in InTree)
    <3>1. \A d \in kept : \A b \in up[d] : b \in Node /\ b # s /\ up'[b] = up[b]
      BY <2>1, AddShape, TreeFacts DEF IInv, TypeOK
    <3> QED BY <1>0, <2>1, <3>1, AddShape DEF Within, InTree
  <2>3. s \in Within(up', array, Root)
    <3>1. up'[s] = Chain(p) /\ Root \in up'[s]
      BY AddShape, <1>2
    <3>2. \A b \in Chain(p) : Root \in up'[b] => b \in kept
      BY OpenIsHeld, AddShape, <1>2, TreeFacts DEF Ordered
    <3> QED BY <1>0, <3>1, <3>2 DEF Within
  <2>4. InTree \subseteq Subsegment /\ Within(up', array, Root) \subseteq Subsegment
    BY <1>0, TreeFacts DEF InTree, Within, IInv, TypeOK
  <2> QED BY <2>2, <2>3, <2>4, AddShape DEF InTree, Within
<1>6. sent[Root] = 0
  BY OpenMeansUnsent, <1>2
<1>7. DecisionInherited'
  <2>1. TreeShape /\ DecisionInherited /\ live \subseteq Subsegment
    BY DEF IInv, TypeOK
  <2>2. /\ p \in {Root} \cup live /\ s \notin live /\ live' = live \cup {s} /\ up'[s] = Chain(p)
        /\ \A d \in live : up'[d] = up[d]
    BY AddShape, TreeFacts
  <2> QED BY <2>1, <2>2, <1>3, GrowDecision
<1>8. /\ Accounted(up', live', array \ docs, notTraced', sent')
      /\ \A n \in Node \ Within(up', array, Root) : sent'[n] = sent[n]
      /\ sent'[Root] = sent[Root]
  <2>1. Accounted(up', live', array, notTraced', sent)
    <3>1. sent \in [Node -> Nat] /\ \A n \in Node : sent[n] <= 1
      BY DEF IInv, TypeOK, SentOrHeld
    <3>2. \A d \in Within(up', array, Root) : sent[d] = 0
      BY <1>5, <1>6, AddShape DEF IInv, SentOrHeld
    <3>3. \A d \in live' \ Within(up', array, Root) : d \notin notTraced' => sent[d] = 1
      BY <1>4, <1>5, AddShape DEF IInv, SentOrHeld
    <3> QED BY <3>1, <3>2, <3>3 DEF Accounted
  <2>2. Inherited(up', live', notTraced')
    BY <1>7 DEF DecisionInherited, Inherited
  <2>3. \A x \in docs \ flushed : x \in notTraced'
    BY <1>1, <1>4
  <2>4. live' \in SUBSET Subsegment /\ array \in SUBSET live' /\ Ordered(up', live')
        /\ docs \in SUBSET Within(up', array, Root) /\ flushed \in SUBSET docs
    BY <1>1, <1>2
  <2>5. /\ Accounted(up', live', array \ docs, notTraced', Emitted(up', array, flushed))
        /\ \A n \in Node \ Within(up', array, Root) : Emitted(up', array, flushed)[n] = sent[n]
        /\ Root \notin Within(up', array, Root)
    <3>1. Streamable(up', live', array, notTraced', docs, flushed)
      BY <2>1, <2>2, <2>3, <2>4 DEF Streamable
    <3> QED BY <3>1, StreamingKeepsAccounts
  <2> QED BY <2>5, <1>1, TreeFacts
<1>9. TypeOK'
  <2>1. kept' \subseteq live'
    BY <1>1, <1>2
  <2>2. open' \subseteq Node /\ notTraced' \subseteq Node
    BY <1>4, AddShape DEF IInv, TypeOK, Node
  <2> QED BY <2>1, <2>2, <1>2, <1>8, AddShape, AddCounts DEF TypeOK, Accounted
<1>10. PrunedIsComplete'
  <2>1. ASSUME NEW d \in live' \ kept' PROVE d \notin open' /\ OpenUnder(d)' = {}
    <3>1. CASE d \in docs
      BY <3>1, <1>1
    <3>2. CASE d \notin docs
      <4>1. d \in live \ kept /\ d # s /\ d \in Node
        BY <3>2, <2>1, <1>0, <1>1, AddShape, TreeFacts
      <4>2. d \notin open /\ OpenUnder(d) = {}
        BY <4>1 DEF IInv, PrunedIsComplete
      <4>3. d \notin Chain(p)
        BY <4>1, <1>2, OpenIsHeld
      <4> QED BY <4>1, <4>2, <4>3, AddShape, AddCounts
    <3> QED BY <3>1, <3>2
  <2> QED BY <2>1 DEF PrunedIsComplete
<1>11. SentOrHeld'
  <2>1. InTree' = Within(up', array \ docs, Root)
    BY <1>1 DEF InTree
  <2>2. \A d \in Subsegment \ live' : sent'[d] = 0
    BY <1>5, <1>8, AddShape, TreeFacts DEF IInv, SentOrHeld, InTree, Within, TypeOK, Node
  <2>3. Root \in notTraced' => \A n \in Node : sent'[n] = 0
    <3>1. ASSUME Root \in notTraced' PROVE \A n \in Node : sent'[n] = 0
      <4>1. Root \in notTraced
        BY <3>1, <1>4, TreeFacts
      <4>2. Flushable = {} /\ \A n \in Node : sent[n] = 0
        BY <4>1 DEF Flushable, IInv, SentOrHeld
      <4>3. sent' = sent
        BY <4>2 DEF AddToOpen, AddNewSubsegment, Attach, Emitted, IInv, TypeOK
      <4> QED BY <4>2, <4>3
    <3> QED BY <3>1
  <2> QED BY <2>1, <2>2, <2>3, <1>8 DEF SentOrHeld, Accounted
<1>12. SentWhenAllClosed'
  BY <1>6, <1>8, AddShape DEF SentWhenAllClosed
<1> QED BY <1>7, <1>9, <1>10, <1>11, <1>12, AddShape, AddCounts DEF IInv

-----------------------------------------------------------------------------
(* Subsegment.close and Segment.close. *)

(* The flush of the segment sends the root and all it holds, and nothing   *)
(* but untraced subsegments is left unsent.                                *)
LEMMA FlushSendsAll ==
  ASSUME IInv, open # {}, open' = {}, FlushSegment,
         UNCHANGED <<live, up, kept, notTraced>>
  PROVE  SentOrHeld' /\ SentWhenAllClosed' /\ sent' \in [Node -> Nat]
<1>1. sent[Root] = 0 /\ InTree' = InTree /\ InTree \subseteq live /\ live \subseteq Node
      /\ Root \notin live /\ Root \in Node
  BY OpenMeansUnsent, TreeFacts DEF InTree, Within, IInv, TypeOK
<1>2. sent \in [Node -> Nat] /\ \A n \in Node : sent[n] <= 1
  BY DEF IInv, TypeOK, SentOrHeld
<1>3. CASE Root \in notTraced
  <2>1. sent' = sent /\ \A n \in Node : sent[n] = 0
    BY <1>3 DEF FlushSegment, IInv, SentOrHeld
  <2>2. \A s \in live : s \in notTraced
    BY <1>3 DEF IInv, DecisionInherited, TreeShape
  <2> QED BY <1>1, <1>2, <1>3, <2>1, <2>2 DEF SentOrHeld, SentWhenAllClosed, IInv, TypeOK
<1>4. CASE Root \notin notTraced
  <2>1. sent' = [n \in Node |-> IF n \in {Root} \cup InTree THEN sent[n] + 1 ELSE sent[n]]
    BY <1>4 DEF FlushSegment, Emitted, Document, InTree
  <2>2. \A n \in InTree : sent[n] = 0
    BY <1>1 DEF IInv, SentOrHeld
  <2>3. \A n \in Node : sent'[n] = IF n \in {Root} \cup InTree THEN 1 ELSE sent[n]
    BY <1>1, <2>1, <2>2
  <2>4. \A n \in live : n \notin notTraced => sent'[n] = 1
    BY <1>1, <2>3 DEF IInv, SentOrHeld
  <2>5. \A n \in Subsegment \ live : sent'[n] = 0
    <3>1. \A n \in Subsegment \ live : n \in Node /\ n # Root /\ n \notin InTree
      BY <1>1, TreeFacts DEF Node
    <3>2. \A n \in Subsegment \ live : sent[n] = 0
      BY DEF IInv, SentOrHeld
    <3> QED BY <2>3, <3>1, <3>2
  <2>6. sent' \in [Node -> Nat] /\ \A n \in Node : sent'[n] <= 1
    BY <1>2, <2>1, <2>3
  <2> QED BY <1>1, <1>4, <2>3, <2>4, <2>5, <2>6 DEF SentOrHeld, SentWhenAllClosed
<1> QED BY <1>3, <1>4

(* Closing s takes it from what is open below its ancestors, and from what  *)
(* they count, whatever the shape of the tree.                             *)
LEMMA CloseAccounts ==
  ASSUME ~Facade, TypeOK, CounterExact, NEW s \in Subsegment, CloseOpen(s)
  PROVE  /\ s \in open /\ s \in live /\ open' = open \ {s}
         /\ UNCHANGED <<live, up, withSegment, notTraced>>
         /\ \A n \in Node : OpenUnder(n)' = IF n \in up[s] THEN OpenUnder(n) \ {s}
                                                           ELSE OpenUnder(n)
         /\ CounterExact' /\ counter' \in [Node -> Nat]
<1>1. /\ s \in open /\ s \in live /\ open' = open \ {s}
      /\ UNCHANGED <<live, up, withSegment, notTraced>>
      /\ counter' = Counted(up[s], -1)
  BY DEF CloseOpen, CloseSubsegment
<1>2. ASSUME NEW n \in Node
      PROVE  OpenUnder(n)' = IF n \in up[s] THEN OpenUnder(n) \ {s} ELSE OpenUnder(n)
  <2>1. \A t \in Subsegment : t \in open' /\ n \in up'[t] <=> t \in open /\ t # s /\ n \in up[t]
    BY <1>1
  <2> QED BY <2>1 DEF OpenUnder
<1>3. \A n \in Node : IsFiniteSet(OpenUnder(n)) /\ counter[n] = Cardinality(OpenUnder(n))
  BY SubsegmentAssumption, FS_Subset DEF OpenUnder, CounterExact
<1>4. \A n \in up[s] : n \in Node /\ s \in OpenUnder(n)
  BY <1>1 DEF OpenUnder, Node, TypeOK
<1>5. \A n \in up[s] : Cardinality(OpenUnder(n) \ {s}) = Cardinality(OpenUnder(n)) - 1
  BY <1>3, <1>4, FS_RemoveElement
<1>6. counter' = [n \in Node |-> IF n \in up[s] THEN counter[n] - 1 ELSE counter[n]]
  BY <1>1 DEF Counted, TypeOK
<1>7. CounterExact'
  BY <1>2, <1>3, <1>5, <1>6 DEF CounterExact
<1>8. counter' \in [Node -> Nat]
  <2>1. \A n \in Node : IsFiniteSet(OpenUnder(n)')
    BY SubsegmentAssumption, FS_Subset DEF OpenUnder
  <2>2. \A n \in Node : Cardinality(OpenUnder(n)') \in Nat
    BY <2>1, FS_CardinalityType
  <2> QED BY <1>6, <1>7, <2>2 DEF CounterExact
<1> QED BY <1>1, <1>2, <1>7, <1>8

(* The same for a tree that satisfies the invariant. *)
LEMMA CloseCounts ==
  ASSUME ~Facade, IInv, NEW s \in Subsegment, CloseOpen(s)
  PROVE  /\ s \in open /\ s \in live /\ open' = open \ {s}
         /\ UNCHANGED <<live, up, withSegment, notTraced>>
         /\ \A n \in Node : OpenUnder(n)' = IF n \in up[s] THEN OpenUnder(n) \ {s}
                                                           ELSE OpenUnder(n)
         /\ CounterExact' /\ counter' \in [Node -> Nat]
BY CloseAccounts DEF IInv

(* A counter of 0 means that nothing is open below. *)
LEMMA ZeroMeansNoneOpen ==
  ASSUME CounterExact', NEW n \in Node, counter'[n] \in Nat
  PROVE  counter'[n] <= 0 <=> OpenUnder(n)' = {}
<1>1. IsFiniteSet(OpenUnder(n)') /\ counter'[n] = Cardinality(OpenUnder(n)')
  BY SubsegmentAssumption, FS_Subset DEF OpenUnder, CounterExact
<1>2. Cardinality(OpenUnder(n)') = 0 <=> OpenUnder(n)' = {}
  BY <1>1, FS_EmptySet
<1> QED BY <1>1, <1>2

(* Unless it flushes the segment, a close streams complete subsegments of  *)
(* the tree: s itself, or what is below it.                                *)
LEMMA CloseStreams ==
  ASSUME ~Facade, IInv, NEW s \in Subsegment, CloseOpen(s), ~LastOfClosedSegment(s)
  PROVE  \E docs, flushed : Streams(up, kept, docs, flushed)
<1> DEFINE done == Complete(open', counter')
           docs == Streamed(up, kept, s, done)
           flushed == docs \cap Flushable
<1>1. CASE s \in withSegment /\ OverThreshold(counter')
  <2>1. kept' = Pruned(kept, docs) /\ sent' = Emitted(up, kept, flushed)
    BY <1>1 DEF CloseOpen, CloseSubsegment
  <2>2. s \in InTree /\ kept \in SUBSET live /\ live \in SUBSET Subsegment
    BY CloseCounts, OpenIsHeld DEF IInv, TypeOK
  <2>3. Within(up, kept, s) \subseteq InTree
    <3>1. Document(up, kept, s) \subseteq Within(up, kept, Root)
      <4>1. {s} \in SUBSET Within(up, kept, Root) /\ Ordered(up, live)
        BY <2>2, TreeFacts DEF InTree
      <4>2. \A x \in {s} : Document(up, kept, x) \subseteq Within(up, kept, Root)
        BY <4>1, <2>2, Cut
      <4> QED BY <4>2
    <3> QED BY <3>1 DEF Document, InTree
  <2>4. docs \subseteq InTree /\ docs \subseteq done
    <3>1. CASE s \in done
      BY <3>1, <2>2 DEF Streamed
    <3>2. CASE s \notin done
      BY <3>2, <2>3 DEF Streamed
    <3> QED BY <3>1, <3>2
  <2>5. \A x \in docs : x \in live /\ x \in Node /\ x \notin open' /\ counter'[x] <= 0
    BY <2>2, <2>4, TreeFacts DEF Complete, InTree, Within
  <2>6. flushed \subseteq docs
    OBVIOUS
  <2>7. \A x \in docs \ flushed : x \in notTraced
    BY <2>5 DEF Flushable, IInv, TreeShape, DecisionInherited
  <2> HIDE DEF docs
  <2>8. ASSUME NEW x \in docs PROVE x \notin open' /\ OpenUnder(x)' = {}
    <3>1. x \in Node /\ x \notin open' /\ counter'[x] <= 0
      BY <2>5
    <3>2. CounterExact' /\ counter'[x] \in Nat
      BY <3>1, CloseCounts
    <3> QED BY <3>1, <3>2, ZeroMeansNoneOpen
  <2>9. Streams(up, kept, docs, flushed)
    BY <2>1, <2>4, <2>6, <2>7, <2>8 DEF Streams, InTree, Pruned
  <2> QED BY <2>9
<1>2. CASE ~(s \in withSegment /\ OverThreshold(counter'))
  <2>1. kept' = kept /\ sent' = sent
    BY <1>2 DEF CloseOpen, CloseSubsegment
  <2>2. sent = Emitted(up, kept, {})
    BY DEF Emitted, IInv, TypeOK
  <2>3. Streams(up, kept, {}, {})
    BY <2>1, <2>2 DEF Streams
  <2> QED BY <2>3
<1> QED BY <1>1, <1>2

(* The parts of the invariant that a close disturbs only in what is open.  *)
LEMMA CloseShape ==
  ASSUME ~Facade, IInv, NEW s \in Subsegment, CloseOpen(s)
  PROVE  TreeShape' /\ DecisionInherited' /\ CounterExact'
<1>1. TreeShape'
  BY CloseCounts DEF IInv, TreeShape
<1>2. DecisionInherited'
  BY CloseCounts DEF IInv, DecisionInherited
<1> QED BY <1>1, <1>2, CloseCounts

(* Subsegment.close preserves the invariant.                               *)
LEMMA ClosePreserves ==
  ASSUME ~Facade, IInv, NEW s \in Subsegment, CloseOpen(s)
  PROVE  IInv'
<1>1. /\ s \in open /\ s \in live /\ open' = open \ {s} /\ open # {}
      /\ UNCHANGED <<live, up, withSegment, notTraced>>
      /\ Root \in up[s] /\ s # Root /\ Root \in Node
      /\ counter' \in [Node -> Nat]
  BY CloseCounts, TreeFacts DEF IInv, TreeShape
<1>2. \A n \in Node : OpenUnder(n)' \subseteq OpenUnder(n)
  BY CloseCounts
<1>3. CASE LastOfClosedSegment(s)
  <2>1. Root \notin open /\ counter'[Root] <= 0 /\ kept' = kept /\ FlushSegment
    BY <1>3 DEF LastOfClosedSegment, CloseOpen, CloseSubsegment
  <2>2. OpenUnder(Root)' = {}
    BY <2>1, <1>1, CloseCounts, ZeroMeansNoneOpen
  <2>3. open' = {}
    <3>1. \A d \in live : d \in Subsegment /\ Root \in up'[d]
      BY <1>1 DEF IInv, TypeOK, TreeShape
    <3>2. \A d \in open' : d \in live
      BY <1>1, <2>1 DEF IInv, TreeShape
    <3> QED BY <2>2, <3>1, <3>2 DEF OpenUnder
  <2>4. SentOrHeld' /\ SentWhenAllClosed' /\ sent' \in [Node -> Nat]
    BY <1>1, <2>1, <2>3, FlushSendsAll
  <2>5. PrunedIsComplete'
    BY <1>1, <1>2, <2>1, <2>3 DEF IInv, PrunedIsComplete, OpenUnder
  <2>6. TypeOK'
    BY <1>1, <2>1, <2>4 DEF IInv, TypeOK
  <2> QED BY <2>4, <2>5, <2>6, CloseShape DEF IInv
<1>4. CASE ~LastOfClosedSegment(s)
  <2>a. PICK docs, flushed : Streams(up, kept, docs, flushed)
    BY <1>4, CloseStreams
  <2>1. /\ docs \subseteq InTree /\ flushed \subseteq docs
        /\ kept' = kept \ docs
        /\ sent' = Emitted(up, kept, flushed)
        /\ \A x \in docs \ flushed : x \in notTraced
        /\ \A x \in docs : x \notin open' /\ OpenUnder(x)' = {}
    BY <2>a DEF Streams, InTree
  <2>2. sent[Root] = 0
    BY <1>1, OpenMeansUnsent
  <2>3. Streamable(up, live, kept, notTraced, docs, flushed)
    <3>1. Accounted(up, live, kept, notTraced, sent)
      BY <2>2 DEF Accounted, IInv, TypeOK, SentOrHeld, InTree
    <3>2. Inherited(up, live, notTraced)
      BY DEF Inherited, IInv, DecisionInherited
    <3>3. live \subseteq Subsegment /\ kept \subseteq live
      BY DEF IInv, TypeOK
    <3> QED BY <2>1, <3>1, <3>2, <3>3, TreeFacts DEF Streamable, InTree
  <2>4. /\ Accounted(up, live, kept \ docs, notTraced, Emitted(up, kept, flushed))
        /\ \A n \in Node \ InTree : Emitted(up, kept, flushed)[n] = sent[n]
        /\ Root \notin InTree
    BY <2>3, StreamingKeepsAccounts DEF InTree
  <2>5. /\ Accounted(up, live, kept', notTraced, sent')
        /\ \A n \in Node \ InTree : sent'[n] = sent[n]
        /\ sent'[Root] = 0
    BY <2>1, <2>2, <2>4, <1>1
  <2>6. TypeOK'
    BY <1>1, <2>1, <2>5 DEF IInv, TypeOK, Accounted
  <2>7. PrunedIsComplete'
    <3>1. ASSUME NEW d \in live \ kept' PROVE d \notin open' /\ OpenUnder(d)' = {}
      <4>1. CASE d \in docs
        BY <4>1, <2>1
      <4>2. CASE d \notin docs
        <5>1. d \in live \ kept /\ d \in Node
          BY <3>1, <4>2, <2>1, TreeFacts
        <5> QED BY <5>1, <1>1, <1>2 DEF IInv, PrunedIsComplete
      <4> QED BY <4>1, <4>2
    <3> QED BY <3>1, <1>1 DEF PrunedIsComplete
  <2>8. SentOrHeld'
    <3>1. InTree' = Within(up, kept', Root)
      BY <1>1 DEF InTree
    <3>2. \A d \in Subsegment \ live : sent'[d] = 0
      BY <2>5 DEF IInv, TypeOK, SentOrHeld, InTree, Within, Node
    <3>3. ASSUME Root \in notTraced PROVE \A n \in Node : sent'[n] = 0
      <4>1. \A x \in flushed : x \in live
        BY <2>1 DEF InTree, Within, IInv, TypeOK
      <4>2. Flushable = {} /\ \A n \in Node : sent[n] = 0
        BY <3>3 DEF Flushable, IInv, SentOrHeld
      <4>3. sent' = sent
        BY <1>4, <4>2 DEF CloseOpen, CloseSubsegment, Emitted, IInv, TypeOK
      <4> QED BY <4>2, <4>3
    <3> QED BY <3>1, <3>2, <3>3, <1>1, <2>5 DEF SentOrHeld, Accounted
  <2>9. SentWhenAllClosed'
    <3>1. ASSUME open' = {} PROVE Root \in notTraced
      <4>1. OpenUnder(Root)' = {} /\ Root \notin open
        BY <3>1, <1>1 DEF OpenUnder
      <4>2. counter'[Root] <= 0
        BY <4>1, <1>1, CloseCounts, ZeroMeansNoneOpen
      <4> QED BY <4>1, <4>2, <1>1, <1>4 DEF LastOfClosedSegment
    <3> QED BY <3>1, <2>5, <1>1 DEF SentWhenAllClosed
  <2> QED BY <2>6, <2>7, <2>8, <2>9, CloseShape DEF IInv
<1> QED BY <1>3, <1>4

(* Segment.close preserves the invariant.                                  *)
LEMMA CloseSegmentPreserves ==
  ASSUME ~Facade, IInv, CloseOpenSegment
  PROVE  IInv'
<1>1. /\ Root \in open /\ open' = open \ {Root} /\ open # {}
      /\ UNCHANGED <<live, up, withSegment, kept, counter, notTraced>>
      /\ Root \in Node /\ Root \notin Subsegment
  BY TreeFacts DEF CloseOpenSegment, CloseSegment
<1>2. \A n \in Node : OpenUnder(n)' = OpenUnder(n)
  BY <1>1 DEF OpenUnder
<1>3. CounterExact' /\ counter' \in [Node -> Nat]
  BY <1>1, <1>2 DEF IInv, TypeOK, CounterExact
<1>4. TreeShape' /\ DecisionInherited' /\ PrunedIsComplete'
  <2>1. TreeShape' /\ DecisionInherited'
    BY <1>1 DEF IInv, TreeShape, DecisionInherited
  <2>2. \A d \in live : d \in Node
    BY TreeFacts
  <2>3. PrunedIsComplete'
    BY <1>1, <1>2, <2>2 DEF IInv, PrunedIsComplete
  <2> QED BY <2>1, <2>3
<1>5. CASE counter[Root] <= 0
  <2>1. OpenUnder(Root)' = {} /\ FlushSegment
    BY <1>1, <1>3, <1>5, ZeroMeansNoneOpen DEF CloseOpenSegment, CloseSegment
  <2>2. open' = {}
    <3>1. \A d \in live : d \in Subsegment /\ Root \in up'[d]
      BY <1>1 DEF IInv, TypeOK, TreeShape
    <3>2. \A d \in open' : d \in live
      BY <1>1 DEF IInv, TreeShape
    <3> QED BY <2>1, <3>1, <3>2 DEF OpenUnder
  <2>3. SentOrHeld' /\ SentWhenAllClosed' /\ sent' \in [Node -> Nat]
    BY <1>1, <2>1, <2>2, FlushSendsAll
  <2>4. TypeOK'
    BY <1>1, <2>3 DEF IInv, TypeOK
  <2> QED BY <1>3, <1>4, <2>3, <2>4 DEF IInv
<1>6. CASE ~(counter[Root] <= 0)
  <2>1. sent' = sent /\ sent[Root] = 0
    BY <1>1, <1>6, OpenMeansUnsent DEF CloseOpenSegment, CloseSegment
  <2>2. open' # {}
    <3>1. OpenUnder(Root)' # {}
      BY <1>1, <1>3, <1>6, ZeroMeansNoneOpen
    <3> QED BY <3>1 DEF OpenUnder
  <2>3. SentOrHeld'
    BY <1>1, <2>1 DEF IInv, SentOrHeld, InTree
  <2>4. SentWhenAllClosed' /\ TypeOK'
    BY <1>1, <2>1, <2>2 DEF IInv, TypeOK, SentWhenAllClosed
  <2> QED BY <1>3, <1>4, <2>3, <2>4 DEF IInv
<1> QED BY <1>5, <1>6

(* A new segment satisfies it.                                             *)
LEMMA InitEstablishes ==
  ASSUME Init
  PROVE  IInv
<1> USE DEF Init
<1>1. Root \in Node /\ Root \notin Subsegment
  BY SubsegmentAssumption DEF Node
<1>2. \A n \in Node : OpenUnder(n) = {}
  BY <1>1 DEF OpenUnder
<1>3. TypeOK
  BY <1>1 DEF TypeOK
<1>4. TreeShape /\ DecisionInherited /\ PrunedIsComplete
  BY <1>1 DEF TreeShape, DecisionInherited, PrunedIsComplete, Node
<1>5. CounterExact
  BY <1>2, FS_EmptySet DEF CounterExact
<1>6. SentOrHeld /\ SentWhenAllClosed
  <2>1. InTree = {}
    BY DEF InTree, Within
  <2>2. \A d \in Subsegment : d \in Node /\ sent[d] = 0
    BY DEF Node
  <2> QED BY <1>1, <2>1, <2>2 DEF SentOrHeld, SentWhenAllClosed
<1> QED BY <1>3, <1>4, <1>5, <1>6 DEF IInv

(* So does a step that changes nothing.                                    *)
LEMMA StutterPreserves ==
  ASSUME IInv, UNCHANGED vars
  PROVE  IInv'
<1>1. \A n \in Node : OpenUnder(n)' = OpenUnder(n)
  BY DEF vars, OpenUnder
<1>2. live \subseteq Node
  BY TreeFacts
<1>3. TypeOK' /\ TreeShape' /\ DecisionInherited' /\ SentWhenAllClosed'
  BY DEF vars, IInv, TypeOK, TreeShape, DecisionInherited, SentWhenAllClosed
<1>4. CounterExact' /\ PrunedIsComplete'
  BY <1>1, <1>2 DEF vars, IInv, CounterExact, PrunedIsComplete
<1>5. SentOrHeld'
  BY DEF vars, IInv, SentOrHeld, InTree
<1> QED BY <1>3, <1>4, <1>5 DEF IInv

(* The invariant is inductive.                                             *)
LEMMA NextPreserves ==
  ASSUME ~Facade, IInv, [Next]_vars
  PROVE  IInv'
<1>1. CASE \E p \in Node, s \in Subsegment, unsampled \in BOOLEAN : AddToOpen(p, s, unsampled)
  BY <1>1, AddPreserves
<1>2. CASE \E s \in Subsegment : CloseOpen(s)
  BY <1>2, ClosePreserves
<1>3. CASE CloseOpenSegment
  BY <1>3, CloseSegmentPreserves
<1>4. CASE UNCHANGED vars
  BY <1>4, StutterPreserves
<1> QED BY <1>1, <1>2, <1>3, <1>4 DEF Next

-----------------------------------------------------------------------------
(* The invariants, for a segment other than the one of AWS Lambda.         *)

(* IInv, the inductive invariant of the tree, holds throughout: the state  *)
(* that addSubsegment, close and streamSubsegments leave behind.           *)
THEOREM TreeInvariant == ASSUME ~Facade PROVE Spec => []IInv
<1>1. Init => IInv
  BY InitEstablishes
<1>2. IInv /\ [Next]_vars => IInv'
  BY NextPreserves
<1> QED BY <1>1, <1>2, PTL DEF Spec

(* The fields keep their types; no counter is ever negative                *)
(* (decrementCounter).                                                     *)
THEOREM TypeCorrect == ASSUME ~Facade PROVE Spec => []TypeOK
<1>1. IInv => TypeOK
  BY DEF IInv
<1> QED BY <1>1, TreeInvariant, PTL

(* Every counter is the number of open subsegments below its node          *)
(* (incrementCounter, decrementCounter).                                   *)
THEOREM CountersAreExact == ASSUME ~Facade PROVE Spec => []CounterExact
<1>1. IInv => CounterExact
  BY DEF IInv
<1> QED BY <1>1, TreeInvariant, PTL

(* Once all is closed, all that is to be traced has been sent              *)
(* (Segment.close, decrementCounter and the two flush functions).          *)
THEOREM NothingIsLost == ASSUME ~Facade PROVE Spec => []NothingLost
<1>1. IInv => NothingLost
  <2> SUFFICES ASSUME IInv, open = {}, NEW n \in {Root} \cup live, n \notin notTraced
               PROVE  sent[n] > 0
    BY DEF NothingLost
  <2>1. Root \notin notTraced
    BY DEF IInv, TreeShape, DecisionInherited
  <2> QED BY <2>1 DEF IInv, SentWhenAllClosed
<1> QED BY <1>1, TreeInvariant, PTL

(* No node is in two documents (streamSubsegments, removeSubsegment).      *)
THEOREM NothingIsSentTwice == ASSUME ~Facade PROVE Spec => []NothingSentTwice
<1>1. IInv => NothingSentTwice
  BY DEF IInv, SentOrHeld, NothingSentTwice
<1> QED BY <1>1, TreeInvariant, PTL

(* What leaves the tree has been sent or is not to be traced               *)
(* (streamSubsegments, removeSubsegment).                                  *)
THEOREM PrunedHasBeenSent == ASSUME ~Facade PROVE Spec => []MemberPrunedOnlyWhenSent
<1>1. IInv => MemberPrunedOnlyWhenSent
  <2> SUFFICES ASSUME IInv, NEW s \in withSegment \ kept, s \notin notTraced
               PROVE  sent[s] > 0
    BY DEF MemberPrunedOnlyWhenSent
  <2>1. s \in live \ InTree
    BY DEF IInv, TreeShape, InTree, Within
  <2> QED BY <2>1 DEF IInv, SentOrHeld
<1> QED BY <1>1, TreeInvariant, PTL

(* A segment that is not sampled sends nothing (the two flush functions).  *)
THEOREM UnsampledIsSilent == ASSUME ~Facade PROVE Spec => []UnsampledSegmentIsSilent
<1>1. IInv => UnsampledSegmentIsSilent
  BY DEF IInv, SentOrHeld, UnsampledSegmentIsSilent
<1> QED BY <1>1, TreeInvariant, PTL

-----------------------------------------------------------------------------
(* What a step may do. *)

(* No document is sent once the segment has been: then nothing is open, so *)
(* nothing can be added or closed (Segment.flush).                         *)
THEOREM SentIsFinal == ASSUME ~Facade PROVE Spec => SentSegmentIsFinal
<1>1. IInv /\ [Next]_vars => (sent[Root] > 0 => UNCHANGED sent)
  <2> SUFFICES ASSUME IInv, [Next]_vars, sent[Root] > 0 PROVE UNCHANGED sent
    OBVIOUS
  <2>1. open = {}
    BY OpenMeansUnsent
  <2>2. ~Next
    BY <2>1 DEF Next, AddToOpen, CloseOpen, CloseOpenSegment
  <2> QED BY <2>2 DEF vars
<1>2. IInv /\ [Next]_vars => [sent[Root] > 0 => UNCHANGED sent]_vars
  BY <1>1
<1> QED BY <1>2, TreeInvariant, PTL DEF Spec, SentSegmentIsFinal

(* A document streamed by a step holds nothing that is open, or has        *)
(* something open below it, after the step.                                *)
LEMMA StreamsOnlyComplete ==
  ASSUME NEW a, NEW l \in SUBSET Subsegment, Ordered(a, l), up' = a, open' \subseteq {Root} \cup l,
         NEW k \in SUBSET l, NEW docs, NEW flushed, Streams(a, k, docs, flushed),
         NEW n \in Node, sent'[n] > sent[n], sent[n] \in Nat
  PROVE  n \notin open' /\ \A s \in open' : n \notin up'[s]
<1>1. sent'[n] = IF \E x \in flushed : n \in Document(a, k, x) THEN sent[n] + 1 ELSE sent[n]
  BY DEF Streams, Emitted
<1>2. PICK x \in flushed : n \in Document(a, k, x)
  BY <1>1
<1>3. (n = x \/ x \in a[n]) /\ x \notin open' /\ OpenUnder(x)' = {} /\ x \in Subsegment
  BY <1>2 DEF Document, Within, Streams
<1>4. \A s \in open' : s \in Subsegment => x \notin a[s]
  BY <1>3 DEF OpenUnder
<1>5. n \notin open'
  BY <1>3, <1>4 DEF Node, Ordered
<1>6. ASSUME NEW s \in open', n \in a[s] PROVE FALSE
  <2>1. s \in l
    BY <1>6 DEF Ordered
  <2>2. x \in a[s]
    BY <1>3, <1>6, <2>1 DEF Ordered
  <2> QED BY <2>1, <2>2, <1>4
<1> QED BY <1>5, <1>6

(* What is sent is closed, and what is below it too. *)
SendsComplete ==
  \A n \in Node : sent'[n] > sent[n] => n \notin open' /\ \A s \in open' : n \notin up'[s]

(* Every step sends only such nodes. *)
LEMMA StepSendsComplete == ASSUME ~Facade, IInv, [Next]_vars PROVE SendsComplete
<1> USE DEF SendsComplete
<1>1. ASSUME NEW p \in Node, NEW s \in Subsegment, NEW unsampled \in BOOLEAN,
             AddToOpen(p, s, unsampled)
      PROVE  SendsComplete
  <2>1. PICK docs, flushed : Streams(up', kept \cup {s}, docs, flushed)
    BY <1>1, AddStreams
  <2>2. live' \in SUBSET Subsegment /\ Ordered(up', live') /\ open' \subseteq {Root} \cup live'
        /\ kept \cup {s} \in SUBSET live' /\ \A n \in Node : sent[n] \in Nat
    BY <1>1, AddShape DEF IInv, TypeOK, TreeShape
  <2> QED BY <2>1, <2>2, StreamsOnlyComplete
<1>2. ASSUME NEW s \in Subsegment, CloseOpen(s) PROVE SendsComplete
  <2>1. CASE LastOfClosedSegment(s)
    <3>1. OpenUnder(Root)' = {} /\ Root \notin open' /\ Root \in Node
      BY <1>2, <2>1, CloseCounts, ZeroMeansNoneOpen, TreeFacts DEF LastOfClosedSegment
    <3>2. TreeShape' /\ live' \subseteq Subsegment
      BY <1>2, CloseShape, CloseCounts DEF IInv, TypeOK
    <3>3. open' = {}
      BY <3>1, <3>2 DEF OpenUnder, TreeShape
    <3> QED BY <3>3
  <2>2. CASE ~LastOfClosedSegment(s)
    <3>1. PICK docs, flushed : Streams(up, kept, docs, flushed)
      BY <1>2, <2>2, CloseStreams
    <3>2. up' = up /\ live \in SUBSET Subsegment /\ Ordered(up, live)
          /\ kept \in SUBSET live
          /\ open' \subseteq {Root} \cup live /\ \A n \in Node : sent[n] \in Nat
      BY <1>2, CloseCounts, TreeFacts DEF IInv, TypeOK, TreeShape
    <3> QED BY <3>1, <3>2, StreamsOnlyComplete
  <2> QED BY <2>1, <2>2
<1>3. ASSUME CloseOpenSegment PROVE SendsComplete
  <2>1. CASE counter[Root] <= 0
    <3>1. IInv' /\ counter'[Root] <= 0 /\ Root \notin open' /\ Root \in Node
      BY <1>3, <2>1, CloseSegmentPreserves, TreeFacts DEF CloseOpenSegment, CloseSegment
    <3>2. OpenUnder(Root)' = {}
      BY <3>1, ZeroMeansNoneOpen DEF IInv, TypeOK
    <3>3. open' = {}
      BY <3>1, <3>2 DEF OpenUnder, IInv, TreeShape, TypeOK
    <3> QED BY <3>3
  <2>2. CASE ~(counter[Root] <= 0)
    <3>1. sent' = sent /\ \A n \in Node : sent[n] \in Nat
      BY <1>3, <2>2 DEF CloseOpenSegment, CloseSegment, IInv, TypeOK
    <3> QED BY <3>1
  <2> QED BY <2>1, <2>2
<1>4. ASSUME UNCHANGED vars PROVE SendsComplete
  BY <1>4 DEF vars, IInv, TypeOK
<1> QED BY <1>1, <1>2, <1>3, <1>4 DEF Next

(* Only closed nodes with nothing open below them are sent                 *)
(* (streamSubsegments, Segment.flush).                                     *)
THEOREM SentIsComplete == ASSUME ~Facade PROVE Spec => OnlyCompleteIsSent
<1>1. IInv /\ [Next]_vars => SendsComplete
  BY StepSendsComplete
<1>2. IInv /\ [Next]_vars =>
        [\A n \in Node : sent'[n] > sent[n] =>
            n \notin open' /\ \A s \in open' : n \notin up'[s]]_vars
  BY <1>1 DEF SendsComplete
<1> QED BY <1>2, TreeInvariant, PTL DEF Spec, OnlyCompleteIsSent

-----------------------------------------------------------------------------
(* Streaming on a breach leaves nothing complete in the tree. *)

(* On the way up from a node of a set one meets a topmost node of the set. *)
LEMMA HasTopmost ==
  ASSUME NEW a \in [Node -> SUBSET Node], NEW reached \in SUBSET Node, NEW d \in reached,
         \A x \in reached : x \notin a[x] /\ \A b \in a[x] : a[b] \subseteq a[x]
  PROVE  \E x \in reached : x \in {d} \cup a[d] /\ a[x] \cap reached = {}
<1> DEFINE way == reached \cap ({d} \cup a[d])
<1>1. IsFiniteSet(Node)
  BY SubsegmentAssumption, FS_AddElement, FS_Union, FS_Singleton DEF Node
<1> DEFINE family == {a[x] : x \in way}
<1>2. family \in SUBSET (SUBSET Node) /\ family # {}
  OBVIOUS
<1> HIDE DEF family
<1>3. PICK above \in family : \A y \in family : y \subseteq above => y = above
  BY <1>1, <1>2, HasMinimal
<1> USE DEF family
<1>4. PICK x \in way : above = a[x]
  OBVIOUS
<1>5. ASSUME NEW y \in a[x] \cap reached PROVE FALSE
  <2>1. a[y] \subseteq a[x] /\ y \notin a[y] /\ a[x] \subseteq a[d]
    BY <1>4, <1>5
  <2>2. y \in way
    BY <2>1, <1>5
  <2> QED BY <2>1, <2>2, <1>3, <1>4, <1>5
<1> QED BY <1>4, <1>5

(* A new subsegment that breaches the threshold leaves nothing complete in *)
(* the arrays: whatever is complete is nested in a topmost complete one.   *)
LEMMA AddLeavesNothingComplete ==
  ASSUME ~Facade, IInv, NEW p \in Node, NEW s \in Subsegment, NEW unsampled \in BOOLEAN,
         AddToOpen(p, s, unsampled), OverThreshold(counter')
  PROVE  Within(up', kept', Root) \cap Complete(open', counter') = {}
<1> DEFINE array == IF p = Root THEN kept \cup {s} ELSE kept
           done == Complete(open', counter')
           reached == Within(up', array, Root) \cap done
           docs == Streamed(up', array, Root, done)
<1>1. Root \in Chain(p) /\ s \in open' /\ s \notin array \ {s} /\ s \notin done
  BY AddShape, TreeFacts DEF Complete
<1>2. kept' = (array \ docs) \cup {s}
  BY <1>1 DEF AddToOpen, AddNewSubsegment, Attach, Pruned
<1>3. docs = {x \in reached : up'[x] \cap reached = {}}
  BY TreeFacts DEF Streamed, Complete
<1>4. up' \in [Node -> SUBSET Node] /\ reached \in SUBSET Node /\ array \subseteq live'
  BY AddShape DEF IInv, TypeOK, Within, Complete, Node
<1>5. \A x \in reached : x \notin up'[x] /\ \A b \in up'[x] : up'[b] \subseteq up'[x]
  <2>1. \A x \in reached : x \in live'
    BY <1>4 DEF Within
  <2> QED BY <2>1, AddShape DEF TreeShape
<1> HIDE DEF docs, array, done
<1>6. ASSUME NEW d \in Within(up', kept', Root), d \in done PROVE FALSE
  <2>1. d \in kept' /\ d # s /\ Root \in up'[d] /\ d \in Subsegment
        /\ \A b \in up'[d] : Root \in up'[b] => b \in kept' /\ b # s
    BY <1>1, <1>6, AddShape DEF Within, done, Complete, Node
  <2>2. d \in array \ docs /\ \A b \in up'[d] : Root \in up'[b] => b \in array \ docs
    BY <2>1, <1>2
  <2>3. d \in reached
    BY <2>1, <2>2, <1>6 DEF Within
  <2> HIDE DEF reached
  <2>4. PICK x \in reached : x \in {d} \cup up'[d] /\ up'[x] \cap reached = {}
    BY <2>3, <1>4, <1>5, HasTopmost
  <2>5. x \in docs
    BY <2>4, <1>3
  <2>6. Root \in up'[x]
    BY DEF reached, Within
  <2> QED BY <2>2, <2>4, <2>5, <2>6
<1> QED BY <1>6 DEF done

(* When a new subsegment breaches the threshold, no complete subsegment is *)
(* left in the tree (Segment.incrementCounter).                            *)
THEOREM BreachLeavesNothing == ASSUME ~Facade PROVE Spec => BreachSendsCompleted
<1> DEFINE Left == counter'[Root] > counter[Root] /\ counter'[Root] > Threshold =>
                     Within(up', kept', Root) \cap Complete(open', counter') = {}
<1>1. ASSUME IInv, [Next]_vars PROVE Left
  <2>1. CASE \E p \in Node, s \in Subsegment, unsampled \in BOOLEAN : AddToOpen(p, s, unsampled)
    BY <1>1, <2>1, AddLeavesNothingComplete DEF OverThreshold
  <2>2. ASSUME NEW s \in Subsegment, CloseOpen(s) PROVE Left
    <3>1. counter' = [n \in Node |-> IF n \in up[s] THEN counter[n] - 1 ELSE counter[n]]
      BY <2>2 DEF CloseOpen, CloseSubsegment, Counted
    <3>2. counter[Root] \in Int /\ Root \in Node
      BY <1>1, TreeFacts DEF IInv, TypeOK
    <3>3. ~(counter'[Root] > counter[Root])
      BY <3>1, <3>2
    <3> QED BY <3>3
  <2>3. ASSUME CloseOpenSegment \/ UNCHANGED vars PROVE Left
    <3>1. counter' = counter /\ counter[Root] \in Int
      BY <1>1, <2>3, TreeFacts DEF CloseOpenSegment, CloseSegment, vars, IInv, TypeOK
    <3> QED BY <3>1
  <2> QED BY <1>1, <2>1, <2>2, <2>3 DEF Next
<1>2. IInv /\ [Next]_vars =>
        [counter'[Root] > counter[Root] /\ counter'[Root] > Threshold =>
           Within(up', kept', Root) \cap Complete(open', counter') = {}]_vars
  BY <1>1
<1> QED BY <1>2, TreeInvariant, PTL DEF Spec, BreachSendsCompleted

-----------------------------------------------------------------------------
(* The tree implements TraceDelivery. *)

(* A step puts each of some nodes into one more document. *)
LEMMA StepDelivers ==
  ASSUME ~Facade, IInv, Next
  PROVE  \E ns \in SUBSET Node :
           sent' = [n \in Node |-> IF n \in ns THEN sent[n] + 1 ELSE sent[n]]
<1> DEFINE In(a, k, docs) == {n \in Node : \E x \in docs : n \in Document(a, k, x)}
<1>1. ASSUME NEW a, NEW k, NEW docs, sent' = Emitted(a, k, docs)
      PROVE  \E ns \in SUBSET Node :
               sent' = [n \in Node |-> IF n \in ns THEN sent[n] + 1 ELSE sent[n]]
  <2>1. sent' = [n \in Node |-> IF n \in In(a, k, docs) THEN sent[n] + 1 ELSE sent[n]]
    BY <1>1 DEF Emitted
  <2> QED BY <2>1
<1>2. ASSUME sent' = sent
      PROVE  \E ns \in SUBSET Node :
               sent' = [n \in Node |-> IF n \in ns THEN sent[n] + 1 ELSE sent[n]]
  <2>1. PICK none \in SUBSET Node : none = {}
    OBVIOUS
  <2>2. sent' = [n \in Node |-> IF n \in none THEN sent[n] + 1 ELSE sent[n]]
    BY <1>2, <2>1 DEF IInv, TypeOK
  <2> QED BY <2>2
<1> HIDE DEF In
<1>3. ASSUME NEW p \in Node, NEW s \in Subsegment, NEW unsampled \in BOOLEAN,
             AddToOpen(p, s, unsampled)
      PROVE  \E a, k, docs : sent' = Emitted(a, k, docs)
  BY <1>3, AddStreams DEF Streams
<1>4. FlushSegment => (sent' = sent \/ \E a, k, docs : sent' = Emitted(a, k, docs))
  BY DEF FlushSegment
<1>5. ASSUME NEW s \in Subsegment, CloseOpen(s)
      PROVE  sent' = sent \/ \E a, k, docs : sent' = Emitted(a, k, docs)
  BY <1>4, <1>5 DEF CloseOpen, CloseSubsegment
<1>6. CloseOpenSegment => (sent' = sent \/ \E a, k, docs : sent' = Emitted(a, k, docs))
  BY <1>4 DEF CloseOpenSegment, CloseSegment
<1>7. sent' = sent \/ \E a, k, docs : sent' = Emitted(a, k, docs)
  BY <1>3, <1>5, <1>6 DEF Next
<1> QED BY <1>1, <1>2, <1>7

(* They are nodes that are done and were not in one before. *)
LEMMA StepDeliversPending ==
  ASSUME ~Facade, IInv, Next
  PROVE  \E ns \in SUBSET {n \in ({Root} \cup live') \ open' : sent[n] = 0} :
           /\ sent' = [n \in Node |-> IF n \in ns THEN sent[n] + 1 ELSE sent[n]]
           /\ open' = {} => \A n \in ({Root} \cup live') \ open' :
                              sent[n] = 0 /\ n \notin notTraced' => n \in ns
<1>1. IInv' /\ SendsComplete
  BY NextPreserves, StepSendsComplete
<1>2. PICK ns \in SUBSET Node : sent' = [n \in Node |-> IF n \in ns THEN sent[n] + 1 ELSE sent[n]]
  BY StepDelivers
<1>3. \A n \in Node : sent[n] \in Nat /\ sent'[n] <= 1
  BY <1>1 DEF IInv, TypeOK, SentOrHeld
<1>4. \A n \in Subsegment \ live' : sent'[n] = 0
  BY <1>1 DEF IInv, SentOrHeld
<1>5. ASSUME NEW n \in ns PROVE n \in ({Root} \cup live') \ open' /\ sent[n] = 0
  <2>1. n \in Node /\ sent'[n] = sent[n] + 1
    BY <1>2
  <2>2. sent[n] = 0 /\ sent'[n] > sent[n] /\ sent'[n] # 0
    BY <2>1, <1>3
  <2> QED BY <2>1, <2>2, <1>1, <1>4 DEF SendsComplete, Node
<1>6. ASSUME open' = {}, NEW n \in {Root} \cup live', sent[n] = 0, n \notin notTraced'
      PROVE  n \in ns
  <2>1. Root \notin notTraced' /\ n \in Node
    BY <1>1, <1>6, TreeFacts DEF IInv, TreeShape, DecisionInherited, TypeOK, Node
  <2>2. sent'[n] = 1
    BY <1>1, <1>6, <2>1 DEF IInv, SentWhenAllClosed
  <2> QED BY <1>2, <1>6, <2>1, <2>2
<1> QED BY <1>2, <1>5, <1>6

(* Every step of the tree is a step of TraceDelivery: streaming delivers   *)
(* while a node starts or finishes, and the close that finishes the last   *)
(* node delivers the rest (addSubsegment, close, streamSubsegments, flush).*)
THEOREM TreeImplementsDelivery == ASSUME ~Facade PROVE Spec => ImplementsDelivery
<1>1. Init => Delivery!Init
  BY DEF Init, Delivery!Init, Delivery!Node, Node
<1>2. ASSUME IInv, [Next]_vars PROVE [Delivery!Next]_(Delivery!vars)
  <2>1. ASSUME NEW p \in Node, NEW s \in Subsegment, NEW unsampled \in BOOLEAN,
               AddToOpen(p, s, unsampled)
        PROVE  Delivery!Start(s)
    <3>1. Next
      BY <2>1 DEF Next
    <3>2. PICK ns \in SUBSET {n \in ({Root} \cup live') \ open' : sent[n] = 0} :
            sent' = [n \in Node |-> IF n \in ns THEN sent[n] + 1 ELSE sent[n]]
      BY <1>2, <3>1, StepDeliversPending
    <3>3. /\ s \notin {Root} \cup live /\ s \notin open /\ p \in open /\ p \in {Root} \cup live
          /\ live' = live \cup {s} /\ open' = open \cup {s}
      BY <1>2, <2>1, AddShape, TreeFacts DEF AddToOpen
    <3>4. notTraced' \in {notTraced, notTraced \cup {s}}
      BY <2>1 DEF AddToOpen, AddNewSubsegment, Attach, Decision
    <3>5. ({Root} \cup live') \ open' = ({Root} \cup live) \ open
          /\ {Root} \cup live' = ({Root} \cup live) \cup {s}
          /\ {Root} \cup live # ({Root} \cup live) \ open
      BY <3>3
    <3> QED BY <3>2, <3>3, <3>4, <3>5
            DEF Delivery!Start, Delivery!Deliver, Delivery!Pending, Delivery!Node, Node
  <2>2. ASSUME NEW n \in Node, n \in open, open' = open \ {n}, Next,
               UNCHANGED <<live, notTraced>>
        PROVE  Delivery!Finish(n)
    <3>1. PICK ns \in SUBSET {m \in ({Root} \cup live') \ open' : sent[m] = 0} :
            /\ sent' = [m \in Node |-> IF m \in ns THEN sent[m] + 1 ELSE sent[m]]
            /\ open' = {} => \A m \in ({Root} \cup live') \ open' :
                               sent[m] = 0 /\ m \notin notTraced' => m \in ns
      BY <1>2, <2>2, StepDeliversPending
    <3>2. n \in {Root} \cup live /\ open \subseteq {Root} \cup live
      BY <1>2, <2>2 DEF IInv, TreeShape
    <3>3. ({Root} \cup live') \ open' = (({Root} \cup live) \ open) \cup {n}
          /\ (({Root} \cup live') \ open' = {Root} \cup live => open' = {})
      BY <2>2, <3>2
    <3> QED BY <2>2, <3>1, <3>2, <3>3
            DEF Delivery!Finish, Delivery!Deliver, Delivery!Pending, Delivery!Node, Node
  <2>3. ASSUME NEW s \in Subsegment, CloseOpen(s) PROVE Delivery!Finish(s)
    <3>1. Next /\ s \in Node
      BY <2>3 DEF Next, Node
    <3> QED BY <1>2, <2>2, <2>3, <3>1, CloseCounts
  <2>4. ASSUME CloseOpenSegment PROVE Delivery!Finish(Root)
    <3>1. Next /\ Root \in Node
      BY <2>4 DEF Next, Node
    <3> QED BY <2>2, <2>4, <3>1 DEF CloseOpenSegment, CloseSegment
  <2>5. ASSUME UNCHANGED vars PROVE UNCHANGED Delivery!vars
    BY <2>5 DEF vars, Delivery!vars
  <2>6. Delivery!Node = Node /\ Subsegment \subseteq Node /\ Root \in Node
    BY DEF Delivery!Node, Node
  <2> QED BY <1>2, <2>1, <2>3, <2>4, <2>5, <2>6 DEF Next, Delivery!Next
<1> QED BY <1>1, <1>2, TreeInvariant, PTL DEF Spec, ImplementsDelivery, Delivery!Spec

-----------------------------------------------------------------------------
(* Loose programs: the same facts without structure in the program. *)

(* What Attach does on the tree below s, which is in no tree yet: s is new, *)
(* or the top, open or closed, of a tree built before.                     *)
Grafts(p, s, unsampled) ==
  /\ p \in {Root} \cup live /\ up[s] = {} /\ s \notin Chain(p)
  /\ live' = live \cup {s} /\ open' = IF s \in live THEN open ELSE open \cup {s}
  /\ Attach(p, s, unsampled)
  /\ missed' = [n \in Node |->
                  IF n \in Chain(p)
                    THEN missed[n] \cup (IF s \in open' THEN missed[s] ELSE OpenUnder(s))
                    ELSE missed[n]]
  /\ tooLate' = IF /\ s \notin open' /\ Root \in Chain(p) \ open
                   /\ OpenUnder(Root) \cup OpenUnder(s) = {}
                 THEN tooLate \cup {s}
                 ELSE tooLate

(* Every addition of the API is one. *)
LEMMA AdditionGrafts ==
  ASSUME LooseInv, NEW p \in Node, NEW s \in Subsegment, NEW unsampled \in BOOLEAN,
         \/ AddNewSubsegment(p, s, unsampled) /\ UNCHANGED history
         \/ AddBuilt(p, s, unsampled)
  PROVE  Grafts(p, s, unsampled)
<1> USE DEF LooseInv, LooseTypeOK, ForestShape, Chain
<1>1. CASE AddNewSubsegment(p, s, unsampled) /\ UNCHANGED history
  <2>1. p \in {Root} \cup live /\ s \notin live /\ s # Root /\ up[p] \subseteq {Root} \cup live
        /\ s \in open' /\ s \in Node
    BY <1>1, SubsegmentAssumption DEF AddNewSubsegment, Node
  <2>2. missed[s] = {}
    <3>1. \A t \in missed[s] : t \in Subsegment /\ s \in up[t]
      BY <2>1 DEF MissedBelow
    <3>2. \A t \in Subsegment : s \notin up[t]
      BY <2>1
    <3> QED BY <3>1, <3>2
  <2>3. missed' = [n \in Node |->
                    IF n \in Chain(p)
                      THEN missed[n] \cup (IF s \in open' THEN missed[s] ELSE OpenUnder(s))
                      ELSE missed[n]]
    BY <1>1, <2>1, <2>2 DEF history
  <2> QED BY <1>1, <2>1, <2>3 DEF AddNewSubsegment, history, Grafts
<1>2. CASE AddBuilt(p, s, unsampled)
  BY <1>2 DEF AddBuilt, Grafts
<1> QED BY <1>1, <1>2

(* What is below s stays below s, and gets below p. *)
LEMMA GraftedShape ==
  ASSUME LooseInv, NEW p \in Node, NEW s \in Subsegment, NEW unsampled \in BOOLEAN,
         Grafts(p, s, unsampled)
  PROVE  /\ up' \in [Node -> SUBSET Node]
         /\ \A d \in Node : up'[d] = IF d = s \/ s \in up[d] THEN up[d] \cup Chain(p) ELSE up[d]
         /\ \A b \in Chain(p) : b # s /\ s \notin up[b] /\ up[b] \subseteq Chain(p)
                                /\ b \in {Root} \cup live
         /\ \A d \in live : s \in up[d] => \A b \in up[d] : b = s \/ s \in up[b]
         /\ ForestShape'
<1> USE DEF LooseInv, LooseTypeOK, ForestShape, Grafts
<1>1. /\ up' = [d \in Node |-> IF d = s \/ s \in up[d] THEN up[d] \cup Chain(p) ELSE up[d]]
      /\ Chain(p) \subseteq Node /\ s \in Node /\ Root \in Node /\ s # Root
      /\ live' \subseteq Node /\ live' \subseteq Subsegment /\ live \subseteq live'
  BY SubsegmentAssumption DEF Attach, Chain, Node
<1>2. /\ up' \in [Node -> SUBSET Node]
      /\ \A d \in Node : up'[d] = IF d = s \/ s \in up[d] THEN up[d] \cup Chain(p) ELSE up[d]
  BY <1>1
<1>3. \A b \in Chain(p) : b # s /\ s \notin up[b] /\ up[b] \subseteq Chain(p)
                          /\ b \in {Root} \cup live
  BY DEF Chain
<1>4. \A d \in live : s \in up[d] => \A b \in up[d] : b = s \/ s \in up[b]
  OBVIOUS
<1>5. \A d \in Node : d \notin live => s \notin up[d]
  BY DEF Node
<1> DEFINE below(d) == d = s \/ s \in up[d]
<1>6. \A d \in live' : d \in Node /\ Root \in Node
                       /\ up'[d] = IF below(d) THEN up[d] \cup Chain(p) ELSE up[d]
  BY <1>1, <1>2
<1>7. \A d \in Node : d \notin live' => up'[d] = {}
  BY <1>1, <1>2, <1>5, SubsegmentAssumption DEF Node
<1>8. up'[Root] = {}
  BY <1>1, <1>2
<1>9. \A d \in live' : up[d] \subseteq {Root} \cup live /\ d \notin up[d]
                       /\ (\A b \in up[d] : up[b] \subseteq up[d])
                       /\ (\A b, c \in up[d] : b = c \/ b \in up[c] \/ c \in up[b])
  BY <1>1
<1>10. \A d \in live' : below(d) => d \notin Chain(p) /\ \A b \in up[d] : below(b)
  BY <1>3, <1>4
<1>11. \A b \in Chain(p) : ~below(b) /\ b \in Node /\ up'[b] = up[b]
  BY <1>1, <1>2, <1>3
<1>12. \A d \in live' : ~below(d) => \A b \in up[d] : ~below(b) /\ b \in Node
  BY <1>9, <1>1
<1> HIDE DEF LooseInv, LooseTypeOK, ForestShape, Grafts
<1>13. \A d \in live' : \A b \in up[d] :
         up'[b] = IF below(b) THEN up[b] \cup Chain(p) ELSE up[b]
  <2>1. \A d \in live' : \A b \in up[d] : b \in Node
    BY <1>9, <1>1
  <2> QED BY <2>1, <1>2
<1> HIDE DEF below
<1>14. \A d \in live' : up'[d] \subseteq {Root} \cup live'
  BY <1>6, <1>9, <1>3, <1>1
<1>15. ASSUME NEW d \in live' PROVE d \notin up'[d]
  <2>1. d \notin up[d] /\ (below(d) => d \notin Chain(p))
    BY <1>9, <1>10
  <2>2. up'[d] = IF below(d) THEN up[d] \cup Chain(p) ELSE up[d]
    BY <1>6
  <2> QED BY <2>1, <2>2
<1>16. \A d \in live' : \A b \in up'[d] : up'[b] \subseteq up'[d]
  <2> SUFFICES ASSUME NEW d \in live', NEW b \in up'[d] PROVE up'[b] \subseteq up'[d]
    OBVIOUS
  <2>1. CASE b \in Chain(p) /\ below(d)
    BY <2>1, <1>6, <1>11, <1>3
  <2>2. CASE b \in up[d] /\ below(d)
    <3>1. up'[b] \subseteq up[b] \cup Chain(p)
      BY <2>2, <1>13
    <3>2. up[b] \subseteq up[d] /\ up'[d] = up[d] \cup Chain(p)
      BY <2>2, <1>6, <1>9
    <3> QED BY <3>1, <3>2
  <2>3. CASE ~below(d)
    BY <2>3, <1>6, <1>9, <1>13, <1>12
  <2> QED BY <2>1, <2>2, <2>3, <1>6
<1>17. \A d \in live' : \A b, c \in up'[d] : b = c \/ b \in up'[c] \/ c \in up'[b]
  <2>1. ASSUME NEW d \in live', NEW b \in up[d], NEW c \in up[d]
        PROVE  b = c \/ b \in up'[c] \/ c \in up'[b]
    <3>1. b = c \/ b \in up[c] \/ c \in up[b]
      BY <1>9
    <3>2. up[b] \subseteq up'[b] /\ up[c] \subseteq up'[c]
      BY <1>13
    <3> QED BY <3>1, <3>2
  <2>2. \A b, c \in Chain(p) : b = c \/ b \in up'[c] \/ c \in up'[b]
    <3>1. \A b, c \in Chain(p) : b = c \/ b \in up[c] \/ c \in up[b]
      BY DEF Chain, Grafts, LooseInv, ForestShape
    <3> QED BY <3>1, <1>11
  <2>3. ASSUME NEW d \in live', NEW b \in up[d], below(d), NEW c \in Chain(p)
        PROVE  c \in up'[b]
    BY <2>3, <1>10, <1>13
  <2>4. ASSUME NEW d \in live', NEW b \in up'[d], NEW c \in up'[d]
        PROVE  b = c \/ b \in up'[c] \/ c \in up'[b]
    <3>1. CASE below(d)
      <4>1. up'[d] = up[d] \cup Chain(p)
        BY <3>1, <1>6
      <4>2. CASE b \in up[d] /\ c \in up[d]
        BY <4>2, <2>1
      <4>3. CASE b \in up[d] /\ c \in Chain(p)
        BY <4>3, <3>1, <2>3
      <4>4. CASE b \in Chain(p) /\ c \in up[d]
        BY <4>4, <3>1, <2>3
      <4>5. CASE b \in Chain(p) /\ c \in Chain(p)
        BY <4>5, <2>2
      <4> QED BY <4>1, <4>2, <4>3, <4>4, <4>5
    <3>2. CASE ~below(d)
      BY <3>2, <2>1, <1>6
    <3> QED BY <3>1, <3>2
  <2> QED BY <2>4
<1>18. open' \subseteq {Root} \cup live'
  BY DEF LooseInv, ForestShape, Grafts
<1>19. ForestShape'
  <2>1. \A d \in Subsegment \ live' : up'[d] = {}
    BY <1>7 DEF Node
  <2> QED BY <2>1, <1>8, <1>14, <1>15, <1>16, <1>17, <1>18 DEF ForestShape
<1> QED BY <1>2, <1>3, <1>4, <1>19

(* The size of a disjoint union.                                           *)
LEMMA DisjointSum ==
  ASSUME NEW S, IsFiniteSet(S), NEW T, IsFiniteSet(T), S \cap T = {}
  PROVE  Cardinality(S \cup T) = Cardinality(S) + Cardinality(T)
<1>1. Cardinality(S) \in Nat /\ Cardinality(T) \in Nat /\ Cardinality({}) = 0
  BY FS_CardinalityType, FS_EmptySet
<1>2. Cardinality(S \cup T) = Cardinality(S) + Cardinality(T) - Cardinality(S \cap T)
  BY FS_Union
<1>3. Cardinality(S \cap T) = 0
  BY <1>1, Zenon
<1> QED BY <1>1, <1>2, <1>3

(* What was open below s is now open below p and its ancestors too, with s *)
(* if that is open; they count it unless s is closed.                      *)
LEMMA GraftedCounts ==
  ASSUME ~Facade, LooseInv, NEW p \in Node, NEW s \in Subsegment, NEW unsampled \in BOOLEAN,
         Grafts(p, s, unsampled)
  PROVE  /\ \A n \in Node : OpenUnder(n)' = IF n \in Chain(p)
                                THEN OpenUnder(n) \cup (OpenUnder(s) \cup ({s} \cap open'))
                                ELSE OpenUnder(n)
         /\ CounterLessMissed' /\ MissedBelow' /\ counter' \in [Node -> Int]
         /\ missed' \in [Node -> SUBSET Subsegment]
<1>a. up' = [d \in Node |-> IF d = s \/ s \in up[d] THEN up[d] \cup Chain(p) ELSE up[d]]
  BY DEF Grafts, Attach
<1>1. /\ open' \in {open, open \cup {s}} /\ up[s] = {} /\ s \in Node
      /\ s \notin live => s \in open'
      /\ counter \in [Node -> Int] /\ Chain(p) \subseteq Node
      /\ missed \in [Node -> SUBSET Subsegment]
  BY DEF Grafts, LooseInv, LooseTypeOK, Node, Chain
<1>m. missed' = [n \in Node |->
                  IF n \in Chain(p)
                    THEN missed[n] \cup (IF s \in open' THEN missed[s] ELSE OpenUnder(s))
                    ELSE missed[n]]
  BY DEF Grafts
<1>2. ASSUME NEW n \in Node
      PROVE  OpenUnder(n)' = IF n \in Chain(p)
                               THEN OpenUnder(n) \cup (OpenUnder(s) \cup ({s} \cap open'))
                               ELSE OpenUnder(n)
  <2>1. \A t \in Subsegment : t \in open' /\ n \in up'[t] <=>
          \/ t \in open /\ n \in up[t]
          \/ ((t = s /\ t \in open') \/ (t \in open /\ s \in up[t])) /\ n \in Chain(p)
    BY <1>1, <1>a DEF Node
  <2> QED BY <2>1 DEF OpenUnder
<1>3. \A n \in Node : /\ IsFiniteSet(OpenUnder(n)) /\ Cardinality(OpenUnder(n)) \in Nat
                      /\ IsFiniteSet(missed[n]) /\ Cardinality(missed[n]) \in Nat
                      /\ counter[n] = Cardinality(OpenUnder(n)) - Cardinality(missed[n])
  <2>1. \A n \in Node : IsFiniteSet(OpenUnder(n)) /\ IsFiniteSet(missed[n])
    BY <1>1, SubsegmentAssumption, FS_Subset DEF OpenUnder
  <2> QED BY <2>1, FS_CardinalityType DEF LooseInv, CounterLessMissed
<1>4. \A n \in Chain(p) : \A t \in Subsegment : n \in up[t] => t # s /\ s \notin up[t]
  <2>1. ASSUME NEW n \in Chain(p), NEW t \in Subsegment, n \in up[t], t = s \/ s \in up[t]
        PROVE  FALSE
    <3>1. n \in up[t] /\ t \in live /\ s \in up[t]
      BY <1>1, <2>1 DEF LooseInv, ForestShape
    <3>2. n = s \/ s \in up[n]
      BY <3>1, GraftedShape
    <3> QED BY <3>2, GraftedShape
  <2> QED BY <2>1
<1>5. MissedBelow /\ \A n \in Node : missed[n] \subseteq Subsegment /\ OpenUnder(n) \subseteq Subsegment
  BY <1>1 DEF LooseInv, OpenUnder
<1>6. MissedBelow'
  <2> SUFFICES ASSUME NEW n \in Node, NEW t \in missed'[n] PROVE n \in up'[t]
    BY DEF MissedBelow
  <2>1. CASE t \in missed[n]
    <3>1. n \in up[t] /\ t \in Node
      BY <2>1, <1>5 DEF MissedBelow, Node
    <3> QED BY <3>1, <1>a
  <2>2. CASE t \notin missed[n]
    <3>1. n \in Chain(p) /\ (t \in missed[s] \/ t \in OpenUnder(s))
      BY <2>2, <1>m
    <3>2. s \in up[t] /\ t \in Node
      BY <3>1, <1>1, <1>5 DEF MissedBelow, OpenUnder, Node
    <3> QED BY <3>1, <3>2, <1>a
  <2> QED BY <2>1, <2>2
<1>7. CounterLessMissed' /\ counter' \in [Node -> Int]
  <2>1. CASE s \in open'
    <3>1. \A n \in Node : counter'[n] = IF n \in Chain(p) THEN counter[n] + (counter[s] + 1)
                                                            ELSE counter[n]
      BY <1>1, <2>1 DEF Grafts, Attach, Counted, Added
    <3>2. IsFiniteSet(OpenUnder(s) \cup {s})
          /\ Cardinality(OpenUnder(s) \cup {s}) = Cardinality(OpenUnder(s)) + 1
      <4>1. s \notin OpenUnder(s)
        BY <1>1 DEF OpenUnder
      <4> QED BY <1>1, <1>3, <4>1, FS_AddElement
    <3>3. ASSUME NEW n \in Chain(p)
          PROVE  counter'[n] = Cardinality(OpenUnder(n)') - Cardinality(missed'[n])
      <4>1. n \in Node /\ OpenUnder(n) \cap (OpenUnder(s) \cup {s}) = {}
            /\ missed[n] \cap missed[s] = {}
        BY <1>1, <1>4, <1>5 DEF OpenUnder, MissedBelow
      <4>2. Cardinality(OpenUnder(n) \cup (OpenUnder(s) \cup {s}))
              = Cardinality(OpenUnder(n)) + Cardinality(OpenUnder(s) \cup {s})
        BY <1>3, <3>2, <4>1, DisjointSum
      <4>3. Cardinality(missed[n] \cup missed[s])
              = Cardinality(missed[n]) + Cardinality(missed[s])
        BY <1>1, <1>3, <4>1, DisjointSum
      <4>4. OpenUnder(n)' = OpenUnder(n) \cup (OpenUnder(s) \cup {s})
            /\ missed'[n] = missed[n] \cup missed[s]
        <5>1. {s} \cap open' = {s}
          BY <2>1
        <5> QED BY <1>2, <1>m, <2>1, <4>1, <5>1
      <4> QED BY <1>1, <1>3, <3>1, <3>2, <4>1, <4>2, <4>3, <4>4
    <3>4. ASSUME NEW n \in Node, n \notin Chain(p)
          PROVE  counter'[n] = Cardinality(OpenUnder(n)') - Cardinality(missed'[n])
      BY <1>2, <1>3, <1>m, <3>1, <3>4
    <3>5. counter' \in [Node -> Int]
      BY <1>1, <2>1 DEF Grafts, Attach, Counted, Added
    <3> QED BY <3>3, <3>4, <3>5 DEF CounterLessMissed
  <2>2. CASE s \notin open'
    <3>1. counter' = counter
      BY <2>2 DEF Grafts, Attach
    <3>2. ASSUME NEW n \in Chain(p)
          PROVE  counter'[n] = Cardinality(OpenUnder(n)') - Cardinality(missed'[n])
      <4>1. n \in Node /\ OpenUnder(n) \cap OpenUnder(s) = {} /\ missed[n] \cap OpenUnder(s) = {}
        BY <1>1, <1>4, <1>5 DEF OpenUnder, MissedBelow
      <4>2. Cardinality(OpenUnder(n) \cup OpenUnder(s))
              = Cardinality(OpenUnder(n)) + Cardinality(OpenUnder(s))
        BY <1>1, <1>3, <4>1, DisjointSum
      <4>3. Cardinality(missed[n] \cup OpenUnder(s))
              = Cardinality(missed[n]) + Cardinality(OpenUnder(s))
        BY <1>1, <1>3, <4>1, DisjointSum
      <4>4. OpenUnder(n)' = OpenUnder(n) \cup OpenUnder(s)
            /\ missed'[n] = missed[n] \cup OpenUnder(s)
        <5>1. {s} \cap open' = {}
          BY <2>2
        <5> QED BY <1>2, <1>m, <2>2, <4>1, <5>1
      <4> QED BY <1>1, <1>3, <3>1, <4>1, <4>2, <4>3, <4>4
    <3>3. ASSUME NEW n \in Node, n \notin Chain(p)
          PROVE  counter'[n] = Cardinality(OpenUnder(n)') - Cardinality(missed'[n])
      BY <1>2, <1>3, <1>m, <3>1, <3>3
    <3> QED BY <1>1, <3>1, <3>2, <3>3 DEF CounterLessMissed
  <2> QED BY <2>1, <2>2
<1>8. missed' \in [Node -> SUBSET Subsegment]
  BY <1>1, <1>5, <1>m
<1> QED BY <1>2, <1>6, <1>7, <1>8

(* What leaves the arrays of the tree when s is added is sent, where it is  *)
(* to be traced and knows its segment; nothing leaves another tree.        *)
LEMMA GraftedStreams ==
  ASSUME ~Facade, LooseInv, NEW p \in Node, NEW s \in Subsegment, NEW unsampled \in BOOLEAN,
         Grafts(p, s, unsampled)
  PROVE  /\ s \in kept' /\ kept' \subseteq kept \cup {s}
         /\ sent' \in [Node -> Nat] /\ \A n \in Node : sent'[n] >= sent[n]
         /\ \A x \in withSegment : x \in kept \ kept' => x \in notTraced \/ sent'[x] > 0
         /\ Root \notin Chain(p) \/ s \notin open' => kept' = kept \cup {s} /\ sent' = sent
<1> DEFINE array == IF p = Root THEN kept \cup {s} ELSE kept
           done == Complete(open', counter')
           docs == Streamed(up', array, Root, done)
<1> USE DEF Grafts
<1>0. sent \in [Node -> Nat] /\ withSegment \subseteq Node
  BY DEF LooseInv, LooseTypeOK, Node
<1>1. CASE s \in open' /\ Root \in Chain(p) /\ OverThreshold(counter')
  <2>1. sent' = Emitted(up', array, docs \cap Flushable) /\ kept' = Pruned(array, docs) \cup {s}
    BY <1>0, <1>1 DEF Attach
  <2> HIDE DEF docs
  <2>2. sent' \in [Node -> Nat] /\ \A n \in Node : sent'[n] >= sent[n]
    BY <1>0, <2>1 DEF Emitted
  <2>3. ASSUME NEW x \in withSegment, x \in kept \ kept', x \notin notTraced PROVE sent'[x] > 0
    <3>1. x \in docs
      BY <2>1, <2>3 DEF Pruned
    <3>2. x \in Flushable
      BY <2>3 DEF Flushable, LooseInv, MembersInherit
    <3>3. x \in Document(up', array, x)
      BY DEF Document
    <3>4. sent'[x] = sent[x] + 1
      BY <1>0, <2>1, <3>1, <3>2, <3>3 DEF Emitted
    <3> QED BY <1>0, <3>4
  <2>4. s \in kept' /\ kept' \subseteq kept \cup {s}
    BY <2>1 DEF Pruned
  <2> QED BY <1>1, <2>2, <2>3, <2>4
<1>2. CASE ~(s \in open' /\ Root \in Chain(p) /\ OverThreshold(counter'))
  <2>1. sent' = sent /\ kept' = kept \cup {s}
    BY <1>2 DEF Attach
  <2> QED BY <1>0, <2>1
<1> QED BY <1>1, <1>2

(* addNewSubsegment and addSubsegment preserve the invariant.              *)
LEMMA GraftPreserves ==
  ASSUME ~Facade, LooseInv, NEW p \in Node, NEW s \in Subsegment, NEW unsampled \in BOOLEAN,
         Grafts(p, s, unsampled)
  PROVE  LooseInv'
<1>a. up' = [d \in Node |-> IF d = s \/ s \in up[d] THEN up[d] \cup Chain(p) ELSE up[d]]
  BY DEF Grafts, Attach
<1>1. /\ p \in {Root} \cup live /\ up[s] = {} /\ s \notin Chain(p) /\ s # Root /\ s \in Node
      /\ live' = live \cup {s} /\ open' = (IF s \in live THEN open ELSE open \cup {s})
      /\ notTraced' = Decision(p, s, unsampled)
      /\ tooLate \subseteq tooLate' /\ tooLate' \subseteq tooLate \cup {s}
      /\ withSegment' = IF p = Root \/ p \in withSegment THEN withSegment \cup {s}
                                                         ELSE withSegment
      /\ Root \in Node /\ Root \notin live
  BY SubsegmentAssumption DEF Grafts, Attach, LooseInv, LooseTypeOK, Node
<1>2. s \notin withSegment /\ \A x \in withSegment : s \notin up[x]
  BY <1>1 DEF LooseInv, MembersInherit
<1>3. notTraced \subseteq notTraced' /\ notTraced' \subseteq notTraced \cup {s}
      /\ (p \in notTraced => s \in notTraced')
  BY <1>1 DEF Decision
<1>4. LooseTypeOK'
  <2>1. live' \subseteq Subsegment /\ withSegment' \subseteq live' /\ kept' \subseteq live'
        /\ open' \subseteq Node /\ notTraced' \subseteq Node /\ tooLate' \subseteq live'
    BY <1>1, <1>3, GraftedStreams DEF LooseInv, LooseTypeOK
  <2> QED BY <2>1, GraftedShape, GraftedCounts, GraftedStreams DEF LooseTypeOK
<1>5. MembersInherit'
  <2>1. ASSUME NEW x \in withSegment
        PROVE  up'[x] = up[x] /\ s \notin up[x] /\ x \in Node
    BY <1>1, <1>2, <1>a DEF LooseInv, LooseTypeOK, Node
  <2>2. ASSUME NEW x \in withSegment
        PROVE  /\ Root \in up'[x]
               /\ \A b \in up'[x] : b \in {Root} \cup withSegment'
                                    /\ (b \in notTraced' => x \in notTraced')
    BY <1>1, <1>3, <2>1 DEF LooseInv, MembersInherit
  <2>3. ASSUME p = Root \/ p \in withSegment
        PROVE  /\ Root \in up'[s]
               /\ \A b \in up'[s] : b \in {Root} \cup withSegment'
                                    /\ (b \in notTraced' => s \in notTraced')
    <3>1. up'[s] = Chain(p)
      BY <1>1, GraftedShape
    <3>2. Root \in Chain(p)
      BY <2>3 DEF Chain, LooseInv, MembersInherit
    <3>3. \A b \in Chain(p) : b \in {Root} \cup withSegment /\ (b \in notTraced => p \in notTraced)
      BY <2>3 DEF Chain, LooseInv, MembersInherit, ForestShape
    <3> QED BY <1>1, <1>3, <3>1, <3>2, <3>3
  <2> QED BY <1>1, <2>2, <2>3 DEF MembersInherit
<1>6. MemberPrunedOnlyWhenSent'
  <2> SUFFICES ASSUME NEW x \in withSegment' \ kept', x \notin notTraced' PROVE sent'[x] > 0
    BY DEF MemberPrunedOnlyWhenSent
  <2>1. x \in withSegment /\ x \in Node /\ x \notin notTraced
    BY <1>1, <1>3, GraftedStreams DEF LooseInv, LooseTypeOK, Node
  <2>2. CASE x \in kept
    BY <2>1, <2>2, GraftedStreams
  <2>3. CASE x \notin kept
    <3>1. sent[x] > 0 /\ sent[x] \in Nat
      BY <2>1, <2>3 DEF LooseInv, MemberPrunedOnlyWhenSent, LooseTypeOK
    <3>2. sent'[x] >= sent[x] /\ sent'[x] \in Nat
      BY <2>1, GraftedStreams
    <3> QED BY <3>1, <3>2
  <2> QED BY <2>2, <2>3
<1>7. HeldIsSent'
  <2> SUFFICES ASSUME Root \notin open', OpenUnder(Root)' = {}, Root \notin notTraced',
                      NEW d \in InTree'
               PROVE  sent'[d] > 0 \/ \E b \in Chain(d)' : b \in tooLate'
    BY DEF HeldIsSent
  <2>1. (Root \notin Chain(p) \/ s \notin open') /\ OpenUnder(Root) = {}
        /\ (Root \in Chain(p) => OpenUnder(s) = {})
    BY <1>1, GraftedCounts
  <2>2. kept' = kept \cup {s} /\ sent' = sent /\ Root \notin open /\ Root \notin notTraced
    BY <1>1, <1>3, <2>1, GraftedStreams
  <2>3. d \in kept' /\ Root \in up'[d] /\ d \in Node
        /\ \A b \in up'[d] : b \in Node /\ (Root \in up'[b] => b \in kept')
    <3>1. d \in kept' /\ Root \in up'[d] /\ \A b \in up'[d] : Root \in up'[b] => b \in kept'
      BY DEF InTree, Within
    <3>2. d \in Node
      BY <1>4, <3>1 DEF LooseTypeOK, Node
    <3> QED BY <1>4, <3>1, <3>2 DEF LooseTypeOK
  <2>4. CASE d = s \/ s \in up[d]
    <3>1. Root \in Chain(p)
      <4>1. CASE Root \in up[d]
        <5>1. d \in live /\ s \in up[d]
          BY <1>1, <2>3, <2>4, <4>1 DEF LooseInv, ForestShape, Node
        <5>2. Root = s \/ s \in up[Root]
          BY <4>1, <5>1, GraftedShape
        <5> QED BY <1>1, <5>2 DEF LooseInv, ForestShape
      <4> QED BY <1>a, <2>3, <4>1
    <3>2. s \in tooLate'
      BY <2>1, <2>2, <3>1 DEF Grafts
    <3>3. s \in Chain(d)'
      BY <1>a, <2>3, <2>4 DEF Chain
    <3> QED BY <3>2, <3>3
  <2>5. CASE ~(d = s \/ s \in up[d])
    <3>1. up'[d] = up[d] /\ d \in kept /\ Root \in up[d]
      BY <1>a, <2>2, <2>3, <2>5
    <3>2. \A b \in up[d] : Root \in up[b] => b \in kept
      BY <1>a, <2>2, <2>3, <2>5, <3>1
    <3>3. d \in InTree
      BY <3>1, <3>2 DEF InTree, Within
    <3>4. sent[d] > 0 \/ \E b \in Chain(d) : b \in tooLate
      BY <2>1, <2>2, <3>3 DEF LooseInv, HeldIsSent
    <3>5. Chain(d)' = Chain(d)
      BY <3>1 DEF Chain
    <3> QED BY <1>1, <2>2, <3>4, <3>5
  <2> QED BY <2>4, <2>5
<1> QED BY <1>4, <1>5, <1>6, <1>7, GraftedShape, GraftedCounts DEF LooseInv

(* A close takes one from every counter above, whether it was told of the  *)
(* subsegment or not.                                                      *)
LEMMA LooseCloseCounts ==
  ASSUME ~Facade, LooseInv, NEW s \in Subsegment, CloseOpen(s), UNCHANGED history
  PROVE  /\ s \in open /\ s \in live /\ open' = open \ {s}
         /\ UNCHANGED <<live, up, withSegment, notTraced, missed, tooLate>>
         /\ \A n \in Node : OpenUnder(n)' = IF n \in up[s] THEN OpenUnder(n) \ {s}
                                                           ELSE OpenUnder(n)
         /\ CounterLessMissed' /\ counter' \in [Node -> Int]
<1>1. /\ s \in open /\ s \in live /\ open' = open \ {s}
      /\ UNCHANGED <<live, up, withSegment, notTraced, missed, tooLate>>
      /\ counter' = Counted(up[s], -1)
  BY DEF CloseOpen, CloseSubsegment, history
<1>2. ASSUME NEW n \in Node
      PROVE  OpenUnder(n)' = IF n \in up[s] THEN OpenUnder(n) \ {s} ELSE OpenUnder(n)
  <2>1. \A t \in Subsegment : t \in open' /\ n \in up'[t] <=> t \in open /\ t # s /\ n \in up[t]
    BY <1>1
  <2> QED BY <2>1 DEF OpenUnder
<1>3. \A n \in Node : /\ IsFiniteSet(OpenUnder(n)) /\ Cardinality(OpenUnder(n)) \in Nat
                      /\ IsFiniteSet(missed[n]) /\ Cardinality(missed[n]) \in Nat
                      /\ counter[n] = Cardinality(OpenUnder(n)) - Cardinality(missed[n])
  <2>1. \A n \in Node : IsFiniteSet(OpenUnder(n)) /\ IsFiniteSet(missed[n])
    BY SubsegmentAssumption, FS_Subset DEF OpenUnder, LooseInv, LooseTypeOK
  <2> QED BY <2>1, FS_CardinalityType DEF LooseInv, CounterLessMissed
<1>4. \A n \in up[s] : n \in Node /\ s \in OpenUnder(n)
  BY <1>1 DEF OpenUnder, Node, LooseInv, LooseTypeOK
<1>5. \A n \in up[s] : Cardinality(OpenUnder(n) \ {s}) = Cardinality(OpenUnder(n)) - 1
  BY <1>3, <1>4, FS_RemoveElement
<1>6. counter' = [n \in Node |-> IF n \in up[s] THEN counter[n] - 1 ELSE counter[n]]
  BY <1>1 DEF Counted, LooseInv, LooseTypeOK
<1>7. CounterLessMissed'
  BY <1>1, <1>2, <1>3, <1>5, <1>6 DEF CounterLessMissed
<1>8. counter' \in [Node -> Int]
  BY <1>6 DEF LooseInv, LooseTypeOK
<1> QED BY <1>1, <1>2, <1>7, <1>8

(* With nothing open below a node, its counter is not positive.            *)
LEMMA NoneOpenNotPositive ==
  ASSUME CounterLessMissed', missed' \in [Node -> SUBSET Subsegment],
         NEW n \in Node, OpenUnder(n)' = {}
  PROVE  counter'[n] <= 0
<1>1. IsFiniteSet(missed'[n])
  BY SubsegmentAssumption, FS_Subset
<1>2. Cardinality(missed'[n]) \in Nat /\ Cardinality({}) = 0
  BY <1>1, FS_CardinalityType, FS_EmptySet
<1> QED BY <1>2 DEF CounterLessMissed

(* Subsegment.close preserves it.                                          *)
LEMMA LooseClosePreserves ==
  ASSUME ~Facade, LooseInv, NEW s \in Subsegment, CloseOpen(s), UNCHANGED history
  PROVE  LooseInv'
<1>1. /\ s \in open /\ s \in live /\ open' = open \ {s}
      /\ UNCHANGED <<live, up, withSegment, notTraced, missed, tooLate>>
      /\ \A n \in Node : OpenUnder(n)' = IF n \in up[s] THEN OpenUnder(n) \ {s} ELSE OpenUnder(n)
      /\ CounterLessMissed' /\ counter' \in [Node -> Int]
      /\ Root \in Node /\ s \in Node /\ s # Root /\ missed' \in [Node -> SUBSET Subsegment]
  BY LooseCloseCounts, SubsegmentAssumption DEF LooseInv, LooseTypeOK, Node
<1>2. sent \in [Node -> Nat] /\ withSegment \subseteq Node /\ kept \subseteq live
  BY DEF LooseInv, LooseTypeOK, Node
<1>3. /\ sent' \in [Node -> Nat] /\ (\A n \in Node : sent'[n] >= sent[n]) /\ kept' \subseteq kept
      /\ \A x \in withSegment : x \in kept \ kept' => x \in notTraced \/ sent'[x] > 0
      /\ s \notin withSegment /\ ~LastOfClosedSegment(s) => kept' = kept /\ sent' = sent
  <2> DEFINE docs == Streamed(up, kept, s, Complete(open', counter'))
  <2>1. CASE LastOfClosedSegment(s)
    <3>1. FlushSegment /\ kept' = kept
      BY <2>1 DEF CloseOpen, CloseSubsegment
    <3>2. sent' \in [Node -> Nat] /\ \A n \in Node : sent'[n] >= sent[n]
      BY <1>2, <3>1 DEF FlushSegment, Emitted
    <3> QED BY <2>1, <3>1, <3>2
  <2>2. CASE ~LastOfClosedSegment(s) /\ s \in withSegment /\ OverThreshold(counter')
    <3>1. sent' = Emitted(up, kept, docs \cap Flushable) /\ kept' = Pruned(kept, docs)
      BY <2>2 DEF CloseOpen, CloseSubsegment
    <3> HIDE DEF docs
    <3>2. sent' \in [Node -> Nat] /\ \A n \in Node : sent'[n] >= sent[n]
      BY <1>2, <3>1 DEF Emitted
    <3>3. ASSUME NEW x \in withSegment, x \in kept \ kept', x \notin notTraced PROVE sent'[x] > 0
      <4>1. x \in docs /\ x \in Document(up, kept, x)
        BY <3>1, <3>3 DEF Pruned, Document
      <4>2. x \in Flushable
        BY <3>3 DEF Flushable, LooseInv, MembersInherit
      <4>3. sent'[x] = sent[x] + 1
        BY <1>2, <3>1, <4>1, <4>2 DEF Emitted
      <4> QED BY <1>2, <4>3
    <3> QED BY <2>2, <3>1, <3>2, <3>3 DEF Pruned
  <2>3. CASE ~LastOfClosedSegment(s) /\ ~(s \in withSegment /\ OverThreshold(counter'))
    <3>1. sent' = sent /\ kept' = kept
      BY <2>3 DEF CloseOpen, CloseSubsegment
    <3> QED BY <1>2, <3>1
  <2> QED BY <2>1, <2>2, <2>3
<1>4. LooseTypeOK'
  BY <1>1, <1>2, <1>3 DEF LooseInv, LooseTypeOK
<1>5. ForestShape' /\ MembersInherit' /\ MissedBelow'
  <2>1. up' = up /\ live' = live /\ withSegment' = withSegment /\ notTraced' = notTraced
        /\ open' \subseteq open /\ missed' = missed
    BY <1>1
  <2> QED BY <2>1 DEF LooseInv, ForestShape, MembersInherit, MissedBelow
<1>6. MemberPrunedOnlyWhenSent'
  <2> SUFFICES ASSUME NEW x \in withSegment, x \notin kept', x \notin notTraced PROVE sent'[x] > 0
    BY <1>1 DEF MemberPrunedOnlyWhenSent
  <2>1. CASE x \in kept
    BY <2>1, <1>3
  <2>2. CASE x \notin kept
    <3>1. sent[x] > 0 /\ x \in Node
      BY <1>2, <2>2 DEF LooseInv, MemberPrunedOnlyWhenSent
    <3>2. sent'[x] >= sent[x] /\ sent'[x] \in Nat /\ sent[x] \in Nat
      BY <1>2, <1>3, <3>1
    <3> QED BY <3>1, <3>2
  <2> QED BY <2>1, <2>2
<1>7. HeldIsSent'
  <2> SUFFICES ASSUME Root \notin open', OpenUnder(Root)' = {}, Root \notin notTraced',
                      NEW d \in InTree'
               PROVE  sent'[d] > 0 \/ \E b \in Chain(d)' : b \in tooLate'
    BY DEF HeldIsSent
  <2>1. d \in InTree /\ d \in Node /\ Root \notin notTraced /\ Root \notin open
    <3>1. up' = up
      BY <1>1
    <3>2. d \in InTree
      BY <3>1, <1>3 DEF InTree, Within
    <3>3. d \in Node
      BY <3>2 DEF InTree, Within, LooseInv, LooseTypeOK, Node
    <3> QED BY <1>1, <3>2, <3>3
  <2>2. CASE LastOfClosedSegment(s)
    <3>1. sent' = Emitted(up, kept, {Root})
      BY <2>1, <2>2 DEF CloseOpen, CloseSubsegment, FlushSegment
    <3>2. d \in Document(up, kept, Root)
      BY <2>1 DEF Document, InTree
    <3>3. sent'[d] = sent[d] + 1
      BY <2>1, <3>1, <3>2 DEF Emitted
    <3> QED BY <1>2, <2>1, <3>3
  <2>3. CASE ~LastOfClosedSegment(s)
    <3>1. counter'[Root] <= 0
      BY <1>1, NoneOpenNotPositive
    <3>2. Root \notin up[s]
      BY <2>1, <2>3, <3>1 DEF LastOfClosedSegment
    <3>3. s \notin withSegment /\ OpenUnder(Root) = {}
      BY <1>1, <3>2 DEF LooseInv, MembersInherit
    <3>4. sent[d] > 0 \/ \E b \in Chain(d) : b \in tooLate
      BY <2>1, <3>3 DEF LooseInv, HeldIsSent
    <3> QED BY <1>1, <1>3, <2>3, <3>3, <3>4 DEF Chain
  <2> QED BY <2>2, <2>3
<1> QED BY <1>1, <1>4, <1>5, <1>6, <1>7 DEF LooseInv

(* Segment.close preserves it.                                             *)
LEMMA LooseCloseSegmentPreserves ==
  ASSUME ~Facade, LooseInv, CloseOpenSegment, UNCHANGED history
  PROVE  LooseInv'
<1>1. /\ open' = open \ {Root} /\ UNCHANGED <<live, up, withSegment, kept, counter, notTraced, missed, tooLate>>
      /\ Root \in Node /\ Root \notin Subsegment /\ missed \in [Node -> SUBSET Subsegment]
  BY SubsegmentAssumption DEF history, CloseOpenSegment, CloseSegment, LooseInv, LooseTypeOK, Node
<1>2. \A n \in Node : OpenUnder(n)' = OpenUnder(n)
  BY <1>1 DEF OpenUnder
<1>3. CounterLessMissed' /\ MissedBelow'
  BY <1>1, <1>2 DEF LooseInv, CounterLessMissed, MissedBelow
<1>4. sent' \in [Node -> Nat] /\ \A n \in Node : sent[n] \in Nat /\ sent'[n] >= sent[n]
  <2>1. sent \in [Node -> Nat]
    BY DEF LooseInv, LooseTypeOK
  <2> QED BY <2>1 DEF CloseOpenSegment, CloseSegment, FlushSegment, Emitted
<1>5. LooseTypeOK' /\ ForestShape' /\ MembersInherit'
  BY <1>1, <1>4 DEF LooseInv, LooseTypeOK, ForestShape, MembersInherit
<1>6. MemberPrunedOnlyWhenSent'
  <2> SUFFICES ASSUME NEW x \in withSegment, x \notin kept, x \notin notTraced PROVE sent'[x] > 0
    BY <1>1 DEF MemberPrunedOnlyWhenSent
  <2>1. sent[x] > 0 /\ x \in Node
    BY DEF LooseInv, MemberPrunedOnlyWhenSent, LooseTypeOK, Node
  <2> QED BY <1>4, <2>1
<1>7. HeldIsSent'
  <2> SUFFICES ASSUME OpenUnder(Root)' = {}, Root \notin notTraced, NEW d \in InTree
               PROVE  sent'[d] > 0
    BY <1>1 DEF HeldIsSent, InTree
  <2>1. counter[Root] <= 0
    BY <1>1, <1>3, NoneOpenNotPositive
  <2>2. sent' = Emitted(up, kept, {Root}) /\ d \in Document(up, kept, Root) /\ d \in Node
    BY <2>1 DEF CloseOpenSegment, CloseSegment, FlushSegment, Document, InTree, Within,
                LooseInv, LooseTypeOK, Node
  <2>3. sent'[d] = sent[d] + 1
    BY <2>2 DEF Emitted
  <2> QED BY <1>4, <2>2, <2>3
<1> QED BY <1>3, <1>5, <1>6, <1>7 DEF LooseInv

(* The constructor of a subsegment preserves it: what is made is in no tree. *)
LEMMA NewPreserves ==
  ASSUME LooseInv, NEW s \in Subsegment, NewSubsegment(s), UNCHANGED history
  PROVE  LooseInv'
<1>1. /\ s \notin live /\ live' = live \cup {s} /\ open' = open \cup {s} /\ up[s] = {}
      /\ UNCHANGED <<up, withSegment, kept, counter, notTraced, sent, missed, tooLate>> /\ s # Root
  BY SubsegmentAssumption DEF NewSubsegment, history, LooseInv, ForestShape
<1>2. \A n \in Node : OpenUnder(n)' = OpenUnder(n)
  BY <1>1 DEF OpenUnder
<1>3. CounterLessMissed' /\ MissedBelow' /\ MembersInherit' /\ MemberPrunedOnlyWhenSent'
  BY <1>1, <1>2 DEF LooseInv, CounterLessMissed, MissedBelow, MembersInherit,
                    MemberPrunedOnlyWhenSent
<1>4. LooseTypeOK' /\ ForestShape'
  BY <1>1 DEF LooseInv, LooseTypeOK, ForestShape, Node
<1>5. HeldIsSent'
  <2>1. InTree' = InTree /\ OpenUnder(Root)' = OpenUnder(Root)
    BY <1>1, <1>2 DEF InTree, Node
  <2> QED BY <1>1, <2>1 DEF LooseInv, HeldIsSent, Chain
<1> QED BY <1>3, <1>4, <1>5 DEF LooseInv

(* A stutter preserves it. *)
LEMMA LooseStutterPreserves ==
  ASSUME LooseInv, UNCHANGED looseVars
  PROVE  LooseInv'
<1> USE DEF looseVars, history
<1>1. \A n \in Node : OpenUnder(n)' = OpenUnder(n)
  BY DEF vars, OpenUnder
<1>2. LooseTypeOK' /\ ForestShape' /\ CounterLessMissed' /\ MissedBelow'
  BY <1>1 DEF vars, LooseInv, LooseTypeOK, ForestShape, CounterLessMissed, MissedBelow
<1>3. MembersInherit' /\ MemberPrunedOnlyWhenSent'
  BY DEF vars, LooseInv, MembersInherit, MemberPrunedOnlyWhenSent
<1>4. HeldIsSent'
  BY <1>1 DEF vars, LooseInv, HeldIsSent, InTree, Node, Chain
<1> QED BY <1>2, <1>3, <1>4 DEF LooseInv

(* It holds at the start. *)
LEMMA LooseInitEstablishes ==
  ASSUME LooseInit
  PROVE  LooseInv
<1> USE DEF LooseInit
<1>1. CounterExact /\ TypeOK
  BY InitEstablishes DEF IInv
<1>2. LooseTypeOK /\ CounterLessMissed
  BY <1>1, FS_EmptySet DEF LooseTypeOK, TypeOK, CounterExact, CounterLessMissed
<1>3. ForestShape
  BY SubsegmentAssumption DEF Init, ForestShape, Node
<1>4. MissedBelow /\ MembersInherit /\ MemberPrunedOnlyWhenSent /\ HeldIsSent
  BY DEF Init, MissedBelow, MembersInherit, MemberPrunedOnlyWhenSent, HeldIsSent
<1> QED BY <1>2, <1>3, <1>4 DEF LooseInv

(* Whatever program the API accepts: counters are exact over every tree up *)
(* to what came in closed trees, members are of the segment's tree with the*)
(* decision above them, and what the closed segment holds has been sent,   *)
(* but for closed trees added after that (addSubsegment, close).           *)
THEOREM LooseInvariant == ASSUME ~Facade PROVE LooseSpec => []LooseInv
<1>1. LooseInit => LooseInv
  BY LooseInitEstablishes
<1>2. LooseInv /\ [LooseNext]_looseVars => LooseInv'
  <2> SUFFICES ASSUME LooseInv, [LooseNext]_looseVars PROVE LooseInv'
    OBVIOUS
  <2>1. ASSUME NEW p \in Node, NEW s \in Subsegment, NEW unsampled \in BOOLEAN,
               \/ AddNewSubsegment(p, s, unsampled) /\ UNCHANGED history
               \/ AddBuilt(p, s, unsampled)
        PROVE  LooseInv'
    BY <2>1, AdditionGrafts, GraftPreserves
  <2>2. ASSUME NEW s \in Subsegment, CloseOpen(s), UNCHANGED history PROVE LooseInv'
    BY <2>2, LooseClosePreserves
  <2>3. CASE CloseOpenSegment /\ UNCHANGED history
    BY <2>3, LooseCloseSegmentPreserves
  <2>4. ASSUME NEW s \in Subsegment, NewSubsegment(s), UNCHANGED history PROVE LooseInv'
    BY <2>4, NewPreserves
  <2>5. CASE UNCHANGED looseVars
    BY <2>5, LooseStutterPreserves
  <2> QED BY <2>1, <2>2, <2>3, <2>4, <2>5 DEF LooseNext, LateNext
<1> QED BY <1>1, <1>2, PTL DEF LooseSpec

(* When trees are built before they are added and children come late, a    *)
(* counter is what is open below its node less what came there in a closed *)
(* tree (incrementCounter with an additional count, addSubsegment).        *)
THEOREM LooseCountersAreExplained == ASSUME ~Facade PROVE LooseSpec => []CounterLessMissed
<1>1. LooseInv => CounterLessMissed
  BY DEF LooseInv
<1> QED BY <1>1, LooseInvariant, PTL

(* Once all is closed, an unsent subsegment of the segment was added below *)
(* one that had been streamed, was nested before its tree was added, or    *)
(* came with a closed tree when the segment was over; nothing is lost in   *)
(* any other way, however counters sank (close, streamSubsegments).        *)
THEOREM OnlyTheseAreLost == ASSUME ~Facade PROVE LooseSpec => []LossExplained
<1>1. LooseInv => LossExplained
  <2> SUFFICES ASSUME LooseInv, open = {}, NEW s \in live \ notTraced, sent[s] = 0,
                      s \in withSegment, \A b \in Chain(s) : b \notin tooLate
               PROVE  \E b \in up[s] \ {Root} : b \notin kept /\ sent[b] > 0
    BY DEF LossExplained, Chain
  <2>1. s \in kept
    BY DEF LooseInv, MemberPrunedOnlyWhenSent
  <2>2. /\ Root \in up[s] /\ Root \notin notTraced
        /\ \A b \in up[s] : b \in {Root} \cup withSegment /\ b \notin notTraced
    BY DEF LooseInv, MembersInherit
  <2>3. s \notin InTree
    BY <2>2 DEF LooseInv, HeldIsSent, OpenUnder
  <2>4. PICK b \in up[s] : Root \in up[b] /\ b \notin kept
    BY <2>1, <2>2, <2>3 DEF InTree, Within
  <2>5. b # Root /\ b \in withSegment
    BY <2>2, <2>4 DEF LooseInv, ForestShape
  <2> QED BY <2>2, <2>4, <2>5 DEF LooseInv, MemberPrunedOnlyWhenSent
<1> QED BY <1>1, LooseInvariant, PTL

-----------------------------------------------------------------------------
(* The segment of Lambda (Facade = TRUE), where nothing above counts. *)

(* What the types and the shape give. *)
LEMMA LambdaFacts ==
  ASSUME LambdaInv
  PROVE  /\ TypeOK /\ LambdaTypeOK /\ withSegment = live
         /\ Root \in Node /\ Root \notin Subsegment /\ live \subseteq Node
         /\ \A s \in Subsegment : s \in Node /\ s # Root
         /\ \A n \in Node : IsFiniteSet(OpenUnder(n))
         /\ \A s \in live : Root \in up[s] /\ s \notin up[s] /\ up[s] \subseteq {Root} \cup live
<1>1. \A n \in Node : IsFiniteSet(OpenUnder(n))
  BY SubsegmentAssumption, FS_Subset DEF OpenUnder
<1> QED BY <1>1, SubsegmentAssumption
        DEF LambdaInv, NoLeakBetweenInvocations, LambdaTypeOK, TypeOK, TreeShape, Node

(* Adding to the facade counts only below it, and streams nothing. *)
LEMMA LambdaAddShape ==
  ASSUME FacadeOnly, LambdaInv, NEW p \in Node, NEW s \in Subsegment, NEW unsampled \in BOOLEAN,
         AddOpen(p, s, unsampled)
  PROVE  /\ s \notin live /\ p \in {Root} \cup live /\ p # s
         /\ live' = live \cup {s} /\ open' = open \cup {s} /\ kept' = kept \cup {s}
         /\ sent' = sent /\ sentUnder' = sentUnder
         /\ notTraced \subseteq notTraced' /\ notTraced' \subseteq notTraced \cup {s}
         /\ (p \in notTraced => s \in notTraced')
         /\ counter' \in [Node -> Nat] /\ counter'[Root] = 1
         /\ \A d \in Node : d # s => up'[d] = up[d]
         /\ up'[s] = Chain(p) /\ Chain(p) \subseteq {Root} \cup live
         /\ up' \in [Node -> SUBSET Node]
         /\ TreeShape' /\ CountedBelow'
<1>1. /\ s \notin live /\ p \in {Root} \cup live
      /\ live' = live \cup {s} /\ open' = open \cup {s} /\ kept' = kept \cup {s} /\ sent' = sent
      /\ notTraced' = Decision(p, s, unsampled)
      /\ counter' = Counted(Chain(p), Added(s))
      /\ up' = [d \in Node |-> IF d = s \/ s \in up[d] THEN up[d] \cup Chain(p) ELSE up[d]]
      /\ withSegment' = IF p = Root \/ p \in withSegment THEN withSegment \cup {s}
                                                         ELSE withSegment
  BY DEF FacadeOnly, AddOpen, LambdaAdd, AddNewSubsegment, Attach
<1>2. sentUnder' = sentUnder
  <2>1. sentUnder' = [d \in Subsegment |-> sentUnder[d]]
    <3>1. \A d \in Subsegment : ~(sent'[d] > sent[d])
      BY <1>1, LambdaFacts DEF TypeOK
    <3> QED BY <3>1 DEF AddOpen, LambdaAdd, RecordTrace
  <2> QED BY <2>1, LambdaFacts DEF LambdaTypeOK
<1>3. /\ up' \in [Node -> SUBSET Node]
      /\ up'[s] = Chain(p) /\ Chain(p) \subseteq {Root} \cup live
      /\ \A d \in Node : d # s => up'[d] = up[d]
      /\ TreeShape'
  <2>1. TreeShape /\ up \in [Node -> SUBSET Node] /\ live \subseteq Subsegment
    BY LambdaFacts DEF TypeOK, LambdaInv
  <2> QED BY <1>1, <2>1, GrowShape
<1>4. notTraced \subseteq notTraced' /\ notTraced' \subseteq notTraced \cup {s}
      /\ (p \in notTraced => s \in notTraced')
  BY <1>1 DEF Decision
<1>5. OpenUnder(s) = {} /\ counter[s] = 0
  <2>1. OpenUnder(s) = {}
    BY <1>1, LambdaFacts DEF OpenUnder, LambdaInv, TreeShape
  <2> QED BY <2>1, FS_EmptySet DEF LambdaInv, CountedBelow
<1>6. \A n \in Node : counter'[n] = IF n \in Chain(p) /\ n # Root THEN counter[n] + 1 ELSE counter[n]
  BY <1>1, <1>5, LambdaFacts DEF Counted, Added, FacadeOnly, TypeOK
<1>7. counter' \in [Node -> Nat] /\ counter'[Root] = 1
  <2>1. counter'[Root] = counter[Root] /\ counter[Root] = 1
    BY <1>6, LambdaFacts DEF LambdaTypeOK
  <2>2. counter' = [n \in Node |-> counter'[n]] /\ \A n \in Node : counter[n] \in Nat
    BY <1>1, LambdaFacts DEF Counted, TypeOK
  <2>3. \A n \in Node : counter'[n] \in Nat
    BY <1>6, <2>2
  <2> QED BY <2>1, <2>2, <2>3
<1>8. CountedBelow'
  <2> SUFFICES ASSUME NEW n \in Subsegment PROVE counter'[n] = Cardinality(OpenUnder(n)')
    BY DEF CountedBelow, OpenUnder
  <2>1. OpenUnder(n)' = IF n \in Chain(p) THEN OpenUnder(n) \cup {s} ELSE OpenUnder(n)
    <3>1. \A t \in Subsegment : t \in open' /\ n \in up'[t] <=>
            \/ t \in open /\ n \in up[t]
            \/ t = s /\ n \in Chain(p)
      <4>1. s \notin open
        BY <1>1, LambdaFacts DEF LambdaInv, TreeShape
      <4> QED BY <1>1, <1>3, <4>1, LambdaFacts
    <3> QED BY <3>1 DEF OpenUnder
  <2>2. s \notin OpenUnder(n) /\ IsFiniteSet(OpenUnder(n)) /\ n \in Node /\ n # Root
    BY <1>1, LambdaFacts DEF OpenUnder, LambdaInv, TreeShape
  <2>3. Cardinality(OpenUnder(n) \cup {s}) = Cardinality(OpenUnder(n)) + 1
    BY <2>2, FS_AddElement
  <2>4. counter[n] = Cardinality(OpenUnder(n))
    BY DEF LambdaInv, CountedBelow
  <2> QED BY <1>6, <2>1, <2>2, <2>3, <2>4
<1> QED BY <1>1, <1>2, <1>3, <1>4, <1>7, <1>8, LambdaFacts

(* An addition is of this invocation, unless its parent outlived another.  *)
LEMMA LambdaAddPreserves ==
  ASSUME FacadeOnly, LambdaInv, NEW p \in Node, NEW s \in Subsegment, NEW unsampled \in BOOLEAN,
         AddOpen(p, s, unsampled)
  PROVE  LambdaInv'
<1>1. /\ s \notin live /\ p \in {Root} \cup live /\ p # s
      /\ live' = live \cup {s} /\ open' = open \cup {s} /\ kept' = kept \cup {s}
      /\ sent' = sent /\ sentUnder' = sentUnder
      /\ notTraced \subseteq notTraced' /\ notTraced' \subseteq notTraced \cup {s}
      /\ (p \in notTraced => s \in notTraced')
      /\ counter' \in [Node -> Nat] /\ counter'[Root] = 1
      /\ \A d \in Node : d # s => up'[d] = up[d]
      /\ up'[s] = Chain(p) /\ Chain(p) \subseteq {Root} \cup live
      /\ up' \in [Node -> SUBSET Node]
      /\ TreeShape' /\ CountedBelow'
  BY LambdaAddShape
<1>2. /\ p \in open \cup {Root} /\ (p = Root => asked)
      /\ noOp' = IF p \in noOp THEN noOp \cup {s} ELSE noOp
      /\ bornIn' = [bornIn EXCEPT ![s] = IF p = Root THEN invocation ELSE bornIn[p]]
      /\ loose' = IF p \in loose THEN loose \cup {s} ELSE loose
      /\ UNCHANGED <<invocation, header, prev, trace, asked>>
  BY DEF AddOpen, LambdaAdd
<1>a. /\ invocation' = invocation /\ header' = header /\ prev' = prev /\ trace' = trace
      /\ asked' = asked
  BY <1>2
<1>3. LambdaTypeOK /\ TypeOK /\ s \in Node /\ s # Root /\ Root \in Node
  BY LambdaFacts
<1>4. bornIn' \in [Subsegment -> 0..invocation] /\ bornIn'[s] = (IF p = Root THEN invocation ELSE bornIn[p])
      /\ \A d \in live : bornIn'[d] = bornIn[d]
  <2>1. bornIn \in [Subsegment -> 0..invocation] /\ invocation \in 0..invocation
        /\ (p # Root => p \in Subsegment)
    BY <1>1, <1>3 DEF LambdaTypeOK, TypeOK
  <2> QED BY <1>1, <1>2, <2>1
<1>5. LambdaTypeOK'
  <2>1. TypeOK'
    <3>1. live' \subseteq Subsegment /\ withSegment' \subseteq live' /\ kept' \subseteq live'
          /\ open' \subseteq Node /\ notTraced' \subseteq Node /\ sent' \in [Node -> Nat]
      BY <1>1, <1>3 DEF TypeOK, TreeShape
    <3> QED BY <1>1, <3>1 DEF TypeOK
  <2>2. noOp' \subseteq Node /\ loose' \subseteq live'
    BY <1>1, <1>2, <1>3 DEF LambdaTypeOK
  <2> QED BY <1>1, <1>a, <1>3, <1>4, <2>1, <2>2 DEF LambdaTypeOK, Trace
<1>6. \A d \in live' \ loose' : d = s \/ d \in live \ loose
  BY <1>1, <1>2
<1>7. NoLeakBetweenInvocations'
  <2>1. sentUnder[s] = {}
    BY <1>1 DEF LambdaInv, NothingBeforeItsTime
  <2> QED BY <1>1, <1>4, <1>5, <1>6, <2>1 DEF LambdaInv, NoLeakBetweenInvocations
<1>8. TraceInForce'
  <2>1. Root \in notTraced' <=> Root \in notTraced
    BY <1>1, <1>3
  <2> QED BY <1>a, <2>1 DEF LambdaInv, TraceInForce, Known
<1>9. OpenIsOfNow'
  <2> SUFFICES ASSUME NEW d \in open' \ loose'
               PROVE  asked /\ bornIn'[d] = invocation /\ (Root \in notTraced => d \in notTraced')
    BY <1>1, <1>a, <1>3 DEF OpenIsOfNow
  <2>1. CASE d \in open \ loose
    <3>1. d \in live
      BY <2>1 DEF LambdaInv, TreeShape
    <3> QED BY <1>1, <1>4, <2>1, <3>1 DEF LambdaInv, OpenIsOfNow
  <2>2. CASE d = s /\ p = Root
    BY <1>1, <1>2, <1>4, <2>2
  <2>3. CASE d = s /\ p # Root
    <3>1. p \in open \ loose
      BY <1>2, <2>3
    <3> QED BY <1>1, <1>4, <2>3, <3>1 DEF LambdaInv, OpenIsOfNow
  <2> QED BY <1>1, <1>2, <2>1, <2>2, <2>3
<1>10. ClosedIsGone' /\ NothingBeforeItsTime' /\ InvalidTraceIsSilent' /\ Root \notin open'
  <2>1. ClosedIsGone'
    BY <1>1, <1>2 DEF LambdaInv, ClosedIsGone
  <2>2. NothingBeforeItsTime' /\ InvalidTraceIsSilent'
    BY <1>1 DEF LambdaInv, NothingBeforeItsTime, InvalidTraceIsSilent
  <2> QED BY <1>1, <1>3, <2>1, <2>2 DEF LambdaInv
<1>11. UnsampledStaysSilent'
  <2> SUFFICES ASSUME NEW d \in live', (up'[d] \cup {d}) \ {Root} \subseteq notTraced'
               PROVE  sent[d] = 0
    BY <1>1 DEF UnsampledStaysSilent
  <2>1. CASE d = s
    BY <1>1, <2>1 DEF LambdaInv, NothingBeforeItsTime
  <2>2. CASE d # s
    <3>1. d \in live /\ up'[d] = up[d] /\ s \notin up[d]
      BY <1>1, <2>2, LambdaFacts
    <3>2. (up[d] \cup {d}) \ {Root} \subseteq notTraced
      BY <1>1, <2>2, <3>1
    <3> QED BY <3>1, <3>2 DEF LambdaInv, UnsampledStaysSilent
  <2> QED BY <2>1, <2>2
<1> QED BY <1>1, <1>7, <1>8, <1>9, <1>10, <1>11 DEF LambdaInv

(* What a close streams and sends of it: from the tree as it is, traced    *)
(* subsegments of a traced facade.                                         *)
CloseStreamed(docs) ==
  /\ kept' = kept \ docs
  /\ sent' = Emitted(up, kept, docs \cap Flushable)

(* A subsegment that closes after its children is sent by itself; one that *)
(* closes before streams what is complete and still in the tree.           *)
LEMMA LambdaCloseSends ==
  ASSUME FacadeOnly, LambdaInv, NEW s \in Subsegment, LambdaClose(s)
  PROVE  \E docs \in SUBSET live :
           /\ CloseStreamed(docs)
           /\ OpenUnder(s) = {} => docs = {s}
           /\ OpenUnder(s) # {} => \A x \in docs : x \in kept /\ s \in up[x] /\ x \notin open
                                                   /\ OpenUnder(x) = {}
<1> DEFINE done == Complete(open', counter')
           docs == Streamed(up, kept, s, done)
<1>1. /\ s \in open /\ s \in live /\ open' = open \ {s} /\ s \notin up[s]
      /\ counter' = Counted(up[s], -1) /\ s \in withSegment /\ s # Root
      /\ counter[Root] = 1 /\ counter \in [Node -> Nat] /\ s \in Node /\ Root \in Node
  BY LambdaFacts DEF LambdaClose, CloseOpen, CloseSubsegment, LambdaTypeOK, TypeOK
<1>2. OverThreshold(counter') /\ ~LastOfClosedSegment(s)
  <2>1. counter'[Root] = 1 /\ Threshold = 0
    BY <1>1 DEF Counted, FacadeOnly
  <2> QED BY <2>1 DEF OverThreshold, LastOfClosedSegment, FacadeOnly
<1>3. sent' = Emitted(up, kept, docs \cap Flushable) /\ kept' = kept \ docs
  BY <1>1, <1>2 DEF LambdaClose, CloseOpen, CloseSubsegment, Pruned
<1>4. counter[s] = Cardinality(OpenUnder(s)) /\ IsFiniteSet(OpenUnder(s))
  BY <1>1, LambdaFacts DEF LambdaInv, CountedBelow
<1>5. counter'[s] = counter[s]
  BY <1>1 DEF Counted
<1>6. CASE OpenUnder(s) = {}
  <2>1. s \in done
    BY <1>1, <1>4, <1>5, <1>6, FS_EmptySet DEF Complete
  <2>2. docs = {s}
    BY <2>1 DEF Streamed
  <2> QED BY <1>1, <1>3, <1>6, <2>2 DEF CloseStreamed
<1>7. CASE OpenUnder(s) # {}
  <2>1. Cardinality(OpenUnder(s)) # 0 /\ Cardinality(OpenUnder(s)) \in Nat
    BY <1>4, <1>7, FS_EmptySet, FS_CardinalityType
  <2>2. s \notin done
    BY <1>1, <1>4, <1>5, <2>1 DEF Complete
  <2>3. docs \subseteq Within(up, kept, s) \cap done
    BY <2>2 DEF Streamed
  <2>4. ASSUME NEW x \in docs
        PROVE  x \in kept /\ x \in live /\ s \in up[x] /\ x \notin open /\ OpenUnder(x) = {}
    <3>1. x \in kept /\ x \in live /\ x \in Subsegment /\ s \in up[x] /\ x \notin open'
          /\ counter'[x] <= 0
      BY <2>3, LambdaFacts DEF Within, Complete, TypeOK
    <3>2. x # s /\ x \notin up[s] /\ x \notin open /\ x \in Node
      <4>1. x # s
        BY <1>1, <3>1
      <4>2. x \in up[s] => up[x] \subseteq up[s]
        BY <1>1 DEF LambdaInv, TreeShape
      <4> QED BY <1>1, <3>1, <4>1, <4>2, LambdaFacts
    <3>3. counter'[x] = counter[x]
      BY <1>1, <3>2 DEF Counted
    <3>4. counter[x] = Cardinality(OpenUnder(x)) /\ IsFiniteSet(OpenUnder(x)) /\ counter[x] \in Nat
      BY <1>1, <3>1, <3>2, LambdaFacts DEF LambdaInv, CountedBelow
    <3>5. counter[x] = 0
      BY <3>1, <3>3, <3>4
    <3> QED BY <3>1, <3>2, <3>4, <3>5, FS_EmptySet
  <2> HIDE DEF docs
  <2> QED BY <1>3, <1>7, <2>4 DEF CloseStreamed
<1> QED BY <1>6, <1>7

(* Of what outlived nothing, a close sends and prunes only the subsegment  *)
(* itself, if it closes after its children.                                *)
LEMMA LambdaClosePreserves ==
  ASSUME FacadeOnly, LambdaInv, NEW s \in Subsegment, LambdaClose(s)
  PROVE  LambdaInv'
<1>1. PICK docs \in SUBSET live :
        /\ CloseStreamed(docs)
        /\ OpenUnder(s) = {} => docs = {s}
        /\ OpenUnder(s) # {} => \A x \in docs : x \in kept /\ s \in up[x] /\ x \notin open
                                                /\ OpenUnder(x) = {}
  BY LambdaCloseSends
<1>2. /\ s \in open /\ s \in live /\ open' = open \ {s} /\ counter' = Counted(up[s], -1)
      /\ live' = live /\ up' = up /\ withSegment' = withSegment /\ notTraced' = notTraced
      /\ invocation' = invocation /\ header' = header /\ prev' = prev /\ trace' = trace
      /\ noOp' = noOp /\ asked' = asked /\ bornIn' = bornIn
      /\ loose' = IF OpenUnder(s) = {} THEN loose ELSE loose \cup {s}
      /\ sentUnder' = [d \in Subsegment |->
                         IF sent'[d] > sent[d] THEN sentUnder[d] \cup {trace} ELSE sentUnder[d]]
  BY DEF LambdaClose, CloseOpen, CloseSubsegment, RecordTrace
<1>3. /\ LambdaTypeOK /\ TypeOK /\ s \in Node /\ s # Root /\ Root \in Node /\ live \subseteq Node
      /\ live \subseteq Subsegment /\ Root \notin live
      /\ \A d \in live : Root \in up[d] /\ d \notin up[d] /\ up[d] \subseteq {Root} \cup live
      /\ \A d \in live : \A b \in up[d] : up[b] \subseteq up[d]
      /\ open \subseteq live
  BY LambdaFacts DEF TypeOK, LambdaInv, TreeShape
<1>4. sent' \in [Node -> Nat] /\ \A d \in Node : sent[d] \in Nat /\ sent'[d] >= sent[d]
  BY <1>1, <1>3 DEF CloseStreamed, Emitted, TypeOK
<1>5. ASSUME NEW d \in Node, sent'[d] # sent[d]
      PROVE  \E x \in docs : /\ d = x \/ (d \in kept /\ x \in up[d])
                             /\ x \notin notTraced /\ Root \notin notTraced
  BY <1>1, <1>5 DEF CloseStreamed, Emitted, Document, Within, Flushable
<1>6. ASSUME NEW d \in live, d \notin loose, d # s PROVE sent'[d] = sent[d] /\ (d \in kept \ kept' => d \in open)
  <2>1. ASSUME NEW x \in docs, d = x \/ (d \in kept /\ x \in up[d]), d \notin open PROVE FALSE
    <3>1. d \notin kept
      BY <1>6, <2>1 DEF LambdaInv, ClosedIsGone
    <3>2. CASE OpenUnder(s) = {}
      BY <1>1, <1>6, <2>1, <3>1, <3>2
    <3>3. CASE OpenUnder(s) # {}
      BY <1>1, <2>1, <3>1, <3>3
    <3> QED BY <3>2, <3>3
  <2>2. ASSUME NEW x \in docs, d = x \/ (d \in kept /\ x \in up[d]), d \in open PROVE FALSE
    <3>1. CASE OpenUnder(s) = {}
      <4>1. x = s /\ s \in up[d] /\ d \in Subsegment
        BY <1>1, <1>3, <1>6, <2>2, <3>1
      <4> QED BY <2>2, <3>1, <4>1 DEF OpenUnder
    <3>2. CASE OpenUnder(s) # {}
      <4>1. x \notin open /\ OpenUnder(x) = {} /\ d \in Subsegment
        BY <1>1, <1>3, <3>2
      <4> QED BY <2>2, <4>1 DEF OpenUnder
    <3> QED BY <3>1, <3>2
  <2>3. sent'[d] = sent[d]
    BY <1>3, <1>5, <2>1, <2>2
  <2>4. d \in kept \ kept' => d \in open
    BY <1>1, <2>1 DEF CloseStreamed
  <2> QED BY <2>3, <2>4
<1>7. ASSUME NEW d \in Subsegment, d \notin live PROVE sent'[d] = sent[d]
  <2>1. d \in Node /\ d \notin kept
    BY <1>3, <1>7 DEF TypeOK, Node
  <2> QED BY <1>5, <1>7, <2>1
<1>8. kept' \subseteq kept
  BY <1>1 DEF CloseStreamed
<1>9. counter' \in [Node -> Nat] /\ counter'[Root] = 1 /\ CountedBelow'
  <2>1. \A n \in Node : counter'[n] = IF n \in up[s] /\ n # Root THEN counter[n] - 1 ELSE counter[n]
    BY <1>2, <1>3 DEF Counted, FacadeOnly, TypeOK
  <2>2. ASSUME NEW n \in Subsegment
        PROVE  counter'[n] \in Nat /\ counter'[n] = Cardinality(OpenUnder(n)')
    <3>1. OpenUnder(n)' = IF n \in up[s] THEN OpenUnder(n) \ {s} ELSE OpenUnder(n)
      <4>1. \A t \in Subsegment : t \in open' /\ n \in up'[t] <=> t \in open /\ t # s /\ n \in up[t]
        BY <1>2
      <4> QED BY <4>1 DEF OpenUnder
    <3>2. IsFiniteSet(OpenUnder(n)) /\ counter[n] = Cardinality(OpenUnder(n)) /\ n \in Node /\ n # Root
      BY LambdaFacts DEF LambdaInv, CountedBelow
    <3>3. n \in up[s] => s \in OpenUnder(n)
      BY <1>2 DEF OpenUnder
    <3>4. n \in up[s] => Cardinality(OpenUnder(n) \ {s}) = Cardinality(OpenUnder(n)) - 1
      BY <3>2, <3>3, FS_RemoveElement
    <3>5. counter'[n] = Cardinality(OpenUnder(n)')
      BY <2>1, <3>1, <3>2, <3>4
    <3>6. IsFiniteSet(OpenUnder(n)')
      BY SubsegmentAssumption, FS_Subset DEF OpenUnder
    <3> QED BY <3>5, <3>6, FS_CardinalityType
  <2>3. counter'[Root] = 1
    BY <1>3, <2>1 DEF LambdaTypeOK
  <2>4. \A n \in Node : counter'[n] \in Nat
    BY <2>2, <2>3 DEF Node
  <2>5. counter' = [n \in Node |-> counter'[n]]
    BY <1>2 DEF Counted
  <2>6. CountedBelow'
    BY <2>2 DEF CountedBelow, OpenUnder
  <2> QED BY <2>3, <2>4, <2>5, <2>6
<1>10. trace \in Trace /\ sentUnder \in [Subsegment -> SUBSET Trace]
  BY <1>3 DEF LambdaTypeOK
<1>11. LambdaTypeOK'
  <2>1. TypeOK'
    BY <1>2, <1>3, <1>4, <1>8, <1>9 DEF TypeOK
  <2>2. sentUnder' \in [Subsegment -> SUBSET Trace]
    BY <1>2, <1>10
  <2>3. loose' \subseteq live'
    BY <1>2, <1>3 DEF LambdaTypeOK
  <2>4. Trace' = Trace
    BY DEF Trace
  <2> QED BY <1>2, <1>3, <1>9, <2>1, <2>2, <2>3, <2>4 DEF LambdaTypeOK
<1>12. \A d \in Subsegment : sentUnder'[d] = IF sent'[d] > sent[d] THEN sentUnder[d] \cup {trace}
                                                                   ELSE sentUnder[d]
  BY <1>2
<1>13. ASSUME NEW d \in Subsegment, sent'[d] = sent[d] PROVE sentUnder'[d] = sentUnder[d]
  <2>1. ~(sent'[d] > sent[d])
    BY <1>4, <1>13, LambdaFacts
  <2> QED BY <1>12, <2>1
<1>14. ASSUME NEW d \in Subsegment, sent'[d] # sent[d] PROVE Root \notin notTraced /\ trace # InvalidTrace
  BY <1>5, <1>14, LambdaFacts DEF LambdaInv, TraceInForce
<1>15. NoLeakBetweenInvocations'
  <2> SUFFICES ASSUME NEW d \in live \ loose' PROVE sentUnder'[d] \subseteq {bornIn[d], NewTrace}
    BY <1>2, <1>11 DEF NoLeakBetweenInvocations
  <2>1. d \in live \ loose /\ d \in Subsegment /\ sentUnder[d] \subseteq {bornIn[d], NewTrace}
    BY <1>2, <1>3 DEF LambdaInv, NoLeakBetweenInvocations
  <2>2. CASE sent'[d] = sent[d]
    BY <2>1, <2>2, <1>13
  <2>3. CASE sent'[d] # sent[d]
    <3>1. d = s /\ s \in open \ loose
      BY <1>2, <1>6, <2>1, <2>3
    <3>2. asked /\ bornIn[d] = invocation
      BY <3>1 DEF LambdaInv, OpenIsOfNow
    <3>3. trace \in {invocation, NewTrace}
      BY <2>1, <2>3, <1>14, <3>2 DEF LambdaInv, TraceInForce
    <3> QED BY <1>12, <2>1, <3>2, <3>3
  <2> QED BY <2>2, <2>3
<1>16. TraceInForce' /\ OpenIsOfNow'
  <2>1. TraceInForce'
    BY <1>2 DEF LambdaInv, TraceInForce, Known
  <2>2. OpenIsOfNow'
    BY <1>2 DEF LambdaInv, OpenIsOfNow
  <2> QED BY <2>1, <2>2
<1>17. ClosedIsGone'
  <2> SUFFICES ASSUME NEW d \in live \ (open' \cup loose')
               PROVE  d \notin kept' /\ (d \in notTraced \/ sent'[d] > 0)
    BY <1>2 DEF ClosedIsGone
  <2>1. CASE d # s
    <3>1. d \notin kept /\ (d \in notTraced \/ sent[d] > 0)
      BY <1>2, <2>1 DEF LambdaInv, ClosedIsGone
    <3> QED BY <1>3, <1>4, <1>8, <3>1
  <2>2. CASE d = s
    <3>1. OpenUnder(s) = {} /\ docs = {s} /\ s \in open \ loose
      BY <1>1, <1>2, <2>2
    <3>2. s \notin kept'
      BY <1>1, <3>1 DEF CloseStreamed
    <3>3. ASSUME s \notin notTraced PROVE sent'[s] > 0
      <4>1. Root \notin notTraced
        BY <3>1, <3>3 DEF LambdaInv, OpenIsOfNow
      <4>2. s \in docs \cap Flushable /\ s \in Document(up, kept, s)
        BY <1>2, <3>1, <3>3, <4>1, LambdaFacts DEF Flushable, Document
      <4>3. sent'[s] = sent[s] + 1
        BY <1>1, <1>3, <4>2 DEF CloseStreamed, Emitted
      <4> QED BY <1>3, <1>4, <4>3
    <3> QED BY <2>2, <3>2, <3>3
  <2> QED BY <2>1, <2>2
<1>18. NothingBeforeItsTime'
  BY <1>2, <1>7, <1>13 DEF LambdaInv, NothingBeforeItsTime
<1>19. InvalidTraceIsSilent'
  <2> SUFFICES ASSUME NEW d \in Subsegment PROVE InvalidTrace \notin sentUnder'[d]
    BY DEF InvalidTraceIsSilent
  <2>1. InvalidTrace \notin sentUnder[d]
    BY DEF LambdaInv, InvalidTraceIsSilent
  <2> QED BY <1>12, <1>13, <1>14, <2>1
<1>20. UnsampledStaysSilent'
  <2> SUFFICES ASSUME NEW d \in live, (up[d] \cup {d}) \ {Root} \subseteq notTraced PROVE sent'[d] = 0
    BY <1>2 DEF UnsampledStaysSilent
  <2>1. sent[d] = 0
    BY DEF LambdaInv, UnsampledStaysSilent
  <2>2. ASSUME sent'[d] # sent[d] PROVE FALSE
    <3>1. PICK x \in docs : (d = x \/ x \in up[d]) /\ x \notin notTraced
      BY <1>3, <1>5, <2>2
    <3>2. x # Root
      BY <1>3
    <3> QED BY <3>1, <3>2
  <2> QED BY <2>1, <2>2
<1>21. TreeShape' /\ Root \notin open'
  BY <1>2 DEF LambdaInv, TreeShape
<1> QED BY <1>9, <1>15, <1>16, <1>17, <1>18, <1>19, <1>20, <1>21 DEF LambdaInv

(* A new invocation: what is open outlives the former one.                 *)
LEMMA InvokePreserves ==
  ASSUME LambdaInv, NEW h \in Header \cup {NoHeader}, Invoke(h)
  PROVE  LambdaInv'
<1>1. /\ invocation < MaxInvocation /\ invocation' = invocation + 1 /\ header' = h
      /\ asked' = FALSE /\ loose' = loose \cup open
      /\ live' = live /\ up' = up /\ withSegment' = withSegment /\ kept' = kept /\ open' = open
      /\ counter' = counter /\ notTraced' = notTraced /\ sent' = sent
      /\ prev' = prev /\ trace' = trace /\ noOp' = noOp /\ bornIn' = bornIn
      /\ sentUnder' = sentUnder
  BY DEF Invoke, vars
<1>2. LambdaTypeOK /\ TypeOK /\ open \subseteq live
  BY LambdaFacts DEF LambdaInv, TreeShape
<1>3. invocation \in 1..MaxInvocation /\ prev \in 0..invocation /\ MaxInvocation \in Nat
  BY <1>2, InvocationAssumption DEF LambdaTypeOK
<1>4. invocation' \in 1..MaxInvocation /\ prev' \in 0..invocation' /\ prev' # invocation'
      /\ 0..invocation \subseteq 0..invocation'
  BY <1>1, <1>3
<1>5. LambdaTypeOK'
  <2>1. bornIn' \in [Subsegment -> 0..invocation']
    BY <1>1, <1>2, <1>4 DEF LambdaTypeOK
  <2>2. TypeOK' /\ Trace' = Trace
    BY <1>1, <1>2 DEF TypeOK, Trace
  <2> QED BY <1>1, <1>2, <1>4, <2>1, <2>2 DEF LambdaTypeOK
<1>6. NoLeakBetweenInvocations'
  BY <1>1, <1>5 DEF LambdaInv, NoLeakBetweenInvocations
<1>7. TreeShape' /\ Root \notin open' /\ CountedBelow'
  BY <1>1 DEF LambdaInv, TreeShape, CountedBelow, OpenUnder
<1>8. TraceInForce' /\ OpenIsOfNow' /\ ClosedIsGone'
  BY <1>1, <1>4 DEF LambdaInv, TraceInForce, Known, OpenIsOfNow, ClosedIsGone
<1>9. NothingBeforeItsTime' /\ InvalidTraceIsSilent' /\ UnsampledStaysSilent'
  BY <1>1 DEF LambdaInv, NothingBeforeItsTime, InvalidTraceIsSilent, UnsampledStaysSilent
<1> QED BY <1>6, <1>7, <1>8, <1>9 DEF LambdaInv

(* Asked again for the same header, the facade keeps its decision.         *)
LEMMA ResolvePreserves ==
  ASSUME LambdaInv, Resolve
  PROVE  LambdaInv'
<1>1. /\ asked' = TRUE
      /\ live' = live /\ up' = up /\ withSegment' = withSegment /\ open' = open
      /\ counter' = counter /\ sent' = sent /\ invocation' = invocation /\ header' = header
      /\ bornIn' = bornIn /\ sentUnder' = sentUnder /\ loose' = loose
  BY DEF Resolve
<1>2. /\ LambdaTypeOK /\ TypeOK /\ Root \in Node /\ Root \notin Subsegment /\ Root \notin live
      /\ invocation \in 1..MaxInvocation /\ MaxInvocation \in Nat /\ prev \in 0..invocation
      /\ trace \in Trace /\ open \subseteq live /\ InvalidTrace # NewTrace
      /\ InvalidTrace # invocation
  BY LambdaFacts, InvocationAssumption, TraceAssumption
     DEF LambdaTypeOK, TypeOK, LambdaInv, TreeShape
<1>3. kept' \subseteq kept /\ noOp' \subseteq noOp \cup {Root}
      /\ notTraced' \subseteq notTraced \cup {Root} /\ notTraced \subseteq notTraced' \cup {Root}
  BY DEF Resolve, Reset, PopulatedNotTraced, PopulatedNoOp
<1>4. /\ trace' \in {invocation, NewTrace, InvalidTrace} /\ prev' \in {prev, invocation}
      /\ trace' = InvalidTrace => Root \in notTraced'
      /\ Root \notin notTraced' => header # NoHeader /\ header.sampled = "1"
      /\ asked => (Root \in notTraced' => Root \in notTraced)
  <2>1. CASE header = NoHeader /\ Reset
    BY <2>1 DEF Reset, LambdaInv, TraceInForce
  <2>2. CASE header # NoHeader /\ Known /\ UNCHANGED <<trace, kept, notTraced, noOp, prev>>
    BY <2>2 DEF LambdaInv, TraceInForce
  <2>3. CASE /\ header # NoHeader /\ ~Known
             /\ trace' = PopulatedTrace(header)
             /\ kept' = kept \ ChildrenOfRoot
             /\ notTraced' = PopulatedNotTraced(header)
             /\ noOp' = PopulatedNoOp(header)
             /\ prev' = IF Valid(header) THEN invocation ELSE prev
    <3>1. trace' \in {invocation, NewTrace} /\ prev' \in {prev, invocation}
      BY <2>3 DEF PopulatedTrace
    <3>2. Root \notin notTraced' <=> header.sampled = "1"
      BY <2>3 DEF PopulatedNotTraced
    <3>3. asked /\ Root \notin notTraced => header.sampled = "1"
      BY DEF LambdaInv, TraceInForce
    <3> QED BY <1>2, <2>3, <3>1, <3>2, <3>3
  <2> QED BY <2>1, <2>2, <2>3 DEF Resolve
<1>5. LambdaTypeOK'
  <2>1. TypeOK'
    BY <1>1, <1>2, <1>3 DEF TypeOK
  <2>2. trace' \in Trace /\ prev' \in 0..invocation /\ noOp' \subseteq Node
    BY <1>2, <1>3, <1>4 DEF Trace, LambdaTypeOK
  <2> QED BY <1>1, <1>2, <2>1, <2>2 DEF LambdaTypeOK, Trace
<1>6. NoLeakBetweenInvocations'
  BY <1>1, <1>5 DEF LambdaInv, NoLeakBetweenInvocations
<1>7. TreeShape' /\ Root \notin open' /\ CountedBelow'
  BY <1>1 DEF LambdaInv, TreeShape, CountedBelow, OpenUnder
<1>8. TraceInForce'
  BY <1>1, <1>4 DEF TraceInForce
<1>9. OpenIsOfNow'
  <2> SUFFICES ASSUME NEW d \in open \ loose
               PROVE  bornIn[d] = invocation /\ (Root \in notTraced' => d \in notTraced')
    BY <1>1 DEF OpenIsOfNow
  <2>1. asked /\ bornIn[d] = invocation /\ (Root \in notTraced => d \in notTraced) /\ d # Root
    BY <1>2 DEF LambdaInv, OpenIsOfNow
  <2> QED BY <1>3, <1>4, <2>1
<1>10. ClosedIsGone'
  BY <1>1, <1>2, <1>3 DEF LambdaInv, ClosedIsGone
<1>11. NothingBeforeItsTime' /\ InvalidTraceIsSilent'
  BY <1>1 DEF LambdaInv, NothingBeforeItsTime, InvalidTraceIsSilent
<1>12. UnsampledStaysSilent'
  BY <1>1, <1>3 DEF LambdaInv, UnsampledStaysSilent
<1> QED BY <1>6, <1>7, <1>8, <1>9, <1>10, <1>11, <1>12 DEF LambdaInv

(* A stutter preserves it.                                                 *)
LEMMA LambdaStutterPreserves ==
  ASSUME LambdaInv, UNCHANGED lambdaVars
  PROVE  LambdaInv'
<1>1. /\ live' = live /\ up' = up /\ withSegment' = withSegment /\ kept' = kept /\ open' = open
      /\ counter' = counter /\ notTraced' = notTraced /\ sent' = sent
      /\ invocation' = invocation /\ header' = header /\ prev' = prev /\ trace' = trace
      /\ noOp' = noOp /\ asked' = asked /\ bornIn' = bornIn /\ sentUnder' = sentUnder
      /\ loose' = loose
  BY DEF lambdaVars, facadeVars, vars
<1>2. NoLeakBetweenInvocations'
  BY <1>1 DEF LambdaInv, NoLeakBetweenInvocations, LambdaTypeOK, TypeOK, Trace
<1>3. TreeShape' /\ Root \notin open' /\ CountedBelow'
  BY <1>1 DEF LambdaInv, TreeShape, CountedBelow, OpenUnder
<1>4. TraceInForce' /\ OpenIsOfNow' /\ ClosedIsGone'
  BY <1>1 DEF LambdaInv, TraceInForce, Known, OpenIsOfNow, ClosedIsGone
<1>5. NothingBeforeItsTime' /\ InvalidTraceIsSilent' /\ UnsampledStaysSilent'
  BY <1>1 DEF LambdaInv, NothingBeforeItsTime, InvalidTraceIsSilent, UnsampledStaysSilent
<1> QED BY <1>2, <1>3, <1>4, <1>5 DEF LambdaInv

(* It holds when the SDK has set the facade up.                            *)
LEMMA LambdaInitEstablishes ==
  ASSUME LambdaInit
  PROVE  LambdaInv
<1> USE DEF LambdaInit
<1>1. Root \in Node /\ Root \notin Subsegment
  BY SubsegmentAssumption DEF Node
<1>2. MaxInvocation \in Nat \ {0} /\ 1 \in 1..MaxInvocation
  BY InvocationAssumption
<1>3. trace \in {1, NewTrace, InvalidTrace} /\ prev \in {0, 1} /\ notTraced \in {{}, {Root}}
      /\ (trace = InvalidTrace => Root \in notTraced)
      /\ (prev = 1 => header # NoHeader /\ (Root \notin notTraced => header.sampled = "1"))
  BY TraceAssumption DEF HasAll, Valid
<1>4. TypeOK /\ counter[Root] = 1
  BY <1>1, <1>3 DEF TypeOK
<1>5. LambdaTypeOK
  <2>1. trace \in Trace /\ prev \in 0..invocation /\ invocation \in 1..MaxInvocation
    BY <1>2, <1>3 DEF Trace
  <2>2. bornIn \in [Subsegment -> 0..invocation] /\ sentUnder \in [Subsegment -> SUBSET Trace]
    OBVIOUS
  <2> QED BY <1>4, <2>1, <2>2 DEF LambdaTypeOK
<1>6. NoLeakBetweenInvocations
  BY <1>5 DEF NoLeakBetweenInvocations
<1>7. TreeShape /\ Root \notin open
  BY <1>1 DEF TreeShape, Node
<1>8. CountedBelow
  <2>1. \A s \in Subsegment : OpenUnder(s) = {} /\ counter[s] = 0
    BY <1>1 DEF OpenUnder, Node
  <2> QED BY <2>1, FS_EmptySet DEF CountedBelow
<1>9. TraceInForce
  BY <1>3 DEF TraceInForce, Known
<1>10. OpenIsOfNow /\ ClosedIsGone /\ NothingBeforeItsTime
  BY DEF OpenIsOfNow, ClosedIsGone, NothingBeforeItsTime, Node
<1>11. InvalidTraceIsSilent /\ UnsampledStaysSilent
  BY DEF InvalidTraceIsSilent, UnsampledStaysSilent
<1> QED BY <1>6, <1>7, <1>8, <1>9, <1>10, <1>11 DEF LambdaInv

(* For any headers and invocations: the counters below the facade are      *)
(* exact, its trace and decision are those of the header in force once it  *)
(* was asked for, and what closed in time left the tree (aws_lambda.js).   *)
THEOREM LambdaInvariant == ASSUME FacadeOnly PROVE LambdaSpec => []LambdaInv
<1>1. LambdaInit => LambdaInv
  BY LambdaInitEstablishes
<1>2. LambdaInv /\ [LambdaNext]_lambdaVars => LambdaInv'
  <2> SUFFICES ASSUME LambdaInv, [LambdaNext]_lambdaVars PROVE LambdaInv'
    OBVIOUS
  <2>1. ASSUME NEW h \in Header \cup {NoHeader}, Invoke(h) PROVE LambdaInv'
    BY <2>1, InvokePreserves
  <2>2. CASE Resolve
    BY <2>2, ResolvePreserves
  <2>3. ASSUME NEW p \in Node, NEW s \in Subsegment, NEW unsampled \in BOOLEAN,
               AddOpen(p, s, unsampled)
        PROVE  LambdaInv'
    BY <2>3, LambdaAddPreserves
  <2>4. ASSUME NEW s \in Subsegment, LambdaClose(s) PROVE LambdaInv'
    BY <2>4, LambdaClosePreserves
  <2>5. CASE UNCHANGED lambdaVars
    BY <2>5, LambdaStutterPreserves
  <2> QED BY <2>1, <2>2, <2>3, <2>4, <2>5 DEF LambdaNext
<1> QED BY <1>1, <1>2, PTL DEF LambdaSpec

(* A subsegment carries the trace of the invocation it was added in, unless *)
(* it or its parent outlived that one or it closed before its children     *)
(* (reset, populateTraceData).                                             *)
THEOREM TraceIsOwn == ASSUME FacadeOnly PROVE LambdaSpec => []NoLeakBetweenInvocations
<1>1. LambdaInv => NoLeakBetweenInvocations
  BY DEF LambdaInv
<1> QED BY <1>1, LambdaInvariant, PTL

(* What an invocation awaits is sent, by the close that ends it            *)
(* (Subsegment.close with a threshold of 0).                               *)
THEOREM AwaitedWorkIsSent == ASSUME FacadeOnly PROVE LambdaSpec => []AwaitedIsSent
<1>1. LambdaInv => AwaitedIsSent
  BY DEF LambdaInv, ClosedIsGone, AwaitedIsSent
<1> QED BY <1>1, LambdaInvariant, PTL

(* Nothing carries the invalid trace id (reset).                           *)
THEOREM InvalidTraceNeverSent == ASSUME FacadeOnly PROVE LambdaSpec => []InvalidTraceIsSilent
<1>1. LambdaInv => InvalidTraceIsSilent
  BY DEF LambdaInv
<1> QED BY <1>1, LambdaInvariant, PTL

(* What was added untraced stays silent, whatever later headers decide     *)
(* (addSubsegment, Subsegment.flush).                                      *)
THEOREM UntracedIsNeverSent == ASSUME FacadeOnly PROVE LambdaSpec => []UnsampledStaysSilent
<1>1. LambdaInv => UnsampledStaysSilent
  BY DEF LambdaInv
<1> QED BY <1>1, LambdaInvariant, PTL
=============================================================================
