-------------------------- MODULE SegmentTreeLoose --------------------------
(***************************************************************************)
(* SegmentTree under programs the API accepts but that are not structured: *)
(* a subsegment is added to a node that is already closed (the usual fate  *)
(* of a promise nobody awaits), and a tree is built, and perhaps closed,   *)
(* before it is added.                                                     *)
(***************************************************************************)
EXTENDS SegmentTree

VARIABLES
  missed,  \* history: missed[n] are the subsegments that got below n while open
           \* without n counting them
  tooLate  \* history: the subsegments that were added closed, with nothing open
           \* below them, to a segment that was closed and had nothing open

history == <<missed, tooLate>>
looseVars == <<vars, history>>

(* A counter may sink below zero: see CounterLessMissed. *)
LooseTypeOK ==
  /\ live \subseteq Subsegment /\ withSegment \subseteq live /\ kept \subseteq live
  /\ up \in [Node -> SUBSET Node]
  /\ open \subseteq Node /\ notTraced \subseteq Node
  /\ counter \in [Node -> Int] /\ sent \in [Node -> Nat]
  /\ missed \in [Node -> SUBSET Subsegment] /\ tooLate \subseteq live

(* new Subsegment(name): on its own, in no segment. *)
NewSubsegment(s) ==
  /\ s \notin live
  /\ live' = live \cup {s}
  /\ open' = open \cup {s}
  /\ UNCHANGED <<up, withSegment, kept, counter, notTraced, sent>>

(* addSubsegment with a subsegment made before, and what is nested in it.  *)
(* Only s itself learns its segment.  When s is closed nothing is counted, *)
(* neither s nor what may still be open below it.  Adding it a second time,*)
(* or below itself, is left out.                                           *)
AddBuilt(p, s, unsampled) ==
  /\ s \in live /\ up[s] = {}
  /\ p \in {Root} \cup live /\ p # s /\ s \notin up[p]
  /\ UNCHANGED <<live, open>>
  /\ Attach(p, s, unsampled)
  /\ missed' = [n \in Node |->
                  IF n \in Chain(p)
                    THEN missed[n] \cup (IF s \in open THEN missed[s] ELSE OpenUnder(s))
                    ELSE missed[n]]
  /\ tooLate' = IF /\ s \notin open /\ Root \in Chain(p) \ open
                   /\ OpenUnder(Root) \cup OpenUnder(s) = {}
                 THEN tooLate \cup {s}
                 ELSE tooLate

(* Late additions: any node may be the parent, closed or not. *)
LateNext ==
  \/ \E p \in Node, s \in Subsegment, unsampled \in BOOLEAN : AddNewSubsegment(p, s, unsampled)
  \/ \E s \in Subsegment : CloseOpen(s)
  \/ CloseOpenSegment

LooseNext ==
  \/ LateNext /\ UNCHANGED history
  \/ \E s \in Subsegment : NewSubsegment(s) /\ UNCHANGED history
  \/ \E p \in Node, s \in Subsegment, unsampled \in BOOLEAN : AddBuilt(p, s, unsampled)

LooseInit == Init /\ missed = [n \in Node |-> {}] /\ tooLate = {}

LooseSpec == LooseInit /\ [][LooseNext]_looseVars

-----------------------------------------------------------------------------
(* Properties, beside those of SegmentTree. *)

(* A counter is the number of open subsegments below its node, less those  *)
(* the node was never told of because the tree that brought them was       *)
(* closed.  Each of them costs one for good: its close is counted although *)
(* its opening was not (incrementCounter, decrementCounter, addSubsegment).*)
CounterLessMissed ==
  \A n \in Node : counter[n] = Cardinality(OpenUnder(n)) - Cardinality(missed[n])

(* What can be lost, and how: when everything is closed, an unsent         *)
(* subsegment of the segment was added below a node that had been          *)
(* streamed, or was nested in its tree before the tree was added, or came  *)
(* with a closed tree after the segment was over.  Everything else of a    *)
(* loose program is sent, also where counters sank (close,                 *)
(* streamSubsegments).                                                     *)
LossExplained ==
  open = {} =>
    \A s \in live \ notTraced :
      Root \in up[s] /\ sent[s] = 0 =>
        \/ \E b \in up[s] \ {Root} : b \notin kept /\ sent[b] > 0
        \/ \E b \in Chain(s) : b \in live \ withSegment
        \/ \E b \in Chain(s) : b \in tooLate
-----------------------------------------------------------------------------
(* The inductive invariant of loose programs, in named parts. *)

(* `up' is the ancestor relation of a forest: the tree of the segment, and *)
(* the trees that were not added yet.                                      *)
ForestShape ==
  /\ up[Root] = {}
  /\ \A s \in Subsegment \ live : up[s] = {}
  /\ \A s \in live : up[s] \subseteq {Root} \cup live /\ s \notin up[s]
  /\ \A s \in live : \A b \in up[s] : up[b] \subseteq up[s]
  /\ \A s \in live : \A b, c \in up[s] : b = c \/ b \in up[c] \/ c \in up[b]
  /\ open \subseteq {Root} \cup live

(* What knows its segment is below it, through nodes that know it, and has *)
(* their decision.                                                         *)
MembersInherit ==
  \A s \in withSegment :
    /\ Root \in up[s]
    /\ \A b \in up[s] : b \in {Root} \cup withSegment /\ (b \in notTraced => s \in notTraced)

(* A counter can only have missed what is below it. *)
MissedBelow == \A n \in Node : \A s \in missed[n] : n \in up[s]

(* While nothing below the closed segment is open, it has been sent with   *)
(* what it holds, but for what was added after that.                       *)
HeldIsSent ==
  Root \notin open /\ OpenUnder(Root) = {} /\ Root \notin notTraced =>
    \A s \in InTree : sent[s] > 0 \/ \E b \in Chain(s) : b \in tooLate

LooseInv ==
  /\ LooseTypeOK
  /\ ForestShape
  /\ CounterLessMissed
  /\ MissedBelow
  /\ MembersInherit
  /\ MemberPrunedOnlyWhenSent
  /\ HeldIsSent
=============================================================================
