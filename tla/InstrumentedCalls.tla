------------------------- MODULE InstrumentedCalls -------------------------
(***************************************************************************)
(* The code that adds and closes subsegments on behalf of a program: the   *)
(* patchers of http, AWS clients, SQL drivers and fetch, and the capture   *)
(* functions (patchers/*.js, mysql_p.js, postgres_p.js, fetch_p.js,        *)
(* capture.js).  Each call adds a subsegment and leaves it to an event to  *)
(* close it; nothing guards against an event that never comes or against a *)
(* second one.  The tree they share is SegmentTree's.                      *)
(*                                                                         *)
(* The parent of a call is whatever node the context or the program gives, *)
(* closed or not.  Without one nothing is captured, and nothing modelled.  *)
(***************************************************************************)
EXTENDS SegmentTree, Functions

CONSTANTS
  Callback,  \* the callbacks a program may wrap with captureCallbackFunc
  None       \* no node, no callback

ASSUME CallbackAssumption ==
  IsFiniteSet(Callback) /\ None \notin Callback \cup Node /\ ~Facade

(* How a call ends.                                                        *)
(*   once    by one event: captureFunc, fetch, a query with a callback or  *)
(*           a promise                                                     *)
(*   aws     the same, once it is sent, unless it only presigns a URL      *)
(*   http    the `end' of its response, an `error' of the request, or both *)
(*   query   `end' or `error' of the emitter, or both                      *)
Kind == {"once", "aws", "http", "query"}
Phase == {"none", "built", "waiting", "responded", "ended", "failed", "over", "presigned"}

VARIABLES
  kind,      \* kind[s]: what kind of call s is for
  phase,     \* phase[s]: how far it has come
  base,      \* base[c]: where the callback c was wrapped
  running,   \* <<c, s>> while c runs captured by s, else <<None, None>>
  again,     \* history: the subsegments that were closed twice
  due,       \* history: due[c] is how often base[c] was incremented for c,
             \* less how often it was decremented
  pledged,   \* history: the callbacks wrapped at a node that was in the tree
  made,      \* history: the subsegments of callbacks in pledged that were
             \* added where the callback was wrapped
  late       \* history: something was added, or wrapped, after the segment was sent

callVars == <<kind, phase>>
callbackVars == <<base, running>>
historyVars == <<again, due, pledged, made, late>>
allVars == <<vars, callVars, callbackVars, historyVars>>

Idle == <<None, None>>

CallsTypeOK ==
  /\ live \subseteq Subsegment /\ kept \subseteq live /\ withSegment = live
  /\ counter \in [Node -> Int] /\ sent \in [Node -> Nat]
  /\ kind \in [Subsegment -> Kind] /\ phase \in [Subsegment -> Phase]
  /\ \A s \in Subsegment : s \in live <=> phase[s] # "none"
  /\ base \in [Callback -> {Root} \cup live \cup {None}]
  /\ \A s \in live : phase[s] \in {"built", "presigned"} =>
        (\A d \in live : s \notin up[d]) /\ \A c \in Callback : base[c] # s
  /\ running \in {Idle} \cup Callback \X live
  /\ again \subseteq live /\ made \subseteq live /\ pledged \subseteq Callback
  /\ due \in [Callback -> Int] /\ late \in BOOLEAN

CallsInit ==
  /\ Init
  /\ kind = [s \in Subsegment |-> "once"]
  /\ phase = [s \in Subsegment |-> "none"]
  /\ base = [c \in Callback |-> None]
  /\ running = Idle
  /\ again = {} /\ pledged = {} /\ made = {} /\ late = FALSE
  /\ due = [c \in Callback |-> 0]

-----------------------------------------------------------------------------
(* Calls. *)

(* While a captured callback runs, nothing but its own code does. *)
CodeRuns == running # Idle => phase[running[2]] = "waiting"

(* A subsegment becomes the context of others when its call is under way.  *)
Contexts == {Root} \cup {s \in live : phase[s] \notin {"built", "presigned"}}

Calls(p, s, k) ==
  /\ CodeRuns /\ p \in Contexts
  /\ AddNewSubsegment(p, s, FALSE)
  /\ kind' = [kind EXCEPT ![s] = k]
  /\ phase' = [phase EXCEPT ![s] = IF k = "aws" THEN "built" ELSE "waiting"]
  /\ late' = (late \/ sent[Root] > 0)
  /\ UNCHANGED <<callbackVars, again, due, pledged, made>>

(* An event of the call closes its subsegment.  It is none of the program's *)
(* synchronous code, so no callback is running.  Once the call is over it   *)
(* does not matter what kind it was.                                        *)
Closes(s, to) ==
  /\ running = Idle
  /\ CloseSubsegment(s)
  /\ phase' = [phase EXCEPT ![s] = to]
  /\ kind' = IF to = "over" THEN [kind EXCEPT ![s] = "once"] ELSE kind
  /\ again' = IF s \in open THEN again ELSE again \cup {s}
  /\ UNCHANGED <<callbackVars, due, pledged, made, late>>

Completes(s) ==
  /\ kind[s] = "once" /\ phase[s] = "waiting"
  /\ Closes(s, "over")

(* The response of an http request, before its body.  It may stop there:   *)
(* a response that is not consumed, or aborted, has no `end'.              *)
Responds(s) ==
  /\ running = Idle
  /\ kind[s] = "http" /\ phase[s] = "waiting"
  /\ phase' = [phase EXCEPT ![s] = "responded"]
  /\ UNCHANGED <<vars, kind, callbackVars, historyVars>>

ResponseEnds(s) ==
  /\ kind[s] = "http" /\ phase[s] = "responded"
  /\ Closes(s, "ended")

(* errorCapturer, before the response, between it and its end, or after.   *)
RequestErrs(s) ==
  /\ kind[s] = "http" /\ phase[s] \in {"waiting", "responded", "ended"}
  /\ Closes(s, "over")

QueryEnds(s) ==
  /\ kind[s] = "query" /\ phase[s] \in {"waiting", "failed"}
  /\ Closes(s, "over")

QueryErrs(s) ==
  /\ kind[s] = "query" /\ phase[s] = "waiting"
  /\ Closes(s, "failed")

(* The request of the AWS SDK is sent: one event will end it. *)
Sends(s) ==
  /\ CodeRuns
  /\ phase[s] = "built"
  /\ phase' = [phase EXCEPT ![s] = "waiting"]
  /\ kind' = [kind EXCEPT ![s] = "once"]
  /\ UNCHANGED <<vars, callbackVars, historyVars>>

\* Slip: the subsegment is not taken out of its parent's array.
PresignsKept(s) ==
  /\ running = Idle
  /\ phase[s] = "built"
  /\ phase' = [phase EXCEPT ![s] = "presigned"]
  /\ kept' = kept
  /\ counter' = Counted(up[s], -1)
  /\ sent' = IF LastOfClosedSegment(s) /\ Root \notin notTraced
               THEN Emitted(up, kept, {Root}) ELSE sent
  /\ UNCHANGED <<live, up, withSegment, open, notTraced, kind, callbackVars, historyVars>>

(* beforePresign: there will be no call, the parent gives up the           *)
(* subsegment and counts it no longer.  It is never closed.                *)
Presigns(s) ==
  /\ running = Idle
  /\ phase[s] = "built"
  /\ phase' = [phase EXCEPT ![s] = "presigned"]
  /\ kept' = kept \ {s}
  /\ counter' = Counted(up[s], -1)
  /\ sent' = IF LastOfClosedSegment(s) /\ Root \notin notTraced
               THEN Emitted(up, kept', {Root}) ELSE sent
  /\ UNCHANGED <<live, up, withSegment, open, notTraced, kind, callbackVars, historyVars>>

-----------------------------------------------------------------------------
(* captureCallbackFunc. *)

\* Slip: wrapping counts where it happens and does not climb.
CountsBase(p) ==
  /\ counter' = Counted({p}, 1)
  /\ UNCHANGED <<sent, kept>>

\* Slip: wrapping counts at the segment only.
CountsSegment(p) ==
  /\ counter' = Counted({Root}, 1)
  /\ UNCHANGED <<sent, kept>>

(* base.incrementCounter(), with the streaming it may start. *)
IncrementCounter(p) ==
  /\ counter' = Counted(Chain(p), 1)
  /\ IF OverThreshold(counter')
       THEN LET streamed == Streamed(up, kept, Root, Complete(open, counter'))
            IN /\ sent' = Emitted(up, kept, streamed \cap Flushable)
               /\ kept' = Pruned(kept, streamed)
       ELSE sent' = sent /\ kept' = kept

Wraps(c, p) ==
  /\ CodeRuns /\ p \in Contexts
  /\ base[c] = None
  /\ base' = [base EXCEPT ![c] = p]
  /\ IncrementCounter(p)
  /\ due' = [due EXCEPT ![c] = @ + 1]
  /\ pledged' = IF p \in {Root} \cup InTree THEN pledged \cup {c} ELSE pledged
  /\ late' = (late \/ sent[Root] > 0)
  /\ UNCHANGED <<live, up, withSegment, open, notTraced, callVars, running, again, made>>

(* The callback is called, for the first time or again: captureFunc, with  *)
(* the parent the context gives now, or the one it was wrapped with.       *)
CallbackStarts(c, p, s) ==
  /\ running = Idle /\ base[c] # None /\ p \in Contexts
  /\ AddNewSubsegment(p, s, FALSE)
  /\ phase' = [phase EXCEPT ![s] = "waiting"]
  /\ running' = <<c, s>>
  /\ made' = IF p = base[c] /\ c \in pledged /\ due[c] > 0 THEN made \cup {s} ELSE made
  /\ late' = (late \/ sent[Root] > 0)
  /\ UNCHANGED <<kind, base, again, due, pledged>>

(* It returns or throws, and captureFunc closes its subsegment. *)
CallbackEnds(throws) ==
  LET s == running[2] IN
  /\ running # Idle /\ phase[s] = "waiting"
  /\ CloseSubsegment(s)
  /\ phase' = [phase EXCEPT ![s] = "over"]
  /\ running' = IF throws THEN Idle ELSE running
  /\ UNCHANGED <<kind, base, historyVars>>

(* base.decrementCounter(), unless it has thrown. *)
CallbackReturns ==
  LET c == running[1]
      chain == Chain(base[c])
  IN
  /\ running # Idle /\ phase[running[2]] = "over"
  /\ counter' = Counted(chain, -1)
  /\ IF Root \notin open /\ counter'[Root] <= 0 THEN FlushSegment ELSE sent' = sent
  /\ due' = [due EXCEPT ![c] = @ - 1]
  /\ running' = Idle
  /\ UNCHANGED <<live, up, withSegment, kept, open, notTraced, callVars, base,
                 again, pledged, made, late>>

(* The segment is closed by what serves the request. *)
SegmentCloses ==
  /\ running = Idle
  /\ CloseOpenSegment
  /\ UNCHANGED <<callVars, callbackVars, historyVars>>

CallsNext ==
  \/ \E p \in Node, s \in Subsegment, k \in Kind : Calls(p, s, k)
  \/ \E s \in Subsegment :
       \/ Completes(s)
       \/ Responds(s) \/ ResponseEnds(s) \/ RequestErrs(s)
       \/ QueryEnds(s) \/ QueryErrs(s)
       \/ Sends(s) \/ Presigns(s)
  \/ \E c \in Callback, p \in Node : Wraps(c, p)
  \/ \E c \in Callback, p \in Node, s \in Subsegment : CallbackStarts(c, p, s)
  \/ \E throws \in BOOLEAN : CallbackEnds(throws)
  \/ CallbackReturns
  \/ SegmentCloses

CallsSpec == CallsInit /\ [][CallsNext]_allVars

-----------------------------------------------------------------------------
(* Properties. *)

(* What a node still waits for: calls that are not over, and callbacks.    *)
OpenCalls(n) == {s \in OpenUnder(n) : phase[s] # "presigned"}
Wrapped(n) == {c \in Callback : base[c] # None /\ n \in Chain(base[c])}

(* More was taken from some counter than was added to it. *)
Overdrawn == again # {} \/ \E c \in Callback : due[c] < 0

(* What a node was counted down for calls closed twice, and what it is     *)
(* still counted up for callbacks.                                         *)
Twice(n) == {s \in again : n \in up[s]}
Dues(n) == SumFunctionOnSet(due, Wrapped(n))

(* Every counter is what is open below the node and the callbacks wrapped  *)
(* there that have not returned, less the closes that came twice.  No      *)
(* order of events and callbacks loses or adds a count (incrementCounter,  *)
(* decrementCounter, beforePresign, captureCallbackFunc).                  *)
CounterAccounts ==
  /\ CallsTypeOK
  /\ \A n \in Node :
       counter[n] = Cardinality(OpenCalls(n)) - Cardinality(Twice(n)) + Dues(n)

(* Unless a counter was overdrawn, the segment is sent only when nothing   *)
(* of it is open and no wrapped callback has still to return: this is what *)
(* wrapping counts for (captureCallbackFunc, Segment.flush).               *)
SegmentWaits ==
  [][sent'[Root] > sent[Root] /\ ~Overdrawn' =>
       /\ Root \notin open'
       /\ OpenCalls(Root)' = {}
       /\ \A c \in Callback : due'[c] = 0]_allVars

(* Nothing is left that a close or a callback could still do. *)
Settled ==
  Root \notin open /\ OpenCalls(Root) = {} /\ \A c \in Callback : due[c] = 0

(* What a callback does is sent, even if it runs when the node it was      *)
(* wrapped at, or the whole segment, was closed long ago: the counter it   *)
(* holds keeps the node from being streamed away (captureCallbackFunc).    *)
(* Compare NothingLost, which fails for other calls made that late.        *)
CallbackWorkIsSent ==
  Settled /\ ~Overdrawn => \A s \in made : s \in notTraced \/ sent[s] > 0

(* A presigned URL leaves no trace, neither in the segment nor streamed    *)
(* (beforePresign), unless a second close had the segment sent too early.  *)
PresignedIsSilent ==
  ~Overdrawn => \A s \in live : phase[s] = "presigned" => sent[s] = 0

(* Nothing is sent twice, unless a counter was overdrawn or the program    *)
(* went on after its segment was sent (close, flush).                      *)
RepeatsExplained ==
  ~Overdrawn /\ ~late => \A n \in Node : sent[n] <= 1

-----------------------------------------------------------------------------
(* The inductive invariant behind the properties, in named parts.  The     *)
(* tree keeps its shape whatever is closed twice; the counters, and with   *)
(* them what is sent, are only right until one is overdrawn.               *)

(* A subsegment is open until it is closed; a presigned one stays so, out  *)
(* of every array.  What a callback adds is not for presigning.            *)
PhaseTells ==
  /\ \A s \in live : s \in open <=> phase[s] \in {"built", "waiting", "responded", "presigned"}
  /\ \A s \in live : phase[s] = "presigned" => s \notin kept
  /\ \A s \in made : phase[s] \notin {"built", "presigned"}

(* Wrapping counts once, for a callback that can then be called.           *)
DueOnce ==
  /\ \A c \in Callback : due[c] <= 1 /\ (base[c] = None => due[c] = 0)
  /\ \A c \in pledged : base[c] # None
  /\ running # Idle => base[running[1]] # None

ShapeInv ==
  /\ CallsTypeOK
  /\ up \in [Node -> SUBSET Node] /\ notTraced \subseteq Node
  /\ TreeShape
  /\ DecisionInherited
  /\ PhaseTells
  /\ DueOnce
  /\ \A s \in Subsegment \ live : sent[s] = 0

(* The callbacks whose increment n still holds. *)
Holding(n) == {c \in Wrapped(n) : due[c] = 1}

(* CounterAccounts, while nothing was closed twice and no callback has     *)
(* returned twice.                                                         *)
CounterAgrees ==
  \A n \in Node : counter[n] = Cardinality(OpenCalls(n)) + Cardinality(Holding(n))

(* The second close of a call is its last event. *)
AgainIsOver == \A s \in again : phase[s] = "over"

OpenIsUnsent == \A s \in live \cap open : sent[s] = 0

(* A callback that is due keeps in the tree the node it was wrapped at.    *)
PledgeHeld ==
  \A c \in pledged : due[c] = 1 => base[c] \in {Root} \cup InTree

(* What callbacks have added leaves the tree only by being sent.           *)
MadeHeld == \A s \in made : s \in notTraced \/ sent[s] > 0 \/ s \in InTree

(* Whatever settles the segment sends what is in its tree. *)
SettledIsSent ==
  Settled => \A s \in InTree : s \in notTraced \/ sent[s] > 0

(* What an open subsegment, or the segment, would send has not been sent.  *)
Unsent(n) == \A d \in Document(up, kept, n) : sent[d] = 0

NotRepeated ==
  /\ \A n \in Node : sent[n] <= 1
  /\ \A s \in live \cap open : Unsent(s)
  /\ IF sent[Root] = 0 THEN Unsent(Root) ELSE Settled

CallsInv ==
  /\ ShapeInv
  /\ CounterAccounts /\ AgainIsOver
  /\ ~Overdrawn =>
       /\ CounterAgrees
       /\ OpenIsUnsent
       /\ PledgeHeld
       /\ MadeHeld
       /\ SettledIsSent
       /\ ~late => NotRepeated

=============================================================================
