---------------------------- MODULE TraceContext ----------------------------
(***************************************************************************)
(* Which segment is the current one (context_utils.js), in automatic mode. *)
(* A request and each captured function run in a context of their own,     *)
(* with their segment set in it; callbacks bring their context back.       *)
(*                                                                         *)
(* The contexts are cls-hooked's, a library.  It keeps a stack of those    *)
(* entered, the last being active, and remembers the active one for each   *)
(* continuation of a native promise.  A promise of another library runs    *)
(* its continuations inside the code that settles it, in the context of    *)
(* that code, unless promise_p.js has bound them.  A namespace that is     *)
(* destroyed takes its contexts along: those of the next one are others.   *)
(*                                                                         *)
(* One thread: `stack' is the code that runs, from the event loop up.      *)
(***************************************************************************)
EXTENDS Naturals, Sequences, FiniteSets, FiniteSetsExt

CONSTANTS
  MaxContext,    \* bound: contexts
  MaxDepth,      \* bound: code that runs inside other code
  MaxPromise,    \* bound: continuations that wait
  MaxNamespace   \* bound: namespaces

ASSUME BoundsAssumption ==
  {MaxContext, MaxDepth, MaxPromise, MaxNamespace} \subseteq Nat /\ MaxNamespace > 0

(* A context is numbered in the order of making, and so is the segment it  *)
(* was made for.  A request has the number of its first context.           *)
Context == 1 .. MaxContext
NoContext == 0

(* Code, running or waiting: the context it entered, if any, and, as a     *)
(* history, the context of the function or request it is written in, its   *)
(* request, and whether it or code around it ran as an unbound             *)
(* continuation of a foreign promise.                                      *)
Code ==
  [context : Context \cup {NoContext}, scope : Context \cup {NoContext},
   request : Context \cup {NoContext}, strayed : BOOLEAN]

Promise == [code : Code, native : BOOLEAN, bound : BOOLEAN]

VARIABLES
  cls_mode,   \* automatic mode
  namespace,  \* the number of the namespace, or of the next one
  patched,    \* the foreign promises are patched
  made,       \* how many contexts there are
  home,       \* home[c]: the namespace of c
  segment,    \* segment[c]: the segment set in c
  request,    \* request[c]: the request of the segment made with c
  stack,      \* the code that runs
  waiting,    \* the continuations attached and not yet run
  spoiled     \* history: contexts that strayed code has set a segment in

contextVars == <<made, home, segment, request>>
modeVars == <<cls_mode, namespace>>
vars == <<modeVars, patched, contextVars, stack, waiting, spoiled>>

Top == stack[Len(stack)]

Entered ==
  {i \in DOMAIN stack :
     stack[i].context # NoContext /\ home[stack[i].context] = namespace}
Active == IF Entered = {} THEN NoContext ELSE stack[Max(Entered)].context

(* getSegment: none where contextMissing is called.                        *)
GetSegment == IF cls_mode /\ Active # NoContext THEN segment[Active] ELSE NoContext

TypeOK ==
  /\ cls_mode \in BOOLEAN /\ namespace \in 1 .. MaxNamespace /\ patched \in BOOLEAN
  /\ made \in 0 .. MaxContext /\ home \in [Context -> 0 .. MaxNamespace]
  /\ segment \in [Context -> Context \cup {NoContext}]
  /\ request \in [Context -> Context \cup {NoContext}]
  /\ stack \in Seq(Code) /\ waiting \subseteq Promise /\ spoiled \subseteq Context

Init ==
  /\ cls_mode \in BOOLEAN /\ namespace = 1 /\ patched \in BOOLEAN
  /\ made = 0 /\ home = [c \in Context |-> 0]
  /\ segment = [c \in Context |-> NoContext] /\ request = [c \in Context |-> NoContext]
  /\ stack = <<>> /\ waiting = {} /\ spoiled = {}

-----------------------------------------------------------------------------
(* Contexts. *)

(* run, then setSegment: a new context c, for a segment of request r.      *)
RunWithSegment(c, r, code) ==
  /\ made < MaxContext /\ Len(stack) < MaxDepth
  /\ made' = c
  /\ home' = [home EXCEPT ![c] = namespace]
  /\ segment' = [segment EXCEPT ![c] = c]
  /\ request' = [request EXCEPT ![c] = r]
  /\ stack' = Append(stack, code)
  /\ UNCHANGED <<modeVars, patched, waiting>>

(* The middleware starts a request.                                        *)
StartRequest ==
  LET c == made + 1 IN
  /\ stack = <<>> /\ cls_mode
  /\ RunWithSegment(c, c, [context |-> c, scope |-> c, request |-> c, strayed |-> FALSE])
  /\ UNCHANGED spoiled

(* Other code the event loop starts, a timer of the program say.           *)
StartOther ==
  /\ stack = <<>>
  /\ stack' = <<[context |-> NoContext, scope |-> NoContext,
                 request |-> NoContext, strayed |-> FALSE]>>
  /\ UNCHANGED <<modeVars, patched, contextVars, waiting, spoiled>>

\* Slip: the function runs in the context there is.
CaptureInPlace ==
  LET c == made + 1 IN
  /\ stack # <<>> /\ GetSegment # NoContext
  /\ made < MaxContext /\ Len(stack) < MaxDepth
  /\ made' = c
  /\ segment' = [segment EXCEPT ![Active] = c]
  /\ request' = [request EXCEPT ![c] = request[GetSegment]]
  /\ stack' = Append(stack, [Top EXCEPT !.context = NoContext, !.scope = c])
  /\ UNCHANGED <<home, modeVars, patched, waiting, spoiled>>

(* captureFunc, captureAsyncFunc: a subsegment of the current segment.     *)
CaptureFcn ==
  LET c == made + 1 IN
  /\ stack # <<>> /\ GetSegment # NoContext
  /\ RunWithSegment(c, request[GetSegment], [Top EXCEPT !.context = c, !.scope = c])
  /\ spoiled' = IF Active \in spoiled THEN spoiled \cup {c} ELSE spoiled

(* The code on top returns, or throws, and its context is left.            *)
Return ==
  /\ stack # <<>>
  /\ stack' = SubSeq(stack, 1, Len(stack) - 1)
  /\ UNCHANGED <<modeVars, patched, contextVars, waiting, spoiled>>

(* setSegment, by the program: to a segment of the request it belongs to.  *)
SetSegment(s) ==
  /\ stack # <<>> /\ cls_mode /\ Active # NoContext
  /\ s \in 1 .. made /\ request[s] = Top.request
  /\ segment' = [segment EXCEPT ![Active] = s]
  /\ spoiled' = IF Top.strayed THEN spoiled \cup {Active} ELSE spoiled
  /\ UNCHANGED <<modeVars, patched, made, home, request, stack, waiting>>

-----------------------------------------------------------------------------
(* Promises. *)

\* Slip: continuations of foreign promises are not bound.
BindsNative(native) == native

(* then, catch: a continuation is bound if there is a current segment.     *)
(* One of a native promise comes back to its context in any case.          *)
Binds(native) == native \/ (patched /\ GetSegment # NoContext)

(* The code that attaches a continuation wrote it as well.                 *)
Attach(native) ==
  /\ stack # <<>> /\ Cardinality(waiting) < MaxPromise
  /\ waiting' = waiting \cup
       {[code |-> [Top EXCEPT !.context = IF Binds(native) THEN Active ELSE NoContext],
         native |-> native,
         bound |-> native \/ (patched /\ GetSegment # NoContext)]}
  /\ UNCHANGED <<modeVars, patched, contextVars, stack, spoiled>>

(* A native promise: the event loop runs the continuation.                 *)
RunNative(p) ==
  /\ p.native /\ stack = <<>>
  /\ stack' = <<p.code>>
  /\ waiting' = waiting \ {p}
  /\ UNCHANGED <<modeVars, patched, contextVars, spoiled>>

(* A foreign promise is settled by the code on top, and the continuation   *)
(* runs there.  It strays if it was not to be bound, or was bound in a     *)
(* namespace that is no more.                                              *)
Settle(p) ==
  /\ ~p.native /\ stack # <<>> /\ Len(stack) < MaxDepth
  /\ stack' = Append(stack,
       [p.code EXCEPT !.strayed =
          \/ @ \/ ~p.bound
          \/ p.code.context # NoContext /\ home[p.code.context] # namespace])
  /\ waiting' = waiting \ {p}
  /\ UNCHANGED <<modeVars, patched, contextVars, spoiled>>

(* patchThirdPartyPromise *)
PatchPromise ==
  /\ ~patched
  /\ patched' = TRUE
  /\ UNCHANGED <<modeVars, contextVars, stack, waiting, spoiled>>

-----------------------------------------------------------------------------
(* Modes. *)

(* enableManualMode destroys the namespace, enableAutomaticMode makes      *)
(* another.                                                                *)
EnableManualMode ==
  /\ cls_mode /\ namespace < MaxNamespace
  /\ cls_mode' = FALSE
  /\ namespace' = namespace + 1
  /\ UNCHANGED <<patched, contextVars, stack, waiting, spoiled>>

EnableAutomaticMode ==
  /\ ~cls_mode
  /\ cls_mode' = TRUE
  /\ UNCHANGED <<namespace, patched, contextVars, stack, waiting, spoiled>>

Next ==
  \/ StartRequest \/ StartOther \/ CaptureFcn \/ Return
  \/ \E s \in Context : SetSegment(s)
  \/ \E native \in BOOLEAN : Attach(native)
  \/ \E p \in waiting : RunNative(p) \/ Settle(p)
  \/ PatchPromise \/ EnableManualMode \/ EnableAutomaticMode

Spec == Init /\ [][Next]_vars

-----------------------------------------------------------------------------
(* Properties. *)

(* Code is in the context of the function or request it is written in,     *)
(* however it came to run: called, continued after other requests, or from *)
(* inside the code of another (captureFcn, patchPromise).  After a change  *)
(* of mode it is in none rather than in a wrong one.  Unbound continuations *)
(* of foreign promises are the exception, and what they call.              *)
InItsOwnContext ==
  /\ TypeOK
  /\ stack # <<>> /\ ~Top.strayed =>
       Active = IF Top.scope # NoContext /\ home[Top.scope] = namespace
                THEN Top.scope ELSE NoContext

(* The current segment is one of the request that the code works for, or   *)
(* there is none (getSegment): subsegments never hang below another        *)
(* request.  Where strayed code has set a segment it may be.               *)
SegmentOfOwnRequest ==
  stack # <<>> /\ ~Top.strayed /\ GetSegment # NoContext /\ Active \notin spoiled =>
    request[GetSegment] = Top.request
=============================================================================
