---------------------------- MODULE CaptureProofs ----------------------------
(***************************************************************************)
(* Proofs about captured code: about TraceContext, for any number of       *)
(* contexts, continuations and changes of mode and any depth of calls,     *)
(* that code is in its own context and sees segments of its own request;   *)
(* and about ErrorCapture, for every set of subsegments and errors and     *)
(* every number of calls of addError, that what is recorded can be read    *)
(* from the trace and is described once.                                   *)
(***************************************************************************)
EXTENDS TraceContext, ErrorCapture, SequenceTheorems, TLAPS

-----------------------------------------------------------------------------
(* The context.                                                            *)

(* The contexts that the code up to depth k has entered, and the active    *)
(* one once what is above has returned.                                    *)
EnteredIn(stk, h, n, k) ==
  {i \in 1 .. k : stk[i].context # NoContext /\ h[stk[i].context] = n}
ActiveIn(stk, h, n, k) ==
  IF EnteredIn(stk, h, n, k) = {} THEN NoContext
  ELSE stk[Max(EnteredIn(stk, h, n, k))].context

EnteredTo(k) == EnteredIn(stack, home, namespace, k)
ActiveTo(k) == ActiveIn(stack, home, namespace, k)

(* There is a last context entered, if there is any.                       *)
HasLast(E) == E = {} \/ \E m \in E : \A i \in E : i <= m

Alive(c) == c # NoContext /\ home[c] = namespace

(* Code refers to contexts that exist, and is written for the request its  *)
(* context was made for.                                                   *)
Sound(x) ==
  /\ x.context # NoContext => x.context \in 1 .. made
  /\ x.scope # NoContext =>
       /\ x.scope \in 1 .. made
       /\ ~x.strayed /\ x.scope \notin spoiled => request[x.scope] = x.request

ContextsSound ==
  \A c \in 1 .. made :
    /\ home[c] <= namespace
    /\ segment[c] \in 1 .. made
    /\ c \notin spoiled => request[segment[c]] = request[c]

(* What holds of the code on top holds of all code on the stack.           *)
StackSound ==
  \A k \in 1 .. Len(stack) :
    /\ Sound(stack[k])
    /\ HasLast(EnteredTo(k))
    /\ ActiveTo(k) \in {NoContext} \cup 1 .. made
    /\ ~stack[k].strayed =>
         ActiveTo(k) = IF Alive(stack[k].scope) THEN stack[k].scope ELSE NoContext

(* A continuation that is bound comes back to its own context, or was      *)
(* attached where there was none.                                          *)
WaitingSound ==
  \A p \in waiting :
    /\ Sound(p.code)
    /\ p.native => p.bound
    /\ ~p.code.strayed /\ p.bound =>
         \/ p.code.context # NoContext /\ p.code.context = p.code.scope
         \/ p.code.context = NoContext /\ p.native /\ ~Alive(p.code.scope)

ContextInv == TypeOK /\ ContextsSound /\ StackSound /\ WaitingSound

-----------------------------------------------------------------------------
(* The active context. *)

LEMMA LastIsMax ==
  ASSUME NEW E \in SUBSET Nat, NEW m \in E, \A i \in E : i <= m
  PROVE  Max(E) = m
<1>1. \A i \in E : m >= i
  OBVIOUS
<1>2. \A x \in E : (\A i \in E : x >= i) => x = m
  OBVIOUS
<1> QED BY <1>1, <1>2, Zenon DEF Max

(* It depends on the code up to depth k only.                              *)
LEMMA SameActive ==
  ASSUME NEW stk, NEW stk2, NEW h, NEW h2, NEW n, NEW k \in Nat,
         HasLast(EnteredIn(stk, h, n, k)),
         \A i \in 1 .. k :
           /\ stk2[i] = stk[i]
           /\ stk[i].context # NoContext => h2[stk[i].context] = h[stk[i].context]
  PROVE  /\ EnteredIn(stk2, h2, n, k) = EnteredIn(stk, h, n, k)
         /\ ActiveIn(stk2, h2, n, k) = ActiveIn(stk, h, n, k)
<1> DEFINE E == EnteredIn(stk, h, n, k)
<1>1. EnteredIn(stk2, h2, n, k) = E
  BY DEF EnteredIn
<1>2. E \subseteq 1 .. k
  BY DEF EnteredIn
<1> HIDE DEF E
<1>3. CASE E = {}
  BY <1>1, <1>3 DEF ActiveIn, E
<1>4. ASSUME NEW m \in E, \A i \in E : i <= m
      PROVE  stk2[Max(E)].context = stk[Max(E)].context
  <2>1. Max(E) = m
    BY <1>2, <1>4, LastIsMax
  <2> QED BY <1>2, <2>1
<1>5. E # {} => stk2[Max(E)].context = stk[Max(E)].context
  BY <1>4 DEF HasLast, E
<1> QED BY <1>1, <1>3, <1>5 DEF ActiveIn, E

(* Code that has entered a context of its own is in it.                    *)
LEMMA TopIsActive ==
  ASSUME NEW stk, NEW h, NEW n, NEW k \in Nat, k > 0,
         stk[k].context # NoContext, h[stk[k].context] = n
  PROVE  /\ HasLast(EnteredIn(stk, h, n, k))
         /\ ActiveIn(stk, h, n, k) = stk[k].context
<1> DEFINE E == EnteredIn(stk, h, n, k)
<1>1. k \in E /\ E \in SUBSET Nat /\ \A i \in E : i <= k
  BY DEF EnteredIn
<1> HIDE DEF E
<1>2. Max(E) = k
  BY <1>1, LastIsMax
<1> QED BY <1>1, <1>2 DEF ActiveIn, HasLast, E

(* Code that has not is where the code below it is.                        *)
LEMMA BelowIsActive ==
  ASSUME NEW stk, NEW h, NEW n, NEW k \in Nat, k > 0,
         ~(stk[k].context # NoContext /\ h[stk[k].context] = n)
  PROVE  /\ EnteredIn(stk, h, n, k) = EnteredIn(stk, h, n, k - 1)
         /\ ActiveIn(stk, h, n, k) = ActiveIn(stk, h, n, k - 1)
<1>1. EnteredIn(stk, h, n, k) = EnteredIn(stk, h, n, k - 1)
  BY DEF EnteredIn
<1> QED BY <1>1 DEF ActiveIn

LEMMA NothingEntered ==
  ASSUME NEW stk, NEW h, NEW n
  PROVE  EnteredIn(stk, h, n, 0) = {} /\ ActiveIn(stk, h, n, 0) = NoContext
BY DEF EnteredIn, ActiveIn

LEMMA ActiveAtTop ==
  ASSUME TypeOK
  PROVE  Active = ActiveTo(Len(stack))
BY LenProperties DEF TypeOK, Active, Entered, ActiveTo, ActiveIn, EnteredIn

(* What is known of the code on top.                                       *)
LEMMA TopSound ==
  ASSUME ContextInv, stack # <<>>
  PROVE  /\ Top \in Code /\ Sound(Top)
         /\ Active \in {NoContext} \cup 1 .. made
         /\ ~Top.strayed => Active = IF Alive(Top.scope) THEN Top.scope ELSE NoContext
<1>1. TypeOK /\ StackSound
  BY DEF ContextInv
<1>2. stack \in Seq(Code) /\ Len(stack) \in 1 .. Len(stack)
  BY <1>1, EmptySeq DEF TypeOK
<1>3. Top = stack[Len(stack)] /\ Top \in Code
  BY <1>2, ElementOfSeq DEF Top
<1> QED BY <1>1, <1>2, <1>3, ActiveAtTop DEF StackSound

-----------------------------------------------------------------------------
(* Steps. *)

LEMMA SoundStays ==
  ASSUME made \in Nat, made' \in Nat, made <= made', spoiled \subseteq spoiled',
         \A c \in 1 .. made : request'[c] = request[c]
  PROVE  \A x : Sound(x) => Sound(x)'
BY DEF Sound

LEMMA ActiveStays ==
  ASSUME NEW k \in Nat, HasLast(EnteredTo(k)), namespace' = namespace,
         \A i \in 1 .. k :
           /\ stack'[i] = stack[i]
           /\ stack[i].context # NoContext => home'[stack[i].context] = home[stack[i].context]
  PROVE  EnteredTo(k)' = EnteredTo(k) /\ ActiveTo(k)' = ActiveTo(k)
<1>1. /\ EnteredIn(stack', home', namespace, k) = EnteredIn(stack, home, namespace, k)
      /\ ActiveIn(stack', home', namespace, k) = ActiveIn(stack, home, namespace, k)
  BY SameActive DEF EnteredTo
<1> QED BY <1>1 DEF EnteredTo, ActiveTo

LEMMA ActiveAbove ==
  ASSUME NEW n \in Nat, n > 0,
         stack'[n].context # NoContext /\ home'[stack'[n].context] = namespace'
  PROVE  HasLast(EnteredTo(n))' /\ ActiveTo(n)' = stack'[n].context
<1>1. /\ HasLast(EnteredIn(stack', home', namespace', n))
      /\ ActiveIn(stack', home', namespace', n) = stack'[n].context
  BY TopIsActive
<1> QED BY <1>1 DEF EnteredTo, ActiveTo

LEMMA ActiveBelow ==
  ASSUME NEW n \in Nat, NEW l \in Nat, n > 0, n - 1 = l,
         ~(stack'[n].context # NoContext /\ home'[stack'[n].context] = namespace')
  PROVE  EnteredTo(n)' = EnteredTo(l)' /\ ActiveTo(n)' = ActiveTo(l)'
<1>1. /\ EnteredIn(stack', home', namespace', n) = EnteredIn(stack', home', namespace', n - 1)
      /\ ActiveIn(stack', home', namespace', n) = ActiveIn(stack', home', namespace', n - 1)
  BY BelowIsActive
<1> QED BY <1>1 DEF EnteredTo, ActiveTo

(* Code x starts on top: in its own context, or strayed, or at the bottom  *)
(* where it has no context.                                                *)
LEMMA PushKeepsStack ==
  ASSUME ContextInv, NEW x \in Code, stack' = Append(stack, x),
         made' \in Nat, made <= made', spoiled \subseteq spoiled', namespace' = namespace,
         \A c \in 1 .. made : request'[c] = request[c] /\ home'[c] = home[c],
         Sound(x)',
         \/ x.context # NoContext /\ home'[x.context] = namespace
            /\ (~x.strayed => x.context = x.scope)
         \/ x.strayed
         \/ stack = <<>> /\ x.context = NoContext /\ ~Alive(x.scope)'
  PROVE  StackSound'
<1>1. TypeOK /\ StackSound /\ made \in Nat /\ stack \in Seq(Code)
  BY DEF ContextInv, TypeOK
<1>0. PICK l \in Nat, n \in Nat : l = Len(stack) /\ n = l + 1
  BY <1>1, LenProperties
<1>2. /\ stack' \in Seq(Code) /\ Len(stack') = n /\ stack'[n] = x
      /\ \A i \in 1 .. l : stack'[i] = stack[i] /\ stack[i] \in Code
  BY <1>0, <1>1, AppendProperties, ElementOfSeq
<1>3. \A k \in 1 .. l : Sound(stack[k])
  BY <1>0, <1>1 DEF StackSound
<1>4. \A k \in 1 .. l :
        EnteredTo(k)' = EnteredTo(k) /\ ActiveTo(k)' = ActiveTo(k)
  <2> TAKE k \in 1 .. l
  <2>1. HasLast(EnteredTo(k))
    BY <1>0, <1>1 DEF StackSound
  <2>2. \A i \in 1 .. k :
          /\ stack'[i] = stack[i]
          /\ stack[i].context # NoContext => home'[stack[i].context] = home[stack[i].context]
    BY <1>0, <1>2, <1>3 DEF Sound
  <2>3. k \in Nat
    BY <1>2
  <2> QED BY <2>1, <2>2, <2>3, ActiveStays
<1>5. ASSUME NEW k \in 1 .. l
      PROVE  /\ Sound(stack[k])'
             /\ HasLast(EnteredTo(k))'
             /\ ActiveTo(k)' \in {NoContext} \cup 1 .. made'
             /\ ~stack'[k].strayed =>
                  ActiveTo(k)' = IF Alive(stack[k].scope)' THEN stack'[k].scope ELSE NoContext
  <2>1. Sound(stack[k])'
    BY <1>1, <1>2, <1>3, SoundStays DEF Sound
  <2>2. HasLast(EnteredTo(k))'
    BY <1>0, <1>1, <1>4 DEF StackSound, HasLast
  <2>3. ActiveTo(k)' \in {NoContext} \cup 1 .. made'
    BY <1>0, <1>1, <1>4 DEF StackSound
  <2>4. Alive(stack[k].scope)' <=> Alive(stack[k].scope)
    BY <1>2, <1>3 DEF Alive, Sound
  <2> QED BY <1>0, <1>1, <1>2, <1>4, <2>1, <2>2, <2>3, <2>4 DEF StackSound
<1>6. /\ HasLast(EnteredTo(n))'
      /\ ActiveTo(n)' \in {NoContext} \cup 1 .. made'
      /\ ~x.strayed => ActiveTo(n)' = IF Alive(x.scope)' THEN x.scope ELSE NoContext
  <2>1. n \in Nat /\ n > 0 /\ n - 1 = l
    BY <1>0
  <2>2. CASE x.context # NoContext /\ home'[x.context] = namespace
    <3>1. HasLast(EnteredTo(n))' /\ ActiveTo(n)' = x.context
      <4>1. stack'[n].context # NoContext /\ home'[stack'[n].context] = namespace'
        BY <1>2, <2>2
      <4> QED BY <1>2, <2>1, <4>1, ActiveAbove
    <3>2. x.context \in 1 .. made'
      BY <2>2 DEF Sound
    <3>3. ~x.strayed => x.context = x.scope /\ Alive(x.scope)'
      BY <2>2 DEF Alive
    <3> QED BY <3>1, <3>2, <3>3
  <2>3. CASE ~(x.context # NoContext /\ home'[x.context] = namespace)
    <3>1. EnteredTo(n)' = EnteredTo(l)' /\ ActiveTo(n)' = ActiveTo(l)'
      <4>1. ~(stack'[n].context # NoContext /\ home'[stack'[n].context] = namespace')
        BY <1>2, <2>3
      <4> QED BY <2>1, <4>1, ActiveBelow
    <3>2. CASE stack = <<>>
      <4>1. EnteredTo(n)' = {} /\ ActiveTo(n)' = NoContext
        BY <1>0, <3>1, <3>2, NothingEntered DEF EnteredTo, ActiveTo
      <4>2. ~x.strayed => ~Alive(x.scope)'
        BY <2>3
      <4> QED BY <4>1, <4>2 DEF HasLast
    <3>3. CASE stack # <<>>
      <4>1. l \in 1 .. l
        BY <1>0, <1>1, <3>3, EmptySeq
      <4>2. x.strayed
        BY <2>3, <3>3
      <4> QED BY <1>5, <3>1, <4>1, <4>2 DEF HasLast
    <3> QED BY <3>2, <3>3
  <2> QED BY <2>2, <2>3
<1>7. \A k \in 1 .. n : k = n \/ k \in 1 .. l
  BY <1>0
<1>8. ASSUME NEW k \in 1 .. n
      PROVE  /\ Sound(stack[k])'
             /\ HasLast(EnteredTo(k))'
             /\ ActiveTo(k)' \in {NoContext} \cup 1 .. made'
             /\ ~stack'[k].strayed =>
                  ActiveTo(k)' = IF Alive(stack[k].scope)' THEN stack'[k].scope ELSE NoContext
  <2>1. CASE k = n
    <3>1. Sound(stack[n])'
      BY <1>2 DEF Sound
    <3>2. Alive(stack[n].scope)' <=> Alive(x.scope)'
      BY <1>2 DEF Alive
    <3> QED BY <1>2, <1>6, <2>1, <3>1, <3>2
  <2>2. CASE k \in 1 .. l
    BY <1>5, <2>2
  <2> QED BY <1>7, <2>1, <2>2
<1> QED BY <1>2, <1>8 DEF StackSound

(* A function or request starts in a new context c, for a segment of       *)
(* request r.                                                              *)
LEMMA RunKeeps ==
  ASSUME ContextInv, NEW c, c = made + 1, NEW r \in Context \cup {NoContext}, NEW x \in Code,
         RunWithSegment(c, r, x), x.context = c, x.scope = c,
         spoiled \subseteq spoiled', spoiled' \subseteq spoiled \cup {c},
         ~x.strayed /\ c \notin spoiled' => r = x.request
  PROVE  ContextInv'
<1>1. /\ TypeOK /\ ContextsSound /\ WaitingSound
      /\ made \in Nat /\ MaxContext \in Nat /\ namespace \in Nat
  BY BoundsAssumption DEF ContextInv, TypeOK
<1>2. /\ c \in Context /\ c # NoContext /\ made' = c /\ made' \in Nat /\ made <= made'
      /\ UNCHANGED <<cls_mode, namespace, patched, waiting>>
  BY <1>1 DEF RunWithSegment, Context, NoContext, modeVars
<1>3. /\ home' = [home EXCEPT ![c] = namespace]
      /\ segment' = [segment EXCEPT ![c] = c]
      /\ request' = [request EXCEPT ![c] = r]
      /\ stack' = Append(stack, x)
  BY DEF RunWithSegment
<1>4. /\ home'[c] = namespace /\ segment'[c] = c /\ request'[c] = r
      /\ \A d \in 1 .. made :
           /\ d \in Context /\ d # c
           /\ home'[d] = home[d] /\ segment'[d] = segment[d] /\ request'[d] = request[d]
  BY <1>1, <1>2, <1>3 DEF TypeOK, Context
<1>5. TypeOK'
  <2>1. /\ home' \in [Context -> 0 .. MaxNamespace]
        /\ segment' \in [Context -> Context \cup {NoContext}]
        /\ request' \in [Context -> Context \cup {NoContext}]
    BY <1>1, <1>2, <1>3 DEF TypeOK
  <2>2. stack' \in Seq(Code)
    BY <1>1, <1>3 DEF TypeOK
  <2>3. made' \in 0 .. MaxContext /\ spoiled' \subseteq Context
    BY <1>1, <1>2 DEF TypeOK, Context
  <2> QED BY <1>1, <1>2, <2>1, <2>2, <2>3 DEF TypeOK
<1>6. ContextsSound'
  <2> SUFFICES ASSUME NEW d \in 1 .. made'
               PROVE  /\ home'[d] <= namespace' /\ segment'[d] \in 1 .. made'
                      /\ d \notin spoiled' => request'[segment'[d]] = request'[d]
    BY DEF ContextsSound
  <2>1. CASE d = c
    BY <1>1, <1>2, <1>4, <2>1
  <2>2. CASE d \in 1 .. made
    <3>1. segment[d] \in 1 .. made /\ home[d] <= namespace
          /\ (d \notin spoiled => request[segment[d]] = request[d])
      BY <1>1, <2>2 DEF ContextsSound
    <3> QED BY <1>1, <1>2, <1>4, <2>2, <3>1
  <2> QED BY <1>1, <1>2, <2>1, <2>2
<1>7. Sound(x)'
  BY <1>1, <1>2, <1>4 DEF Sound
<1>8. StackSound'
  BY <1>2, <1>3, <1>4, <1>7, PushKeepsStack
<1>9. WaitingSound'
  <2> SUFFICES ASSUME NEW p \in waiting
               PROVE  /\ Sound(p.code)'
                      /\ p.native => p.bound
                      /\ ~p.code.strayed /\ p.bound =>
                           \/ p.code.context # NoContext /\ p.code.context = p.code.scope
                           \/ p.code.context = NoContext /\ p.native /\ ~Alive(p.code.scope)'
    BY <1>2 DEF WaitingSound
  <2>1. Sound(p.code)
    BY <1>1 DEF WaitingSound
  <2>2. Sound(p.code)'
    BY <1>1, <1>2, <1>4, <2>1, SoundStays
  <2>3. Alive(p.code.scope)' <=> Alive(p.code.scope)
    BY <1>2, <1>4, <2>1 DEF Alive, Sound
  <2> QED BY <1>1, <2>2, <2>3 DEF WaitingSound
<1> QED BY <1>5, <1>6, <1>8, <1>9 DEF ContextInv

LEMMA StartKeeps == ASSUME ContextInv, StartRequest PROVE ContextInv'
<1> DEFINE c == made + 1
           x == [context |-> c, scope |-> c, request |-> c, strayed |-> FALSE]
<1>1. made \in Nat /\ MaxContext \in Nat
  BY BoundsAssumption DEF ContextInv, TypeOK
<1>2. RunWithSegment(c, c, x) /\ spoiled' = spoiled
  BY DEF StartRequest
<1>3. c \in Context
  BY <1>1, <1>2 DEF RunWithSegment, Context
<1>4. x \in Code /\ x.context = c /\ x.scope = c /\ x.request = c
  BY <1>3 DEF Code
<1> QED BY <1>2, <1>3, <1>4, RunKeeps

LEMMA CaptureKeeps == ASSUME ContextInv, CaptureFcn PROVE ContextInv'
<1> DEFINE c == made + 1
           r == request[GetSegment]
           x == [Top EXCEPT !.context = c, !.scope = c]
<1>1. /\ made \in Nat /\ MaxContext \in Nat /\ made <= MaxContext
      /\ request \in [Context -> Context \cup {NoContext}]
  BY BoundsAssumption DEF ContextInv, TypeOK
<1>2. /\ RunWithSegment(c, r, x) /\ stack # <<>> /\ GetSegment # NoContext
      /\ spoiled' = IF Active \in spoiled THEN spoiled \cup {c} ELSE spoiled
  BY DEF CaptureFcn
<1>3. c \in Context
  BY <1>1, <1>2 DEF RunWithSegment, Context
<1>4. /\ Top \in Code /\ Sound(Top) /\ Active \in {NoContext} \cup 1 .. made
      /\ ~Top.strayed => Active = IF Alive(Top.scope) THEN Top.scope ELSE NoContext
  BY <1>2, TopSound
<1>5. x \in Code /\ x.context = c /\ x.scope = c /\ x.request = Top.request /\ x.strayed = Top.strayed
  BY <1>3, <1>4 DEF Code
<1>6. Active \in 1 .. made /\ GetSegment = segment[Active]
  BY <1>2, <1>4 DEF GetSegment
<1>7. GetSegment \in 1 .. made /\ (Active \notin spoiled => r = request[Active])
  BY <1>6 DEF ContextInv, ContextsSound
<1>8. r \in Context \cup {NoContext}
  BY <1>1, <1>7 DEF Context
<1>9. ~Top.strayed /\ Active \notin spoiled => r = Top.request
  BY <1>4, <1>6, <1>7 DEF Sound, NoContext
<1>10. ~x.strayed /\ c \notin spoiled' => r = x.request
  BY <1>2, <1>5, <1>9
<1>11. spoiled \subseteq spoiled' /\ spoiled' \subseteq spoiled \cup {c}
  BY <1>2
<1> HIDE DEF c, r, x
<1> QED BY <1>2, <1>5, <1>8, <1>10, <1>11, RunKeeps DEF c

(* What is below code that returns is as it was.                           *)
LEMMA ReturnKeeps == ASSUME ContextInv, Return PROVE ContextInv'
<1>1. /\ TypeOK /\ ContextsSound /\ StackSound /\ WaitingSound /\ stack \in Seq(Code)
      /\ UNCHANGED <<cls_mode, namespace, patched, made, home, segment, request, waiting, spoiled>>
  BY DEF ContextInv, TypeOK, Return, modeVars, contextVars
<1>2. PICK l \in Nat : l = Len(stack) - 1
  BY <1>1, EmptySeq DEF Return
<1>3. /\ stack' \in Seq(Code) /\ Len(stack') = l /\ l < Len(stack)
      /\ \A i \in 1 .. l : stack'[i] = stack[i]
  <2>1. stack' = SubSeq(stack, 1, l) /\ Len(stack) = l + 1
    BY <1>1, <1>2, LenProperties DEF Return
  <2>2. \A i \in 1 .. l : stack[i] \in Code
    BY <1>1, <2>1, ElementOfSeq
  <2> QED BY <2>1, <2>2, SubSeqProperties
<1>4. TypeOK' /\ ContextsSound' /\ WaitingSound'
  BY <1>1, <1>3 DEF TypeOK, ContextsSound, WaitingSound, Sound, Alive
<1>5. ASSUME NEW k \in 1 .. l
      PROVE  EnteredTo(k)' = EnteredTo(k) /\ ActiveTo(k)' = ActiveTo(k) /\ k \in 1 .. Len(stack)
  <2>1. k \in 1 .. Len(stack) /\ k \in Nat
    BY <1>1, <1>2, <1>3, LenProperties
  <2>2. HasLast(EnteredTo(k))
    BY <1>1, <2>1 DEF StackSound
  <2>3. namespace' = namespace /\ home' = home /\ \A i \in 1 .. k : stack'[i] = stack[i]
    BY <1>1, <1>3
  <2> QED BY <2>1, <2>2, <2>3, ActiveStays
<1>6. StackSound'
  <2> SUFFICES ASSUME NEW k \in 1 .. l
               PROVE  /\ Sound(stack'[k])
                      /\ HasLast(EnteredTo(k)')
                      /\ ActiveTo(k)' \in {NoContext} \cup 1 .. made
                      /\ ~stack'[k].strayed =>
                           ActiveTo(k)' = IF Alive(stack'[k].scope) THEN stack'[k].scope ELSE NoContext
    BY <1>1, <1>3 DEF StackSound, HasLast, Sound, Alive
  <2> QED BY <1>1, <1>3, <1>5 DEF StackSound
<1> QED BY <1>4, <1>6 DEF ContextInv

(* Without a step of the stack, what is sound stays so when segments are   *)
(* set.                                                                    *)
LEMMA SetSegmentKeeps == ASSUME ContextInv, NEW s \in Context, SetSegment(s) PROVE ContextInv'
<1>1. /\ TypeOK /\ ContextsSound /\ StackSound /\ WaitingSound
      /\ made \in Nat /\ MaxContext \in Nat
      /\ UNCHANGED <<cls_mode, namespace, patched, made, home, request, stack, waiting>>
  BY BoundsAssumption DEF ContextInv, TypeOK, SetSegment, modeVars
<1>2. /\ stack # <<>> /\ Active # NoContext /\ s \in 1 .. made /\ request[s] = Top.request
      /\ segment' = [segment EXCEPT ![Active] = s]
      /\ spoiled' = IF Top.strayed THEN spoiled \cup {Active} ELSE spoiled
  BY DEF SetSegment
<1>3. /\ Sound(Top) /\ Active \in 1 .. made /\ Active \in Context
      /\ ~Top.strayed => Active = IF Alive(Top.scope) THEN Top.scope ELSE NoContext
  BY <1>1, <1>2, TopSound DEF TypeOK, Context
<1>4. TypeOK'
  <2>1. spoiled' \subseteq Context
    BY <1>1, <1>2, <1>3 DEF TypeOK
  <2>2. segment' \in [Context -> Context \cup {NoContext}]
    BY <1>1, <1>2, <1>3 DEF TypeOK
  <2> QED BY <1>1, <2>1, <2>2 DEF TypeOK
<1>5. Active \notin spoiled' => request[s] = request[Active]
  BY <1>2, <1>3 DEF Sound
<1>6. ContextsSound'
  <2> SUFFICES ASSUME NEW d \in 1 .. made
               PROVE  /\ home[d] <= namespace /\ segment'[d] \in 1 .. made
                      /\ d \notin spoiled' => request[segment'[d]] = request[d]
    BY <1>1 DEF ContextsSound
  <2>1. d \in Context /\ home[d] <= namespace /\ segment[d] \in 1 .. made
        /\ (d \notin spoiled => request[segment[d]] = request[d])
    BY <1>1 DEF ContextsSound, TypeOK, Context
  <2>2. CASE d = Active
    BY <1>1, <1>2, <1>5, <2>1, <2>2 DEF TypeOK
  <2>3. CASE d # Active
    BY <1>1, <1>2, <2>1, <2>3 DEF TypeOK
  <2> QED BY <2>2, <2>3
<1>7. \A x : Sound(x) => Sound(x)'
  BY <1>1, <1>2, SoundStays
<1>8. StackSound'
  BY <1>1, <1>2 DEF StackSound, Sound, HasLast, Alive, EnteredTo, ActiveTo
<1>9. WaitingSound'
  BY <1>1, <1>7 DEF WaitingSound, Alive
<1> QED BY <1>4, <1>6, <1>8, <1>9 DEF ContextInv

LEMMA AttachKeeps == ASSUME ContextInv, NEW native \in BOOLEAN, Attach(native) PROVE ContextInv'
<1> DEFINE b == native \/ (patched /\ GetSegment # NoContext)
           x == [Top EXCEPT !.context = IF Binds(native) THEN Active ELSE NoContext]
           p == [code |-> x, native |-> native, bound |-> b]
<1>1. /\ TypeOK /\ ContextsSound /\ StackSound /\ WaitingSound
      /\ made \in Nat /\ MaxContext \in Nat
      /\ UNCHANGED <<cls_mode, namespace, patched, made, home, segment, request, stack, spoiled>>
  BY BoundsAssumption DEF ContextInv, TypeOK, Attach, modeVars, contextVars
<1>2. stack # <<>> /\ waiting' = waiting \cup {p}
  BY DEF Attach
<1>3. /\ Top \in Code /\ Sound(Top) /\ Active \in {NoContext} \cup 1 .. made
      /\ ~Top.strayed => Active = IF Alive(Top.scope) THEN Top.scope ELSE NoContext
  BY <1>2, TopSound
<1>4. Active \in Context \cup {NoContext}
  BY <1>1, <1>3 DEF TypeOK, Context
<1>5. /\ x \in Code /\ x.scope = Top.scope /\ x.request = Top.request /\ x.strayed = Top.strayed
      /\ x.context = IF b THEN Active ELSE NoContext
  BY <1>3, <1>4 DEF Code, Binds
<1>6. b \in BOOLEAN
  OBVIOUS
<1>7. b => native \/ Active # NoContext
  BY DEF GetSegment
<1>8. p \in Promise /\ p.code = x /\ p.native = native /\ p.bound = b
  BY <1>5, <1>6 DEF Promise
<1> HIDE DEF b, x, p
<1>9. Sound(x)
  BY <1>3, <1>5 DEF Sound
<1>10. ~x.strayed /\ b =>
         \/ x.context # NoContext /\ x.context = x.scope
         \/ x.context = NoContext /\ native /\ ~Alive(x.scope)
  BY <1>3, <1>5, <1>7 DEF Alive
<1>11. TypeOK' /\ ContextsSound' /\ StackSound'
  BY <1>1, <1>2, <1>8
  DEF TypeOK, ContextsSound, StackSound, Sound, HasLast, Alive, EnteredTo, ActiveTo
<1>12. native => b
  BY DEF b
<1>13. WaitingSound'
  BY <1>1, <1>2, <1>8, <1>9, <1>10, <1>12 DEF WaitingSound, Sound, Alive
<1> QED BY <1>11, <1>13 DEF ContextInv

(* Code starts at the bottom, or is continued.                             *)
LEMMA StartOtherKeeps == ASSUME ContextInv, StartOther PROVE ContextInv'
<1> DEFINE x == [context |-> NoContext, scope |-> NoContext,
                 request |-> NoContext, strayed |-> FALSE]
<1>1. /\ TypeOK /\ ContextsSound /\ WaitingSound /\ made \in Nat
      /\ UNCHANGED <<cls_mode, namespace, patched, made, home, segment, request, waiting, spoiled>>
  BY DEF ContextInv, TypeOK, StartOther, modeVars, contextVars
<1>2. x \in Code /\ x.context = NoContext /\ x.scope = NoContext
  BY DEF Code
<1>3. stack = <<>> /\ stack' = <<x>> /\ stack' = Append(stack, x)
  BY DEF StartOther
<1> HIDE DEF x
<1>4. Sound(x)' /\ ~Alive(x.scope)'
  BY <1>2 DEF Sound, Alive
<1>5. StackSound'
  BY <1>1, <1>2, <1>3, <1>4, PushKeepsStack
<1>6. TypeOK' /\ ContextsSound' /\ WaitingSound'
  BY <1>1, <1>2, <1>3 DEF TypeOK, ContextsSound, WaitingSound, Sound, Alive
<1> QED BY <1>5, <1>6 DEF ContextInv

LEMMA RunNativeKeeps ==
  ASSUME ContextInv, NEW p \in waiting, RunNative(p)
  PROVE  ContextInv'
<1> DEFINE x == p.code
<1>1. /\ TypeOK /\ ContextsSound /\ WaitingSound /\ made \in Nat
      /\ UNCHANGED <<cls_mode, namespace, patched, made, home, segment, request, spoiled>>
  BY DEF ContextInv, TypeOK, RunNative, modeVars, contextVars
<1>2. x \in Code /\ x.strayed \in BOOLEAN
  BY <1>1 DEF TypeOK, Promise, Code
<1>3. p.native /\ stack = <<>> /\ stack' = <<x>> /\ stack' = Append(stack, x)
      /\ waiting' = waiting \ {p}
  BY DEF RunNative
<1>4. /\ Sound(x)
      /\ \/ x.context # NoContext /\ (~x.strayed => x.context = x.scope)
         \/ x.strayed
         \/ x.context = NoContext /\ ~Alive(x.scope)
  BY <1>1, <1>3 DEF WaitingSound
<1> HIDE DEF x
<1>5. StackSound'
  <2>1. Sound(x)'
    BY <1>1, <1>4 DEF Sound
  <2>2. CASE x.context # NoContext /\ home[x.context] # namespace /\ ~x.strayed
    <3>1. EnteredTo(1)' = {} /\ ActiveTo(1)' = NoContext
      <4>1. EnteredTo(1)' = EnteredTo(0)' /\ ActiveTo(1)' = ActiveTo(0)'
        BY <1>1, <1>3, <2>2, ActiveBelow
      <4> QED BY <4>1, NothingEntered DEF EnteredTo, ActiveTo
    <3>2. ~Alive(x.scope)'
      BY <1>1, <1>4, <2>2 DEF Alive
    <3> QED BY <1>3, <2>1, <3>1, <3>2 DEF StackSound, HasLast, Sound, Alive
  <2>3. CASE ~(x.context # NoContext /\ home[x.context] # namespace /\ ~x.strayed)
    BY <1>1, <1>2, <1>3, <1>4, <2>1, <2>3, PushKeepsStack DEF Alive
  <2> QED BY <2>2, <2>3
<1>6. TypeOK' /\ ContextsSound' /\ WaitingSound'
  BY <1>1, <1>2, <1>3 DEF TypeOK, ContextsSound, WaitingSound, Sound, Alive
<1> QED BY <1>5, <1>6 DEF ContextInv

LEMMA SettleKeeps ==
  ASSUME ContextInv, NEW p \in waiting, Settle(p)
  PROVE  ContextInv'
<1> DEFINE strays == \/ p.code.strayed \/ ~p.bound
                     \/ p.code.context # NoContext /\ home[p.code.context] # namespace
<1>1. /\ TypeOK /\ ContextsSound /\ WaitingSound /\ made \in Nat
      /\ UNCHANGED <<cls_mode, namespace, patched, made, home, segment, request, spoiled>>
  BY DEF ContextInv, TypeOK, Settle, modeVars, contextVars
<1>2. p.code \in Code /\ p.code.strayed \in BOOLEAN /\ strays \in BOOLEAN
  BY <1>1 DEF TypeOK, Promise, Code
<1>3. PICK x \in Code :
        /\ x = [p.code EXCEPT !.strayed = strays]
        /\ x.context = p.code.context /\ x.scope = p.code.scope
        /\ x.request = p.code.request /\ x.strayed = strays
  <2> DEFINE y == [p.code EXCEPT !.strayed = strays]
  <2>1. y \in Code /\ y.context = p.code.context /\ y.scope = p.code.scope
        /\ y.request = p.code.request /\ y.strayed = strays
    BY <1>2 DEF Code
  <2> QED BY <2>1
<1>4. ~p.native /\ stack' = Append(stack, x) /\ waiting' = waiting \ {p}
  BY <1>3 DEF Settle
<1>5. /\ Sound(p.code)
      /\ \/ p.code.context # NoContext /\ p.code.context = p.code.scope
         \/ p.code.strayed \/ ~p.bound
  BY <1>1, <1>4 DEF WaitingSound
<1>6. \/ x.context # NoContext /\ home[x.context] = namespace /\ x.context = x.scope
      \/ x.strayed
  BY <1>3, <1>5
<1>7. ~x.strayed => ~p.code.strayed
  BY <1>3
<1> HIDE DEF strays
<1>8. Sound(x)'
  BY <1>1, <1>3, <1>5, <1>7 DEF Sound
<1>9. StackSound'
  <2>1. /\ made' \in Nat /\ made <= made' /\ spoiled \subseteq spoiled' /\ namespace' = namespace
        /\ \A c \in 1 .. made : request'[c] = request[c] /\ home'[c] = home[c]
    BY <1>1
  <2>2. \/ x.context # NoContext /\ home'[x.context] = namespace
           /\ (~x.strayed => x.context = x.scope)
        \/ x.strayed
    BY <1>1, <1>6
  <2>3. stack' = Append(stack, x)
    BY <1>4
  <2> QED BY <1>8, <2>1, <2>2, <2>3, PushKeepsStack
<1>10. stack' \in Seq(Code)
  BY <1>1, <1>3, <1>4 DEF TypeOK
<1>11. TypeOK' /\ ContextsSound' /\ WaitingSound'
  BY <1>1, <1>4, <1>10 DEF TypeOK, ContextsSound, WaitingSound, Sound, Alive
<1> QED BY <1>9, <1>11 DEF ContextInv

(* A new namespace has no contexts: nothing is entered, nothing alive.     *)
LEMMA ManualKeeps == ASSUME ContextInv, EnableManualMode PROVE ContextInv'
<1>1. /\ TypeOK /\ ContextsSound /\ StackSound /\ WaitingSound
      /\ made \in Nat /\ namespace \in Nat /\ MaxNamespace \in Nat /\ stack \in Seq(Code)
      /\ UNCHANGED <<patched, made, home, segment, request, stack, waiting, spoiled>>
      /\ cls_mode' = FALSE /\ namespace' = namespace + 1 /\ namespace < MaxNamespace
  BY BoundsAssumption DEF ContextInv, TypeOK, EnableManualMode, contextVars
<1>2. \A c \in 1 .. made : home[c] \in Nat /\ home[c] < namespace'
  <2> TAKE c \in 1 .. made
  <2>1. c \in Context
    BY <1>1, BoundsAssumption DEF TypeOK, Context
  <2>2. home[c] \in 0 .. MaxNamespace
    BY <1>1, <2>1 DEF TypeOK
  <2>3. home[c] <= namespace
    BY <1>1 DEF ContextsSound
  <2>4. home[c] \in Nat
    BY <1>1, <2>2
  <2> QED BY <1>1, <2>3, <2>4
<1>3. TypeOK'
  <2>1. cls_mode' \in BOOLEAN
    BY <1>1
  <2>2. namespace' \in 1 .. MaxNamespace
    BY <1>1
  <2> QED BY <1>1, <2>1, <2>2 DEF TypeOK
<1>4. ContextsSound'
  <2> SUFFICES ASSUME NEW c \in 1 .. made PROVE home[c] <= namespace'
    BY <1>1 DEF ContextsSound
  <2> QED BY <1>1, <1>2
<1>5. \A k \in 1 .. Len(stack) : EnteredTo(k)' = {} /\ ActiveTo(k)' = NoContext
  <2> TAKE k \in 1 .. Len(stack)
  <2>1. ASSUME NEW i \in 1 .. k, stack[i].context # NoContext
        PROVE  home[stack[i].context] # namespace'
    <3>1. i \in 1 .. Len(stack)
      BY <1>1, LenProperties
    <3>2. stack[i].context \in 1 .. made
      BY <1>1, <2>1, <3>1 DEF StackSound, Sound
    <3> QED BY <1>1, <1>2, <3>2, BoundsAssumption DEF TypeOK, Context
  <2> QED BY <1>1, <2>1 DEF EnteredTo, ActiveTo, EnteredIn, ActiveIn
<1>6. \A x : Sound(x) => Sound(x)' /\ ~Alive(x.scope)'
  <2> SUFFICES ASSUME NEW x, Sound(x) PROVE Sound(x)' /\ ~Alive(x.scope)'
    OBVIOUS
  <2>1. x.scope # NoContext => home[x.scope] # namespace'
    BY <1>1, <1>2, BoundsAssumption DEF Sound, TypeOK, Context
  <2> QED BY <1>1, <2>1 DEF Sound, Alive
<1>7. StackSound'
  BY <1>1, <1>5, <1>6 DEF StackSound, HasLast
<1>8. WaitingSound'
  BY <1>1, <1>6 DEF WaitingSound
<1> QED BY <1>3, <1>4, <1>7, <1>8 DEF ContextInv

-----------------------------------------------------------------------------
LEMMA InitSound == Init => ContextInv
<1> SUFFICES ASSUME Init PROVE ContextInv
  OBVIOUS
<1>1. TypeOK
  <2>1. namespace \in 1 .. MaxNamespace /\ made \in 0 .. MaxContext
    BY BoundsAssumption DEF Init
  <2>2. home \in [Context -> 0 .. MaxNamespace]
    BY BoundsAssumption DEF Init
  <2>3. stack \in Seq(Code)
    BY DEF Init
  <2>4. cls_mode \in BOOLEAN /\ patched \in BOOLEAN
    BY DEF Init
  <2> QED BY <2>1, <2>2, <2>3, <2>4 DEF Init, TypeOK
<1>2. ContextsSound /\ StackSound /\ WaitingSound
  BY DEF Init, ContextsSound, StackSound, WaitingSound
<1> QED BY <1>1, <1>2 DEF ContextInv

LEMMA StepSound == ContextInv /\ [Next]_vars => ContextInv'
<1> SUFFICES ASSUME ContextInv, [Next]_vars PROVE ContextInv'
  OBVIOUS
<1>1. CASE StartRequest
  BY <1>1, StartKeeps
<1>2. CASE StartOther
  BY <1>2, StartOtherKeeps
<1>3. CASE CaptureFcn
  BY <1>3, CaptureKeeps
<1>4. CASE Return
  BY <1>4, ReturnKeeps
<1>5. ASSUME NEW s \in Context, SetSegment(s) PROVE ContextInv'
  BY <1>5, SetSegmentKeeps
<1>6. ASSUME NEW native \in BOOLEAN, Attach(native) PROVE ContextInv'
  BY <1>6, AttachKeeps
<1>7. ASSUME NEW p \in waiting, RunNative(p) PROVE ContextInv'
  BY <1>7, RunNativeKeeps
<1>8. ASSUME NEW p \in waiting, Settle(p) PROVE ContextInv'
  BY <1>8, SettleKeeps
<1>9. CASE PatchPromise
  BY <1>9
  DEF PatchPromise, ContextInv, TypeOK, ContextsSound, StackSound, WaitingSound, Sound, HasLast,
      Alive, EnteredTo, ActiveTo, modeVars, contextVars
<1>10. CASE EnableManualMode
  BY <1>10, ManualKeeps
<1>11. CASE EnableAutomaticMode
  BY <1>11
  DEF EnableAutomaticMode, ContextInv, TypeOK, ContextsSound, StackSound, WaitingSound, Sound,
      HasLast, Alive, EnteredTo, ActiveTo, contextVars
<1>12. CASE UNCHANGED vars
  BY <1>12
  DEF ContextInv, TypeOK, ContextsSound, StackSound, WaitingSound, Sound, HasLast, Alive,
      EnteredTo, ActiveTo, vars, modeVars, contextVars
<1> QED
  BY <1>1, <1>2, <1>3, <1>4, <1>5, <1>6, <1>7, <1>8, <1>9, <1>10, <1>11, <1>12 DEF Next

(* Code is in the context of the function or request it is written in, for *)
(* any number of requests, functions and continuations, except unbound     *)
(* continuations of foreign promises (captureFcn, patchPromise).           *)
THEOREM CodeInItsOwnContext == Spec => []InItsOwnContext
<1>1. ContextInv => InItsOwnContext
  <2>1. ASSUME ContextInv, stack # <<>>, ~Top.strayed
        PROVE  Active = IF Alive(Top.scope) THEN Top.scope ELSE NoContext
    BY <2>1, TopSound
  <2> QED BY <2>1 DEF ContextInv, InItsOwnContext, Alive
<1> QED BY <1>1, InitSound, StepSound, PTL DEF Spec

(* The current segment is one of the request the code works for, or there  *)
(* is none (getSegment).                                                   *)
THEOREM CurrentSegmentIsOwn == Spec => []SegmentOfOwnRequest
<1>1. ContextInv => SegmentOfOwnRequest
  <2> SUFFICES ASSUME ContextInv, stack # <<>>, ~Top.strayed, GetSegment # NoContext,
                      Active \notin spoiled
               PROVE  request[GetSegment] = Top.request
    BY DEF SegmentOfOwnRequest
  <2>1. /\ Sound(Top) /\ Active \in {NoContext} \cup 1 .. made
        /\ Active = IF Alive(Top.scope) THEN Top.scope ELSE NoContext
    BY TopSound
  <2>2. Active # NoContext /\ GetSegment = segment[Active]
    BY DEF GetSegment
  <2>3. request[segment[Active]] = request[Active]
    BY <2>1, <2>2 DEF ContextInv, ContextsSound
  <2>4. Active = Top.scope
    BY <2>1, <2>2
  <2> QED BY <2>1, <2>2, <2>3, <2>4 DEF Sound
<1> QED BY <1>1, InitSound, StepSound, PTL DEF Spec

-----------------------------------------------------------------------------
(* Errors.  The log grows by one entry at a time. *)

(* Entries keep their place. *)
LEMMA Appended ==
  ASSUME ErrorTypeOK, NEW n \in Node, NEW v \in Value, log' = Append(log, Entry(n, v))
  PROVE  /\ Len(log) \in Nat /\ DOMAIN log = 1 .. Len(log)
         /\ Len(log') = Len(log) + 1 /\ DOMAIN log' = 1 .. Len(log) + 1
         /\ \A i \in DOMAIN log : i \in DOMAIN log' /\ log'[i] = log[i]
         /\ Len(log) + 1 \notin DOMAIN log
         /\ log'[Len(log) + 1] = Entry(n, v)
         /\ log' \in Seq([node : Node, value : Value])
<1>1. log \in Seq([node : Node, value : Value]) /\ Entry(n, v) \in [node : Node, value : Value]
  BY DEF ErrorTypeOK, Entry
<1> QED BY <1>1

(* What an entry is made of. *)
LEMMA EntryTypes ==
  ASSUME ErrorTypeOK, NEW i \in DOMAIN log
  PROVE  log[i].node \in Node /\ log[i].value \in Value /\ log[i].value.error \in Error
<1> DEFINE entries == [node : Node, value : Value]
<1>a. log \in Seq(entries)
  BY DEF ErrorTypeOK
<1> HIDE DEF entries
<1>b. log[i] \in entries
  BY <1>a
<1>1. log[i] \in [node : Node, value : Value]
  BY <1>b DEF entries
<1>2. log[i].node \in Node /\ log[i].value \in Value
  BY <1>1
<1> QED BY <1>2 DEF Value

(* Who has recorded an error, and who more than one, has done so for good; *)
(* who records again has recorded more than one.                           *)
LEMMA RecordedGrows ==
  ASSUME ErrorTypeOK, NEW n \in Node, NEW v \in Value, log' = Append(log, Entry(n, v))
  PROVE  /\ Recorded \subseteq Recorded' /\ n \in Recorded'
         /\ Repeated \subseteq Repeated'
         /\ n \in Recorded => n \in Repeated'
<1> USE Appended
<1>1. Recorded \subseteq Recorded'
  BY DEF Recorded
<1>2. n \in Recorded'
  BY DEF Recorded, Entry
<1>3. Repeated \subseteq Repeated'
  BY DEF Repeated
<1>4. ASSUME n \in Recorded PROVE n \in Repeated'
  <2>1. PICK i \in DOMAIN log : log[i].node = n
    BY <1>4 DEF Recorded
  <2>2. /\ i \in DOMAIN log' /\ log'[i].node = n
        /\ Len(log) + 1 \in DOMAIN log' /\ log'[Len(log) + 1].node = n
        /\ i # Len(log) + 1
    BY <2>1 DEF Entry
  <2> QED BY <2>2 DEF Repeated
<1> QED BY <1>1, <1>2, <1>3, <1>4

(* What interrupted the recordings of an error has done so for good.       *)
LEMMA InterruptedGrows ==
  ASSUME ErrorTypeOK, NEW n \in Node, NEW v \in Value, log' = Append(log, Entry(n, v)),
         NEW e \in Error, Interrupted(e)
  PROVE  Interrupted(e)'
<1>1. PICK j \in DOMAIN log :
        /\ log[j].value.error = e
        /\ \E i \in 1 .. j - 1 :
              log[i].value.error = e /\ (log[j - 1].value # log[j].value \/ log[j - 1].node = Root)
  BY DEF Interrupted
<1>2. PICK i \in 1 .. j - 1 :
        log[i].value.error = e /\ (log[j - 1].value # log[j].value \/ log[j - 1].node = Root)
  BY <1>1
<1>3. i \in DOMAIN log /\ j - 1 \in DOMAIN log /\ j \in DOMAIN log'
      /\ log'[i] = log[i] /\ log'[j] = log[j] /\ log'[j - 1] = log[j - 1]
  BY <1>2, Appended
<1> QED BY <1>1, <1>2, <1>3 DEF Interrupted

-----------------------------------------------------------------------------
(* addError. *)

(* What a call of addError does to the cause of n, and leaves alone.       *)
LEMMA RecordsError ==
  ASSUME ErrorTypeOK, NEW n \in Node, NEW v \in Value, AddError(n, v)
  PROVE  /\ log' = Append(log, Entry(n, v))
         /\ \A m \in Node : m # n => refers'[m] = refers[m] /\ described'[m] = described[m]
         /\ Known(v) => refers'[n] = exception.cause /\ described'[n] = {}
         /\ ~Known(v) => refers'[n] = refers[n]
         /\ ~Known(v) /\ ~(n = Root /\ SegmentThrows(v)) =>
              described'[n] = described[n] \cup {v.error}
         /\ ~Known(v) /\ n = Root /\ SegmentThrows(v) => described' = described
         /\ n = Root => exception' = NoException
         /\ n # Root /\ Known(v) => exception' = exception
         /\ n # Root /\ ~Known(v) => exception' = [ex |-> v, cause |-> n]
         /\ Known(v) => exception # NoException /\ exception.cause \in Subsegment
<1>1. v # None
  BY ErrorAssumption DEF Value
<1>2. Known(v) => exception # NoException /\ exception.cause \in Subsegment
  BY <1>1 DEF Known, NoException, ErrorTypeOK
<1>3. log' = Append(log, Entry(n, v))
  BY DEF AddError
<1>4. CASE n = Root
  BY <1>2, <1>3, <1>4 DEF AddError, SegmentAddError, ErrorTypeOK
<1>5. CASE n # Root
  BY <1>2, <1>3, <1>5 DEF AddError, SubsegmentAddError, ErrorTypeOK
<1> QED BY <1>4, <1>5

(* It keeps the types of what it changes.                                  *)
LEMMA RecordsTypes ==
  ASSUME ErrorTypeOK, NEW n \in Node, NEW v \in Value, AddError(n, v)
  PROVE  /\ exception' \in {NoException} \cup [ex : Value, cause : Subsegment]
         /\ refers' \in [Node -> Subsegment \cup {None}]
         /\ described' \in [Node -> SUBSET Error]
         /\ log' \in Seq([node : Node, value : Value])
<1>1. v.error \in Error /\ (n # Root => n \in Subsegment)
  BY DEF Value, Node
<1>2. exception' \in {NoException} \cup [ex : Value, cause : Subsegment]
  BY <1>1, RecordsError DEF ErrorTypeOK
<1>3. log' \in Seq([node : Node, value : Value])
  BY Appended, RecordsError
<1>4. Known(v) => exception.cause \in Subsegment
  BY RecordsError
<1>5. CASE n = Root
  <2>1. SegmentAddError(v)
    BY <1>5 DEF AddError
  <2>2. refers' \in [Node -> Subsegment \cup {None}]
    BY <1>4, <1>5, <2>1 DEF SegmentAddError, ErrorTypeOK
  <2>3. described' \in [Node -> SUBSET Error]
    BY <1>1, <1>5, <2>1 DEF SegmentAddError, ErrorTypeOK
  <2> QED BY <1>2, <1>3, <2>2, <2>3
<1>6. CASE n # Root
  BY <1>1, <1>2, <1>3, <1>4, <1>6 DEF AddError, SubsegmentAddError, ErrorTypeOK
<1> QED BY <1>5, <1>6

(* NothingErased without the types. *)
ReadableAt(n, e) == Explained(n, e) \/ {n, refers[n]} \cap Repeated # {}
Readable == \A i \in DOMAIN log : ReadableAt(log[i].node, log[i].value.error)

(* Who refers, and to whom, has recorded an error after the call as well.  *)
LEMMA RecordsReferences ==
  ASSUME ErrorTypeOK, ExceptionExplained, ReferencesRecorded,
         NEW n \in Node, NEW v \in Value, AddError(n, v)
  PROVE  ReferencesRecorded'
<1>1. Recorded \subseteq Recorded' /\ n \in Recorded'
  BY RecordsError, RecordedGrows
<1>2. Known(v) => exception.cause \in Recorded
  BY RecordsError DEF ExceptionExplained
<1>3. ASSUME NEW m \in Node, refers'[m] # None PROVE {m, refers'[m]} \subseteq Recorded'
  <2>1. CASE m = n /\ Known(v)
    <3>1. refers'[m] = exception.cause
      BY <2>1, RecordsError
    <3> QED BY <1>1, <1>2, <2>1, <3>1
  <2>2. CASE ~(m = n /\ Known(v))
    <3>1. refers'[m] = refers[m]
      BY <2>2, RecordsError
    <3>2. {m, refers[m]} \subseteq Recorded
      BY <1>3, <3>1 DEF ReferencesRecorded
    <3> QED BY <1>1, <3>1, <3>2
  <2> QED BY <2>1, <2>2
<1> QED BY <1>3 DEF ReferencesRecorded

(* The cause of the shared exception describes it, or has recorded twice.  *)
LEMMA RecordsException ==
  ASSUME ErrorTypeOK, ExceptionExplained, NEW n \in Node, NEW v \in Value, AddError(n, v)
  PROVE  ExceptionExplained'
<1>1. /\ Recorded \subseteq Recorded' /\ n \in Recorded' /\ Repeated \subseteq Repeated'
      /\ n \in Recorded => n \in Repeated'
  BY RecordsError, RecordedGrows
<1>2. CASE n = Root
  BY <1>2, RecordsError DEF ExceptionExplained
<1>3. CASE n # Root /\ Known(v)
  <2>1. /\ exception' = exception /\ exception # NoException /\ exception.cause \in Node
        /\ exception.cause \in Recorded
        /\ exception.ex.error \in described[exception.cause] \/ exception.cause \in Repeated
    BY <1>3, RecordsError DEF ExceptionExplained, Node
  <2>2. exception.cause # n => described'[exception.cause] = described[exception.cause]
    BY <2>1, RecordsError
  <2> QED BY <1>1, <2>1, <2>2 DEF ExceptionExplained
<1>4. CASE n # Root /\ ~Known(v)
  <2>1. exception' = [ex |-> v, cause |-> n] /\ described'[n] = described[n] \cup {v.error}
    BY <1>4, RecordsError
  <2> QED BY <1>1, <2>1 DEF ExceptionExplained
<1> QED BY <1>2, <1>3, <1>4

(* What has been recorded can still be read, and what is recorded now too. *)
LEMMA RecordsReadable ==
  ASSUME ErrorTypeOK, Readable, ExceptionExplained, ReferencesRecorded,
         NEW n \in Node, NEW v \in Value, AddError(n, v)
  PROVE  Readable'
<1>1. /\ Repeated \subseteq Repeated'
      /\ n \in Recorded => n \in Repeated'
  BY RecordsError, RecordedGrows
<1>2. \A m \in Node : m # n => refers'[m] = refers[m] /\ described'[m] = described[m]
  BY RecordsError
<1>3. ASSUME NEW i \in DOMAIN log, NEW m \in Node, NEW e \in Error,
             m = log[i].node, e = log[i].value.error
      PROVE  ReadableAt(m, e)'
  <2> USE DEF ReadableAt, Explained
  <2>1. e \in described[m] \/ (refers[m] # None /\ e \in described[refers[m]])
        \/ {m, refers[m]} \cap Repeated # {}
    BY <1>3 DEF Readable
  <2>2. CASE m = n
    <3>1. n \in Recorded
      BY <1>3, <2>2 DEF Recorded
    <3> QED BY <1>1, <2>2, <3>1
  <2>3. CASE m # n
    <3>1. refers'[m] = refers[m] /\ described'[m] = described[m]
      BY <1>2, <2>3
    <3>2. CASE {m, refers[m]} \cap Repeated # {}
      BY <1>1, <3>1, <3>2
    <3>3. CASE e \in described[m]
      BY <3>1, <3>3
    <3>4. CASE refers[m] # None /\ e \in described[refers[m]]
      <4>1. refers[m] \in Recorded /\ refers[m] \in Node
        BY <3>4 DEF ReferencesRecorded, Recorded
      <4>2. refers[m] = n => n \in Repeated'
        BY <1>1, <4>1
      <4>3. refers[m] # n => described'[refers[m]] = described[refers[m]]
        BY <1>2, <4>1
      <4> QED BY <3>1, <3>4, <4>2, <4>3
    <3> QED BY <2>1, <3>2, <3>3, <3>4
  <2> QED BY <2>2, <2>3
<1>4. ReadableAt(n, v.error)'
  <2> USE DEF ReadableAt, Explained
  <2>1. CASE n \in Recorded
    BY <1>1, <2>1
  <2>2. CASE n \notin Recorded /\ Known(v)
    <3>1. /\ refers'[n] = exception.cause /\ exception # NoException /\ exception.ex = v
          /\ exception.cause \in Recorded /\ exception.cause \in Node /\ exception.cause # None
      BY <2>2, RecordsError, ErrorAssumption DEF Known, ExceptionExplained, Recorded
    <3>2. v.error \in described[exception.cause] \/ exception.cause \in Repeated
      BY <3>1 DEF ExceptionExplained
    <3>3. described'[exception.cause] = described[exception.cause]
      BY <1>2, <2>2, <3>1
    <3> QED BY <1>1, <3>1, <3>2, <3>3
  <2>3. CASE n \notin Recorded /\ ~Known(v)
    <3>1. ~(n = Root /\ SegmentThrows(v))
      BY <2>3 DEF SegmentThrows, ReferencesRecorded
    <3>2. v.error \in described'[n]
      BY <2>3, <3>1, RecordsError
    <3> QED BY <3>2
  <2> QED BY <2>1, <2>2, <2>3
<1>5. /\ DOMAIN log' = 1 .. Len(log) + 1 /\ DOMAIN log = 1 .. Len(log) /\ Len(log) \in Nat
      /\ \A i \in DOMAIN log : log'[i] = log[i]
      /\ log'[Len(log) + 1].node = n /\ log'[Len(log) + 1].value = v
      /\ \A i \in DOMAIN log : log[i].node \in Node /\ log[i].value.error \in Error
  <2>1. log' = Append(log, Entry(n, v))
    BY RecordsError
  <2>2. /\ DOMAIN log' = 1 .. Len(log) + 1 /\ DOMAIN log = 1 .. Len(log) /\ Len(log) \in Nat
        /\ \A i \in DOMAIN log : log'[i] = log[i]
        /\ log'[Len(log) + 1] = Entry(n, v)
    BY <2>1, Appended
  <2>3. \A i \in DOMAIN log : log[i].node \in Node /\ log[i].value.error \in Error
    BY EntryTypes
  <2> QED BY <2>2, <2>3 DEF Entry
<1>6. ASSUME NEW i \in DOMAIN log', NEW m, NEW e, m = log'[i].node, e = log'[i].value.error
      PROVE  ReadableAt(m, e)'
  <2>1. CASE i \in DOMAIN log
    BY <1>3, <1>5, <1>6, <2>1
  <2>2. CASE i = Len(log) + 1
    BY <1>4, <1>5, <1>6, <2>2
  <2> QED BY <1>5, <2>1, <2>2
<1>7. ASSUME NEW i \in DOMAIN log' PROVE ReadableAt(log[i].node, log[i].value.error)'
  BY <1>6 DEF ReadableAt, Explained
<1> QED BY <1>7 DEF Readable

(* What is described has been recorded. *)
LEMMA RecordsDescribed ==
  ASSUME ErrorTypeOK, DescribedRecorded, NEW n \in Node, NEW v \in Value, AddError(n, v)
  PROVE  DescribedRecorded'
<1>1. /\ \A i \in DOMAIN log : i \in DOMAIN log' /\ log'[i] = log[i]
      /\ Len(log) + 1 \in DOMAIN log' /\ log'[Len(log) + 1].value = v
  <2>1. log' = Append(log, Entry(n, v))
    BY RecordsError
  <2> QED BY <2>1, Appended DEF Entry
<1>2. ASSUME NEW m \in Node, NEW e \in described'[m]
      PROVE  \E i \in DOMAIN log' : log'[i].value.error = e
  <2>1. CASE e \in described[m]
    BY <1>1, <2>1 DEF DescribedRecorded
  <2>2. CASE e \notin described[m]
    <3>1. e = v.error
      BY <1>2, <2>2, RecordsError
    <3> QED BY <1>1, <3>1
  <2> QED BY <2>1, <2>2
<1> QED BY <1>2 DEF DescribedRecorded

(* The shared exception is what the last subsegment has recorded.          *)
LEMMA RecordsLast ==
  ASSUME ErrorTypeOK, NEW n \in Node, NEW v \in Value, AddError(n, v)
  PROVE  ExceptionIsLast'
<1>1. /\ Len(log') = Len(log) + 1 /\ log'[Len(log) + 1].value = v
      /\ log'[Len(log) + 1].node = n
  <2>1. log' = Append(log, Entry(n, v))
    BY RecordsError
  <2> QED BY <2>1, Appended DEF Entry
<1>2. n # Root => exception'.ex = v
  BY RecordsError DEF Known
<1> QED BY <1>1, <1>2 DEF ExceptionIsLast

(* An error is described by a second node only when its recordings were    *)
(* interrupted: otherwise the node finds it in the shared exception.       *)
LEMMA RecordsOnce ==
  ASSUME ErrorTypeOK, DescribedOnce, DescribedRecorded, ExceptionIsLast,
         NEW n \in Node, NEW v \in Value, AddError(n, v), open' \subseteq open
  PROVE  DescribedOnce'
<1>1. log' = Append(log, Entry(n, v))
  BY RecordsError
<1>2. SUFFICES ASSUME NEW e \in Error, NEW m \in Node, NEW k \in Node,
                      e \in described'[m], e \in described'[k], m # k, Root \in open'
               PROVE  Interrupted(e)'
  BY DEF DescribedOnce
<1>3. \A l \in Node : e \in described'[l] => e \in described[l] \/ (l = n /\ e = v.error /\ ~Known(v))
  BY RecordsError
<1>4. CASE e \in described[m] /\ e \in described[k]
  <2>1. Interrupted(e)
    BY <1>2, <1>4 DEF DescribedOnce
  <2> QED BY <1>1, <2>1, InterruptedGrows
<1>5. ASSUME NEW l \in Node, e \in described[l], e = v.error, ~Known(v) PROVE Interrupted(e)'
  <2>1. PICK i \in DOMAIN log : log[i].value.error = e
    BY <1>5 DEF DescribedRecorded
  <2>2. /\ Len(log) \in Nat /\ i \in 1 .. Len(log) /\ Len(log) \in DOMAIN log /\ log # <<>>
        /\ Len(log) + 1 \in DOMAIN log' /\ log'[Len(log) + 1].value = v
        /\ log'[i] = log[i] /\ log'[Len(log)] = log[Len(log)]
    <3>1. DOMAIN log = 1 .. Len(log) /\ Len(log) \in Nat
      BY <1>1, Appended
    <3>2. i \in 1 .. Len(log) /\ Len(log) \in DOMAIN log
      BY <2>1, <3>1
    <3>3. log # <<>>
      BY <3>1, <3>2
    <3>4. /\ Len(log) + 1 \in DOMAIN log' /\ log'[Len(log) + 1] = Entry(n, v)
          /\ log'[i] = log[i] /\ log'[Len(log)] = log[Len(log)]
      BY <1>1, <3>2, Appended
    <3> QED BY <3>1, <3>2, <3>3, <3>4 DEF Entry
  <2>3. log[Len(log)].value # v \/ log[Len(log)].node = Root
    BY <1>2, <1>5, <2>2 DEF ExceptionIsLast, Known
  <2>4. (Len(log) + 1) - 1 = Len(log)
    BY <2>2
  <2>5. \E j \in DOMAIN log' :
           /\ log'[j].value.error = e
           /\ \E h \in 1 .. j - 1 :
                 /\ log'[h].value.error = e
                 /\ log'[j - 1].value # log'[j].value \/ log'[j - 1].node = Root
    BY <1>5, <2>1, <2>2, <2>3, <2>4
  <2> QED BY <2>5 DEF Interrupted
<1> QED BY <1>2, <1>3, <1>4, <1>5

-----------------------------------------------------------------------------
(* The invariant. *)

(* A call of addError, whoever makes it, keeps it.                         *)
LEMMA AddErrorPreserves ==
  ASSUME IInv, NEW n \in Node, NEW v \in Value, AddError(n, v), open' \subseteq open, ErrorTypeOK'
  PROVE  IInv'
<1>1. /\ ErrorTypeOK /\ DescribedOnce /\ ExceptionExplained /\ ReferencesRecorded
      /\ DescribedRecorded /\ ExceptionIsLast
  BY DEF IInv, NothingErased
<1>2. Readable
  BY DEF IInv, NothingErased, Readable, ReadableAt
<1>3. Readable'
  BY <1>1, <1>2, RecordsReadable
<1>4. NothingErased'
  BY <1>3 DEF NothingErased, Readable, ReadableAt, Explained
<1>5. ExceptionExplained' /\ ReferencesRecorded'
  BY <1>1, RecordsException, RecordsReferences
<1>6. DescribedRecorded' /\ ExceptionIsLast' /\ DescribedOnce'
  BY <1>1, RecordsDescribed, RecordsLast, RecordsOnce
<1> QED BY <1>4, <1>5, <1>6 DEF IInv

(* So does a step that records nothing, as long as it opens no segment.    *)
LEMMA SilentPreserves ==
  ASSUME IInv, UNCHANGED <<refers, described, log>>, Root \in open' => Root \in open,
         exception' = exception \/ (exception' = NoException /\ Root \notin open'), ErrorTypeOK'
  PROVE  IInv'
<1>1. Recorded' = Recorded /\ Repeated' = Repeated
  BY DEF Recorded, Repeated
<1>2. NothingErased'
  BY <1>1 DEF IInv, NothingErased, Explained
<1>3. DescribedOnce'
  BY DEF IInv, DescribedOnce, Interrupted
<1>4. ExceptionExplained' /\ ReferencesRecorded' /\ DescribedRecorded' /\ ExceptionIsLast'
  BY <1>1 DEF IInv, ExceptionExplained, ReferencesRecorded, DescribedRecorded, ExceptionIsLast
<1> QED BY <1>2, <1>3, <1>4 DEF IInv

-----------------------------------------------------------------------------
(* The steps. *)

(* Calls of addError by captured code, an AWS call, a fetch or middleware. *)
RecordsStep ==
  \E n \in Node, v \in Value :
    /\ AddError(n, v) /\ open' \subseteq open /\ UNCHANGED <<kind, parent>>
    /\ inHand' \in [Node -> SUBSET Error]

(* The error that s hands on is in the hands of the code around it.        *)
LEMMA PassingTypes ==
  ASSUME ErrorTypeOK, NEW s \in Subsegment, NEW e \in Error, PassesOn(s, e)
  PROVE  inHand' \in [Node -> SUBSET Error]
<1>1. \A n \in Node : inHand[n] \cup {e} \in SUBSET Error
  BY DEF ErrorTypeOK
<1> QED BY <1>1 DEF PassesOn, ErrorTypeOK

(* The actions that call addError. *)
LEMMA WhoRecords ==
  ASSUME ErrorTypeOK,
         \/ \E s \in Subsegment, e \in Error :
               FuncThrows(s, e) \/ AwsThrows(s, e) \/ FetchThrows(s, e)
         \/ \E n \in Node, e \in Error : Records(n, e)
         \/ \E e \in Error : SegmentThrowsOn(e)
  PROVE  RecordsStep
<1>1. \A e \in Error : Original(e) \in Value /\ [error |-> e, copy |-> TRUE] \in Value
  BY DEF Original, Value
<1>2. Root \in Node /\ Subsegment \subseteq Node
  BY DEF Node
<1>3. ASSUME NEW s \in Subsegment, NEW e \in Error,
             FuncThrows(s, e) \/ AwsThrows(s, e) \/ FetchThrows(s, e)
      PROVE  RecordsStep
  <2>1. PICK v \in Value : AddError(s, v)
    BY <1>1, <1>3 DEF FuncThrows, AwsThrows, FetchThrows
  <2>2. open' = open \ {s} /\ PassesOn(s, e) /\ UNCHANGED <<kind, parent>>
    BY <1>3 DEF FuncThrows, AwsThrows, FetchThrows
  <2>3. inHand' \in [Node -> SUBSET Error]
    BY <2>2, PassingTypes
  <2> QED BY <1>2, <2>1, <2>2, <2>3 DEF RecordsStep
<1>4. ASSUME NEW n \in Node, NEW e \in Error, Records(n, e) PROVE RecordsStep
  BY <1>1, <1>4 DEF Records, RecordsStep, programVars, ErrorTypeOK
<1>5. ASSUME NEW e \in Error, SegmentThrowsOn(e) PROVE RecordsStep
  <2>1. AddError(Root, Original(e)) /\ open' \subseteq open /\ UNCHANGED <<kind, parent, inHand>>
    BY <1>5 DEF SegmentThrowsOn
  <2> QED BY <1>1, <1>2, <2>1 DEF RecordsStep, ErrorTypeOK
<1> QED BY <1>3, <1>4, <1>5

(* Every other step, the silent ones, keeps the types.                     *)
LEMMA SilentTypes ==
  ASSUME ErrorTypeOK,
         \/ \E s \in Subsegment, p \in Node, k \in Kind : Opens(p, s, k)
         \/ \E s \in Subsegment : Returns(s)
         \/ \E s \in Subsegment, e \in Error : ThrowsInCatch(s, e)
         \/ \E n \in Node, e \in Error : Raises(n, e)
         \/ SegmentCloses
         \/ UNCHANGED errorVars
  PROVE  /\ ErrorTypeOK' /\ UNCHANGED <<refers, described, log>>
         /\ Root \in open' => Root \in open
         /\ exception' = exception \/ (exception' = NoException /\ Root \notin open')
<1> USE DEF recordVars
<1>1. ASSUME NEW s \in Subsegment, NEW p \in Node, NEW k \in Kind, Opens(p, s, k)
      PROVE  /\ ErrorTypeOK' /\ UNCHANGED <<refers, described, log, exception>>
             /\ Root \in open' => Root \in open
  BY <1>1, ErrorAssumption DEF Opens, ErrorTypeOK, Node
<1>2. ASSUME NEW s \in Subsegment, Returns(s)
      PROVE  /\ ErrorTypeOK' /\ UNCHANGED <<refers, described, log, exception>>
             /\ Root \in open' => Root \in open
  BY <1>2 DEF Returns, ErrorTypeOK
<1>3. ASSUME NEW s \in Subsegment, NEW e \in Error, ThrowsInCatch(s, e)
      PROVE  /\ ErrorTypeOK' /\ UNCHANGED <<refers, described, log, exception, open>>
  <2> DEFINE first == [inHand EXCEPT ![s] = {e}]
  <2>1. inHand' = [first EXCEPT ![parent[s]] = @ \cup {e}]
    BY <1>3 DEF ThrowsInCatch
  <2>2. first \in [Node -> SUBSET Error]
    BY DEF ErrorTypeOK, Node
  <2> HIDE DEF first
  <2>3. \A n \in Node : first[n] \cup {e} \in SUBSET Error
    BY <2>2
  <2>4. inHand' \in [Node -> SUBSET Error]
    BY <2>1, <2>2, <2>3
  <2> QED BY <1>3, <2>4 DEF ThrowsInCatch, ErrorTypeOK
<1>4. ASSUME NEW n \in Node, NEW e \in Error, Raises(n, e)
      PROVE  /\ ErrorTypeOK' /\ UNCHANGED <<refers, described, log, exception, open>>
  BY <1>4 DEF Raises, ErrorTypeOK
<1>5. ASSUME SegmentCloses
      PROVE  /\ ErrorTypeOK' /\ UNCHANGED <<refers, described, log>>
             /\ exception' = NoException /\ Root \notin open'
  BY <1>5 DEF SegmentCloses, ErrorTypeOK
<1>6. ASSUME UNCHANGED errorVars
      PROVE  /\ ErrorTypeOK' /\ UNCHANGED <<refers, described, log, exception, open>>
  BY <1>6 DEF errorVars, programVars, ErrorTypeOK
<1> QED BY <1>1, <1>2, <1>3, <1>4, <1>5, <1>6

(* Nothing has been recorded at first. *)
LEMMA InitEstablishes == ErrorInit => IInv
<1> SUFFICES ASSUME ErrorInit PROVE IInv
  OBVIOUS
<1>1. ErrorTypeOK
  BY DEF ErrorInit, ErrorTypeOK, Node, Kind
<1>2. log = <<>> /\ DOMAIN log = {}
  BY DEF ErrorInit
<1>3. NothingErased
  BY <1>1, <1>2 DEF NothingErased
<1>4. \A n \in Node : described[n] = {} /\ refers[n] = None
  BY DEF ErrorInit
<1>5. DescribedOnce /\ ReferencesRecorded /\ DescribedRecorded
  BY <1>4 DEF DescribedOnce, ReferencesRecorded, DescribedRecorded
<1>6. ExceptionExplained /\ ExceptionIsLast
  BY <1>2 DEF ErrorInit, ExceptionExplained, ExceptionIsLast
<1> QED BY <1>3, <1>5, <1>6 DEF IInv

(* The invariant is inductive.                                             *)
LEMMA NextPreserves ==
  ASSUME IInv, [ErrorNext]_errorVars
  PROVE  IInv'
<1>1. ErrorTypeOK
  BY DEF IInv, NothingErased
<1>2. ASSUME RecordsStep PROVE IInv'
  <2>1. PICK n \in Node, v \in Value :
          /\ AddError(n, v) /\ open' \subseteq open /\ UNCHANGED <<kind, parent>>
          /\ inHand' \in [Node -> SUBSET Error]
    BY <1>2 DEF RecordsStep
  <2>2. ErrorTypeOK'
    BY <1>1, <2>1, RecordsTypes DEF ErrorTypeOK
  <2> QED BY <2>1, <2>2, AddErrorPreserves
<1>3. CASE \/ \E s \in Subsegment, e \in Error :
                FuncThrows(s, e) \/ AwsThrows(s, e) \/ FetchThrows(s, e)
           \/ \E n \in Node, e \in Error : Records(n, e)
           \/ \E e \in Error : SegmentThrowsOn(e)
  BY <1>1, <1>2, <1>3, WhoRecords
<1>4. CASE \/ \E s \in Subsegment, p \in Node, k \in Kind : Opens(p, s, k)
           \/ \E s \in Subsegment : Returns(s)
           \/ \E s \in Subsegment, e \in Error : ThrowsInCatch(s, e)
           \/ \E n \in Node, e \in Error : Raises(n, e)
           \/ SegmentCloses
           \/ UNCHANGED errorVars
  BY <1>1, <1>4, SilentTypes, SilentPreserves
<1> QED BY <1>3, <1>4 DEF ErrorNext

-----------------------------------------------------------------------------
(* The invariants. *)

(* IInv holds throughout: what addError, close and SegmentCloses leave.    *)
LEMMA ErrorInvariant == ErrorSpec => []IInv
<1>1. ErrorInit => IInv
  BY InitEstablishes
<1>2. IInv /\ [ErrorNext]_errorVars => IInv'
  BY NextPreserves
<1> QED BY <1>1, <1>2, PTL DEF ErrorSpec

(* What a node records can be read from the trace, whatever other nodes    *)
(* record in between, except where a node records twice (addError).        *)
THEOREM RecordedIsReadable == ErrorSpec => []NothingErased
<1>1. IInv => NothingErased
  BY DEF IInv
<1> QED BY <1>1, ErrorInvariant, PTL

(* An error that travels up is described by one node and referred to by    *)
(* the others, unless something came between (Subsegment.addError).        *)
THEOREM TravellingErrorIsDescribedOnce == ErrorSpec => []DescribedOnce
<1>1. IInv => DescribedOnce
  BY DEF IInv
<1> QED BY <1>1, ErrorInvariant, PTL
=============================================================================
