---------------------------- MODULE ErrorCapture ----------------------------
(***************************************************************************)
(* How an error that travels up through captured code is recorded: the     *)
(* addError of segments and subsegments, and the code that closes them     *)
(* with an error and throws it on (capture.js, aws3_p.ts, fetch_p.js).     *)
(*                                                                         *)
(* The node that records an error first describes it, and leaves it with   *)
(* itself in segment.exception, which all nodes of a segment share; a node *)
(* that finds there the error it is to record just refers to the other.    *)
(* Errors are told apart by identity.  Subsegments may fail at the same    *)
(* time, and code may record an error itself before it throws it on.       *)
(***************************************************************************)
EXTENDS Naturals, Sequences, FiniteSets

CONSTANTS
  Root,        \* the segment
  Subsegment,
  Error,       \* the errors that are thrown
  MaxCalls,    \* a bound on the calls of addError
  None

ASSUME ErrorAssumption ==
  /\ IsFiniteSet(Subsegment) /\ IsFiniteSet(Error) /\ MaxCalls \in Nat
  /\ Root \notin Subsegment
  /\ None \notin Subsegment \cup {Root} \cup Error \cup [error : Error, copy : BOOLEAN]

Node == {Root} \cup Subsegment

(* What runs in a subsegment: captured code, which may open others, a call *)
(* of an AWS SDK v3 client, or a fetch.                                    *)
Kind == {"func", "aws3", "fetch"}

VARIABLES
  exception,  \* segment.exception: the error last described, and by which node
  refers,     \* refers[n]: cause.id of n
  described,  \* described[n]: the errors in cause.exceptions of n
  kind,       \* kind[s], once s exists
  parent,     \* parent[s]: the node s was opened under, None before
  open,       \* the nodes that are in progress
  inHand,     \* inHand[n]: the errors that the code of n has got to see
  log         \* history: the calls of addError

recordVars == <<exception, refers, described>>
programVars == <<kind, parent, open, inHand>>
errorVars == <<recordVars, programVars, log>>

(* An error, or the copy of it that aws3_p.ts closes a subsegment with.    *)
Value == [error : Error, copy : BOOLEAN]
Original(e) == [error |-> e, copy |-> FALSE]

NoException == [ex |-> None, cause |-> None]

ErrorTypeOK ==
  /\ exception \in {NoException} \cup [ex : Value, cause : Subsegment]
  /\ refers \in [Node -> Subsegment \cup {None}]
  /\ described \in [Node -> SUBSET Error]
  /\ kind \in [Subsegment -> Kind] /\ parent \in [Subsegment -> Node \cup {None}]
  /\ open \subseteq Node /\ inHand \in [Node -> SUBSET Error]
  /\ log \in Seq([node : Node, value : Value])

ErrorInit ==
  /\ exception = NoException
  /\ refers = [n \in Node |-> None]
  /\ described = [n \in Node |-> {}]
  /\ kind = [s \in Subsegment |-> "func"]
  /\ parent = [s \in Subsegment |-> None]
  /\ open = {Root}
  /\ inHand = [n \in Node |-> {}]
  /\ log = <<>>

Thrown == UNION {inHand[n] : n \in Node} \cup {log[i].value.error : i \in DOMAIN log}

-----------------------------------------------------------------------------
(* addError *)

Known(v) == exception.ex = v

\* Slip: the shared exception is used up by the first reference to it.
SubsegmentForgets(s, v) ==
  IF Known(v)
  THEN /\ refers' = [refers EXCEPT ![s] = exception.cause]
       /\ described' = [described EXCEPT ![s] = {}]
       /\ exception' = NoException
  ELSE /\ exception' = [ex |-> v, cause |-> s]
       /\ described' = [described EXCEPT ![s] = @ \cup {v.error}]
       /\ UNCHANGED refers

\* Slip: a new error leaves the shared exception with the node of the last.
SubsegmentKeepsCause(s, v) ==
  IF Known(v)
  THEN /\ refers' = [refers EXCEPT ![s] = exception.cause]
       /\ described' = [described EXCEPT ![s] = {}]
       /\ UNCHANGED exception
  ELSE /\ exception' = [ex |-> v, cause |-> IF exception.cause = None THEN s ELSE exception.cause]
       /\ described' = [described EXCEPT ![s] = @ \cup {v.error}]
       /\ UNCHANGED refers

(* Subsegment.addError.  A reference takes the place of the whole cause.   *)
SubsegmentAddError(s, v) ==
  IF Known(v)
  THEN /\ refers' = [refers EXCEPT ![s] = exception.cause]
       /\ described' = [described EXCEPT ![s] = {}]
       /\ UNCHANGED exception
  ELSE /\ exception' = [ex |-> v, cause |-> s]
       /\ described' = [described EXCEPT ![s] = @ \cup {v.error}]
       /\ UNCHANGED refers

(* Segment.addError has no list to add to once it refers to a subsegment.  *)
SegmentThrows(v) == ~Known(v) /\ refers[Root] # None

SegmentAddError(v) ==
  /\ exception' = NoException
  /\ refers' = IF Known(v) THEN [refers EXCEPT ![Root] = exception.cause] ELSE refers
  /\ described' =
       IF Known(v) THEN [described EXCEPT ![Root] = {}]
       ELSE IF SegmentThrows(v) THEN described
       ELSE [described EXCEPT ![Root] = @ \cup {v.error}]

Entry(n, v) == [node |-> n, value |-> v]

(* addError of either class.                                               *)
AddError(n, v) ==
  /\ Len(log) < MaxCalls
  /\ log' = Append(log, Entry(n, v))
  /\ IF n = Root THEN SegmentAddError(v) ELSE SubsegmentAddError(n, v)

-----------------------------------------------------------------------------
(* Captured code. *)

Scopes == {n \in open : n = Root \/ kind[n] = "func"}

Opens(p, s, k) ==
  /\ p \in Scopes /\ parent[s] = None
  /\ parent' = [parent EXCEPT ![s] = p]
  /\ kind' = [kind EXCEPT ![s] = k]
  /\ open' = open \cup {s}
  /\ UNCHANGED <<recordVars, inHand, log>>

(* The code of n throws, or is handed, a new error.                        *)
Raises(n, e) ==
  /\ n \in Scopes /\ e \notin Thrown
  /\ inHand' = [inHand EXCEPT ![n] = @ \cup {e}]
  /\ UNCHANGED <<recordVars, kind, parent, open, log>>

(* The code of n calls addError itself.                                    *)
Records(n, e) ==
  /\ n \in Scopes /\ e \in inHand[n]
  /\ AddError(n, Original(e))
  /\ UNCHANGED programVars

(* A subsegment ends without an error.                                     *)
Returns(s) ==
  /\ s \in open \cap Subsegment
  /\ open' = open \ {s}
  /\ UNCHANGED <<recordVars, kind, parent, inHand, log>>

(* e reaches the code around s.                                            *)
PassesOn(s, e) == inHand' = [inHand EXCEPT ![parent[s]] = @ \cup {e}]

(* captureFunc, captureAsyncFunc: close(e) and throw e.                    *)
FuncThrows(s, e) ==
  /\ s \in open \cap Subsegment /\ kind[s] = "func" /\ e \in inHand[s]
  /\ AddError(s, Original(e))
  /\ open' = open \ {s}
  /\ PassesOn(s, e)
  /\ UNCHANGED <<kind, parent>>

(* The middleware of an AWS client: an error of the call, a missing        *)
(* response, or an error in describing the response closes the subsegment  *)
(* with a copy; the error itself is thrown on.                             *)
AwsThrows(s, e) ==
  /\ s \in open \cap Subsegment /\ kind[s] = "aws3" /\ e \notin Thrown
  /\ AddError(s, [error |-> e, copy |-> TRUE])
  /\ open' = open \ {s}
  /\ PassesOn(s, e)
  /\ UNCHANGED <<kind, parent>>

(* An error of the fetch, or one of the user's subsegmentCallback.         *)
FetchThrows(s, e) ==
  /\ s \in open \cap Subsegment /\ kind[s] = "fetch" /\ e \notin Thrown
  /\ AddError(s, Original(e))
  /\ open' = open \ {s}
  /\ PassesOn(s, e)
  /\ UNCHANGED <<kind, parent>>

(* An error inside the catch of either: the callback throws again, or the  *)
(* region cannot be told.  It takes the place of the first, and the        *)
(* subsegment stays open.                                                  *)
ThrowsInCatch(s, e) ==
  /\ s \in open \cap Subsegment /\ kind[s] # "func" /\ e \notin Thrown
  /\ inHand[s] = {}
  /\ inHand' = [inHand EXCEPT ![s] = {e}, ![parent[s]] = @ \cup {e}]
  /\ UNCHANGED <<recordVars, kind, parent, open, log>>

(* Segment.close(e), as middleware does with the error of a request.  When *)
(* addError throws the segment is not closed.                              *)
SegmentThrowsOn(e) ==
  /\ Root \in open /\ e \in inHand[Root]
  /\ AddError(Root, Original(e))
  /\ open' = IF SegmentThrows(Original(e)) THEN open ELSE open \ {Root}
  /\ UNCHANGED <<kind, parent, inHand>>

(* Segment.close() *)
SegmentCloses ==
  /\ Root \in open
  /\ open' = open \ {Root}
  /\ exception' = NoException
  /\ UNCHANGED <<refers, described, kind, parent, inHand, log>>

ErrorNext ==
  \/ \E s \in Subsegment :
        \/ \E p \in Node, k \in Kind : Opens(p, s, k)
        \/ Returns(s)
        \/ \E e \in Error :
              FuncThrows(s, e) \/ AwsThrows(s, e) \/ FetchThrows(s, e) \/ ThrowsInCatch(s, e)
  \/ \E n \in Node, e \in Error : Raises(n, e) \/ Records(n, e)
  \/ \E e \in Error : SegmentThrowsOn(e)
  \/ SegmentCloses

ErrorSpec == ErrorInit /\ [][ErrorNext]_errorVars

-----------------------------------------------------------------------------
(* Properties. *)

(* The nodes that have recorded more than one error, or one more than once *)
Repeated ==
  {n \in Node : \E i, j \in DOMAIN log : i # j /\ log[i].node = n /\ log[j].node = n}

(* The trace shows e at n: described there, or where n refers to.          *)
Explained(n, e) ==
  \/ e \in described[n]
  \/ refers[n] # None /\ e \in described[refers[n]]

(* What a node records can be read from the trace, however many other      *)
(* nodes fail in between, in whatever order, and overwrite the exception   *)
(* they share (addError): except where a node records twice, for then the  *)
(* second may take the place of the first.                                 *)
NothingErased ==
  /\ ErrorTypeOK
  /\ \A i \in DOMAIN log :
        LET n == log[i].node IN
        Explained(n, log[i].value.error) \/ {n, refers[n]} \cap Repeated # {}

(* Something came between two recordings of e: another error, a copy of it *)
(* by the AWS middleware, or the segment, which forgets what it refers to. *)
Interrupted(e) ==
  \E j \in DOMAIN log :
    /\ log[j].value.error = e
    /\ \E i \in 1 .. j - 1 :
          /\ log[i].value.error = e
          /\ log[j - 1].value # log[j].value \/ log[j - 1].node = Root

(* An error that travels up is described once, by the first node that has  *)
(* it, and referred to by the rest (Subsegment.addError, Segment.addError),*)
(* unless it was interrupted or the segment is closed.                     *)
DescribedOnce ==
  \A e \in Error, m, n \in Node :
    e \in described[m] \cap described[n] =>
      m = n \/ Interrupted(e) \/ Root \notin open

-----------------------------------------------------------------------------
(* The inductive invariant behind the two, in named parts. *)

(* The nodes that have recorded an error. *)
Recorded == {n \in Node : \E i \in DOMAIN log : log[i].node = n}

(* The cause of the shared exception has recorded it, and still describes  *)
(* it unless it has recorded another since.                                *)
ExceptionExplained ==
  exception # NoException =>
    /\ exception.cause \in Recorded
    /\ exception.ex.error \in described[exception.cause] \/ exception.cause \in Repeated

(* Who refers has recorded an error, and so has the node it refers to.     *)
ReferencesRecorded ==
  \A n \in Node : refers[n] # None => {n, refers[n]} \subseteq Recorded

(* What is described has been recorded. *)
DescribedRecorded ==
  \A n \in Node : \A e \in described[n] : \E i \in DOMAIN log : log[i].value.error = e

(* Until the segment is closed the shared exception is what a subsegment   *)
(* has recorded last.                                                      *)
ExceptionIsLast ==
  Root \in open /\ log # <<>> /\ log[Len(log)].node # Root =>
    exception.ex = log[Len(log)].value

IInv ==
  /\ NothingErased
  /\ DescribedOnce
  /\ ExceptionExplained
  /\ ReferencesRecorded
  /\ DescribedRecorded
  /\ ExceptionIsLast
=============================================================================
