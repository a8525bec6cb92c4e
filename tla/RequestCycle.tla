---------------------------- MODULE RequestCycle ----------------------------
(***************************************************************************)
(* The segments of a web server: mw_utils.js and the middlewares of        *)
(* Express, Restify, Koa, Hapi and Fastify.  A request opens a segment;    *)
(* the middleware closes it and records the error of a handler that fails. *)
(* Requests are served concurrently.                                       *)
(*                                                                         *)
(* Of a segment there is only what the middlewares touch: whether it is    *)
(* closed, its errors, and its counter.  SegmentTree has the rest.  What a *)
(* handler still does when its response is over is counted in `late'.      *)
(***************************************************************************)
EXTENDS Integers, FiniteSets

CONSTANTS
  Request,   \* the requests that may come
  NoRequest,
  Framework, \* the frameworks looked at
  MaxWork,   \* bound: how many subsegments a request has open at once
  MaxLate    \* bound: how often a request goes on with a segment that is over

ASSUME RequestAssumption == NoRequest \notin Request
ASSUME FrameworkAssumption ==
  Framework \subseteq {"express", "restify", "koa", "hapi", "fastify"}
ASSUME WorkAssumption == MaxWork \in Nat /\ MaxLate \in Nat

VARIABLES
  framework,  \* the one in use
  automatic,  \* isAutomaticMode()
  handler,    \* handler[r]: "none", "running", "done", "failed", or "over"
              \* when Restify has told of the failure
  answered,   \* the requests whose response is finished or whose client is gone
  didEnd,     \* those whose endSegment has run
  shared,     \* the variable `segment' of Restify's enable, for all requests
  notTraced,  \* the requests whose segment is not sampled
  closed,     \* those whose segment is closed
  counter,    \* counter[r]: the open subsegments of r's segment
  errors,     \* errors[r]: the requests whose errors are on r's segment
  sent,       \* sent[r]: how many times r's segment was sent
  told,       \* told[r]: the errors it was sent with
  inTime,     \* history: the requests whose error was in time for their segment
  late        \* late[r], history: how often r's segment, closed and with
              \* nothing open, was given work

cycleVars == <<handler, answered, didEnd, shared>>
segmentVars == <<notTraced, closed, counter, errors, sent, told>>
historyVars == <<inTime, late>>
vars == <<framework, automatic, cycleVars, segmentVars, historyVars>>

TypeOK ==
  /\ framework \in Framework /\ automatic \in BOOLEAN
  /\ handler \in [Request -> {"none", "running", "done", "failed", "over"}]
  /\ didEnd \subseteq answered /\ answered \subseteq Request
  /\ shared \in Request \cup {NoRequest} /\ (shared # NoRequest => framework = "restify")
  /\ notTraced \subseteq Request /\ closed \subseteq Request
  /\ counter \in [Request -> 0..MaxWork] /\ late \in [Request -> 0..MaxLate]
  /\ \A r \in Request : told[r] \subseteq errors[r] /\ errors[r] \subseteq Request
  /\ \A r \in Request : handler[r] = "none" => sent[r] = 0 /\ r \notin answered \cup closed

Init ==
  /\ framework \in Framework
  /\ automatic \in BOOLEAN
  /\ handler = [r \in Request |-> "none"]
  /\ answered = {} /\ didEnd = {} /\ shared = NoRequest
  /\ notTraced = {} /\ closed = {} /\ inTime = {}
  /\ counter = [r \in Request |-> 0] /\ late = [r \in Request |-> 0]
  /\ errors = [r \in Request |-> {}]
  /\ sent = [r \in Request |-> 0]
  /\ told = [r \in Request |-> {}]

-----------------------------------------------------------------------------
(* The segment. *)

\* Slip: a closed segment is not sent by the last of its subsegments.
LastSendsNothing(r) == FALSE

\* Slip: a segment is sent when it is closed.
AnyCounter(r) == TRUE

(* Nothing of the segment is open any more. *)
NothingOpen(r) == counter[r] <= 0

(* decrementCounter of a closed segment. *)
LastOfClosed(r) == counter'[r] <= 0 /\ r \in closed

(* Segment.flush. *)
Flush(r) ==
  IF r \in notTraced
    THEN UNCHANGED <<sent, told>>
    ELSE /\ sent' = [sent EXCEPT ![r] = @ + 1]
         /\ told' = [told EXCEPT ![r] = @ \cup errors'[r]]

(* Segment.close, of a segment that may be closed already. *)
Close(r, errs) ==
  /\ closed' = closed \cup {r}
  /\ errors' = [errors EXCEPT ![r] = @ \cup errs]
  /\ IF NothingOpen(r) THEN Flush(r) ELSE UNCHANGED <<sent, told>>
  /\ UNCHANGED <<notTraced, counter>>

AddError(r, e) ==
  /\ errors' = [errors EXCEPT ![r] = @ \cup {e}]
  /\ UNCHANGED <<notTraced, closed, counter, sent, told>>

(* The segment is closed and has nothing open: what is still added to it   *)
(* is late.                                                                *)
Finished(r) == r \in closed /\ NothingOpen(r)

(* What the handler of r does, and what it leaves behind, opens and closes *)
(* subsegments.  addSubsegment takes them of a closed segment as well.     *)
WorkStarts(r) ==
  /\ handler[r] # "none" /\ counter[r] < MaxWork
  /\ Finished(r) => late[r] < MaxLate
  /\ counter' = [counter EXCEPT ![r] = @ + 1]
  /\ late' = IF Finished(r) THEN [late EXCEPT ![r] = @ + 1] ELSE late
  /\ UNCHANGED <<framework, automatic, cycleVars, notTraced, closed, errors, sent, told, inTime>>

WorkEnds(r) ==
  /\ counter[r] > 0
  /\ counter' = [counter EXCEPT ![r] = @ - 1]
  /\ errors' = errors
  /\ IF LastOfClosed(r) THEN Flush(r) ELSE UNCHANGED <<sent, told>>
  /\ UNCHANGED <<framework, automatic, cycleVars, notTraced, closed, historyVars>>

-----------------------------------------------------------------------------
(* The cycle. *)

(* resolveSampling: the decision of the header, else the sampler's. *)
IsSampled(header, sampler) == header = "1" \/ (header # "0" /\ sampler)

(* The variable that Restify's `open' assigns. *)
Variable(r) == IF framework = "restify" THEN r ELSE shared

(* A request opens its segment, and with Restify takes over the variable.  *)
Arrives(r, header, sampler) ==
  /\ handler[r] = "none"
  /\ handler' = [handler EXCEPT ![r] = "running"]
  /\ notTraced' = IF IsSampled(header, sampler) THEN notTraced ELSE notTraced \cup {r}
  /\ shared' = Variable(r)
  /\ UNCHANGED <<framework, automatic, answered, didEnd, closed, counter, errors, sent, told, historyVars>>

(* The handler is done, and the framework is about to answer. *)
HandlerDone(r) ==
  /\ framework # "koa"
  /\ handler[r] = "running"
  /\ handler' = [handler EXCEPT ![r] = "done"]
  /\ UNCHANGED <<framework, automatic, answered, didEnd, shared, segmentVars, historyVars>>

\* Slip: the failure is not passed on to close.
ClosesWithout(r, fails) == Close(r, {})

(* What Koa's _processResponse closes the segment with. *)
ClosesWith(r, fails) == Close(r, IF fails THEN {r} ELSE {})

(* request.segment, which Fastify's onRequest sets in manual mode only. *)
SegmentOfRequest == framework = "fastify" => ~automatic

(* closeSegment of Express takes the sub/segment of the context in         *)
(* automatic mode (resolveSegment): that of the request, one of its        *)
(* subsegments, or none.  The others take the segment of the request.      *)
OnOwnSegment == framework \notin {"restify", "koa"} /\ SegmentOfRequest
OnAnother == framework = "express" /\ automatic

(* The handler has failed: closeSegment of Express, handleError of Hapi,   *)
(* onError of Fastify.  Restify tells of it later.                         *)
HandlerFails(r) ==
  /\ framework # "koa"
  /\ handler[r] = "running"
  /\ handler' = [handler EXCEPT ![r] = "failed"]
  /\ \/ /\ OnOwnSegment
        /\ AddError(r, r)
        /\ inTime' = IF r \in answered THEN inTime ELSE inTime \cup {r}
     \/ /\ OnAnother \/ ~OnOwnSegment
        /\ UNCHANGED <<segmentVars, inTime>>
  /\ UNCHANGED <<framework, automatic, answered, didEnd, shared, late>>

(* `finish', or `close' when the client goes away before. *)
Answers(r) ==
  /\ r \notin answered
  /\ handler[r] # "none"
  /\ answered' = answered \cup {r}
  /\ UNCHANGED <<framework, automatic, handler, didEnd, shared, segmentVars, historyVars>>

\* Slip: both events end the segment.
EndsAgain(r) == TRUE

(* didEnd, for which the second event is one too many. *)
FirstEvent(r) == r \notin didEnd

(* endSegment, on `finish' and again on `close' (traceRequestResponseCycle). *)
EndSegment(r) ==
  /\ framework \in {"express", "restify", "fastify"}
  /\ r \in answered /\ FirstEvent(r)
  /\ didEnd' = didEnd \cup {r}
  /\ Close(r, {})
  /\ UNCHANGED <<framework, automatic, handler, answered, shared, historyVars>>

(* Koa: _processResponse, when what comes after the middleware has settled. *)
ProcessResponse(r, fails) ==
  /\ framework = "koa"
  /\ handler[r] = "running"
  /\ handler' = [handler EXCEPT ![r] = IF fails THEN "failed" ELSE "done"]
  /\ inTime' = IF fails THEN inTime \cup {r} ELSE inTime
  /\ ClosesWith(r, fails)
  /\ UNCHANGED <<framework, automatic, answered, didEnd, shared, late>>

(* handleResponse of Hapi, onResponse of Fastify: unless isClosed().  Hapi *)
(* tells of its response once the handler is through.                      *)
OnResponse(r) ==
  /\ framework \in {"hapi", "fastify"} /\ SegmentOfRequest
  /\ r \in answered /\ r \notin closed
  /\ framework = "hapi" => handler[r] # "running"
  /\ Close(r, {})
  /\ UNCHANGED <<framework, automatic, cycleVars, historyVars>>

(* Restify's error is in time if the variable still has the request's own  *)
(* segment, and that was not sent.                                         *)
RestifyTells(r) == inTime' = IF shared = r /\ sent[r] = 0 THEN inTime \cup {r} ELSE inTime

(* Restify's `uncaughtException' closes the segment of the variable. *)
UncaughtException(r) ==
  /\ framework = "restify" /\ handler[r] = "failed"
  /\ r \notin answered
  /\ r \notin UNION {errors[q] : q \in Request}
  /\ Close(shared, {r}) /\ RestifyTells(r)
  /\ UNCHANGED <<framework, automatic, cycleVars, late>>

(* Restify's `after' puts the error on the segment of the variable. *)
After(r) ==
  /\ framework = "restify" /\ handler[r] = "failed"
  /\ r \in answered
  /\ AddError(shared, r) /\ RestifyTells(r)
  /\ handler' = [handler EXCEPT ![r] = "over"]
  /\ UNCHANGED <<framework, automatic, answered, didEnd, shared, late>>

Next ==
  \E r \in Request :
    \/ \E header \in {"0", "1", "none"}, sampler \in BOOLEAN : Arrives(r, header, sampler)
    \/ HandlerDone(r) \/ HandlerFails(r) \/ Answers(r)
    \/ WorkStarts(r) \/ WorkEnds(r)
    \/ EndSegment(r) \/ OnResponse(r)
    \/ \E fails \in BOOLEAN : ProcessResponse(r, fails)
    \/ UncaughtException(r) \/ After(r)

Spec == Init /\ [][Next]_vars

-----------------------------------------------------------------------------
(* Properties. *)

(* Nothing is left that an event would still do for r. *)
Served(r) ==
  /\ handler[r] \in {"done", "failed", "over"} /\ r \in answered /\ counter[r] = 0
  /\ framework \in {"express", "restify", "fastify"} => r \in didEnd
  /\ framework = "hapi" => r \in closed

(* The segment of a sampled request that was served has been sent,         *)
(* whichever event came first and whatever still ran when the response was *)
(* over (traceRequestResponseCycle, Segment.close, decrementCounter).      *)
ServedIsSent == TypeOK /\ \A r \in Request : Served(r) => r \in notTraced \/ sent[r] > 0

(* A segment is sent only when its response is over or, with Koa, its      *)
(* handler is, and nothing of it is open; and so it is sent again after    *)
(* late work.  Restify's uncaughtException may close any segment at any    *)
(* time, with the error it records there.                                  *)
SentOnlyWhenOver ==
  [][\A r \in Request : sent'[r] > sent[r] =>
       /\ counter'[r] = 0
       /\ \/ r \in answered
          \/ framework = "koa" /\ handler'[r] # "running"
          \/ framework = "restify" /\ errors'[r] # {}]_vars

(* A segment is sent once, although two events end a response (didEnd,     *)
(* isClosed); and once more each time that work was added when it had been *)
(* closed with nothing open, for each error with Restify, and for          *)
(* onResponse of Fastify in manual mode, which endSegment may follow.      *)
SentOnceBut ==
  \A r \in Request :
    sent[r] <= 1 + late[r]
      + (IF framework = "restify" THEN Cardinality(errors[r]) ELSE 0)
      + (IF framework = "fastify" /\ ~automatic THEN 1 ELSE 0)

(* The error that is put on the segment of the request that failed, before *)
(* the response is over, is in what is sent of it; with Restify, before it *)
(* is sent (closeSegment, handleError, onError, _processResponse,          *)
(* uncaughtError, handledError).  It may not get there at all: in          *)
(* automatic mode, closeSegment may find another sub/segment or none, and  *)
(* onError none; with Restify it may go to the segment of another request. *)
ErrorIsTold == \A r \in inTime \ notTraced : Served(r) => r \in told[r]

-----------------------------------------------------------------------------
(* What the documentation says and the code does not do. *)

(* packages/restify/README.md: error capturing will be done automatically. *)
(* An error that is recorded is recorded for the request that failed.      *)
ErrorsApart == \A r \in Request : errors[r] \subseteq {r}
=============================================================================
