# TLA+ models of the AWS X-Ray SDK for Node.js

These modules model the parts of the SDK whose correctness depends on the order
in which things happen: the tree of subsegments and its streaming, the segment
of AWS Lambda, sampling by the service's rules and by local ones, the calls the
SDK instruments, the life of a request, the context code runs in, how errors are
recorded, how documents leave the process, and the metadata of the host. TLC
checks them on small instances, with liveness where timers and sockets justify
fairness. Every safety property the passing runs check, and the safety of both
refinements, is also proved with TLAPS for every value of the constants.

Paths are relative to `src/packages/core/lib` unless they start with `src/`.

## The system

The SDK runs in the process of the program it traces, on one JavaScript thread.
Functions run to completion; everything else (responses, timers, query events,
user callbacks, promises) is a callback that runs later, in an order nobody
fixes. So every synchronous function is one atomic step of a model, and every
callback is a step of its own.

| component | state | operations | interacts with |
|---|---|---|---|
| segment tree (`segments/segment.js`, `segments/attributes/subsegment.js`, `segments/segment_utils.js`) | `parent`, `segment`, `subsegments`, `in_progress`, `counter`, `notTraced` of each node; the streaming threshold | `addSubsegment` and its variants, `close`, `incrementCounter`, `decrementCounter`, `streamSubsegments`, `flush`, `removeSubsegment` | hands documents to the emitter; used by everything below |
| Lambda facade (`env/aws_lambda.js`, `LambdaUtils` in `utils.js`) | trace id, decision and `noOp` of the facade, the header taken over last | `init`, `resolveLambdaTraceData`, `reset`, `populateTraceData` | replaces the segment of the tree; asked by `contextUtils.getSegment` |
| centralized sampling (`middleware/sampling/*`) | cache of rules with its time stamp; per rule a reservoir and counts | `shouldSample`, rule poll, target poll, their answers | X-Ray service through the daemon; asked by the middleware |
| local sampling (`local_sampler.js`, `local_reservoir.js`, `Utils.wildcardMatch`) | the rules; per rule a count for this second | `shouldSample`, `setLocalRules` | fallback of the former |
| arrival of a request (`middleware/mw_utils.js`) | the sampler, dynamic naming and its host pattern | `resolveName`, `resolveSampling`, `enableDynamicNaming`, `disableCentralizedSampling` | both samplers |
| request cycle (`middleware/mw_utils.js`; Express, Restify, Koa, Hapi, Fastify) | the segment of each request, `didEnd`; one variable in Restify | open, record the error, close on `finish`, `close` or a hook | the framework's events; the tree |
| instrumented calls (`patchers/*`, `capture.js`, MySQL, Postgres, fetch) | the subsegment of each call in flight | start a call, its events, presign, wrap a callback and run it | tree, context |
| error capture (`addError`, `captured_exception.js`) | `cause`, the shared `segment.exception` | `addError` | tree |
| context (`context_utils.js`, `promise_p.js`) | the segment of each asynchronous context | `getSegment`, `setSegment`, `resolveSegment`, binding of promises | everything that instruments |
| emitter (`segment_emitter.js`, `daemon_config.js`) | a UDP socket for good, or a batch under way and what is pending; the daemon's address | `send`, `batchSendData`, `disableReusableSocket`, `setDaemonAddress` | tree; the socket's callbacks; `atomic-batcher` |
| metadata plugins (`segments/plugins/*`, `aws-xray.js`, `segment_utils.js`) | one object of data per call of `config`; the SDK's data, shared by segments | token and metadata requests with timeout and retry; `setPluginData`, `setSDKData` | segments made later; `setMatchedSamplingRule` |
| data (`aws.js`, `remote_request_data.js`, `incoming_request_data.js`, `sql_data.js`, `call_capturer.js`, whitelists), ids, logger, packaging | none that behaviour depends on | copies and formats | |

What is hard, in one list (each with its line in `PROJECT.json`, `hazards`):

* a child that is added, or closes, after its parent was closed, streamed or
  sent; trees built, and perhaps closed, before they are added; a second close;
* a counter that is raised in one callback and lowered in another, which may
  throw, come twice or never come;
* an open subsegment that crosses from one Lambda invocation to the next;
* answers of the sampling service that come late, out of order or never, while
  rules expire, quotas run out, and rules leave the cache and come back;
* several events that end one response, errors and work that come after it, and
  state shared between concurrent requests;
* the exception that all nodes of a segment share while several of them fail;
* promises whose continuations run inside the code that settles them, and a
  namespace that is destroyed under running code;
* a batch that is sent over a socket of its own while further documents and new
  addresses arrive;
* requests for metadata that time out, are aborted and so end twice, or break
  off and never end, while segments read what has arrived so far.

What makes each component right:

* tree: counters are exact (less what a closed tree brought in open), so that
  the segment is sent exactly when its last node is closed; streaming loses nothing, repeats nothing and sends nothing
  that is open; nothing unsampled is sent;
* facade: what one invocation awaits is sent, and with that invocation's trace;
* sampling: no decision by outdated rules, quotas and borrowing are respected
  per second across refreshes, and each request is reported once;
* calls: every count is given back, whatever the events do;
* request cycle: each sampled request is sent when it is over, with its own
  error, and again only for a cause: work added after that, an error of Restify,
  the second hook of Fastify;
* local sampling: the first matching rule decides and its target holds in every
  second; naming: a name that was asked for;
* context: code runs in its own context and sees segments of its own request;
* errors: what is recorded is not erased by other nodes, and described once;
* emitter: one temporary socket at a time, order kept, nothing waits forever;
* plugins: EC2 answers, and once; a segment has data of one configuration.

## Modules

| module | what it is |
|---|---|
| `TraceDelivery` | abstract: nodes start and finish; each is delivered at most once and only when done, and the last to finish leaves nothing traced undelivered |
| `SegmentTree` | the tree, with structured programs (add to what is open, close once, in any order) as its next-state relation |
| `SegmentTreeLoose` | the same operations under programs the API accepts beyond those: late children, prebuilt trees, open or closed (a second close is in `InstrumentedCalls`) |
| `LambdaFacade` | extends `SegmentTree` (with `Facade = TRUE`): invocations and their headers |
| `InstrumentedCalls` | extends `SegmentTree`: patched calls and captured callbacks as the program above the tree |
| `RequestCycle` | the five middlewares; of a segment only what they touch |
| `CentralSampling` | sampler, cache, reservoirs, both pollers, and the service they ask |
| `Wildcard` | `wildcardMatch` as recursive functions, and the reference it is compared with |
| `ArrivalDecision` | extends `Wildcard`: what is decided when a request arrives, with the local sampler and its reservoirs |
| `TraceContext` | contexts, captured functions and promises: which segment is the current one |
| `ErrorCapture` | `addError` and the code that closes with an error and throws it on |
| `Outbox` | abstract: documents leave at most once, and all leave unless refused or the emitter has halted |
| `SegmentEmitter` | both kinds of socket, batches, and the address of the daemon; implements `Outbox` |
| `SegmentMetadata` | `AWSXRay.config`, the plugins and what segments take over |
| `SegmentTreeProofs` | theorems about `SegmentTree`, `SegmentTreeLoose` and `LambdaFacade` |
| `InstrumentedCallsProofs`, `SegmentEmitterProofs`, `SegmentMetadataProofs`, `CentralSamplingProofs` | theorems about the module of that name |
| `RequestCycleProofs` | theorems about `RequestCycle`, `ArrivalDecision` and `Wildcard` |
| `CaptureProofs` | theorems about `TraceContext` and `ErrorCapture` |
| `SumTheorems` | sums over finite sets and least elements, for the proofs that count; about no module |

`MC*` modules add what TLC needs to be told (symmetry, a set of header records,
the versions of the rules). `\* Slip:` comments mark variants of a definition
with a plausible mistake; they are in no specification, and each serves to show
that some property notices that mistake.

### SegmentTree

| variable | code |
|---|---|
| `live` | the objects constructed |
| `up[n]` | the nodes met when following `parent` from n |
| `withSegment` | the subsegments whose `segment` is set |
| `kept` | those in the `subsegments` array of their parent |
| `open` | those with `in_progress` |
| `counter[n]`, `notTraced` | the fields of that name |
| `sent[n]` | in how many documents n has been handed to `SegmentEmitter.send` |

`addNewSubsegment` is `AddNewSubsegment`, which is `Attach` on a fresh node.
`Attach` contains the whole call: the counting up to the segment, and the loop
of `Segment.incrementCounter` that streams what is complete when the threshold
is passed. A subsegment counts its new child before it pushes it into its array,
a segment afterwards; the model has that order, because it decides what the
streaming of the same call can see. `CloseSubsegment` likewise contains
`decrementCounter` up the chain, the flush of a closed segment, and the
streaming that follows. Recursion over the tree is replaced by sets:
`Within(a, k, n)` is what one reaches from n through the arrays, and
`Streamed` the topmost complete nodes in it, for which `streamSubsegments`
answers true. No operator is recursive, so that the module can be proved about.

Annotations, metadata, `http`, SQL data, flags and times are left out: nothing
of the above looks at them.

### SegmentTreeLoose

`AddBuilt` is `addSubsegment` with a tree built before. If its top is open, the
counters above rise by one and by its counter; if it is closed (`end_time` is
set, `segment.js:254`, `subsegment.js:79`), nothing is counted, neither the top
nor what is still open below it. The close of the latter is counted all the
same, so that the counters above are too low by one each from then on. `missed`
remembers whom a counter has missed, `tooLate` what came closed to a segment
that was over and that nothing will send again.

### LambdaFacade

`Invoke` is the Lambda runtime's: a new header, whatever is still open stays
open. `Resolve` is `resolveLambdaTraceData` with `reset` and
`populateTraceData`. `trace`, `prev` and `noOp` are the fields; a trace id is
the number of the invocation it came from, `InvalidTrace` or `NewTrace` (made up
for a malformed root). A header is a record of what the code tells apart:
root valid, malformed or missing, parent present or not, decision 1, 0 or
missing. `Facade = TRUE` makes the tree's counting and flushing skip the root,
as the silent functions of the facade do, and Lambda's threshold is 0
(`FacadeOnly`). `asked` says that the program has asked for the facade in this
invocation (`contextUtils.getSegment`), which is when the header is read. Every
header is distinct, as trace ids are; a missing header may recur.

### CentralSampling

One step of the sampler is one `shouldSample`. A poll sends a call and puts it
in `fetches` or `reports`; the service reads it in a step of its own; the answer
arrives in another, from any place in the sequence, or fails. So calls overlap,
overtake each other and are lost. Which rule matches a request, the fixed
rate and its random number, the jitter and both poll intervals are choices.
Matching never reads state, so the sampler may take any cached rule. Of the
three counts of a rule there is `requestCount`; what was borrowed and sampled is
only ever reported and reset with it.

`dateToEpoch` divides what it is given by a thousand and does not round. So the
model keeps a date as it is given and multiplies the second it is compared with
(`NotBefore`, `After`). Whether the service gives milliseconds or seconds is
chosen at the start (`inSeconds`): the code is written for the former, the
fixture of `test/unit/sampling/service_connector.test.js:272` has the latter.

The histories are `untold` (what was decided and not told of), `granted` (the
last grant, until when it was meant, and whether the rule has been in the cache
ever since), `spent` (what a rule took and borrowed in this second, whatever
becomes of its reservoir) and `left` (how often it left the cache within this
second). A rule that leaves the cache and is brought back by an older answer has
a new reservoir; the histories are not reset with it.

### InstrumentedCalls

`Calls` is the start of any patched call; `kind` says which events may end it,
and is forgotten when none can come any more.
`Completes`, `Responds`, `ResponseEnds`, `RequestErrs`, `QueryEnds`, `QueryErrs`
are the listeners. No step is forced to happen: a response that is not read
never ends. `RequestErrs` may follow `ResponseEnds` and `QueryEnds` may follow
`QueryErrs`, as the listeners allow. `Presigns` is `beforePresign`, whole.
`Wraps` is the first half of `captureCallbackFunc`; `CallbackStarts`,
`CallbackEnds` and `CallbackReturns` are the returned function, split where the
user's code runs, and while it runs no other callback does (`running`).

### RequestCycle

`framework` and `automatic` are chosen at the start and fixed. A request
`Arrives`, works (`WorkStarts`, `WorkEnds` move its counter), its handler
finishes or fails, and `Answers` is the first of `finish` and `close`. Work may
go on after all of that: `addSubsegment` takes a subsegment of a closed segment
too, and when it closes `decrementCounter` sends the segment again; `late[r]`
counts how often. The rest are the SDK's listeners and hooks: `HandlerFails`
(`closeSegment` of Express, `handleError` of Hapi, `onError` of Fastify),
`EndSegment` (Express, Restify, Fastify), `ProcessResponse` (Koa), `OnResponse`
(Hapi, Fastify), `UncaughtException` and `After` (Restify).

Where the error of a handler goes: in automatic mode `closeSegment` takes the
sub/segment of the context (`resolveSegment`), which is the request's segment,
one of its subsegments, or none, so that `HandlerFails` has both outcomes, with
the error on the segment and without. `onError` finds none in automatic mode,
where Fastify's `request.segment` stays unset. Restify records it on what its
variable holds. `inTime` are the requests whose error got to their own segment
before the response was over, with Restify before the segment was sent. Hapi's
contexts, names of segments and headers are left out.

### ArrivalDecision and Wildcard

A request is a record of host, method, path and what the trace header says of
sampling. `Arrive` is `resolveName` and `resolveSampling` of one request: the
header decides, or the service's rules (here a choice, in `CentralSampling`
modelled), or the local ones. `window[i]` is `thisSecond` and `usedThisSecond`
of the reservoir of rule i; time goes in halves of a second because
`isSampled` rounds it. `Wildcard` has the shortcuts of `wildcardMatch` and its
table, row by row, as recursive functions; strings are sequences of letters.
`FirstMatchingRule` compares with `Matches`, the meaning of a pattern.
`RefuseDynamicNaming` is a call of `enableDynamicNaming` with a pattern that is no
string, which throws after it has set `dynamicNaming`; `SetSamplingRules` makes
new reservoirs.

### TraceContext

`stack` is the code that runs, from the event loop up; each `Code` has the
context it entered and, as history, the context of the function it is written
in and its request. A context is numbered, and so is the segment it was made
for. `Active` is what `cls-hooked` answers: the last context entered that is of
the namespace in force; `GetSegment` is `getSegment`. `waiting` are
continuations: a native promise carries its context, a foreign one runs where
it is settled unless `promise_p.js` had bound it. `strayed` marks code that ran
as an unbound continuation of a foreign promise, or was called by such.

### ErrorCapture

`exception` is `segment.exception`, an error and the node that described it;
`refers[n]` and `described[n]` are `cause.id` and `cause.exceptions`. `inHand[n]`
are the errors the code of n has got to see, and so what it may record and throw
on. An AWS SDK v3 call closes with a copy of the error, a `Value` that is not
the error itself. `log` is the history of the calls of `addError`, which the
bound `MaxCalls` limits.

### SegmentEmitter and Outbox

A `Work` is a document and the address that was in force when it was handed
over. `flying` are the sends of the shared socket, reported back in any order;
`batch` is what is left of the batch being sent, its head under way; `pending`
and `running` are `atomic-batcher`'s (external, from how `segment_emitter.js`
uses it). `NoPort` are addresses with a port no socket takes, for which `send`
throws: the shared socket refuses the document, a batch in the middle of its
work reports nothing back any more (`Halted`). The refinement maps what is in
flight, in the batch or pending to `waiting`.

### SegmentMetadata

`data[c]` is the object of the call c of `config`; `token` and `request` are the
states of the HTTP requests. A request answers, fails, or is idle for a second
and is aborted; an aborted one fails as well, unless its response had begun.
A response that has begun may also break off (`TokenBreaksOff`, `BreaksOff`):
only its data and its end are listened to, so nobody is told. So the token request may be answered twice and then makes two metadata requests
(`Attempt`). A retry is one timer. `xray[s]` names the object `aws.xray` of s,
the SDK's, shared by all, until `setMatchedSamplingRule` gives s its own.

## Runs

Fairness is assumed where the runtime gives it, and nowhere else:

* `SegmentEmitter`: a datagram socket reports every send back, so `SharedSent`
  of each send under way and `BatchSent` are weakly fair;
* `SegmentMetadata`: `setTimeout` of a second on each request, and the timer of
  a retry, so `TokenEvent` and `RequestEvent` are weakly fair.

What a program does with its calls, handlers and promises, and what the
sampling service does, is under no fairness: those specifications state safety
only. Where programs end (no subsegments left, the clock at its bound, every
document handed over), deadlock is not checked; nothing in the code waits on a
lock. `ArrivalDecision` and `TraceContext` never end, and there it is.

| run | instance | shows |
|---|---|---|
| `segment_tree` | 5 subsegments, threshold 1 | counters exact; nothing lost, repeated, sent open or pruned unsent; streaming on breach leaves nothing complete behind; `TraceDelivery` is implemented; `IInv` holds |
| `segment_tree_loose` | 4 subsegments, threshold 1 | with late children and prebuilt trees, open and closed, counters are off by exactly what they missed; what is lost is explained (`LossExplained`) |
| `lambda_facade` | 3 subsegments, 2 invocations, every kind of header (18) and none | what is awaited is sent, with its own trace; nothing with the invalid id or against its decision |
| `central_sampling` | one rule replaced by another, 3 seconds, 2 fetches and 1 report at once, times in milliseconds or in seconds | freshness, expiry, borrowing, quotas, reporting once |
| `instrumented_calls` | 3 subsegments, 1 callback, threshold 0 | every counter is accounted for; the segment waits; a wrapped callback loses nothing; a presigned call is silent; repeats are explained |
| `request_cycle` | 2 requests, each with up to 2 subsegments open and late once, 5 frameworks, 2 modes | served requests are sent, when over, with the error that was in time, as often as there are causes |
| `arrival_decision` | every host pattern of up to 3 characters, one configuration of two rules, times to 2 seconds in halves | the first matching rule in the sense of the reference decides; targets hold per second; names are those asked for |
| `trace_context` | 3 contexts, 3 calls deep, 1 waiting continuation, 2 namespaces | code is in its own context and sees segments of its own request |
| `error_capture` | 3 subsegments, 2 errors, 4 calls of `addError` | nothing is erased by another node; described once |
| `segment_emitter` | 4 documents, 2 addresses, one without a usable port | one socket per batch, order, `Outbox` with its liveness |
| `segment_metadata` | 2 calls of `config`, 2 retries, 2 segments, 2 rules | EC2 answers, and once; segments keep their own data |
| `restify_errors_mixed` | as `request_cycle` | a violation: the README of the Restify package says errors are captured automatically, and the error of one request goes to another |

Why the bounds are enough. Five subsegments with threshold 1 give every shape in
which streaming passes over an open node to a complete one below it, breaches
twice, and still has something left for the segment. Three do for the modules
that put a program above the tree, since those hazards need a parent, a child
and one more to trigger streaming. Threshold 0 is Lambda's own value, and the
one that streams most in `InstrumentedCalls`. Two invocations show anything that
passes from one to the next, two requests anything that passes between
requests; a segment that is late once has been sent and is sent again. For sampling, a cache lifetime of one second stands for an hour and a
lease of one second for the service's: three seconds of clock let the cache and
a quota expire, and two fetches are the fewest that overtake each other, which
is what brings a rule back that had left. Only the rule that may come back
decides requests, twice, so that it can borrow twice in a second; the other
shares nothing with it but the cache. Time starts at 1000, so that a date in
seconds, divided by 1000, is before any second of the run, as it is for all of
1970 and after (`TimeAssumption`). Four documents are one
in a batch, two that collect meanwhile, and one that comes when the socket of
the batch is about to close. Three contexts are two requests and a captured
function, or one request with one function in another; one waiting continuation
suffices, since those that wait do not see each other, and two namespaces are
one change of mode and back. Three subsegments that fail with two errors
overwrite `segment.exception` between two recordings of the same error. Two
retries are one that is followed by another and one that is the last. Patterns
of three characters hold a wildcard between two others. Half a second is the
step in which rounding can differ from truncation. Subsegments, requests and
errors are interchangeable, which the symmetry sets use.

Exceptions are part of what is stated. Properties say what the code achieves,
and for whom: `RepeatsExplained` excludes second closes and additions after the
segment was sent; `CounterLessMissed` subtracts what a closed tree brought in
open, and `LossExplained` lists what is lost; `SentOnceBut` counts late work,
the errors of Restify and the second hook of Fastify in manual mode;
`ErrorIsTold` speaks of errors put on the request's own segment in time;
`TakesWithinPositiveGrant` excludes a quota of 0 and a rule that left the cache
within the second, `BorrowOnlyWithoutGrant` a rule that left it since the grant,
and both say apart what holds of times in seconds; `OneBorrowASecond` allows one
more for each time the rule left within the second; `NewerRulesAreFetched`
excludes changes in the very millisecond in which the second of the cache's
stamp begins, and says that times in seconds lead to no fetch;
`InItsOwnContext` excludes unbound continuations of foreign promises,
`DescribedOnce` what came between two recordings of an error, `NothingErased` a
node that records twice, `EventuallyAnswered` a response, to the token request
or to one for metadata, that does not end after it has begun, and
`ImplementsOutbox` a batch that meets an address without a usable port.

### Divergences seen without a run of their own

Where what the code does is in a model, the property's exception states it.

Tree and facade:

* `segment.js:355` compares the threshold with open subsegments, whereas
  the README of the core package speaks of the number of subsegments: closed
  ones below an open parent do not count.
* A child added to a subsegment that was streamed is lost (`subsegment.js:304`);
  `LossExplained` states it.
* A closed tree is added without being counted (`segment.js:254`), and what is
  open in it is discounted when it closes, though the comment at
  `segment.js:348` calls the counter that of open subsegments;
  `CounterLessMissed` states it. Added to a segment that was sent, it is in no
  document.
* `streamSubsegments` is documented to answer true for what was streamed in its
  entirety (`subsegment.js:370`), and what it answers true for is pruned; a
  subsegment built with its children before it is added may be pruned with
  children that were not in any document (`subsegment.js:375`).
* On Lambda, a subsegment closed before its last child is never sent, unless it
  is nested in one that closes later (`subsegment.js:304`); `AwaitedIsSent`
  excludes it.
* The comment at `aws_lambda.js:89` says that trace data is reset whenever a new
  header is read; `reset` (`aws_lambda.js:74`) keeps `noOp`.
* A subsegment made with `addNewSubsegmentWithoutSampling` under a sampled
  segment is not streamed, but is in the document when the segment is sent whole
  (`segment.js:412`); `TraceDelivery` permits it.
* Calls are closed twice when an error follows the end (`http_p.js:147`), which
  lowers a counter the comment at `segment.js:348` calls that of open
  subsegments; `RepeatsExplained` and `CounterAccounts` have it.
* A subsegment that records the error it has described itself refers to itself,
  and its list is gone (`subsegment.js:219`).

Sampling:

* `dateToEpoch` takes milliseconds (`service_connector.js:183`). Given seconds,
  as the fixture of `test/unit/sampling/service_connector.test.js:272` has them,
  a quota is never in force, whereas the comment at `reservoir.js:22` says
  "Don't borrow if the quota is available and fresh", and rules that changed are
  not fetched out of turn; the properties say so for `inSeconds`.
* A rule that leaves the cache and comes back borrows again in the same second
  (`rule_cache.js:40`); `OneBorrowASecond` states it.
* `loadNewQuota` ignores a quota of 0 (`reservoir.js:52`).
* `getJitter` gives milliseconds where its comment says seconds
  (`rule_poller.js:66`).
* A request without a host is matched by the first rule, whatever its method
  and path, where the comment promises an implicit match of the host
  (`local_sampler.js:32`).
* A rule whose host is no string is accepted (`local_sampler.js:134`).

Requests:

* In Fastify's manual mode `endSegment` is to be called once
  (`mw_utils.js:187`), and a segment may be sent twice.
* A handler that goes on after the client has left, or what it leaves behind,
  has the segment sent again for each subsegment that is last to close
  (`segment.js:376`); `SentOnceBut` counts it.
* In automatic mode `closeSegment` may put the error of an Express handler on a
  subsegment, perhaps one that was streamed, or nowhere
  (`src/packages/express/lib/express_mw.js:63`).
* With Restify an error is added after the response (`restify_mw.js:76`), and is
  lost unless the segment still waits.
* In Fastify's automatic mode `request.segment` is not set, and the hook records
  no error (`src/sdk_contrib/fastify/lib/hooks/on-error.hook.js:9`).
* A call of `enableDynamicNaming` that is refused enables it (`mw_utils.js:33`);
  `NameIsAllowed` states it.
* A request that asks for the decision fails under a response whose header is no
  function, as Koa's is (`mw_utils.js:109`).

Host and network:

* `plugin.js:7` speaks of retries for requests that time out; only answers of
  500 and above are retried.
* `aws-xray.js:125` expects addresses of the forms `x.x.x.x` and `:yyyy`, both
  refused by `processAddress` (`daemon_config.js`).
* A failed request for the token falls back to the older protocol
  (`ec2_plugin.js:40`); one whose response breaks off after it began does not
  (`ec2_plugin.js:66`), and the plugin never answers.
* A configuration file of Elastic Beanstalk that is not JSON throws in a
  callback (`elastic_beanstalk_plugin.js:18`).
* A region that is rejected while an AWS SDK v3 error is handled leaves the
  subsegment open (`aws3_p.ts:174`).

## Proofs

Each theorem holds for every value of the constants that meets the named
assumptions of its module, and, where that is said, one hypothesis more. The
inductive invariants that stand in the modules (`IInv` of the tree and of error
capture, `LooseInv`, `LambdaInv`, `CallsInv`, `ArrivalInv`), and `WithinBounds`
and `Accounted` of the sampling proofs, were checked with TLC on the instances
of the runs before they were proved.

### The tree

`SegmentTreeProofs` proves, for every finite `Subsegment` and every `Threshold`,
of a segment that is not Lambda's facade (`~Facade`):

| theorem | of |
|---|---|
| `TreeInvariant`, `CountersAreExact`, `NothingIsLost` | `IInv` and `NothingLost` of the run `segment_tree`, and `CounterExact` |
| `SentIsComplete` | `OnlyCompleteIsSent` |
| `BreachLeavesNothing` | `BreachSendsCompleted` |
| `TreeImplementsDelivery` | `ImplementsDelivery`, the refinement of `TraceDelivery` |
| `TypeCorrect`, `NothingIsSentTwice`, `PrunedHasBeenSent`, `UnsampledIsSilent`, `SentIsFinal` | facts that the refinement and `IInv` subsume, stated on their own |

They rest on `SubsegmentAssumption` (finitely many subsegments, the root not
among them) and `ThresholdAssumption`.

None of the properties is inductive. That nothing is lost, for instance,
depends on what streaming pruned earlier and on the counters being exact. `IInv`
has what is missing, in parts: `TreeShape` (`up` is the ancestor relation of a
tree), `CounterExact`, `DecisionInherited` (below untraced is untraced),
`PrunedIsComplete`, `SentOrHeld` (what the arrays hold has not been sent, what
they no longer hold has been, once) and `SentWhenAllClosed`.

The argument: `Cut` says that taking a set of topmost nodes out of the arrays
takes away exactly their documents. From it `StreamingKeepsAccounts` follows:
streaming keeps `SentOrHeld`, whatever is streamed, provided that no streamed
node lies below another. `OpenIsHeld` shows that an open node is never pruned,
since pruned is complete and complete has nothing open below. `AddCounts` and
`CloseCounts` are the two counting arguments on cardinalities; `FlushSendsAll`
says that the document of the segment is what is still held.
`AddPreserves`, `ClosePreserves` and `CloseSegmentPreserves` are the cases of
the step, each with one part per conjunct of `IInv` it can disturb. For the
refinement, `StepDeliversPending` turns every step into the delivery of some
pending nodes, all of them when nothing is open any more. That a breach leaves
nothing complete behind needs, for every complete node that is reached, the
topmost complete one on the way to it, which is streamed: `HasTopmost`.

### Loose programs

Of `SegmentTreeLoose`, under the same assumptions and with `~Facade`:
`LooseInvariant`, `LooseCountersAreExplained` (`CounterLessMissed`) and
`OnlyTheseAreLost` (`LossExplained`). `LooseInv` cannot have a tree, nor that everything held is
unsent. It has `ForestShape` (trees built apart are trees too), `CounterLessMissed`
with `MissedBelow` (a counter misses only what is below its node),
`MembersInherit` (what knows its segment is below it through nodes that know it,
and inherits their decision), `MemberPrunedOnlyWhenSent`, and `HeldIsSent`
(while nothing below the closed segment is open, what it holds has been sent,
but for what came closed after that).
`AdditionGrafts` says what adding a tree does to the forest; `GraftedShape`,
`GraftedCounts` and `GraftedStreams` are its three consequences.

### Lambda

Of `LambdaFacade`, with `FacadeOnly`, for any headers, any number of
invocations and any subsegments:

| theorem | of |
|---|---|
| `LambdaInvariant` | `LambdaInv` |
| `TraceIsOwn` | `NoLeakBetweenInvocations` |
| `AwaitedWorkIsSent` | `AwaitedIsSent` |
| `InvalidTraceNeverSent` | `InvalidTraceIsSilent` |
| `UntracedIsNeverSent` | `UnsampledStaysSilent` |

What an invocation leaves open belongs to `loose` from the next on, so that
`OpenIsOfNow` can say of the rest that it was added now, under the decision in
force. `TraceInForce` says that a facade that was asked for has the trace and
decision of the current header; `ClosedIsGone` that with threshold 0 whatever
closed in time left the tree in the same step, sent unless untraced. So a
document that leaves later has nothing of another invocation in it except what
is loose. `CountedBelow` holds of subsegments only: the facade does not count.

### Instrumented calls

`InstrumentedCallsProofs` proves, for any finite sets of calls and callbacks
and any threshold (`SubsegmentAssumption`, `ThresholdAssumption`,
`CallbackAssumption`):

| theorem | of |
|---|---|
| `CallsInvariant` | `CallsInv` |
| `CountersAreAccountedFor` | `CounterAccounts` |
| `SegmentWaitsForAll` | `SegmentWaits` |
| `LateCallbacksAreSent` | `CallbackWorkIsSent` |
| `PresigningLeavesNoTrace` | `PresignedIsSilent` |
| `RepeatsNeedACause` | `RepeatsExplained` |

`CallsInv` has two halves. For every program the tree keeps its shape
(`ShapeInv`) and each counter is what `CounterAccounts` says: the open calls
below the node, less those closed twice, plus what wrapped callbacks owe, a
quantity that goes negative when callbacks come again. While no counter is
overdrawn, it follows from the account that none of this has happened, and what
is sent is right: `CounterAgrees`, `OpenIsUnsent`, `PledgeHeld` (a callback that
is due keeps its node in the tree), `MadeHeld`, `SettledIsSent`, and
`NotRepeated` unless the program went on after its segment was sent. Only two
kinds of step send: `StreamKeeps` and `FlushKeeps` are about them, the rest of
the proof about counting. What callbacks owe is a sum over them; `SumTake` and
`SumChanges` of `SumTheorems` say what one callback contributes.

### Error capture

`CaptureProofs` proves `RecordedIsReadable` (`NothingErased`) and
`TravellingErrorIsDescribedOnce` (`DescribedOnce`) for any finite sets of nodes
and errors and any number of recordings (`ErrorAssumption`). `IInv` adds that
the node the shared exception names has recorded it and describes it still,
unless it recorded another since (`ExceptionExplained`), that who refers and
what is referred to have recorded (`ReferencesRecorded`), that what is described
was recorded (`DescribedRecorded`), and that until the segment is closed the
shared exception is the last one recorded (`ExceptionIsLast`). Both properties
speak of every position of `log`; `Appended`, `RecordedGrows` and
`InterruptedGrows` say what the next recording does to the earlier positions.

### The context

`CaptureProofs` also proves `InItsOwnContext` and `SegmentOfOwnRequest` for any
bounds (`BoundsAssumption`), as `CodeInItsOwnContext` and
`CurrentSegmentIsOwn`. The properties speak of the code that runs; when it
returns, the same must hold of the code below. So `ContextInv` says it of every
depth of the stack: `ActiveTo(k)` is the context that would be active if what is
above k had returned. That the last context entered exists is a part of the
invariant (`HasLast`), since it would otherwise take an induction on the stack.
A change of mode leaves code of the former namespace in no context at all,
because namespaces are numbered and only grow.

### The request cycle

`RequestCycleProofs` proves all four properties of the run for any requests,
any set of the five frameworks, any `MaxWork` and any `MaxLate`. `CycleInv`
relates the events to the state of the segment: what has closed a segment, by
framework (`ClosedSound`); which events close it for certain (`EndedIsClosed`);
that a closed segment with nothing open has been sent, and none before it was
closed (`SegmentSound`); that errors in time are on the segment before it is
sent (`ErrorsSound`); and that Restify's one variable holds a segment once there
was a request (`SharedSound`).

How often a segment is sent is an account (`CausesSound`): the times it was
sent, and one more while it is closed with something open (`Pending`), are at
most its causes, which are late work, `endSegment`, a hook and Restify's errors
(`Causes`). A close brings one cause and sends, or makes the segment wait, or
leaves it waiting (`CloseIsOneCause`); the last of late work pays with the cause
its first one brought.

### The arrival of a request

The same module proves, for any hosts, patterns, rules and times
(`TextAssumption`, `RuleAssumption` of `ArrivalDecision`), `FirstRuleDecidesAlways`,
`TargetsHold` and `NamesAreAskedFor`. `ArrivalInv` adds `WindowIsLatest`
(nothing was taken in a second after that of the reservoir) and `PatternIsWanted`
(the pattern is that of the last call that was not refused) to `TargetASecond`.

`FirstRuleDecidesAlways` rests on `WildcardIsRight`: for any alphabet, pattern
and text, `wildcardMatch` answers whether the text can be cut into pieces as the
pattern says. `RowsAre` says that the table is what its recursive definition
describes, `RowIsCuts` that row j has at i whether the first j characters of the
pattern can be laid out on the first i of the text; it is proved by the least
row with a wrong entry. `LastCut` is its step, what the last of the characters
asks of the cut before. `SimpleIsCuts` is the shortcut for a pattern with no `*`
but at its end.

### The emitter

`SegmentEmitterProofs` proves `OneSocketPerBatch`, `OrderIsKept` and, as
`EmitterIsSafe`, that every step of the emitter is a step of `Outbox` or none,
for any documents and addresses (`EndpointAssumption`). `OrderIsKept` is about
the batching socket only: the shared one reports its sends back in any order.
The two invariants are
inductive with `SocketsApart`, what a kind of socket leaves to the other. The
refinement needs `DocsApart` too: no document is in two places, for `waiting`
and `gone` are sets where the emitter has sequences. `SendDelivers`,
`SharedSentLeaves` and `BatchSentLeaves` are the three steps that map to
`HandOver` or `Refuse`, and to `Leave`; `RangeOfAppend`, `DocsInAppend` and
`DocsInTail` say what they do to the sets.

### The metadata

`SegmentMetadataProofs` proves `AnsweredOnce` and `SegmentDataIsOwn` for any
calls of `config`, retries, segments and rules (`MetadataAssumption`). Answers
are bounded by the requests that are over, each request gives at most one
(`AnswersSound`), and a second request exists only where the token was answered
twice (`RequestsSound`). `RulesSound` says that a segment has the SDK's object
or its own, and that the SDK's never has a rule in it.

### Centralized sampling

`CentralSamplingProofs` proves all seven properties of the run for any rules,
versions, quotas, leases and bounds, from `TimeAssumption`, `RuleAssumption` and
`BoundAssumption`, for times in milliseconds and in seconds. `SamplingInv` has,
besides the types: every fetch under way was sent no later than any change after
the version it brings, and every answered report carries the time of the version
it was read with (`CallsSound`), so that the order in which they arrive does not
matter; a reservoir of this second has what its rule spent in it since it last
left the cache, and before that the rule borrowed at most one for each time it
left (`SpentSound`); the reservoir has the last grant, a quota of 0 apart, or
none if the rule left the cache since (`GrantSound`); and a date in seconds is
never due (`LongPast`), which is what the properties say of such times.
`OnlyDecisions` says that only a decision spends or raises what is untold; the
action properties follow from `DecisionIsCovered`.

`DecisionsAreReportedOnce` (`ReportedOnce`) needs an account: `Accounted` says
that what is untold of a rule is what its counts hold plus the sum over the
reports that the service has not read (`Total`), and that a rule outside the
cache counts nothing. `ReportInv` is `SamplingInv` with it and `WithinBounds`.
`SentIsOnItsWay`, `ReadIsDone` and `GoneIsDone` say what a report that is sent,
read, or removed does to the sum; a removal shifts the positions behind it,
for which `SumRenamed` is made.

### Sums and least elements

The library's induction theorems take an operator as a parameter and cannot be
used here. What would be an induction is a proof by least counterexample
instead: a set of numbers that is not empty has a least element (`HasLeast`),
and a family of finite sets has a smallest one (`HasMinimal`), both of which
the provers get from the theorems about finite sets. With the latter
`SumTheorems` shows that the fold of the community modules, a recursive function
on sets, has a value on every finite set and only one (`SumExists`, `SumUnique`,
`SumRec`), and from these what one element contributes (`SumTake`), that
renaming the index set changes nothing (`SumRenamed`), what changing one value
does (`SumChanges`), and that sums of naturals are naturals (`SumNat`).

## Only model-checked, and not modelled

Model-checked only: liveness, which with `ENABLED` is beyond the prover. That
is `EventuallyAnswered`, and of `ImplementsOutbox` that every document leaves.
Its safety is `EmitterIsSafe`. No invariant and no action property of a passing
run is without a theorem, and none of the modules uses a recursive operator.

Not modelled:

* fields of incoming requests, whitelisted parameters of AWS calls, SQL data,
  annotations, formats of identifiers and headers, logging, validation of
  arguments, packaging: data that no behaviour depends on;
* the pools of the MySQL and Postgres patchers: they hand out connections that
  are patched like a connection of its own;
* the check that an AWS SDK v3 client is patched once, and the patching of the
  `http` modules themselves: done once, before there is a request;
* `setDefaultName` and `AWS_XRAY_TRACING_NAME`: the default name is one value;
* the strategies for a missing context: they log or throw and change nothing;
* the parent handed over in manual mode: a choice in `InstrumentedCalls`;
* a crash of the process: nothing the SDK keeps outlives it.

## Plan

Done, in this order: `SegmentTree` with `TraceDelivery`, `SegmentTreeLoose` and
`SegmentTreeProofs`; `LambdaFacade`; `CentralSampling`; `InstrumentedCalls`;
`RequestCycle`; then `SegmentEmitter` with `Outbox`, `ErrorCapture`,
`SegmentMetadata`, `ArrivalDecision` with `Wildcard`, `TraceContext`; then the
proofs about each of them.

Next:

1. `RequestCycle` composed with `ArrivalDecision`, and that with
   `CentralSampling` as the sampler, so that a decision is followed from the
   header to what is sent, with the theorems of the parts as lemmas.
2. Liveness of the pollers under the fairness of `setInterval`: a cache that the
   service keeps answering does not stay expired.
3. An abstract specification of reporting (each decision is reported once or
   lost with the call that carried it) that `CentralSampling` implements, from
   the account `ReportInv` keeps.
