--------------------------- MODULE SegmentEmitter ---------------------------
(***************************************************************************)
(* How documents leave the process (segment_emitter.js) and where they go  *)
(* (daemon_config.js).  The emitter makes its socket with the first        *)
(* document: one UDP socket for good, or a BatchingTemporarySocket, which  *)
(* collects documents while a batch is on its way and opens a socket for   *)
(* each batch.  The batches are atomic-batcher's, a library: it runs one   *)
(* at a time, and counts itself running from the start of a batch until    *)
(* that batch reports back.                                                *)
(*                                                                         *)
(* A datagram socket reports each send back, later and with or without an  *)
(* error, which is only logged; a port that is no port makes `send' throw. *)
(***************************************************************************)
EXTENDS Naturals, Sequences, SequencesExt, FiniteSets

CONSTANTS
  Document,  \* the documents of segments and subsegments
  Endpoint,  \* addresses with a port
  NoPort,    \* those among them whose port a socket does not take
  Default    \* 127.0.0.1:2000

ASSUME EndpointAssumption ==
  NoPort \subseteq Endpoint /\ Default \in Endpoint \ NoPort

VARIABLES
  temporary,  \* useBatchingTemporarySocket
  socket,     \* which kind of socket the emitter has
  flying,     \* shared socket: the sends it has not reported back
  batch,      \* batching socket: what is left of the batch, the head being sent
  pending,    \* what has been appended since the batch began
  running,    \* atomic-batcher has a batch that has not reported back
  clients,    \* how many temporary sockets are open
  udp,        \* DaemonConfig: where documents go
  fixed,      \* AWS_XRAY_DAEMON_ADDRESS is set
  handed,     \* history: the documents handed over, in order
  gone        \* history: the documents reported back, in order

batchVars == <<batch, pending, running, clients>>
configVars == <<udp, fixed>>
vars == <<temporary, socket, flying, batchVars, configVars, handed, gone>>

Work == [doc : Document, to : Endpoint]

Docs(works) == [i \in DOMAIN works |-> works[i].doc]

(* A batch whose next send threw reports nothing back.                     *)
Halted == running /\ batch # <<>> /\ Head(batch).to \in NoPort

TypeOK ==
  /\ temporary \in BOOLEAN /\ socket \in {"none", "shared", "batching"}
  /\ flying \subseteq Work /\ batch \in Seq(Work) /\ pending \in Seq(Work)
  /\ running \in BOOLEAN /\ clients \in Nat
  /\ udp \in Endpoint /\ fixed \in BOOLEAN
  /\ handed \in Seq(Document) /\ gone \in Seq(Document)

Init ==
  /\ temporary = FALSE /\ socket = "none"
  /\ flying = {} /\ batch = <<>> /\ pending = <<>> /\ running = FALSE /\ clients = 0
  /\ fixed \in BOOLEAN /\ udp \in IF fixed THEN Endpoint ELSE {Default}
  /\ handed = <<>> /\ gone = <<>>

-----------------------------------------------------------------------------
(* Sending. *)

(* batchSendData on works: a socket of its own, and the first send.        *)
BatchSendData(works, open) ==
  /\ running' = TRUE
  /\ batch' = works
  /\ clients' = open + 1

(* BatchingTemporarySocket.send *)
BatchSend(w) ==
  \/ /\ ~running
     /\ BatchSendData(<<w>>, clients)
     /\ UNCHANGED pending
  \/ /\ running
     /\ pending' = Append(pending, w)
     /\ UNCHANGED <<batch, running, clients>>

(* send: the work takes the address of this moment along.  What throws     *)
(* here throws out of the close of the segment.                            *)
Send(d) ==
  LET w == [doc |-> d, to |-> udp] IN
  /\ d \notin Range(handed)
  /\ socket' = IF socket # "none" THEN socket
               ELSE IF temporary THEN "batching" ELSE "shared"
  /\ handed' = Append(handed, d)
  /\ \/ /\ socket' = "shared"
        /\ flying' = IF udp \in NoPort THEN flying ELSE flying \cup {w}
        /\ UNCHANGED batchVars
     \/ socket' = "batching" /\ BatchSend(w) /\ UNCHANGED flying
  /\ UNCHANGED <<temporary, configVars, gone>>

(* The shared socket reports a send back.  Addresses may be host names, to *)
(* be looked up, so that sends may overtake each other.                    *)
SharedSent(w) ==
  /\ w \in flying
  /\ flying' = flying \ {w}
  /\ gone' = Append(gone, w.doc)
  /\ UNCHANGED <<temporary, socket, batchVars, configVars, handed>>

\* Slip: the socket of a batch is left to the garbage collector.
FinishLeavesSocket ==
  IF pending = <<>>
  THEN running' = FALSE /\ batch' = <<>> /\ pending' = <<>> /\ UNCHANGED clients
  ELSE BatchSendData(pending, clients) /\ pending' = <<>>

\* Slip: what has collected during the batch is forgotten with it.
FinishForgets ==
  running' = FALSE /\ batch' = <<>> /\ pending' = <<>> /\ clients' = clients - 1

\* Slip: what has collected is not sent until more comes.
FinishWaits ==
  running' = FALSE /\ batch' = <<>> /\ pending' = pending /\ clients' = clients - 1

(* The batch is through: its socket is closed, and what has collected is   *)
(* the next batch.                                                         *)
FinishBatch ==
  IF pending = <<>>
  THEN running' = FALSE /\ batch' = <<>> /\ pending' = <<>> /\ clients' = clients - 1
  ELSE BatchSendData(pending, clients - 1) /\ pending' = <<>>

(* The temporary socket reports the head of the batch back, and the next   *)
(* is sent, or the batch is through.                                       *)
BatchSent ==
  /\ running /\ ~Halted
  /\ gone' = Append(gone, Head(batch).doc)
  /\ IF Len(batch) > 1
     THEN batch' = Tail(batch) /\ UNCHANGED <<pending, running, clients>>
     ELSE FinishBatch
  /\ UNCHANGED <<temporary, socket, flying, configVars, handed>>

DisableReusableSocket ==
  /\ ~temporary
  /\ temporary' = TRUE
  /\ UNCHANGED <<socket, flying, batchVars, configVars, handed, gone>>

-----------------------------------------------------------------------------
(* setDaemonAddress, processAddress.  A text it refuses at once, or ignores, *)
(* changes nothing, as does any text when the address is fixed.  Otherwise *)
(* the address is taken over, with whatever port: that of `ip:port' is not *)
(* looked at, and that of `udp:ip:port tcp:ip:port' is refused only after  *)
(* it has been assigned.                                                   *)
SetDaemonAddress(e) ==
  /\ ~fixed
  /\ udp' = e
  /\ fixed' = fixed
  /\ UNCHANGED <<temporary, socket, flying, batchVars, handed, gone>>

Next ==
  \/ \E d \in Document : Send(d)
  \/ \E w \in flying : SharedSent(w)
  \/ BatchSent
  \/ DisableReusableSocket
  \/ \E e \in Endpoint : SetDaemonAddress(e)

(* Sockets report every send back; no one need hand anything over.         *)
Fairness ==
  /\ \A w \in Work : WF_vars(SharedSent(w))
  /\ WF_vars(BatchSent)

Spec == Init /\ [][Next]_vars /\ Fairness

-----------------------------------------------------------------------------
(* Properties. *)

(* A temporary socket is open exactly while a batch is on its way, one at  *)
(* a time, however batches follow on each other (batchSendData); and when  *)
(* no batch is, nothing is left behind in the batcher.                     *)
OneSocketPerBatch ==
  /\ TypeOK
  /\ clients = IF running THEN 1 ELSE 0
  /\ running <=> batch # <<>>
  /\ pending # <<>> => running

(* The batching socket keeps the order: what has gone, what is being sent  *)
(* and what has collected are, together, what was handed over.  No         *)
(* document is lost between two batches (executeSendData, atomic-batcher). *)
OrderIsKept ==
  socket = "batching" => handed = gone \o Docs(batch) \o Docs(pending)

InTransit == {w.doc : w \in flying} \cup Range(Docs(batch)) \cup Range(Docs(pending))

Promise == INSTANCE Outbox WITH
  waiting <- InTransit,
  gone <- Range(gone),
  refused <- Range(handed) \ (InTransit \cup Range(gone)),
  halted <- Halted

(* Every document handed over leaves, once, or was refused; whatever the   *)
(* mix of sockets' reports, new documents, disableReusableSocket and new   *)
(* addresses, nothing waits forever unless a batch came to an address      *)
(* without a usable port.                                                  *)
ImplementsOutbox == Promise!Spec
=============================================================================
