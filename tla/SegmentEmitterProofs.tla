------------------------ MODULE SegmentEmitterProofs ------------------------
(***************************************************************************)
(* Proofs about SegmentEmitter for every set of documents and addresses:   *)
(* one temporary socket at a time, and documents in order.                 *)
(***************************************************************************)
EXTENDS SegmentEmitter, SequenceTheorems, TLAPS

(* What a kind of socket leaves to the other.                              *)
SocketsApart ==
  /\ socket = "none" => handed = <<>> /\ gone = <<>>
  /\ socket # "batching" => batch = <<>> /\ pending = <<>>
  /\ socket # "shared" => flying = {}

EmitterInv == OneSocketPerBatch /\ OrderIsKept /\ SocketsApart

(* Docs keeps types, and goes with Append and Tail.                        *)
LEMMA DocsType ==
  ASSUME NEW ws \in Seq(Work)
  PROVE  /\ Docs(ws) \in Seq(Document)
         /\ Len(Docs(ws)) = Len(ws)
         /\ \A i \in 1 .. Len(ws) : Docs(ws)[i] = ws[i].doc
<1>1. DOMAIN ws = 1 .. Len(ws) /\ Len(ws) \in Nat
  BY LenProperties
<1>2. \A i \in 1 .. Len(ws) : ws[i] \in Work
  BY ElementOfSeq
<1> QED BY <1>1, <1>2 DEF Docs, Work

LEMMA DocsEmpty == Docs(<<>>) = <<>>
BY DEF Docs

LEMMA DocsOne ==
  ASSUME NEW w \in Work
  PROVE  Docs(<<w>>) = <<w.doc>>
BY DEF Docs

LEMMA DocsAppend ==
  ASSUME NEW ws \in Seq(Work), NEW w \in Work
  PROVE  Docs(Append(ws, w)) = Append(Docs(ws), w.doc)
<1>1. Append(ws, w) \in Seq(Work)
  OBVIOUS
<1>2. w.doc \in Document
  BY DEF Work
<1> DEFINE l == Docs(Append(ws, w))
           r == Append(Docs(ws), w.doc)
<1>3. l \in Seq(Document) /\ r \in Seq(Document) /\ Len(l) = Len(r)
  <2>1. l \in Seq(Document) /\ Len(l) = Len(Append(ws, w))
    BY <1>1, DocsType
  <2>2. Docs(ws) \in Seq(Document) /\ Len(Docs(ws)) = Len(ws)
    BY DocsType
  <2>3. r \in Seq(Document) /\ Len(r) = Len(ws) + 1
    BY <1>2, <2>2, AppendProperties
  <2> QED BY <2>1, <2>3, AppendProperties
<1>4. ASSUME NEW i \in 1 .. Len(l) PROVE l[i] = r[i]
  <2>1. Len(l) = Len(ws) + 1 /\ Len(ws) \in Nat /\ Len(Docs(ws)) = Len(ws)
    BY <1>1, DocsType, AppendProperties, LenProperties
  <2>2. l[i] = Append(ws, w)[i].doc
    BY <1>1, <2>1, DocsType, AppendProperties
  <2>3. CASE i = Len(ws) + 1
    BY <1>2, <2>1, <2>2, <2>3, DocsType, AppendProperties
  <2>4. CASE i \in 1 .. Len(ws)
    <3>1. Append(ws, w)[i] = ws[i]
      BY <2>4, AppendProperties
    <3>2. r[i] = Docs(ws)[i]
      BY <1>2, <2>1, <2>4, DocsType, AppendProperties
    <3> QED BY <2>2, <2>4, <3>1, <3>2, DocsType
  <2> QED BY <2>1, <2>3, <2>4
<1> QED BY <1>3, <1>4, SeqEqual

LEMMA DocsHead ==
  ASSUME NEW ws \in Seq(Work), ws # <<>>
  PROVE  /\ Head(ws) \in Work
         /\ Docs(ws) = <<Head(ws).doc>> \o Docs(Tail(ws))
<1>1. Head(ws) \in Work /\ Tail(ws) \in Seq(Work) /\ Len(Tail(ws)) = Len(ws) - 1
      /\ \A i \in 1 .. Len(Tail(ws)) : Tail(ws)[i] = ws[i + 1]
  BY HeadTailProperties
<1>2. Len(ws) \in Nat /\ Len(ws) > 0
  BY EmptySeq
<1> DEFINE l == Docs(ws)
           h == <<Head(ws).doc>>
           r == h \o Docs(Tail(ws))
<1>3. h \in Seq(Document) /\ Len(h) = 1 /\ h[1] = ws[1].doc
  BY <1>1 DEF Work
<1>4. /\ r \in Seq(Document) /\ Len(r) = Len(ws)
      /\ \A i \in 1 .. Len(ws) :
           r[i] = IF i <= 1 THEN h[i] ELSE Docs(Tail(ws))[i - 1]
  <2>1. Docs(Tail(ws)) \in Seq(Document) /\ Len(Docs(Tail(ws))) = Len(ws) - 1
    BY <1>1, DocsType
  <2> HIDE DEF h
  <2>2. r \in Seq(Document) /\ Len(r) = Len(h) + Len(Docs(Tail(ws)))
    BY <1>3, <2>1, ConcatProperties
  <2>3. \A i \in 1 .. Len(h) + Len(Docs(Tail(ws))) :
          r[i] = IF i <= Len(h) THEN h[i] ELSE Docs(Tail(ws))[i - Len(h)]
    BY <1>3, <2>1, ConcatProperties
  <2>4. Len(h) + Len(Docs(Tail(ws))) = Len(ws)
    BY <1>2, <1>3, <2>1
  <2> HIDE DEF r
  <2> QED BY <1>3, <2>2, <2>3, <2>4
<1>5. ASSUME NEW i \in 1 .. Len(ws) PROVE l[i] = r[i]
  <2>1. l[i] = ws[i].doc
    BY DocsType
  <2> HIDE DEF l, h, r
  <2>2. CASE i = 1
    BY <1>3, <1>4, <2>1, <2>2
  <2>3. CASE i - 1 \in 1 .. Len(Tail(ws))
    <3>1. Docs(Tail(ws))[i - 1] = Tail(ws)[i - 1].doc
      BY <1>1, <2>3, DocsType
    <3>2. Tail(ws)[i - 1] = ws[i]
      BY <1>1, <2>3
    <3>3. ~(i <= 1)
      BY <2>3
    <3> QED BY <1>4, <2>1, <3>1, <3>2, <3>3
  <2> QED BY <1>1, <1>2, <2>2, <2>3
<1>6. l \in Seq(Document) /\ Len(l) = Len(ws)
  BY DocsType
<1> HIDE DEF l, r
<1>7. l = r
  BY <1>4, <1>5, <1>6, SeqEqual
<1> QED BY <1>1, <1>7 DEF l, r

-----------------------------------------------------------------------------
(* Init and the actions. *)

LEMMA InitKeepsOrder == Init => EmitterInv
<1> SUFFICES ASSUME Init PROVE EmitterInv
  OBVIOUS
<1>1. TypeOK
  <2>1. udp \in Endpoint /\ fixed \in BOOLEAN
    BY EndpointAssumption DEF Init
  <2>2. <<>> \in Seq(Work) /\ <<>> \in Seq(Document)
    OBVIOUS
  <2>3. temporary \in BOOLEAN /\ running \in BOOLEAN
    BY DEF Init
  <2> QED BY <2>1, <2>2, <2>3 DEF Init, TypeOK
<1>2. OneSocketPerBatch /\ SocketsApart
  BY <1>1 DEF Init, OneSocketPerBatch, SocketsApart
<1>3. OrderIsKept
  BY DEF Init, OrderIsKept
<1> QED BY <1>2, <1>3 DEF EmitterInv

(* Three parts of what was handed over, put together either way.          *)
LEMMA DocsAssociate ==
  ASSUME NEW a \in Seq(Document), NEW b \in Seq(Document), NEW c \in Seq(Document)
  PROVE  a \o (b \o c) = (a \o b) \o c
BY SMTT(40)

LEMMA SendKeepsOrder ==
  ASSUME EmitterInv, NEW d \in Document, Send(d)
  PROVE  EmitterInv'
<1> DEFINE w == [doc |-> d, to |-> udp]
<1> USE DEF EmitterInv
<1>1. TypeOK /\ w \in Work
  BY DEF OneSocketPerBatch, TypeOK, Work
<1>2. handed' = Append(handed, d) /\ handed' \in Seq(Document) /\ gone' = gone
  BY <1>1 DEF Send, TypeOK
<1>3. CASE socket' = "shared" /\ UNCHANGED batchVars
  <2>1. TypeOK'
    BY <1>1, <1>2, <1>3 DEF Send, TypeOK, configVars, batchVars
  <2>2. socket # "batching"
    BY <1>3 DEF Send
  <2> QED
    BY <1>3, <2>1, <2>2
    DEF Send, OneSocketPerBatch, OrderIsKept, SocketsApart, batchVars
<1>4. CASE socket' = "batching" /\ BatchSend(w) /\ UNCHANGED flying
  <2>1. socket # "shared" /\ flying = {}
    BY <1>4 DEF Send, SocketsApart
  <2>2. handed = gone \o Docs(batch) \o Docs(pending)
    <3>1. CASE socket = "batching"
      BY <3>1 DEF OrderIsKept
    <3>2. CASE socket = "none"
      BY <3>2, DocsEmpty DEF SocketsApart
    <3> QED BY <1>1, <2>1, <3>1, <3>2 DEF TypeOK
  <2>3. gone \in Seq(Document) /\ Docs(batch) \in Seq(Document) /\ Docs(pending) \in Seq(Document)
    BY <1>1, DocsType DEF TypeOK
  <2>4. CASE ~running /\ BatchSendData(<<w>>, clients) /\ UNCHANGED pending
    <3>1. TypeOK'
      BY <1>1, <1>2, <1>4, <2>4 DEF Send, TypeOK, BatchSendData, configVars
    <3>2. batch = <<>> /\ pending = <<>> /\ clients = 0
      BY <2>4 DEF OneSocketPerBatch
    <3>3. handed = gone
      BY <2>2, <2>3, <3>2, DocsEmpty, ConcatEmptySeq
    <3>4. Docs(batch') = <<d>> /\ Docs(pending') = <<>>
      BY <1>1, <2>4, <3>2, DocsOne, DocsEmpty DEF BatchSendData
    <3>5. handed' = gone' \o Docs(batch') \o Docs(pending')
      BY <1>2, <2>3, <3>3, <3>4
    <3> QED
      BY <1>4, <2>1, <2>4, <3>1, <3>2, <3>5
      DEF OneSocketPerBatch, OrderIsKept, SocketsApart, BatchSendData
  <2>5. CASE running /\ pending' = Append(pending, w) /\ UNCHANGED <<batch, running, clients>>
    <3>1. TypeOK'
      BY <1>1, <1>2, <1>4, <2>5 DEF Send, TypeOK, configVars
    <3>2. Docs(pending') = Append(Docs(pending), d)
      BY <1>1, <2>5, DocsAppend DEF TypeOK
    <3> DEFINE sent == gone \o Docs(batch)
    <3>3. sent \in Seq(Document)
      BY <2>3
    <3> HIDE DEF sent
    <3>4. Append(sent \o Docs(pending), d) = sent \o Append(Docs(pending), d)
      <4>1. /\ Append(Docs(pending), d) = Docs(pending) \o <<d>>
            /\ Append(sent \o Docs(pending), d) = (sent \o Docs(pending)) \o <<d>>
        BY <2>3, <3>3, AppendIsConcat, ConcatProperties
      <4>2. <<d>> \in Seq(Document)
        OBVIOUS
      <4>3. sent \o (Docs(pending) \o <<d>>) = (sent \o Docs(pending)) \o <<d>>
        BY <2>3, <3>3, <4>2, DocsAssociate
      <4> QED BY <4>1, <4>3
    <3>5. handed' = gone' \o Docs(batch') \o Docs(pending')
      BY <1>2, <2>2, <2>5, <3>2, <3>4 DEF sent
    <3> QED
      BY <1>4, <2>1, <2>5, <3>1, <3>5
      DEF OneSocketPerBatch, OrderIsKept, SocketsApart
  <2> QED BY <1>4, <2>4, <2>5 DEF BatchSend
<1> QED BY <1>3, <1>4 DEF Send

LEMMA BatchSentKeepsOrder ==
  ASSUME EmitterInv, BatchSent
  PROVE  EmitterInv'
<1> USE DEF EmitterInv
<1>1. TypeOK /\ running /\ clients = 1 /\ batch # <<>>
  BY DEF OneSocketPerBatch, BatchSent
<1>2. socket = "batching" /\ flying = {}
  BY <1>1 DEF SocketsApart
<1>3. /\ Head(batch) \in Work /\ Head(batch).doc \in Document /\ Tail(batch) \in Seq(Work)
      /\ Docs(batch) = <<Head(batch).doc>> \o Docs(Tail(batch))
  BY <1>1, DocsHead, HeadTailProperties DEF TypeOK, Work
<1>4. /\ gone' = Append(gone, Head(batch).doc) /\ gone' \in Seq(Document)
      /\ UNCHANGED <<temporary, socket, flying, configVars, handed>>
  BY <1>1, <1>3 DEF BatchSent, TypeOK
<1>5. gone \in Seq(Document) /\ Docs(Tail(batch)) \in Seq(Document) /\ Docs(pending) \in Seq(Document)
  BY <1>1, <1>3, DocsType DEF TypeOK
<1>6. handed = gone' \o Docs(Tail(batch)) \o Docs(pending)
  <2> DEFINE h == <<Head(batch).doc>>
             t == Docs(Tail(batch))
  <2>1. h \in Seq(Document) /\ gone' = gone \o h
    BY <1>3, <1>4, <1>5
  <2> HIDE DEF h, t
  <2>2. gone \o (h \o t) = (gone \o h) \o t
    <3>1. t \in Seq(Document) /\ gone \in Seq(Document)
      BY <1>5 DEF t
    <3> QED BY <2>1, <3>1, DocsAssociate
  <2> QED BY <1>2, <1>3, <2>1, <2>2 DEF OrderIsKept, h, t
<1>7. CASE Len(batch) > 1
  <2>1. batch' = Tail(batch) /\ UNCHANGED <<pending, running, clients>>
    BY <1>7 DEF BatchSent
  <2>2. Tail(batch) # <<>>
    <3>1. batch \in Seq(Work) /\ Len(batch) \in Nat /\ Len(Tail(batch)) = Len(batch) - 1
      BY <1>1, HeadTailProperties, LenProperties DEF TypeOK
    <3>2. ASSUME NEW n \in Nat, NEW t, n > 1, Len(t) = n - 1 PROVE t # <<>>
      BY <3>2
    <3> QED BY <1>7, <3>1, <3>2
  <2>3. TypeOK'
    BY <1>1, <1>3, <1>4, <2>1 DEF TypeOK, configVars
  <2> QED
    BY <1>1, <1>2, <1>4, <1>6, <2>1, <2>2, <2>3
    DEF OneSocketPerBatch, OrderIsKept, SocketsApart
<1>8. CASE ~(Len(batch) > 1)
  <2>1. FinishBatch
    BY <1>8 DEF BatchSent
  <2>2. Tail(batch) = <<>> /\ Docs(Tail(batch)) = <<>>
    <3>1. batch \in Seq(Work) /\ Len(batch) \in Nat \ {0}
      BY <1>1, EmptySeq DEF TypeOK
    <3>2. Len(Tail(batch)) = 0
      BY <1>1, <1>8, <3>1, HeadTailProperties
    <3>3. Tail(batch) = <<>>
      BY <1>3, <3>2, EmptySeq
    <3> QED BY <3>3, DocsEmpty
  <2>3. handed = gone' \o Docs(pending)
    BY <1>4, <1>6, <2>2, ConcatEmptySeq
  <2>4. TypeOK'
    <3>1. CASE pending = <<>>
      <4>1. running' = FALSE /\ batch' = <<>> /\ pending' = <<>> /\ clients' = 0
        BY <1>1, <2>1, <3>1 DEF FinishBatch
      <4> QED BY <1>1, <1>4, <4>1, EmptySeq DEF TypeOK, configVars
    <3>2. CASE pending # <<>>
      BY <1>1, <1>4, <2>1, <3>2 DEF TypeOK, FinishBatch, BatchSendData, configVars
    <3> QED BY <3>1, <3>2
  <2>5. pending' = <<>> /\ batch' = pending
    BY <2>1 DEF FinishBatch, BatchSendData
  <2>6. gone' \o Docs(pending) \in Seq(Document)
    BY <1>4, <1>5
  <2>7. handed' = gone' \o Docs(batch') \o Docs(pending')
    BY <1>4, <2>3, <2>5, <2>6, DocsEmpty, ConcatEmptySeq
  <2> QED
    BY <1>1, <1>2, <1>4, <2>1, <2>4, <2>5, <2>7
    DEF OneSocketPerBatch, OrderIsKept, SocketsApart, FinishBatch, BatchSendData
<1> QED BY <1>7, <1>8

LEMMA StepKeepsOrder == EmitterInv /\ [Next]_vars => EmitterInv'
<1> SUFFICES ASSUME EmitterInv, [Next]_vars PROVE EmitterInv'
  OBVIOUS
<1>1. ASSUME NEW d \in Document, Send(d) PROVE EmitterInv'
  BY <1>1, SendKeepsOrder
<1>2. ASSUME NEW w \in flying, SharedSent(w) PROVE EmitterInv'
  <2>1. TypeOK /\ w \in Work /\ socket = "shared"
    BY <1>2 DEF EmitterInv, OneSocketPerBatch, SocketsApart, TypeOK
  <2>2. gone' \in Seq(Document)
    BY <1>2, <2>1 DEF SharedSent, TypeOK, Work
  <2>3. TypeOK'
    BY <1>2, <2>1, <2>2 DEF SharedSent, TypeOK, batchVars, configVars
  <2> QED
    BY <1>2, <2>1, <2>3
    DEF SharedSent, EmitterInv, OneSocketPerBatch, OrderIsKept, SocketsApart, batchVars
<1>3. CASE BatchSent
  BY <1>3, BatchSentKeepsOrder
<1>4. CASE DisableReusableSocket
  BY <1>4
  DEF DisableReusableSocket, EmitterInv, OneSocketPerBatch, OrderIsKept, SocketsApart, TypeOK,
      batchVars, configVars
<1>5. ASSUME NEW e \in Endpoint, SetDaemonAddress(e) PROVE EmitterInv'
  BY <1>5
  DEF SetDaemonAddress, EmitterInv, OneSocketPerBatch, OrderIsKept, SocketsApart, TypeOK, batchVars
<1>6. CASE UNCHANGED vars
  BY <1>6
  DEF EmitterInv, OneSocketPerBatch, OrderIsKept, SocketsApart, TypeOK, vars, batchVars, configVars
<1> QED BY <1>1, <1>2, <1>3, <1>4, <1>5, <1>6 DEF Next

-----------------------------------------------------------------------------

(* A temporary socket is open exactly while a batch is on its way, for any *)
(* number of documents and whatever the addresses (batchSendData).         *)
THEOREM OneSocketAtATime == Spec => []OneSocketPerBatch
<1>1. EmitterInv => OneSocketPerBatch
  BY DEF EmitterInv
<1> QED BY <1>1, InitKeepsOrder, StepKeepsOrder, PTL DEF Spec

(* Over the batching socket documents leave in the order in which they     *)
(* were handed over, and none is lost between batches.                     *)
THEOREM DocumentsInOrder == Spec => []OrderIsKept
<1>1. EmitterInv => OrderIsKept
  BY DEF EmitterInv
<1> QED BY <1>1, InitKeepsOrder, StepKeepsOrder, PTL DEF Spec

-----------------------------------------------------------------------------
(* The safety part of the refinement.                                      *)

DocsIn(ws) == {ws[i].doc : i \in 1 .. Len(ws)}
NoTwice(ws) == \A i, j \in 1 .. Len(ws) : ws[i].doc = ws[j].doc => i = j

(* A document is in one place at a time.                                   *)
DocsApart ==
  /\ InTransit \cup Range(gone) \subseteq Range(handed)
  /\ \A v, w \in flying : v.doc = w.doc => v = w
  /\ NoTwice(batch) /\ NoTwice(pending)
  /\ DocsIn(batch) \cap DocsIn(pending) = {}

LEMMA RangeDocs ==
  ASSUME NEW ws \in Seq(Work)
  PROVE  Range(Docs(ws)) = DocsIn(ws)
<1>1. Docs(ws) \in Seq(Document) /\ Len(Docs(ws)) = Len(ws)
      /\ \A i \in 1 .. Len(ws) : Docs(ws)[i] = ws[i].doc
  BY DocsType
<1>2. DOMAIN Docs(ws) = 1 .. Len(ws)
  BY <1>1, LenProperties
<1> QED BY <1>1, <1>2 DEF Range, DocsIn

LEMMA RangeOfAppend ==
  ASSUME NEW S, NEW q \in Seq(S), NEW e \in S
  PROVE  Range(Append(q, e)) = Range(q) \cup {e}
<1>1. /\ Append(q, e) \in Seq(S) /\ Len(Append(q, e)) = Len(q) + 1 /\ Len(q) \in Nat
      /\ \A i \in 1 .. Len(q) : Append(q, e)[i] = q[i]
      /\ Append(q, e)[Len(q) + 1] = e
  BY AppendProperties, LenProperties
<1>2. DOMAIN q = 1 .. Len(q) /\ DOMAIN Append(q, e) = 1 .. Len(q) + 1
  BY <1>1, LenProperties
<1>3. 1 .. Len(q) + 1 = 1 .. Len(q) \cup {Len(q) + 1}
  BY <1>1
<1> QED BY <1>1, <1>2, <1>3 DEF Range

(* Sequences of works that grow and shrink.                                *)
LEMMA DocsInAppend ==
  ASSUME NEW ws \in Seq(Work), NEW w \in Work, w.doc \notin DocsIn(ws), NoTwice(ws)
  PROVE  /\ DocsIn(Append(ws, w)) = DocsIn(ws) \cup {w.doc}
         /\ NoTwice(Append(ws, w))
<1>1. /\ Len(Append(ws, w)) = Len(ws) + 1 /\ Len(ws) \in Nat
      /\ \A i \in 1 .. Len(ws) : Append(ws, w)[i] = ws[i]
      /\ Append(ws, w)[Len(ws) + 1] = w
  BY AppendProperties, LenProperties
<1>2. 1 .. Len(ws) + 1 = 1 .. Len(ws) \cup {Len(ws) + 1}
  BY <1>1
<1>3. DocsIn(Append(ws, w)) = DocsIn(ws) \cup {w.doc}
  BY <1>1, <1>2 DEF DocsIn
<1>4. NoTwice(Append(ws, w))
  BY <1>1, <1>2 DEF DocsIn, NoTwice
<1> QED BY <1>3, <1>4

LEMMA DocsInTail ==
  ASSUME NEW ws \in Seq(Work), ws # <<>>, NoTwice(ws)
  PROVE  /\ Head(ws).doc \in DocsIn(ws)
         /\ DocsIn(Tail(ws)) = DocsIn(ws) \ {Head(ws).doc}
         /\ NoTwice(Tail(ws))
<1>1. /\ Len(Tail(ws)) = Len(ws) - 1 /\ Len(ws) \in Nat /\ Len(ws) > 0 /\ Head(ws) = ws[1]
      /\ \A i \in 1 .. Len(ws) - 1 : Tail(ws)[i] = ws[i + 1]
  BY HeadTailProperties, LenProperties, EmptySeq
<1>2. Head(ws).doc \in DocsIn(ws)
  BY <1>1 DEF DocsIn
<1>3. ASSUME NEW i \in 1 .. Len(ws), i # 1
      PROVE  i - 1 \in 1 .. Len(ws) - 1 /\ Tail(ws)[i - 1] = ws[i]
  <2>1. i - 1 \in 1 .. Len(ws) - 1 /\ (i - 1) + 1 = i
    BY <1>1, <1>3
  <2> QED BY <1>1, <2>1
<1>4. \A i \in 1 .. Len(ws) - 1 : i + 1 \in 1 .. Len(ws) /\ i + 1 # 1
  BY <1>1
<1>5. DocsIn(Tail(ws)) \subseteq DocsIn(ws) \ {Head(ws).doc}
  <2> SUFFICES ASSUME NEW i \in 1 .. Len(ws) - 1
               PROVE  Tail(ws)[i].doc \in DocsIn(ws) /\ Tail(ws)[i].doc # Head(ws).doc
    BY <1>1 DEF DocsIn
  <2>1. Tail(ws)[i] = ws[i + 1] /\ i + 1 \in 1 .. Len(ws) /\ i + 1 # 1 /\ 1 \in 1 .. Len(ws)
    BY <1>1, <1>4
  <2> QED BY <1>1, <2>1 DEF DocsIn, NoTwice
<1>6. DocsIn(ws) \ {Head(ws).doc} \subseteq DocsIn(Tail(ws))
  <2> SUFFICES ASSUME NEW i \in 1 .. Len(ws), ws[i].doc # Head(ws).doc
               PROVE  \E j \in 1 .. Len(ws) - 1 : Tail(ws)[j].doc = ws[i].doc
    BY <1>1 DEF DocsIn
  <2>1. i # 1
    BY <1>1
  <2> QED BY <1>3, <2>1
<1>7. NoTwice(Tail(ws))
  <2> SUFFICES ASSUME NEW i \in 1 .. Len(ws) - 1, NEW j \in 1 .. Len(ws) - 1,
                      Tail(ws)[i].doc = Tail(ws)[j].doc
               PROVE  i = j
    BY <1>1 DEF NoTwice
  <2>1. i + 1 = j + 1
    BY <1>1, <1>4 DEF NoTwice
  <2> QED BY <2>1
<1> QED BY <1>2, <1>5, <1>6, <1>7

LEMMA EmptyDocs == DocsIn(<<>>) = {} /\ NoTwice(<<>>)
BY DEF DocsIn, NoTwice

(* A document handed over is new; it is under way, or was refused.         *)
LEMMA SendDelivers ==
  ASSUME EmitterInv, DocsApart, NEW d \in Document, Send(d)
  PROVE  /\ DocsApart'
         /\ Promise!HandOver(d) \/ Promise!Refuse(d)
<1> DEFINE w == [doc |-> d, to |-> udp]
<1>1. /\ TypeOK /\ TypeOK' /\ w \in Work /\ w.doc = d
      /\ d \notin Range(handed) /\ handed' = Append(handed, d) /\ gone' = gone
  <2>1. EmitterInv'
    BY SendKeepsOrder
  <2> QED BY <2>1 DEF EmitterInv, OneSocketPerBatch, TypeOK, Work, Send
<1>2. Range(handed') = Range(handed) \cup {d}
  BY <1>1, RangeOfAppend DEF TypeOK
<1>3. d \notin InTransit \cup Range(gone)
  BY <1>1 DEF DocsApart
<1>4. /\ InTransit = {v.doc : v \in flying} \cup DocsIn(batch) \cup DocsIn(pending)
      /\ InTransit' = {v.doc : v \in flying'} \cup DocsIn(batch') \cup DocsIn(pending')
  BY <1>1, RangeDocs DEF InTransit, TypeOK
<1> HIDE DEF w
<1>5. CASE udp \in NoPort /\ UNCHANGED <<flying, batchVars>>
  <2>1. InTransit' = InTransit /\ Halted' = Halted
    BY <1>4, <1>5 DEF batchVars, Halted
  <2>2. DocsApart'
    BY <1>1, <1>2, <1>5, <2>1 DEF DocsApart, batchVars
  <2>3. Range(handed') \ (InTransit' \cup Range(gone')) =
          (Range(handed) \ (InTransit \cup Range(gone))) \cup {d}
    BY <1>1, <1>2, <1>3, <2>1
  <2>4. Promise!Refuse(d)
    BY <1>1, <1>3, <2>1, <2>3 DEF Promise!Refuse
  <2> QED BY <2>2, <2>4
<1>6. ASSUME InTransit' = InTransit \cup {d}, Halted' = Halted \/ ~Halted
      PROVE  Promise!HandOver(d) /\ InTransit' \cup Range(gone') \subseteq Range(handed')
  <2>1. Halted' \in {Halted, TRUE}
    BY <1>6 DEF Halted
  <2>2. Range(handed') \ (InTransit' \cup Range(gone')) = Range(handed) \ (InTransit \cup Range(gone))
    BY <1>1, <1>2, <1>3, <1>6
  <2>3. d \notin Range(handed) \ (InTransit \cup Range(gone))
    BY <1>1
  <2>4. Promise!HandOver(d)
    BY <1>1, <1>3, <1>6, <2>1, <2>2, <2>3 DEF Promise!HandOver
  <2> QED BY <1>1, <1>2, <1>6, <2>4 DEF DocsApart
<1>7. CASE udp \notin NoPort /\ flying' = flying \cup {w} /\ UNCHANGED batchVars
  <2>1. InTransit' = InTransit \cup {d} /\ Halted' = Halted
    BY <1>1, <1>4, <1>7 DEF batchVars, Halted
  <2>2. \A v \in flying : v.doc # d
    BY <1>3, <1>4
  <2> QED BY <1>1, <1>6, <1>7, <2>1, <2>2 DEF DocsApart, batchVars
<1>8. CASE ~running /\ BatchSendData(<<w>>, clients) /\ UNCHANGED <<pending, flying>>
  <2>1. batch = <<>> /\ pending = <<>> /\ ~Halted
    BY <1>8 DEF EmitterInv, OneSocketPerBatch, Halted
  <2>2. batch' = <<w>> /\ DocsIn(<<w>>) = {d} /\ NoTwice(<<w>>)
    BY <1>1, <1>8 DEF BatchSendData, DocsIn, NoTwice
  <2>3. InTransit' = InTransit \cup {d}
    BY <1>4, <1>8, <2>1, <2>2, EmptyDocs
  <2> QED BY <1>6, <1>8, <2>1, <2>2, <2>3, EmptyDocs DEF DocsApart
<1>9. CASE running /\ pending' = Append(pending, w)
           /\ UNCHANGED <<batch, running, clients, flying>>
  <2>1. d \notin DocsIn(pending) /\ d \notin DocsIn(batch)
    BY <1>3, <1>4
  <2>2. DocsIn(pending') = DocsIn(pending) \cup {d} /\ NoTwice(pending')
    BY <1>1, <1>9, <2>1, DocsInAppend DEF DocsApart, TypeOK
  <2>3. InTransit' = InTransit \cup {d} /\ Halted' = Halted
    BY <1>4, <1>9, <2>2 DEF Halted
  <2> QED BY <1>6, <1>9, <2>1, <2>2, <2>3 DEF DocsApart
<1> QED BY <1>5, <1>7, <1>8, <1>9 DEF Send, BatchSend, w

(* A document that leaves was under way, once.                             *)
LEMMA SharedSentLeaves ==
  ASSUME EmitterInv, DocsApart, NEW w \in flying, SharedSent(w)
  PROVE  /\ DocsApart'
         /\ \E d \in Document : Promise!Leave(d)
<1>1. /\ TypeOK /\ w.doc \in Document /\ gone \in Seq(Document)
      /\ batch = <<>> /\ pending = <<>>
      /\ flying' = flying \ {w} /\ gone' = Append(gone, w.doc)
      /\ UNCHANGED <<batch, pending, running, handed>>
  BY DEF EmitterInv, OneSocketPerBatch, SocketsApart, TypeOK, Work, SharedSent, batchVars
<1>2. Range(gone') = Range(gone) \cup {w.doc}
  BY <1>1, RangeOfAppend
<1>3. /\ InTransit = {v.doc : v \in flying}
      /\ InTransit' = {v.doc : v \in flying'}
  BY <1>1, RangeDocs, EmptyDocs DEF InTransit, TypeOK
<1>4. InTransit' = InTransit \ {w.doc} /\ w.doc \in InTransit
  BY <1>1, <1>3 DEF DocsApart
<1>5. ~Halted /\ Halted' \in {Halted, TRUE}
  <2>1. ~Halted /\ Halted' = Halted
    BY <1>1 DEF Halted
  <2> QED BY <2>1
<1>6. DocsApart'
  <2>1. InTransit' \cup Range(gone') \subseteq Range(handed')
    BY <1>1, <1>2, <1>4 DEF DocsApart
  <2>2. \A v, u \in flying' : v.doc = u.doc => v = u
    BY <1>1 DEF DocsApart
  <2>3. NoTwice(batch') /\ NoTwice(pending') /\ DocsIn(batch') \cap DocsIn(pending') = {}
    BY <1>1, EmptyDocs
  <2> QED BY <2>1, <2>2, <2>3 DEF DocsApart
<1>7. Range(handed') \ (InTransit' \cup Range(gone')) = Range(handed) \ (InTransit \cup Range(gone))
  BY <1>1, <1>2, <1>4
<1>8. Promise!Leave(w.doc)
  BY <1>2, <1>4, <1>5, <1>7 DEF Promise!Leave
<1> QED BY <1>1, <1>6, <1>8

LEMMA BatchSentLeaves ==
  ASSUME EmitterInv, DocsApart, BatchSent
  PROVE  /\ DocsApart'
         /\ \E d \in Document : Promise!Leave(d)
<1> DEFINE d == Head(batch).doc
<1>1. /\ TypeOK /\ TypeOK' /\ running /\ batch # <<>> /\ ~Halted
      /\ gone' = Append(gone, d) /\ UNCHANGED <<flying, handed>>
  <2>1. EmitterInv'
    BY BatchSentKeepsOrder
  <2> QED BY <2>1 DEF EmitterInv, OneSocketPerBatch, BatchSent
<1>2. d \in Document /\ flying = {}
  BY <1>1, HeadTailProperties DEF EmitterInv, SocketsApart, TypeOK, Work
<1>3. /\ d \in DocsIn(batch) /\ DocsIn(Tail(batch)) = DocsIn(batch) \ {d} /\ NoTwice(Tail(batch))
  BY <1>1, DocsInTail DEF DocsApart, TypeOK
<1>4. Range(gone') = Range(gone) \cup {d}
  BY <1>1, <1>2, RangeOfAppend DEF TypeOK
<1>5. /\ InTransit = DocsIn(batch) \cup DocsIn(pending)
      /\ InTransit' = DocsIn(batch') \cup DocsIn(pending')
  BY <1>1, <1>2, RangeDocs DEF InTransit, TypeOK
<1> HIDE DEF d
<1>6. /\ DocsIn(batch') \cup DocsIn(pending') = DocsIn(Tail(batch)) \cup DocsIn(pending)
      /\ DocsIn(batch') \cap DocsIn(pending') = {}
      /\ NoTwice(batch') /\ NoTwice(pending')
  <2>1. CASE Len(batch) > 1
    <3>1. batch' = Tail(batch) /\ pending' = pending
      BY <2>1 DEF BatchSent
    <3> QED BY <1>3, <3>1 DEF DocsApart
  <2>2. CASE ~(Len(batch) > 1)
    <3>1. batch' = pending /\ pending' = <<>>
      BY <2>2 DEF BatchSent, FinishBatch, BatchSendData
    <3>2. Tail(batch) = <<>>
      <4>1. /\ Len(batch) \in Nat \ {0} /\ Tail(batch) \in Seq(Work)
            /\ Len(Tail(batch)) = Len(batch) - 1
        BY <1>1, EmptySeq, HeadTailProperties, LenProperties DEF TypeOK
      <4>2. Len(Tail(batch)) = 0
        BY <2>2, <4>1
      <4> QED BY <4>1, <4>2, EmptySeq
    <3> QED BY <3>1, <3>2, EmptyDocs DEF DocsApart
  <2> QED BY <2>1, <2>2
<1>7. InTransit' = InTransit \ {d} /\ d \in InTransit
  BY <1>3, <1>5, <1>6 DEF DocsApart
<1>8. Range(handed') \ (InTransit' \cup Range(gone')) = Range(handed) \ (InTransit \cup Range(gone))
  BY <1>1, <1>4, <1>7
<1>9. DocsApart'
  BY <1>1, <1>2, <1>4, <1>6, <1>7 DEF DocsApart
<1>10. Promise!Leave(d)
  <2>1. Halted' \in {Halted, TRUE}
    BY <1>1 DEF Halted
  <2> QED BY <1>1, <1>4, <1>7, <1>8, <2>1 DEF Promise!Leave
<1> QED BY <1>2, <1>9, <1>10

(* Every step of the emitter is one of Outbox or leaves it as it is.       *)
LEMMA StepIsPromised ==
  EmitterInv /\ DocsApart /\ [Next]_vars => DocsApart' /\ [Promise!Next]_(Promise!vars)
<1> SUFFICES ASSUME EmitterInv, DocsApart, [Next]_vars
             PROVE  DocsApart' /\ [Promise!Next]_(Promise!vars)
  OBVIOUS
<1>1. ASSUME NEW d \in Document, Send(d) PROVE DocsApart' /\ Promise!Next
  BY <1>1, SendDelivers DEF Promise!Next
<1>2. ASSUME NEW w \in flying, SharedSent(w) PROVE DocsApart' /\ Promise!Next
  BY <1>2, SharedSentLeaves DEF Promise!Next
<1>3. CASE BatchSent
  BY <1>3, BatchSentLeaves DEF Promise!Next
<1>4. CASE UNCHANGED <<flying, batch, pending, running, handed, gone>>
  BY <1>4 DEF DocsApart, InTransit, Halted, Promise!vars
<1> QED BY <1>1, <1>2, <1>3, <1>4 DEF Next, DisableReusableSocket, SetDaemonAddress, vars, batchVars

(* The emitter keeps the promise of Outbox as far as safety goes: what is  *)
(* handed over is refused or leaves at most once, and nothing leaves that  *)
(* was not handed over.                                                    *)
THEOREM EmitterIsSafe == Spec => Promise!Init /\ [][Promise!Next]_(Promise!vars)
<1>1. Init => DocsApart /\ Promise!Init
  <2> SUFFICES ASSUME Init PROVE DocsApart /\ Promise!Init
    OBVIOUS
  <2>1. Range(gone) = {} /\ Range(handed) = {} /\ InTransit = {} /\ ~Halted
    BY DEF Init, Range, InTransit, Docs, Halted
  <2> QED BY <2>1, EmptyDocs DEF Init, DocsApart, Promise!Init
<1> QED BY <1>1, InitKeepsOrder, StepKeepsOrder, StepIsPromised, PTL DEF Spec
=============================================================================
