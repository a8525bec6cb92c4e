--------------------------- MODULE TraceDelivery ---------------------------
(***************************************************************************)
(* What a segment promises about the delivery of its tree, whatever it     *)
(* streams and when: each of its nodes is delivered at most once, only     *)
(* after it is done, and when the last node is done everything that is     *)
(* traced has been delivered.  An abstract specification; SegmentTree      *)
(* implements it.                                                          *)
(***************************************************************************)
EXTENDS Naturals

CONSTANTS Root, Subsegment

VARIABLES
  started,    \* the nodes that exist
  done,       \* the nodes that were closed
  untraced,   \* the nodes nobody has to deliver
  delivered   \* how many times each node has been delivered

vars == <<started, done, untraced, delivered>>

Node == {Root} \cup Subsegment

Init ==
  /\ started = {Root}
  /\ done = {}
  /\ untraced \in {{}, {Root}}
  /\ delivered = [n \in Node |-> 0]

(* Nodes that are done and have not been delivered may be, at any time.    *)
Deliver(ns) ==
  delivered' = [n \in Node |-> IF n \in ns THEN delivered[n] + 1 ELSE delivered[n]]

Pending(ns) == {n \in ns : delivered[n] = 0}

(* A node starts while another is not done; what it inherits is untraced.  *)
Start(s) ==
  /\ s \in Subsegment \ started
  /\ started # done
  /\ started' = started \cup {s}
  /\ done' = done
  /\ untraced' \in {untraced, untraced \cup {s}}
  /\ \E ns \in SUBSET Pending(done) : Deliver(ns)

(* A node is done.  The last one to be leaves nothing traced undelivered.  *)
Finish(n) ==
  /\ n \in started \ done
  /\ done' = done \cup {n}
  /\ \E ns \in SUBSET Pending(done') :
        /\ Deliver(ns)
        /\ done' = started => Pending(done') \ untraced \subseteq ns
  /\ UNCHANGED <<started, untraced>>

Next ==
  \/ \E s \in Subsegment : Start(s)
  \/ \E n \in Node : Finish(n)

Spec == Init /\ [][Next]_vars
=============================================================================
