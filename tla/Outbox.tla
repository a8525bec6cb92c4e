------------------------------- MODULE Outbox -------------------------------
(***************************************************************************)
(* What an emitter promises to the segments: a document that is handed     *)
(* over leaves at most once, and every one leaves in the end, unless it    *)
(* was refused on the spot or the emitter has come to a halt.  An abstract *)
(* specification; SegmentEmitter implements it.                            *)
(***************************************************************************)
CONSTANT Document

VARIABLES
  waiting,   \* the documents handed over that have not left
  gone,      \* those that have, sent or failed
  refused,   \* those whose hand-over raised an error
  halted     \* nothing leaves any more

vars == <<waiting, gone, refused, halted>>

Init == waiting = {} /\ gone = {} /\ refused = {} /\ halted = FALSE

(* A document may be what brings the emitter to a halt, here or in Leave.  *)
HandOver(d) ==
  /\ d \notin waiting \cup gone \cup refused
  /\ waiting' = waiting \cup {d}
  /\ halted' \in {halted, TRUE}
  /\ UNCHANGED <<gone, refused>>

Refuse(d) ==
  /\ d \notin waiting \cup gone \cup refused
  /\ refused' = refused \cup {d}
  /\ UNCHANGED <<waiting, gone, halted>>

Leave(d) ==
  /\ d \in waiting /\ ~halted
  /\ waiting' = waiting \ {d}
  /\ gone' = gone \cup {d}
  /\ halted' \in {halted, TRUE}
  /\ UNCHANGED refused

Next == \E d \in Document : HandOver(d) \/ Refuse(d) \/ Leave(d)

Spec ==
  /\ Init /\ [][Next]_vars
  /\ \A d \in Document : WF_vars(Leave(d))
=============================================================================
