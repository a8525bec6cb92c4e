-------------------------- MODULE MCSegmentEmitter --------------------------
(* One usable endpoint and one without a port, to be changed at any time. *)
EXTENDS SegmentEmitter

CONSTANTS d1, d2, d3, d4, home, bad
=============================================================================
