--------------------------- MODULE MCSegmentTreeLoose ---------------------------
(* SegmentTreeLoose for TLC: the subsegments of the instance are interchangeable. *)
EXTENDS SegmentTreeLoose, TLC

Interchangeable == Permutations(Subsegment)
=============================================================================
