--------------------------- MODULE MCSegmentTree ---------------------------
(* SegmentTree for TLC: the subsegments of the instance are interchangeable. *)
EXTENDS SegmentTree, TLC

Interchangeable == Permutations(Subsegment)
=============================================================================
