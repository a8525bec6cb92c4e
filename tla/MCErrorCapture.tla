--------------------------- MODULE MCErrorCapture ---------------------------
(* Subsegments are interchangeable, and so are errors.                     *)
EXTENDS ErrorCapture, TLC

CONSTANTS s1, s2, s3, e1, e2

Symmetry == Permutations({s1, s2, s3}) \cup Permutations({e1, e2})
=============================================================================
