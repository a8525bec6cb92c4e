--------------------------- MODULE MCLambdaFacade ---------------------------
(* LambdaFacade for TLC: a header of every kind the code tells apart. *)
EXTENDS LambdaFacade, TLC

ASSUME FacadeOnly

HeaderKinds ==
  [root : {"valid", "malformed", "none"}, parent : BOOLEAN, sampled : {"1", "0", "none"}]

Interchangeable == Permutations(Subsegment)
=============================================================================
