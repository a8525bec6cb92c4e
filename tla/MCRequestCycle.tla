--------------------------- MODULE MCRequestCycle ---------------------------
(* RequestCycle for TLC: the requests of the instance are interchangeable. *)
EXTENDS RequestCycle, TLC

Interchangeable == Permutations(Request)
=============================================================================
