------------------------ MODULE MCInstrumentedCalls ------------------------
(* InstrumentedCalls for TLC: the subsegments are interchangeable. *)
EXTENDS InstrumentedCalls, TLC

Interchangeable == Permutations(Subsegment)
=============================================================================
