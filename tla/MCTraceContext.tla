-------------------------- MODULE MCTraceContext --------------------------
(* Two requests with a captured function, or one with two.                 *)
EXTENDS TraceContext
===========================================================================
