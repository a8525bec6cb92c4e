-------------------------- MODULE MCCentralSampling --------------------------
EXTENDS CentralSampling

(* The service replaces one rule by another.  Of each version's rules only *)
(* the one that differs is modelled: rules share nothing but the cache.    *)
(* Only the old rule decides requests: it is the one that leaves the cache *)
(* and, with an answer that is late, comes back.                           *)
CONSTANTS OldRule, NewRule
Versions == <<{OldRule}, {NewRule}>>
Requests == [r \in Rule |-> IF r = OldRule THEN 2 ELSE 0]
==============================================================================
