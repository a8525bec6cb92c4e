------------------------ MODULE MCArrivalDecision ------------------------
(* One rule with any host pattern of up to three characters, or two rules  *)
(* that differ in the method and the host.                                 *)
EXTENDS ArrivalDecision, TLC, SequencesExt

Characters == {"A", "a", "b", "B", "*", "?"}

Capitals == "A" :> "a"

Hosts == {<<>>, <<"A", "b">>, <<"b", "a", "b">>}
Methods == {<<"a">>, <<"b">>}
Paths == {<<"a">>}

Star == <<"*">>
Rule(host, method, target) ==
  [default |-> FALSE, host |-> host, method |-> method, path |-> Star, target |-> target, rate |-> "0"]
AnyOther == [default |-> TRUE, target |-> 1, rate |-> "between"]

DefaultRules == <<AnyOther>>

RuleSets ==
  {DefaultRules, <<Rule(<<"?", "b">>, <<"a">>, 1), Rule(<<"*", "B">>, Star, 2), AnyOther>>}
  \cup {<<Rule(p, Star, 1), AnyOther>> : p \in BoundedSeq({"a", "*", "?"}, 3)}

HostPatterns == {<<"a", "*", "b">>}
=============================================================================
