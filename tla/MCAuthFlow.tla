----------------------------- MODULE MCAuthFlow -----------------------------
(* AuthFlow on small instances: two deployments that differ in the allowlist *)
(* and in the registry, or one that never changes.                           *)
EXTENDS AuthFlow, TLC

CONSTANTS alice, bob, old, new

OneConfig == {[allowed |-> {alice}, registry |-> {old}]}
TwoConfigs == {[allowed |-> {alice, bob}, registry |-> {old}],
               [allowed |-> {bob}, registry |-> {new}]}

HandlersAlike == Permutations(Requests)
=============================================================================
