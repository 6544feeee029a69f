------------------------------ MODULE MCPolicy ------------------------------
(* Model-checking instances of the policy stack around the breaker.        *)
EXTENDS Policy, TLC

CONSTANTS c1, c2, c3

ThreeCallers == {c1, c2, c3}
=============================================================================
