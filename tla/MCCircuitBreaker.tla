-------------------------- MODULE MCCircuitBreaker --------------------------
(* Model-checking instances of the circuit breaker.                        *)
EXTENDS CircuitBreaker, TLC

CONSTANTS c1, c2, c3

ThreeCallers == {c1, c2, c3}
TwoCallers == {c1, c2}
=============================================================================
