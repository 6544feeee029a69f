----------------------------- MODULE MCStateful -----------------------------
(* Model-checking instances of the keyed accumulators.                     *)
EXTENDS Stateful, TLC

CONSTANTS t1, t2, t3, k1, k2

Symmetries == Permutations(Threads) \cup Permutations(Keys)
=============================================================================
