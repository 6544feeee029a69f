------------------------------- MODULE MCApp -------------------------------
(* Model-checking instances of the application lifecycle.                  *)
EXTENDS App, TLC

OneOrTwoHooks == [p \in LifecyclePhase |-> IF p = "before_stop" THEN 2 ELSE 1]
=============================================================================
