----------------------------- MODULE MCRegistry -----------------------------
(* Model-checking instances of the component registry.                     *)
EXTENDS Registry, TLC

CONSTANT c1
=============================================================================
