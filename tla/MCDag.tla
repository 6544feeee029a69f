------------------------------- MODULE MCDag -------------------------------
(* Model-checking instances of the DAG engine.                             *)
EXTENDS Dag, TLC

CONSTANTS n1, n2, n3, n4

FourNodes == {n1, n2, n3, n4}

NodeSymmetry == Permutations(Nodes)
=============================================================================
