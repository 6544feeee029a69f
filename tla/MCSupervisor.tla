---------------------------- MODULE MCSupervisor ----------------------------
(* Model-checking instances of the process supervisor.                     *)
EXTENDS Supervisor, TLC

CONSTANTS k1, shutdown, backstop

AllPolicies == [kill_after_grace : BOOLEAN, targets_group : BOOLEAN, wrapped : BOOLEAN]
=============================================================================
