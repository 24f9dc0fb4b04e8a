---------------------------- MODULE MCPatchCycle ----------------------------
(***************************************************************************)
(* Instances of PatchCycle for TLC.  Every schedule covers every machine,  *)
(* every patch targets every machine, and all agents are of one host.      *)
(***************************************************************************)
EXTENDS PatchCycle

MCScope == [s \in Schedules |-> Machines]
MCTarget == [p \in Patches |-> Machines]
MCHost == [a \in Procs |-> CHOOSE m \in Machines : TRUE]
=============================================================================
