--------------------------- MODULE MCAgentCommands ---------------------------
(***************************************************************************)
(* AgentCommands for TLC with cloned hosts interchangeable.  Only the runs *)
(* that check invariants and action properties use the symmetry.           *)
(***************************************************************************)
EXTENDS AgentCommands, TLC

HostSymmetry == Permutations(Hosts)
=============================================================================
