-------------------------- MODULE MCAgentInventory --------------------------
(***************************************************************************)
(* An agent whose updates come and go, once more of them than it lists,    *)
(* and a clone with one update of its own.                                 *)
(***************************************************************************)
EXTENDS AgentInventory

CONSTANTS h1, h2, u1, u2

Report(updates, total) == [updates |-> updates, total |-> total]
MCReports == [h \in Hosts |->
  IF h = h1 THEN {Report({u1}, 1), Report({u1, u2}, 3)}
            ELSE {Report({u2}, 1)}]
MCEntered == {-1, 1}
=============================================================================
