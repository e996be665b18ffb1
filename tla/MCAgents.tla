------------------------------ MODULE MCAgents ------------------------------
(***************************************************************************)
(* The agent runtime and its properties, as the Agent*.cfg runs of the     *)
(* README check them; a run chooses which calls are made.                  *)
(***************************************************************************)
EXTENDS AgentProperties
=============================================================================
