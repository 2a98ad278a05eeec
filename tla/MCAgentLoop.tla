---------------------------- MODULE MCAgentLoop ----------------------------
(* Instances of AgentLoop for TLC. *)
EXTENDS AgentLoop

\* Every configuration of the registry.
AllConfigs == Config
=============================================================================
