---------------------------- MODULE MCAgentLink ----------------------------
(* Small instances of AgentLink for TLC: all constants are numbers, given  *)
(* in the configurations.                                                  *)
EXTENDS AgentLink
=============================================================================
