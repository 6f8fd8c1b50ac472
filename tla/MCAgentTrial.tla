---------------------------- MODULE MCAgentTrial ----------------------------
(* A command that prints three pieces, and three turns in four ticks.      *)
EXTENDS AgentTrial
=============================================================================
