------------------------- MODULE MCAgentToolAction -------------------------
(* Instances of AgentToolAction small enough for TLC. *)
EXTENDS AgentToolAction

MCCalls == {"read", "pay", "send"}
MCImmediate == {"read"}
===========================================================================
