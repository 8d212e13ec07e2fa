--------------------------- MODULE MCAgentSession ---------------------------
(* Small instances of AgentSession.                                         *)
EXTENDS AgentSession

CONSTANTS u, v, c
=============================================================================
