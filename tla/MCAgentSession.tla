-------------------------- MODULE MCAgentSession --------------------------
(* The module has only scalar constants: the configurations give them.     *)
EXTENDS AgentSession
============================================================================
