------------------------- MODULE MCAgentController -------------------------
(* Values for the constants of AgentController.                            *)
EXTENDS AgentController

AllUserStates == {Running, Stopped, "paused", Confirmed, Rejected}
============================================================================
