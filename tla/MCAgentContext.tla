---------------------------- MODULE MCAgentContext ----------------------------
(* Responses of one call, of two, and with the call that finishes.           *)
EXTENDS AgentContext

MCShapes ==
  {<<"call">>, <<"call", "call">>, <<"finish">>, <<"call", "finish">>}
===============================================================================
