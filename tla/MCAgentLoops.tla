----------------------------- MODULE MCAgentLoops -----------------------------
(* The configurations give the constants; clients and requests are alike.  *)
EXTENDS AgentLoops, TLC

Alike == Permutations(Conns) \cup Permutations(Requests) \cup Permutations(Sids)
===============================================================================
