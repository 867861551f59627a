----------------------------- MODULE MCSandboxPool ----------------------------
(* The configurations give the constants.                                  *)
EXTENDS SandboxPool
===============================================================================
