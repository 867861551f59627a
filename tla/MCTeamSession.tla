---------------------------- MODULE MCTeamSession ----------------------------
(* The constants are numbers and sets of names: the configurations give    *)
(* them.                                                                   *)
EXTENDS TeamSession
==============================================================================
