--------------------------- MODULE MCEventStream ---------------------------
(* Small instances of EventStream for TLC.                                 *)
EXTENDS EventStream

CONSTANTS w1, w2, a

OneKey == {1}
TwoKeys == {1, 2}
FirstCallback == {<<1, a>>}
SecondCallback == {<<2, a>>}
=============================================================================
