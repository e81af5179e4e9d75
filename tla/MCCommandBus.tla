--------------------------- MODULE MCCommandBus ----------------------------
(* CommandBus on a small instance: c1 decodes, cBad does not. *)
EXTENDS CommandBus

CONSTANTS c1, cBad, g1, g2, g3

TwoCommands == {c1, cBad}
OnlyBad == {cBad}
ThreeGoroutines == {g1, g2, g3}
=============================================================================
