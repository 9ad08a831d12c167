--------------------------- MODULE MCSchedulerLoop ---------------------------
(***************************************************************************)
(* A small instance of SchedulerLoop: two tokens for two checks, so that a *)
(* check can overlap with itself and keep the other waiting for a token.   *)
(***************************************************************************)
EXTENDS SchedulerLoop

CONSTANTS c1, c2, g1, g2

MCCheck == {c1, c2}
MCGoroutine == {g1, g2}
MCInputs == [enabled : BOOLEAN, next : {"later", "due"}]
=============================================================================
