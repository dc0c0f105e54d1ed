------------------------------- MODULE MCMob -------------------------------
(* One mob and two players, small enough for TLC.                          *)
EXTENDS Mob

CONSTANTS c1, c2
=============================================================================
