---------------------------- MODULE MCTreasurePool ----------------------------
(***************************************************************************)
(* Small instances of TreasurePool for TLC.  The players are model values  *)
(* and nothing tells one from another, so they may be permuted.            *)
(***************************************************************************)
EXTENDS TreasurePool, TLC

Symmetry == Permutations(Player)
=============================================================================
