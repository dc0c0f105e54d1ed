---------------------------- MODULE MCDeliveryBox ----------------------------
(* Small instances of DeliveryBox: nothing tells one character from another,  *)
(* or one kind of item.                                                       *)
EXTENDS DeliveryBox, TLC

Symmetry == Permutations(Player) \cup Permutations(Kind)
=============================================================================
