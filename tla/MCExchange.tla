----------------------------- MODULE MCExchange -----------------------------
(* One player has a full bag (a crystal and two herbs, of which a ring can be     *)
(* made), the other the rare ring and a free slot; each has one gil.              *)
EXTENDS Exchange, TLC
CONSTANTS c1, c2, crystal, herb, ring

MCStack == (crystal :> 1) @@ (herb :> 2) @@ (ring :> 1) @@ (Gil :> 9)
MCIngredients == <<herb, herb>>
Of(k, q) == [kind |-> k, qty |-> q, reserve |-> 0, price |-> 0]
MCResults == {[kind |-> ring, qty |-> 1]}
MCStart == [c \in Char |-> [s \in Slots |->
              CASE s = 0 -> Of(Gil, 1)
                [] s = 1 -> IF c = c1 THEN Of(crystal, 1) ELSE Of(ring, 1)
                [] OTHER -> IF c = c1 THEN Of(herb, 2) ELSE Empty]]
=============================================================================
