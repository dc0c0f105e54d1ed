---------------------------- MODULE MCMapSession ----------------------------
(* Small worlds for MapSession: the zones of one server, or of two.        *)
EXTENDS MapSession, TLC

CONSTANTS s1, s2, z1, z2, z3

OneServer == {s1}
TwoServers == {s1, s2}
AllOnOne == [z \in Zone |-> s1]
OneEach == z1 :> s1 @@ z2 :> s2
TwoAndOne == z1 :> s1 @@ z2 :> s2 @@ z3 :> s1

Symmetry == Permutations(Char) \cup Permutations(Port)
=============================================================================
