------------------------------ MODULE MCParty ------------------------------
EXTENDS Party, TLC

MCChar == 1 .. 3

Servers == Permutations(Server)

=============================================================================
