--------------------------- MODULE MCPacketStream ---------------------------
(***************************************************************************)
(* Model checking of PacketStream, and the mutants of its definitions that *)
(* show which property notices which mistake in map.cpp.                   *)
(***************************************************************************)
EXTENDS PacketStream

=============================================================================
