-------------------------- MODULE MCPacketConnection --------------------------
(* Instances of PacketConnection for TLC.  Nothing distinguishes two calls, *)
(* or two ids.                                                              *)
EXTENDS PacketConnection, TLC

CONSTANTS c1, c2, i1, i2

Symmetry == Permutations(Calls) \cup Permutations(PacketIds)
==============================================================================
