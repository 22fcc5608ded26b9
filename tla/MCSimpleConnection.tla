-------------------------- MODULE MCSimpleConnection --------------------------
(* Instances of SimpleConnection for TLC.                                   *)
EXTENDS SimpleConnection, TLC

CONSTANTS c1, c2, c3

CallSymmetry == Permutations(Calls)
==============================================================================
