-------------------------------- MODULE MCProxy --------------------------------
(* Instances of Proxy for TLC.                                              *)
EXTENDS Proxy, TLC

CONSTANTS i1, i2

IdSymmetry == Permutations(Ids)
==============================================================================
