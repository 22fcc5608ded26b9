--------------------------- MODULE MCAsyncConnection ---------------------------
(* Instances of AsyncConnection for TLC.                                    *)
EXTENDS AsyncConnection

CONSTANTS c1, c2, g1, g2, k1, k2
==============================================================================
