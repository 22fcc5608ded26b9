---------------------------------- MODULE Below ----------------------------------
(***************************************************************************)
(* How the fields inside those of a Layer are written.                     *)
(***************************************************************************)
CONSTANT WriteBelow(_, _, _)  \* field, value, id sizes
==============================================================================
