--------------------------------- MODULE Tuples ---------------------------------
(***************************************************************************)
(* What the values of payloads are made of, besides numbers.               *)
(***************************************************************************)
EXTENDS Integers, Sequences

Octet == 0..255

\* A sequence, whatever it is of.
IsTuple(v) == Len(v) \in Nat /\ v = [k \in 1..Len(v) |-> v[k]]
==============================================================================
