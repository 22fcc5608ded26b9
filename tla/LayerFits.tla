------------------------------ MODULE LayerFits ------------------------------
(***************************************************************************)
(* What the type annotations of the payload classes allow, for the fields  *)
(* of Layer: which layouts there are, which values they have, and whether  *)
(* what selects the fields is written.                                     *)
(***************************************************************************)
EXTENDS Tuples

CONSTANTS
  KnownBelow(_),     \* field
  FitsBelow(_, _),   \* field, value
  OnWireBelow(_, _)  \* field, value

------------------------------------------------------------------------------

KnownLayout(layout) ==
  IsTuple(layout) /\ \A k \in 1..Len(layout) : KnownBelow(layout[k])

Known(field) ==
  CASE field.type \in {"struct", "list"} -> KnownLayout(field.of)
    [] field.type = "switch"  -> \A k \in DOMAIN field.of : KnownLayout(field.of[k])
    [] field.type = "implied" ->
         /\ field.default \in DOMAIN field.of
         /\ \A k \in DOMAIN field.of : KnownLayout(field.of[k])
    [] OTHER -> KnownBelow(field)

FitsLayout(layout, fields) ==
  /\ IsTuple(fields) /\ Len(fields) = Len(layout)
  /\ \A k \in 1..Len(layout) : FitsBelow(layout[k], fields[k])

Fits(field, v) ==
  CASE field.type = "struct" -> FitsLayout(field.of, v)
    [] field.type = "list" ->
         /\ IsTuple(v) /\ Len(v) <= 2147483647
         /\ \A k \in 1..Len(v) : FitsLayout(field.of, v[k])
    [] field.type \in {"switch", "implied"} ->
         /\ v = [kind |-> v.kind, fields |-> v.fields]
         /\ v.kind \in Octet \cap DOMAIN field.of
         /\ FitsLayout(field.of[v.kind], v.fields)
    [] OTHER -> FitsBelow(field, v)

\* What selects the fields that are read is known to the reader: the kind of
\* an implied field is the one the reader takes for granted.
OnWireLayout(layout, fields) ==
  \A k \in 1..Len(layout) : OnWireBelow(layout[k], fields[k])

OnWire(field, v) ==
  CASE field.type = "struct"  -> OnWireLayout(field.of, v)
    [] field.type = "list"    -> \A k \in 1..Len(v) : OnWireLayout(field.of, v[k])
    [] field.type = "switch"  -> OnWireLayout(field.of[v.kind], v.fields)
    [] field.type = "implied" ->
         v.kind = field.default /\ OnWireLayout(field.of[v.kind], v.fields)
    [] OTHER -> OnWireBelow(field, v)
==============================================================================
