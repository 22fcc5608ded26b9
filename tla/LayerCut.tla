------------------------------ MODULE LayerCut -------------------------------
(***************************************************************************)
(* What is read of a value whose last bytes are missing, if reading it     *)
(* does not raise: for the fields of Layer.                                *)
(***************************************************************************)
EXTENDS Tuples, Below

CONSTANTS
  WriteEntry(_, _, _),      \* layout, fields, id sizes: WriteLayout of the same Layer
  LosesEndBelow(_, _, _, _) \* field, value, what is read of it, id sizes

------------------------------------------------------------------------------

\* Of n values one has lost its end, and those behind it are not on the wire.
OneLosesEnd(n, v, read, LosesEnd(_), Written(_)) ==
  /\ IsTuple(read) /\ Len(read) = n
  /\ \E j \in 1..n :
       /\ LosesEnd(j)
       /\ \A k \in 1..n \ {j} : read[k] = v[k]
       /\ \A k \in (j + 1)..n : Written(k) = <<>>

LosesEndLayout(layout, fields, read, sizes) ==
  OneLosesEnd(Len(layout), fields, read,
    LAMBDA k : LosesEndBelow(layout[k], fields[k], read[k], sizes),
    LAMBDA k : WriteBelow(layout[k], fields[k], sizes))

LosesEnd(field, v, read, sizes) ==
  CASE field.type = "struct" -> LosesEndLayout(field.of, v, read, sizes)
    [] field.type = "list" ->
         OneLosesEnd(Len(v), v, read,
           LAMBDA k : LosesEndLayout(field.of, v[k], read[k], sizes),
           LAMBDA k : WriteEntry(field.of, v[k], sizes))
    [] field.type \in {"switch", "implied"} ->
         /\ read = [kind |-> v.kind, fields |-> read.fields]
         /\ LosesEndLayout(field.of[v.kind], v.fields, read.fields, sizes)
    [] OTHER -> LosesEndBelow(field, v, read, sizes)
==============================================================================
