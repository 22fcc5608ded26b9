--------------------------------- MODULE Layer ---------------------------------
(***************************************************************************)
(* Fields that hold other fields, and payloads, which are sequences of     *)
(* fields: the order in which the serialize() and deserialize() of the     *)
(* payload classes write and read.  The Below operators are those for the  *)
(* fields inside, so that a tower of Layers is made for fields inside      *)
(* fields inside fields; nothing in the protocol nests without end.        *)
(*                                                                         *)
(* A layout is the sequence of the fields that a serialize() writes and    *)
(* its deserialize() reads, in the same order.  The value of a layout is   *)
(* the sequence of its fields' values.                                     *)
(***************************************************************************)
EXTENDS Fields, Below

CONSTANT ReadBelow(_, _, _, _)  \* field, data, offset, id sizes

------------------------------------------------------------------------------
(* Writing                                                                  *)

\* serialize()
WriteLayout(layout, fields, sizes) ==
  FlattenSeq([k \in 1..Len(layout) |->
                WriteBelow(layout[k], fields[k], sizes)])

\* The serialize() of one entry after the other.
WriteEntries(layout, v, sizes) ==
  FlattenSeq([k \in 1..Len(v) |-> WriteLayout(layout, v[k], sizes)])

WriteField(field, v, sizes) ==
  CASE field.type = "struct" -> WriteLayout(field.of, v, sizes)
    [] field.type = "list" ->
         Pack(Len(v), 4) \o WriteEntries(field.of, v, sizes)
    [] field.type = "switch" ->
         <<v.kind>> \o WriteLayout(field.of[v.kind], v.fields, sizes)
    [] field.type = "implied" ->
         WriteLayout(field.of[v.kind], v.fields, sizes)
    [] OTHER -> WriteBelow(field, v, sizes)

------------------------------------------------------------------------------
(* Reading                                                                  *)

\* n reads, one behind the other; the first that raises ends them.
ReadEach(n, Nth(_, _), o) ==
  LET From[left \in 0..n] ==
        [at \in Int |->
           IF left = 0 THEN Read(<<>>, at)
           ELSE LET first == Nth(n - left + 1, at)
                    rest == From[left - 1][first.offset]
                IN  IF first.ok /\ rest.ok
                    THEN Read(<<first.value>> \o rest.value, rest.offset)
                    ELSE Raise]
  IN  IF n <= 0 THEN Read(<<>>, o) ELSE From[n][o]

\* deserialize(), from an offset on.
ReadLayout(layout, data, o, sizes) ==
  ReadEach(Len(layout), LAMBDA k, at : ReadBelow(layout[k], data, at, sizes), o)

\* The deserialize() of n entries.
ReadEntries(n, layout, data, o, sizes) ==
  ReadEach(n, LAMBDA k, at : ReadLayout(layout, data, at, sizes), o)

ReadField(field, data, o, sizes) ==
  CASE field.type = "struct" -> ReadLayout(field.of, data, o, sizes)
    [] field.type = "list" ->
         LET count == ReadInt(data, o)
         IN  IF count.ok
             THEN ReadEntries(count.value, field.of, data, count.offset, sizes)
             ELSE Raise
    [] field.type \in {"switch", "implied"} ->
         LET kind == IF field.type = "switch"
                     THEN Member(ReadByte(data, o), DOMAIN field.of)
                     ELSE Read(field.default, o)
             fields == ReadLayout(field.of[kind.value], data, kind.offset, sizes)
         IN  IF kind.ok /\ fields.ok
             THEN Read([kind |-> kind.value, fields |-> fields.value], fields.offset)
             ELSE Raise
    [] OTHER -> ReadBelow(field, data, o, sizes)
==============================================================================
