------------------------------- MODULE MCPayloads -------------------------------
EXTENDS Payloads, FiniteSets

CONSTANT TallSeeds   \* the seeds for which ids do not fit four bytes
ASSUME TallSeeds \subseteq Seeds

------------------------------------------------------------------------------
(* The fields considered: for a position p in the payload and a seed s       *)

Nth(S, n) ==
  CHOOSE e \in S : Cardinality({f \in S : f < e}) = n % Cardinality(S)
Pick(values, n) == values[(n % Len(values)) + 1]

Ints == <<0, 1, -1, 16909060, 2147483647, -2147483647 - 1>>
\* 0, 1 and an infinity; 0.1; a double beyond every single.
Floats == <<<<0, 0>>, <<1065353216, 0>>, <<1036831949, 1>>, <<2139095040, 0>>,
            <<2139095040, 1>>>>
Strings == <<<<76, 97, 59>>, <<233>>, <<>>, <<72, 955, 105>>>>

RECURSIVE Sample(_, _, _)

SampleField(field, p, s) ==
  CASE field.type = "byte"    -> (37 * p + 101 * s) % 256
    [] field.type = "boolean" -> (p + s) % 2 = 0
    [] field.type = "int"     -> Pick(Ints, p + s)
    [] field.type = "long"    -> <<Pick(Ints, p + s), Pick(Ints, p + 2 * s + 1)>>
    [] field.type = "int8"    -> Pick(<<0, 1, -1, 127, -128>>, p + s)
    [] field.type = "int16"   -> Pick(<<0, 1, -1, 200, 32767, -32768>>, p + s)
    [] field.type = "uint16"  -> Pick(<<0, 1, 200, 32768, 65535>>, p + s)
    [] field.type = "id"      ->
         <<IF s \in TallSeeds THEN Pick(Ints, p) ELSE 0, Pick(Ints, p + s)>>
    [] field.type = "flags"   -> Pick(<<0, 1, 15, 16, 2147483647>>, p + s)
    [] field.type = "float"   -> Pick(Floats, p + s)
    [] field.type = "string"  -> Pick(Strings, p + s)
    [] field.type \in {"byteEnum", "intEnum"} -> Nth(field.members, p + s)
    [] field.type = "struct"  -> Sample(field.of, p, s)
    [] field.type = "list"    ->
         [k \in 1..(s % 3) |-> Sample(field.of, p + k, s)]
    [] field.type \in {"switch", "implied"} ->
         LET kind == Nth(DOMAIN field.of, p + s)
         IN  [kind |-> kind, fields |-> Sample(field.of[kind], p, s)]

Sample(layout, p, s) ==
  [k \in 1..Len(layout) |-> SampleField(layout[k], p + k, s)]

MCChoice(layout, s) == Sample(layout, 0, s)

------------------------------------------------------------------------------

\* Sizes that tell every two kinds of ids apart, and a VM with ids of 2 bytes.
MCSizes ==
  {DefaultSizes,
   [k \in IdKinds |-> 4],
   [k \in IdKinds |-> IF k \in {"field", "method"} THEN 4 ELSE 8],
   [k \in IdKinds |-> IF k \in {"field", "object"} THEN 4 ELSE 8],
   [k \in IdKinds |-> IF k \in {"field", "referenceType"} THEN 4 ELSE 8],
   [DefaultSizes EXCEPT !.frame = 2]}
EightOnly == {DefaultSizes}
==============================================================================
