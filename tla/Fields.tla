--------------------------------- MODULE Fields --------------------------------
(***************************************************************************)
(* The fields of payloads: JdwpWriter and JdwpReader (io.py) and the id    *)
(* sizes (spec.py).  How a single value becomes bytes, and bytes a value.  *)
(*                                                                         *)
(*   - a 64-bit number, an id among them, is the pair of its halves, each  *)
(*     a number of TLC's range with the same 32 bits;                      *)
(*   - a string is the sequence of its code points;                        *)
(*   - a double stands for its bits, and a float, which Python keeps as a  *)
(*     double, for the bits of the nearest single and what it lacks of the *)
(*     float: 0 if the float is a single.                                  *)
(*                                                                         *)
(* Fields that hold other fields are the business of Layer.                *)
(***************************************************************************)
EXTENDS Tuples, SequencesExt
------------------------------------------------------------------------------
(* The types of fields                                                      *)

Byte     == [type |-> "byte"]
Boolean  == [type |-> "boolean"]
Int32    == [type |-> "int"]
Int64    == [type |-> "long"]
Float    == [type |-> "float"]
String   == [type |-> "string"]
\* The values of the tags BYTE, SHORT and CHAR.
Int8     == [type |-> "int8"]
Int16    == [type |-> "int16"]
UInt16   == [type |-> "uint16"]
Id(kind) == [type |-> "id", kind |-> kind]
\* An IntEnum is read through its constructor, which knows its members only.
ByteEnum(S) == [type |-> "byteEnum", members |-> S]
IntEnum(S)  == [type |-> "intEnum", members |-> S]
\* An IntFlag is any number of flags, with those it names up to all.
IntFlag(all) == [type |-> "flags", all |-> all]
\* Fields of their own, a counted list of them, and fields that depend on the
\* byte in front of them, or on something that is not written at all.
Struct(layout) == [type |-> "struct", of |-> layout]
List(layout)   == [type |-> "list", of |-> layout]
Switch(layouts) == [type |-> "switch", of |-> layouts]
Implied(layouts, default) ==
  [type |-> "implied", of |-> layouts, default |-> default]

ObjectID        == Id("object")
ReferenceTypeID == Id("referenceType")
FieldID         == Id("field")
MethodID        == Id("method")
FrameID         == Id("frame")
ThreadID        == ObjectID
ThreadGroupID   == ObjectID
StringID        == ObjectID
ClassLoaderID   == ObjectID
ClassObjectID   == ObjectID
ArrayObjectID   == ObjectID
InterfaceID     == ObjectID
ClassID         == ReferenceTypeID
ArrayTypeID     == ReferenceTypeID

TagInt == 73
ObjectTags == {91, 76, 115, 116, 103, 108, 99}
Tags == ObjectTags \cup {66, 67, 70, 68, TagInt, 74, 83, 86, 90}
TypeTag       == ByteEnum({1, 2, 3})
Tag           == ByteEnum(Tags)
SuspendPolicy == ByteEnum({0, 1, 2})
EventKind     == ByteEnum((1..10) \cup {20, 21, 30} \cup (40..46) \cup {90, 99})
ThreadStatus  == IntEnum(0..4)
SuspendStatus == IntEnum({0, 1})
ClassStatus   == IntFlag(15)
InvokeOptions == IntFlag(3)

Location     == Struct(<<TypeTag, ReferenceTypeID, MethodID, Int64>>)
TaggedObject == Struct(<<Tag, ObjectID>>)

Untagged == [t \in Tags |->
  CASE t \in ObjectTags -> <<ObjectID>>
    [] t = 66           -> <<Int8>>      \* BYTE
    [] t = 67           -> <<UInt16>>    \* CHAR
    [] t = 83           -> <<Int16>>     \* SHORT
    [] t = 70           -> <<Float>>
    [] t = TagInt       -> <<Int32>>
    [] t \in {68, 74}   -> <<Int64>>     \* DOUBLE, LONG
    [] t = 90           -> <<Boolean>>
    [] t = 86           -> <<>>]         \* VOID
Value == Switch(Untagged)

------------------------------------------------------------------------------
(* Id sizes                                                                 *)

IdKinds == {"field", "method", "object", "referenceType", "frame"}
DefaultSizes == [k \in IdKinds |-> 8]

\* Mutant: any size is taken.
SupportedAny(sizes) == \A k \in IdKinds : sizes[k] > 0

\* IdSizesSpec.create() knows these sizes and raises for any other.
Supported(sizes) == \A k \in IdKinds : sizes[k] \in {4, 8}

\* Mutant: two sizes swapped.
FromResponseSwapped(fields) ==
  [field |-> fields[1], method |-> fields[2], object |-> fields[4],
   referenceType |-> fields[3], frame |-> fields[5]]

\* from_response: the fields of an IDSizes response, in their order.
FromResponse(fields) ==
  [field |-> fields[1], method |-> fields[2], object |-> fields[3],
   referenceType |-> fields[4], frame |-> fields[5]]

------------------------------------------------------------------------------
(* Writing.  A write that raises puts Raised among the bytes.               *)

Raised == -1

\* struct.pack, big-endian, of a number of at most 32 bits.
Pack(n, w) ==
  CASE w = 1 -> <<n % 256>>
    [] w = 2 -> <<(n \div 256) % 256, n % 256>>
    [] w = 4 -> <<(n \div 16777216) % 256, (n \div 65536) % 256,
                  (n \div 256) % 256, n % 256>>
PackLong(n) == Pack(n[1], 4) \o Pack(n[2], 4)

\* Mutant: the upper half is cut off.
WriteIdTruncated(n, size) == IF size = 8 THEN PackLong(n) ELSE Pack(n[2], 4)

\* struct.pack raises if the id does not fit.
WriteId(n, size) ==
  CASE size = 8                -> PackLong(n)
    [] size = 4 /\ n[1] = 0    -> Pack(n[2], 4)
    [] OTHER                   -> <<Raised>>

\* str.encode("utf-8"), for the code points of at most two bytes.
Utf8(c) == IF c < 128 THEN <<c>> ELSE <<192 + c \div 64, 128 + (c % 64)>>
Encoded(s) == FlattenSeq([k \in 1..Len(s) |-> Utf8(s[k])])

WriteString(s) == Pack(Len(Encoded(s)), 4) \o Encoded(s)

\* struct.pack rounds, and raises if a number comes to an infinity.
Infinities == {2139095040, -8388608}
WriteFloat(v) ==
  IF v[1] \in Infinities /\ v[2] # 0 THEN <<Raised>> ELSE Pack(v[1], 4)

WriteLeaf(field, v, sizes) ==
  CASE field.type \in {"byte", "byteEnum"} -> <<v % 256>>
    [] field.type = "boolean"              -> <<IF v THEN 1 ELSE 0>>
    [] field.type = "int8"                 -> Pack(v, 1)
    [] field.type \in {"int16", "uint16"}  -> Pack(v, 2)
    [] field.type \in {"int", "intEnum", "flags"} -> Pack(v, 4)
    [] field.type = "float"                -> WriteFloat(v)
    [] field.type = "long"                 -> PackLong(v)
    [] field.type = "id"                   -> WriteId(v, sizes[field.kind])
    [] field.type = "string"               -> WriteString(v)
    [] OTHER                               -> <<Raised>>

------------------------------------------------------------------------------
(* Reading: a value and the offset behind it, or an exception.              *)

Read(v, o) == [ok |-> TRUE, value |-> v, offset |-> o]
Raise == [ok |-> FALSE]

\* The number whose big-endian digits are d, the first of them signed or not.
Number(d) ==
  CASE Len(d) = 1 -> d[1]
    [] Len(d) = 2 -> 256 * d[1] + d[2]
    [] Len(d) = 4 -> 16777216 * d[1] + 65536 * d[2] + 256 * d[3] + d[4]
Unsigned(b) == Number(b)
Signed(b) == IF b[1] < 128 THEN Number(b) ELSE Number([b EXCEPT ![1] = b[1] - 256])

\* A negative offset, as a string of negative length leaves it, counts from
\* the end of the data.
At(data, o) == IF o < 0 THEN o + Len(data) ELSE o
Within(data, o, w) == o + w <= (IF o < 0 THEN 0 ELSE Len(data)) /\ At(data, o) >= 0

\* struct.unpack_from, and data[offset], raise when fewer than w bytes are left.
Unpack(data, o, w, Meaning(_)) ==
  IF Within(data, o, w)
  THEN Read(Meaning(SubSeq(data, At(data, o) + 1, At(data, o) + w)), o + w)
  ELSE Raise

\* data[o:end], which is short at the end of the data, without an exception.
Slice(data, o, end) ==
  LET Clamp(i) == IF At(data, i) < 0 THEN 0
                  ELSE IF i > Len(data) THEN Len(data) ELSE At(data, i)
  IN  SubSeq(data, Clamp(o) + 1, Clamp(end))

Halves(b) == <<Signed(SubSeq(b, 1, 4)), Signed(SubSeq(b, 5, 8))>>
LowHalf(b) == <<0, Signed(b)>>
Single(b) == <<Signed(b), 0>>

\* Mutant: a slice, which is short at the end of the data.
ReadIntFromSlice(data, o) ==
  LET b == Slice(data, o, o + 4)
      digits == [k \in 1..(4 - Len(b)) |-> 0] \o b
  IN  IF b = <<>> THEN Raise ELSE Read(Signed(digits), o + 4)

ReadInt(data, o) == Unpack(data, o, 4, Signed)
ReadByte(data, o) == Unpack(data, o, 1, Unsigned)

\* The constructor of an enumeration raises for other numbers.
Member(r, members) == IF r.ok /\ r.value \in members THEN r ELSE Raise

\* The constructor of an IntFlag takes a negative number for the complement
\* of its named flags, or of all flags up to the number's highest bit h.
Flagged(n, all) ==
  CASE n >= 0                    -> n
    [] n < 0 /\ n >= -(all + 1)  -> n + (all + 1)
    [] n = -2147483647 - 1       -> n
    [] OTHER ->
         LET h == CHOOSE p \in {2^k : k \in 0..30} : n + p <= 0 /\ n + p > -p
         IN  (n + h) + h

\* bytes.decode("utf-8"), strict.
Decodable(b) ==
  \A k \in 1..Len(b) :
    /\ b[k] \in 0..191 \cup 194..223
    /\ b[k] >= 194 => k < Len(b) /\ b[k + 1] \in 128..191
    /\ b[k] \in 128..191 => k > 1 /\ b[k - 1] >= 194
Decoded(b) ==
  FlattenSeq([k \in 1..Len(b) |->
    CASE b[k] < 128  -> <<b[k]>>
      [] b[k] >= 192 -> <<64 * (b[k] - 192) + b[k + 1] - 128>>
      [] OTHER       -> <<>>])

\* The offset moves on by the length that was read, however long the slice
\* is.  Lengths that lead beyond both ends of the data lead to the same place.
ReadString(data, o) ==
  LET length == ReadInt(data, o)
      far == 2 * Len(data) + 1
      Near(n) == IF n > far THEN far ELSE IF n < -far THEN -far ELSE n
      end == length.offset + Near(length.value)
      slice == Slice(data, length.offset, end)
  IN  IF length.ok /\ Decodable(slice) THEN Read(Decoded(slice), end) ELSE Raise

ReadId(data, o, size) ==
  IF size = 8 THEN Unpack(data, o, 8, Halves) ELSE Unpack(data, o, 4, LowHalf)

ReadLeaf(field, data, o, sizes) ==
  CASE field.type = "byte"     -> ReadByte(data, o)
    [] field.type = "byteEnum" -> Member(ReadByte(data, o), field.members)
    [] field.type = "boolean"  -> Unpack(data, o, 1, LAMBDA b : b # <<0>>)
    [] field.type = "int8"     -> Unpack(data, o, 1, Signed)
    [] field.type = "int16"    -> Unpack(data, o, 2, Signed)
    [] field.type = "uint16"   -> Unpack(data, o, 2, Unsigned)
    [] field.type = "int"      -> ReadInt(data, o)
    [] field.type = "intEnum"  -> Member(ReadInt(data, o), field.members)
    [] field.type = "flags"    ->
         Unpack(data, o, 4, LAMBDA b : Flagged(Signed(b), field.all))
    [] field.type = "float"    -> Unpack(data, o, 4, Single)
    [] field.type = "long"     -> Unpack(data, o, 8, Halves)
    [] field.type = "id"       -> ReadId(data, o, sizes[field.kind])
    [] field.type = "string"   -> ReadString(data, o)
    [] OTHER                   -> Raise

------------------------------------------------------------------------------
(* What the type annotations of the payload classes allow                   *)

CodePoint == {c \in Nat : c < 2048}   \* those of at most two bytes
Between(n, least, most) == n \in Int /\ least <= n /\ n <= most
IsWord(n) == Between(n, -2147483647 - 1, 2147483647)

LeafTypes ==
  {"byte", "byteEnum", "boolean", "int8", "int16", "uint16", "int", "intEnum",
   "flags", "float", "long", "id", "string"}
KnownLeaf(field) == field.type \in LeafTypes

FitsLeaf(field, v) ==
  CASE field.type = "byte"     -> v \in Octet
    [] field.type = "byteEnum" -> v \in Octet /\ v \in field.members
    [] field.type = "boolean"  -> v \in BOOLEAN
    [] field.type = "int8"     -> Between(v, -128, 127)
    [] field.type = "int16"    -> Between(v, -32768, 32767)
    [] field.type = "uint16"   -> Between(v, 0, 65535)
    [] field.type = "int"      -> IsWord(v)
    [] field.type = "intEnum"  -> IsWord(v) /\ v \in field.members
    [] field.type = "flags"    -> Between(v, 0, 2147483647)
    [] field.type = "float"    -> v = <<v[1], v[2]>> /\ IsWord(v[1]) /\ v[2] \in Int
    [] field.type \in {"long", "id"} ->
         v = <<v[1], v[2]>> /\ IsWord(v[1]) /\ IsWord(v[2])
    [] field.type = "string"   ->
         v \in Seq(CodePoint) /\ Len(Encoded(v)) <= 2147483647
    [] OTHER                   -> FALSE

\* A leaf's value is all on the wire, except for what a single lacks of a float.
OnWireLeaf(field, v) == field.type = "float" => v[2] = 0

\* Only a string is read although bytes are missing, and is shorter then.
LosesEndLeaf(field, v, read, sizes) ==
  field.type = "string" /\ IsStrictPrefix(read, v)
==============================================================================
