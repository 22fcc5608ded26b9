------------------------------ MODULE PayloadProofs ------------------------------
(***************************************************************************)
(* What holds of payloads on their way, whatever their fields are and      *)
(* whichever id sizes the VM has.  A payload is written and read by the    *)
(* four Layers of Codec, so this module first takes what LayerProofs says  *)
(* of one Layer through all of them, up from the leaves of FieldProofs;    *)
(* then it proves the invariants of Payloads from it.                      *)
(***************************************************************************)
EXTENDS Payloads, FieldProofs

------------------------------------------------------------------------------
(* The invariant: what is on the wire is what was sent, all of it, all but   *)
(* its end, or with a byte more.                                             *)

Underway ==
  LET bytes == Write(Layout, payload.fields, WriterSizes)
  IN  /\ KnownPayload(Layout) /\ FitsPayload(Layout, payload.fields)
      /\ bytes \in Seq(Octet)
      /\ IsIdSizesReply =>
           /\ Layout = VirtualMachineIDSizes.reply
           /\ payload.fields = <<sizes.field, sizes.method, sizes.object,
                                 sizes.referenceType, sizes.frame>>
      /\ how = "whole"    => data = bytes
      /\ how = "extended" => data = Append(bytes, 0)
      /\ how = "cut"      => \E n \in 0..(Len(bytes) - 1) : data = SubSeq(bytes, 1, n)

PayloadInv ==
  /\ sizes \in VmSizes
  /\ spec \in [IdKinds -> {4, 8}] /\ SpecIsDefaultOrVms
  /\ phase \in {"idle", "written", "done"}
  /\ how \in {"whole", "cut", "extended"}
  /\ phase # "done" => result = Raise
  /\ phase = "idle" => how = "whole"
  /\ phase = "written" => Underway
  /\ result.ok => result.offset \in Int
  /\ RoundTrip /\ CutOnlyInLastString

------------------------------------------------------------------------------
(* Layer by layer                                                            *)

InnerLaws == INSTANCE LayerProofs WITH
  WriteBelow <- WriteLeaf, ReadBelow <- ReadLeaf,
  KnownBelow <- KnownLeaf, FitsBelow <- FitsLeaf,
  OnWireBelow <- OnWireLeaf,
  WriteEntry <- Inner!WriteLayout, LosesEndBelow <- LosesEndLeaf

MiddleLaws == INSTANCE LayerProofs WITH
  WriteBelow <- Inner!WriteField, ReadBelow <- Inner!ReadField,
  KnownBelow <- InnerFits!Known, FitsBelow <- InnerFits!Fits,
  OnWireBelow <- InnerFits!OnWire,
  WriteEntry <- Middle!WriteLayout, LosesEndBelow <- InnerCut!LosesEnd

OuterLaws == INSTANCE LayerProofs WITH
  WriteBelow <- Middle!WriteField, ReadBelow <- Middle!ReadField,
  KnownBelow <- MiddleFits!Known, FitsBelow <- MiddleFits!Fits,
  OnWireBelow <- MiddleFits!OnWire,
  WriteEntry <- Outer!WriteLayout, LosesEndBelow <- MiddleCut!LosesEnd

WholeLaws == INSTANCE LayerProofs WITH
  WriteBelow <- Outer!WriteField, ReadBelow <- Outer!ReadField,
  KnownBelow <- OuterFits!Known, FitsBelow <- OuterFits!Fits,
  OnWireBelow <- OuterFits!OnWire,
  WriteEntry <- Whole!WriteLayout, LosesEndBelow <- OuterCut!LosesEnd


LEMMA InnerWritesLayouts ==
  ASSUME NEW layout, NEW fields, NEW ids
  PROVE  InnerLaws!WriteLayout(layout, fields, ids) = Inner!WriteLayout(layout, fields, ids)
  BY DEF InnerLaws!WriteLayout, Inner!WriteLayout, InnerLaws!FlattenSeq, Inner!FlattenSeq

LEMMA InnerReadsLayouts ==
  ASSUME NEW layout, NEW d, NEW o, NEW ids
  PROVE  InnerLaws!ReadLayout(layout, d, o, ids) = Inner!ReadLayout(layout, d, o, ids)
  BY DEF InnerLaws!ReadLayout, Inner!ReadLayout, InnerLaws!ReadEach,
         Inner!ReadEach, InnerLaws!Read, Inner!Read, InnerLaws!Raise,
         Inner!Raise

LEMMA InnerLayouts ==
  ASSUME NEW layout, NEW fields, NEW read, NEW ids
  PROVE  /\ InnerLaws!KnownLayout(layout) = InnerFits!KnownLayout(layout)
         /\ InnerLaws!FitsLayout(layout, fields) = InnerFits!FitsLayout(layout, fields)
         /\ InnerLaws!OnWireLayout(layout, fields) = InnerFits!OnWireLayout(layout, fields)
         /\ InnerLaws!LosesEndLayout(layout, fields, read, ids)
              = InnerCut!LosesEndLayout(layout, fields, read, ids)
  BY DEF InnerLaws!KnownLayout, InnerFits!KnownLayout, InnerLaws!FitsLayout,
         InnerFits!FitsLayout, InnerLaws!OnWireLayout, InnerFits!OnWireLayout,
         InnerLaws!LosesEndLayout, InnerCut!LosesEndLayout,
         InnerLaws!OneLosesEnd, InnerCut!OneLosesEnd, InnerLaws!IsTuple,
         InnerFits!IsTuple, InnerCut!IsTuple

LEMMA InnerWritesFields ==
  ASSUME NEW field, NEW v, NEW ids
  PROVE  InnerLaws!WriteField(field, v, ids) = Inner!WriteField(field, v, ids)
  BY DEF InnerLaws!WriteField, Inner!WriteField, InnerLaws!WriteEntries,
         Inner!WriteEntries, InnerLaws!WriteLayout, Inner!WriteLayout,
         InnerLaws!FlattenSeq, Inner!FlattenSeq, InnerLaws!Pack, Inner!Pack

LEMMA InnerReadsEntries ==
  ASSUME NEW n, NEW layout, NEW d, NEW o, NEW ids
  PROVE  InnerLaws!ReadEntries(n, layout, d, o, ids) = Inner!ReadEntries(n, layout, d, o, ids)
  BY DEF InnerLaws!ReadEntries, Inner!ReadEntries, InnerLaws!ReadLayout,
         Inner!ReadLayout, InnerLaws!ReadEach, Inner!ReadEach, InnerLaws!Read,
         Inner!Read, InnerLaws!Raise, Inner!Raise

LEMMA InnerReadsNumbers ==
  ASSUME NEW d, NEW o, NEW members
  PROVE  /\ InnerLaws!ReadInt(d, o) = Inner!ReadInt(d, o)
         /\ InnerLaws!Member(InnerLaws!ReadByte(d, o), members) = Inner!Member(Inner!ReadByte(d, o), members)
  BY DEF InnerLaws!Read, Inner!Read, InnerLaws!Raise, Inner!Raise,
         InnerLaws!ReadInt, Inner!ReadInt, InnerLaws!ReadByte, Inner!ReadByte,
         InnerLaws!Unpack, Inner!Unpack, InnerLaws!Within, Inner!Within,
         InnerLaws!At, Inner!At, InnerLaws!Signed, Inner!Signed,
         InnerLaws!Unsigned, Inner!Unsigned, InnerLaws!Number, Inner!Number,
         InnerLaws!Member, Inner!Member

LEMMA InnerReadsFields ==
  ASSUME NEW field, NEW d, NEW o, NEW ids
  PROVE  InnerLaws!ReadField(field, d, o, ids) = Inner!ReadField(field, d, o, ids)
  <1>1. CASE field.type = "struct"
    BY <1>1, InnerReadsLayouts DEF InnerLaws!ReadField, Inner!ReadField
  <1>2. CASE field.type = "list"
    <2>1. InnerLaws!ReadInt(d, o) = Inner!ReadInt(d, o)
      BY InnerReadsNumbers
    <2> QED BY <1>2, <2>1, InnerReadsEntries DEF InnerLaws!ReadField,
                                                 Inner!ReadField,
                                                 InnerLaws!Raise, Inner!Raise
  <1>3. CASE field.type = "switch"
    <2>1. InnerLaws!Member(InnerLaws!ReadByte(d, o), DOMAIN field.of)
            = Inner!Member(Inner!ReadByte(d, o), DOMAIN field.of)
      BY InnerReadsNumbers
    <2> QED BY <1>3, <2>1, InnerReadsLayouts DEF InnerLaws!ReadField,
                                                 Inner!ReadField, InnerLaws!Read,
                                                 Inner!Read, InnerLaws!Raise,
                                                 Inner!Raise
  <1>4. CASE field.type = "implied"
    BY <1>4, InnerReadsLayouts DEF InnerLaws!ReadField, Inner!ReadField,
                                   InnerLaws!Read, Inner!Read, InnerLaws!Raise,
                                   Inner!Raise
  <1>5. CASE field.type \notin {"struct", "list", "switch", "implied"}
    BY <1>5 DEF InnerLaws!ReadField, Inner!ReadField
  <1> QED BY <1>1, <1>2, <1>3, <1>4, <1>5

LEMMA InnerFields ==
  ASSUME NEW field, NEW v, NEW read, NEW ids
  PROVE  /\ InnerLaws!Known(field) = InnerFits!Known(field)
         /\ InnerLaws!Fits(field, v) = InnerFits!Fits(field, v)
         /\ InnerLaws!OnWire(field, v) = InnerFits!OnWire(field, v)
         /\ InnerLaws!LosesEnd(field, v, read, ids) = InnerCut!LosesEnd(field, v, read, ids)
  BY DEF InnerLaws!Known, InnerFits!Known, InnerLaws!Fits, InnerFits!Fits,
         InnerLaws!OnWire, InnerFits!OnWire, InnerLaws!LosesEnd,
         InnerCut!LosesEnd, InnerLaws!KnownLayout, InnerFits!KnownLayout,
         InnerLaws!FitsLayout, InnerFits!FitsLayout, InnerLaws!OnWireLayout,
         InnerFits!OnWireLayout, InnerLaws!LosesEndLayout,
         InnerCut!LosesEndLayout, InnerLaws!OneLosesEnd, InnerCut!OneLosesEnd,
         InnerLaws!IsTuple, InnerFits!IsTuple,
         InnerCut!IsTuple, InnerLaws!Octet, InnerFits!Octet


LEMMA MiddleWritesLayouts ==
  ASSUME NEW layout, NEW fields, NEW ids
  PROVE  MiddleLaws!WriteLayout(layout, fields, ids) = Middle!WriteLayout(layout, fields, ids)
  BY DEF MiddleLaws!WriteLayout, Middle!WriteLayout, MiddleLaws!FlattenSeq,
         Middle!FlattenSeq

LEMMA MiddleReadsLayouts ==
  ASSUME NEW layout, NEW d, NEW o, NEW ids
  PROVE  MiddleLaws!ReadLayout(layout, d, o, ids) = Middle!ReadLayout(layout, d, o, ids)
  BY DEF MiddleLaws!ReadLayout, Middle!ReadLayout, MiddleLaws!ReadEach,
         Middle!ReadEach, MiddleLaws!Read, Middle!Read, MiddleLaws!Raise,
         Middle!Raise

LEMMA MiddleLayouts ==
  ASSUME NEW layout, NEW fields, NEW read, NEW ids
  PROVE  /\ MiddleLaws!KnownLayout(layout) = MiddleFits!KnownLayout(layout)
         /\ MiddleLaws!FitsLayout(layout, fields) = MiddleFits!FitsLayout(layout, fields)
         /\ MiddleLaws!OnWireLayout(layout, fields) = MiddleFits!OnWireLayout(layout, fields)
         /\ MiddleLaws!LosesEndLayout(layout, fields, read, ids)
              = MiddleCut!LosesEndLayout(layout, fields, read, ids)
  BY DEF MiddleLaws!KnownLayout, MiddleFits!KnownLayout, MiddleLaws!FitsLayout,
         MiddleFits!FitsLayout, MiddleLaws!OnWireLayout, MiddleFits!OnWireLayout,
         MiddleLaws!LosesEndLayout, MiddleCut!LosesEndLayout,
         MiddleLaws!OneLosesEnd, MiddleCut!OneLosesEnd, MiddleLaws!IsTuple,
         MiddleFits!IsTuple, MiddleCut!IsTuple

LEMMA MiddleWritesFields ==
  ASSUME NEW field, NEW v, NEW ids
  PROVE  MiddleLaws!WriteField(field, v, ids) = Middle!WriteField(field, v, ids)
  BY DEF MiddleLaws!WriteField, Middle!WriteField, MiddleLaws!WriteEntries,
         Middle!WriteEntries, MiddleLaws!WriteLayout, Middle!WriteLayout,
         MiddleLaws!FlattenSeq, Middle!FlattenSeq, MiddleLaws!Pack, Middle!Pack

LEMMA MiddleReadsEntries ==
  ASSUME NEW n, NEW layout, NEW d, NEW o, NEW ids
  PROVE  MiddleLaws!ReadEntries(n, layout, d, o, ids) = Middle!ReadEntries(n, layout, d, o, ids)
  BY DEF MiddleLaws!ReadEntries, Middle!ReadEntries, MiddleLaws!ReadLayout,
         Middle!ReadLayout, MiddleLaws!ReadEach, Middle!ReadEach,
         MiddleLaws!Read, Middle!Read, MiddleLaws!Raise, Middle!Raise

LEMMA MiddleReadsNumbers ==
  ASSUME NEW d, NEW o, NEW members
  PROVE  /\ MiddleLaws!ReadInt(d, o) = Middle!ReadInt(d, o)
         /\ MiddleLaws!Member(MiddleLaws!ReadByte(d, o), members) = Middle!Member(Middle!ReadByte(d, o), members)
  BY DEF MiddleLaws!Read, Middle!Read, MiddleLaws!Raise, Middle!Raise,
         MiddleLaws!ReadInt, Middle!ReadInt, MiddleLaws!ReadByte,
         Middle!ReadByte, MiddleLaws!Unpack, Middle!Unpack, MiddleLaws!Within,
         Middle!Within, MiddleLaws!At, Middle!At, MiddleLaws!Signed,
         Middle!Signed, MiddleLaws!Unsigned, Middle!Unsigned, MiddleLaws!Number,
         Middle!Number, MiddleLaws!Member, Middle!Member

LEMMA MiddleReadsFields ==
  ASSUME NEW field, NEW d, NEW o, NEW ids
  PROVE  MiddleLaws!ReadField(field, d, o, ids) = Middle!ReadField(field, d, o, ids)
  <1>1. CASE field.type = "struct"
    BY <1>1, MiddleReadsLayouts DEF MiddleLaws!ReadField, Middle!ReadField
  <1>2. CASE field.type = "list"
    <2>1. MiddleLaws!ReadInt(d, o) = Middle!ReadInt(d, o)
      BY MiddleReadsNumbers
    <2> QED BY <1>2, <2>1, MiddleReadsEntries DEF MiddleLaws!ReadField,
                                                  Middle!ReadField,
                                                  MiddleLaws!Raise, Middle!Raise
  <1>3. CASE field.type = "switch"
    <2>1. MiddleLaws!Member(MiddleLaws!ReadByte(d, o), DOMAIN field.of)
            = Middle!Member(Middle!ReadByte(d, o), DOMAIN field.of)
      BY MiddleReadsNumbers
    <2> QED BY <1>3, <2>1, MiddleReadsLayouts DEF MiddleLaws!ReadField,
                                                  Middle!ReadField,
                                                  MiddleLaws!Read, Middle!Read,
                                                  MiddleLaws!Raise, Middle!Raise
  <1>4. CASE field.type = "implied"
    BY <1>4, MiddleReadsLayouts DEF MiddleLaws!ReadField, Middle!ReadField,
                                    MiddleLaws!Read, Middle!Read,
                                    MiddleLaws!Raise, Middle!Raise
  <1>5. CASE field.type \notin {"struct", "list", "switch", "implied"}
    BY <1>5 DEF MiddleLaws!ReadField, Middle!ReadField
  <1> QED BY <1>1, <1>2, <1>3, <1>4, <1>5

LEMMA MiddleFields ==
  ASSUME NEW field, NEW v, NEW read, NEW ids
  PROVE  /\ MiddleLaws!Known(field) = MiddleFits!Known(field)
         /\ MiddleLaws!Fits(field, v) = MiddleFits!Fits(field, v)
         /\ MiddleLaws!OnWire(field, v) = MiddleFits!OnWire(field, v)
         /\ MiddleLaws!LosesEnd(field, v, read, ids) = MiddleCut!LosesEnd(field, v, read, ids)
  BY DEF MiddleLaws!Known, MiddleFits!Known, MiddleLaws!Fits, MiddleFits!Fits,
         MiddleLaws!OnWire, MiddleFits!OnWire, MiddleLaws!LosesEnd,
         MiddleCut!LosesEnd, MiddleLaws!KnownLayout, MiddleFits!KnownLayout,
         MiddleLaws!FitsLayout, MiddleFits!FitsLayout, MiddleLaws!OnWireLayout,
         MiddleFits!OnWireLayout, MiddleLaws!LosesEndLayout,
         MiddleCut!LosesEndLayout, MiddleLaws!OneLosesEnd, MiddleCut!OneLosesEnd,
         MiddleLaws!IsTuple, MiddleFits!IsTuple,
         MiddleCut!IsTuple, MiddleLaws!Octet, MiddleFits!Octet


LEMMA OuterWritesLayouts ==
  ASSUME NEW layout, NEW fields, NEW ids
  PROVE  OuterLaws!WriteLayout(layout, fields, ids) = Outer!WriteLayout(layout, fields, ids)
  BY DEF OuterLaws!WriteLayout, Outer!WriteLayout, OuterLaws!FlattenSeq, Outer!FlattenSeq

LEMMA OuterReadsLayouts ==
  ASSUME NEW layout, NEW d, NEW o, NEW ids
  PROVE  OuterLaws!ReadLayout(layout, d, o, ids) = Outer!ReadLayout(layout, d, o, ids)
  BY DEF OuterLaws!ReadLayout, Outer!ReadLayout, OuterLaws!ReadEach,
         Outer!ReadEach, OuterLaws!Read, Outer!Read, OuterLaws!Raise,
         Outer!Raise

LEMMA OuterLayouts ==
  ASSUME NEW layout, NEW fields, NEW read, NEW ids
  PROVE  /\ OuterLaws!KnownLayout(layout) = OuterFits!KnownLayout(layout)
         /\ OuterLaws!FitsLayout(layout, fields) = OuterFits!FitsLayout(layout, fields)
         /\ OuterLaws!OnWireLayout(layout, fields) = OuterFits!OnWireLayout(layout, fields)
         /\ OuterLaws!LosesEndLayout(layout, fields, read, ids)
              = OuterCut!LosesEndLayout(layout, fields, read, ids)
  BY DEF OuterLaws!KnownLayout, OuterFits!KnownLayout, OuterLaws!FitsLayout,
         OuterFits!FitsLayout, OuterLaws!OnWireLayout, OuterFits!OnWireLayout,
         OuterLaws!LosesEndLayout, OuterCut!LosesEndLayout,
         OuterLaws!OneLosesEnd, OuterCut!OneLosesEnd, OuterLaws!IsTuple,
         OuterFits!IsTuple, OuterCut!IsTuple

LEMMA OuterWritesFields ==
  ASSUME NEW field, NEW v, NEW ids
  PROVE  OuterLaws!WriteField(field, v, ids) = Outer!WriteField(field, v, ids)
  BY DEF OuterLaws!WriteField, Outer!WriteField, OuterLaws!WriteEntries,
         Outer!WriteEntries, OuterLaws!WriteLayout, Outer!WriteLayout,
         OuterLaws!FlattenSeq, Outer!FlattenSeq, OuterLaws!Pack, Outer!Pack

LEMMA OuterReadsEntries ==
  ASSUME NEW n, NEW layout, NEW d, NEW o, NEW ids
  PROVE  OuterLaws!ReadEntries(n, layout, d, o, ids) = Outer!ReadEntries(n, layout, d, o, ids)
  BY DEF OuterLaws!ReadEntries, Outer!ReadEntries, OuterLaws!ReadLayout,
         Outer!ReadLayout, OuterLaws!ReadEach, Outer!ReadEach, OuterLaws!Read,
         Outer!Read, OuterLaws!Raise, Outer!Raise

LEMMA OuterReadsNumbers ==
  ASSUME NEW d, NEW o, NEW members
  PROVE  /\ OuterLaws!ReadInt(d, o) = Outer!ReadInt(d, o)
         /\ OuterLaws!Member(OuterLaws!ReadByte(d, o), members) = Outer!Member(Outer!ReadByte(d, o), members)
  BY DEF OuterLaws!Read, Outer!Read, OuterLaws!Raise, Outer!Raise,
         OuterLaws!ReadInt, Outer!ReadInt, OuterLaws!ReadByte, Outer!ReadByte,
         OuterLaws!Unpack, Outer!Unpack, OuterLaws!Within, Outer!Within,
         OuterLaws!At, Outer!At, OuterLaws!Signed, Outer!Signed,
         OuterLaws!Unsigned, Outer!Unsigned, OuterLaws!Number, Outer!Number,
         OuterLaws!Member, Outer!Member

LEMMA OuterReadsFields ==
  ASSUME NEW field, NEW d, NEW o, NEW ids
  PROVE  OuterLaws!ReadField(field, d, o, ids) = Outer!ReadField(field, d, o, ids)
  <1>1. CASE field.type = "struct"
    BY <1>1, OuterReadsLayouts DEF OuterLaws!ReadField, Outer!ReadField
  <1>2. CASE field.type = "list"
    <2>1. OuterLaws!ReadInt(d, o) = Outer!ReadInt(d, o)
      BY OuterReadsNumbers
    <2> QED BY <1>2, <2>1, OuterReadsEntries DEF OuterLaws!ReadField,
                                                 Outer!ReadField,
                                                 OuterLaws!Raise, Outer!Raise
  <1>3. CASE field.type = "switch"
    <2>1. OuterLaws!Member(OuterLaws!ReadByte(d, o), DOMAIN field.of)
            = Outer!Member(Outer!ReadByte(d, o), DOMAIN field.of)
      BY OuterReadsNumbers
    <2> QED BY <1>3, <2>1, OuterReadsLayouts DEF OuterLaws!ReadField,
                                                 Outer!ReadField, OuterLaws!Read,
                                                 Outer!Read, OuterLaws!Raise,
                                                 Outer!Raise
  <1>4. CASE field.type = "implied"
    BY <1>4, OuterReadsLayouts DEF OuterLaws!ReadField, Outer!ReadField,
                                   OuterLaws!Read, Outer!Read, OuterLaws!Raise,
                                   Outer!Raise
  <1>5. CASE field.type \notin {"struct", "list", "switch", "implied"}
    BY <1>5 DEF OuterLaws!ReadField, Outer!ReadField
  <1> QED BY <1>1, <1>2, <1>3, <1>4, <1>5

LEMMA OuterFields ==
  ASSUME NEW field, NEW v, NEW read, NEW ids
  PROVE  /\ OuterLaws!Known(field) = OuterFits!Known(field)
         /\ OuterLaws!Fits(field, v) = OuterFits!Fits(field, v)
         /\ OuterLaws!OnWire(field, v) = OuterFits!OnWire(field, v)
         /\ OuterLaws!LosesEnd(field, v, read, ids) = OuterCut!LosesEnd(field, v, read, ids)
  BY DEF OuterLaws!Known, OuterFits!Known, OuterLaws!Fits, OuterFits!Fits,
         OuterLaws!OnWire, OuterFits!OnWire, OuterLaws!LosesEnd,
         OuterCut!LosesEnd, OuterLaws!KnownLayout, OuterFits!KnownLayout,
         OuterLaws!FitsLayout, OuterFits!FitsLayout, OuterLaws!OnWireLayout,
         OuterFits!OnWireLayout, OuterLaws!LosesEndLayout,
         OuterCut!LosesEndLayout, OuterLaws!OneLosesEnd, OuterCut!OneLosesEnd,
         OuterLaws!IsTuple, OuterFits!IsTuple,
         OuterCut!IsTuple, OuterLaws!Octet, OuterFits!Octet


LEMMA WholeWritesLayouts ==
  ASSUME NEW layout, NEW fields, NEW ids
  PROVE  WholeLaws!WriteLayout(layout, fields, ids) = Whole!WriteLayout(layout, fields, ids)
  BY DEF WholeLaws!WriteLayout, Whole!WriteLayout, WholeLaws!FlattenSeq, Whole!FlattenSeq

LEMMA WholeReadsLayouts ==
  ASSUME NEW layout, NEW d, NEW o, NEW ids
  PROVE  WholeLaws!ReadLayout(layout, d, o, ids) = Whole!ReadLayout(layout, d, o, ids)
  BY DEF WholeLaws!ReadLayout, Whole!ReadLayout, WholeLaws!ReadEach,
         Whole!ReadEach, WholeLaws!Read, Whole!Read, WholeLaws!Raise,
         Whole!Raise

LEMMA WholeLayouts ==
  ASSUME NEW layout, NEW fields, NEW read, NEW ids
  PROVE  /\ WholeLaws!KnownLayout(layout) = WholeFits!KnownLayout(layout)
         /\ WholeLaws!FitsLayout(layout, fields) = WholeFits!FitsLayout(layout, fields)
         /\ WholeLaws!OnWireLayout(layout, fields) = WholeFits!OnWireLayout(layout, fields)
         /\ WholeLaws!LosesEndLayout(layout, fields, read, ids)
              = WholeCut!LosesEndLayout(layout, fields, read, ids)
  BY DEF WholeLaws!KnownLayout, WholeFits!KnownLayout, WholeLaws!FitsLayout,
         WholeFits!FitsLayout, WholeLaws!OnWireLayout, WholeFits!OnWireLayout,
         WholeLaws!LosesEndLayout, WholeCut!LosesEndLayout,
         WholeLaws!OneLosesEnd, WholeCut!OneLosesEnd, WholeLaws!IsTuple,
         WholeFits!IsTuple, WholeCut!IsTuple


LEMMA InnerSame ==
  /\ InnerLaws!Octet = Octet
  /\ \A b : InnerLaws!IsWritten(b) = IsWritten(b)
  /\ \A r : InnerLaws!OffsetIsInt(r) = OffsetIsInt(r)
  /\ \A v, o : InnerLaws!Read(v, o) = Read(v, o)
  /\ \A d, o, b : /\ InnerLaws!Agrees(d, o, b) = Agrees(d, o, b)
                      /\ InnerLaws!Holds(d, o, b) = Holds(d, o, b)
  <1>1. InnerLaws!Octet = Octet
    BY DEF InnerLaws!Octet, Octet
  <1>2. ASSUME NEW b PROVE InnerLaws!IsWritten(b) = IsWritten(b)
    BY <1>1 DEF InnerLaws!IsWritten, IsWritten, InnerLaws!Raised, Raised
  <1>3. ASSUME NEW r PROVE InnerLaws!OffsetIsInt(r) = OffsetIsInt(r)
    BY DEF InnerLaws!OffsetIsInt, OffsetIsInt
  <1>4. ASSUME NEW v, NEW o PROVE InnerLaws!Read(v, o) = Read(v, o)
    BY DEF InnerLaws!Read, Read
  <1>5. ASSUME NEW d, NEW o, NEW b
        PROVE  /\ InnerLaws!Agrees(d, o, b) = Agrees(d, o, b)
               /\ InnerLaws!Holds(d, o, b) = Holds(d, o, b)
    BY DEF InnerLaws!Agrees, Agrees, InnerLaws!Holds, Holds
  <1> QED BY <1>1, <1>2, <1>3, <1>4, <1>5


LEMMA MiddleSame ==
  /\ MiddleLaws!Octet = Octet
  /\ \A b : MiddleLaws!IsWritten(b) = IsWritten(b)
  /\ \A r : MiddleLaws!OffsetIsInt(r) = OffsetIsInt(r)
  /\ \A v, o : MiddleLaws!Read(v, o) = Read(v, o)
  /\ \A d, o, b : /\ MiddleLaws!Agrees(d, o, b) = Agrees(d, o, b)
                      /\ MiddleLaws!Holds(d, o, b) = Holds(d, o, b)
  <1>1. MiddleLaws!Octet = Octet
    BY DEF MiddleLaws!Octet, Octet
  <1>2. ASSUME NEW b PROVE MiddleLaws!IsWritten(b) = IsWritten(b)
    BY <1>1 DEF MiddleLaws!IsWritten, IsWritten, MiddleLaws!Raised, Raised
  <1>3. ASSUME NEW r PROVE MiddleLaws!OffsetIsInt(r) = OffsetIsInt(r)
    BY DEF MiddleLaws!OffsetIsInt, OffsetIsInt
  <1>4. ASSUME NEW v, NEW o PROVE MiddleLaws!Read(v, o) = Read(v, o)
    BY DEF MiddleLaws!Read, Read
  <1>5. ASSUME NEW d, NEW o, NEW b
        PROVE  /\ MiddleLaws!Agrees(d, o, b) = Agrees(d, o, b)
               /\ MiddleLaws!Holds(d, o, b) = Holds(d, o, b)
    BY DEF MiddleLaws!Agrees, Agrees, MiddleLaws!Holds, Holds
  <1> QED BY <1>1, <1>2, <1>3, <1>4, <1>5


LEMMA OuterSame ==
  /\ OuterLaws!Octet = Octet
  /\ \A b : OuterLaws!IsWritten(b) = IsWritten(b)
  /\ \A r : OuterLaws!OffsetIsInt(r) = OffsetIsInt(r)
  /\ \A v, o : OuterLaws!Read(v, o) = Read(v, o)
  /\ \A d, o, b : /\ OuterLaws!Agrees(d, o, b) = Agrees(d, o, b)
                      /\ OuterLaws!Holds(d, o, b) = Holds(d, o, b)
  <1>1. OuterLaws!Octet = Octet
    BY DEF OuterLaws!Octet, Octet
  <1>2. ASSUME NEW b PROVE OuterLaws!IsWritten(b) = IsWritten(b)
    BY <1>1 DEF OuterLaws!IsWritten, IsWritten, OuterLaws!Raised, Raised
  <1>3. ASSUME NEW r PROVE OuterLaws!OffsetIsInt(r) = OffsetIsInt(r)
    BY DEF OuterLaws!OffsetIsInt, OffsetIsInt
  <1>4. ASSUME NEW v, NEW o PROVE OuterLaws!Read(v, o) = Read(v, o)
    BY DEF OuterLaws!Read, Read
  <1>5. ASSUME NEW d, NEW o, NEW b
        PROVE  /\ OuterLaws!Agrees(d, o, b) = Agrees(d, o, b)
               /\ OuterLaws!Holds(d, o, b) = Holds(d, o, b)
    BY DEF OuterLaws!Agrees, Agrees, OuterLaws!Holds, Holds
  <1> QED BY <1>1, <1>2, <1>3, <1>4, <1>5


LEMMA WholeSame ==
  /\ WholeLaws!Octet = Octet
  /\ \A b : WholeLaws!IsWritten(b) = IsWritten(b)
  /\ \A r : WholeLaws!OffsetIsInt(r) = OffsetIsInt(r)
  /\ \A v, o : WholeLaws!Read(v, o) = Read(v, o)
  /\ \A d, o, b : /\ WholeLaws!Agrees(d, o, b) = Agrees(d, o, b)
                      /\ WholeLaws!Holds(d, o, b) = Holds(d, o, b)
  <1>1. WholeLaws!Octet = Octet
    BY DEF WholeLaws!Octet, Octet
  <1>2. ASSUME NEW b PROVE WholeLaws!IsWritten(b) = IsWritten(b)
    BY <1>1 DEF WholeLaws!IsWritten, IsWritten, WholeLaws!Raised, Raised
  <1>3. ASSUME NEW r PROVE WholeLaws!OffsetIsInt(r) = OffsetIsInt(r)
    BY DEF WholeLaws!OffsetIsInt, OffsetIsInt
  <1>4. ASSUME NEW v, NEW o PROVE WholeLaws!Read(v, o) = Read(v, o)
    BY DEF WholeLaws!Read, Read
  <1>5. ASSUME NEW d, NEW o, NEW b
        PROVE  /\ WholeLaws!Agrees(d, o, b) = Agrees(d, o, b)
               /\ WholeLaws!Holds(d, o, b) = Holds(d, o, b)
    BY DEF WholeLaws!Agrees, Agrees, WholeLaws!Holds, Holds
  <1> QED BY <1>1, <1>2, <1>3, <1>4, <1>5


LEMMA LeavesWork == InnerLaws!BelowWorks
  <1>1. InnerLaws!BelowIsWritten
    BY LeafIsWritten, InnerSame DEF InnerLaws!BelowIsWritten
  <1>2. InnerLaws!BelowEndsAtInt
    BY LeafOffset, InnerSame DEF InnerLaws!BelowEndsAtInt
  <1>3. InnerLaws!BelowReadsBack
    BY LeafReadsBack, InnerSame DEF InnerLaws!BelowReadsBack, LeafIsReadBack
  <1>4. InnerLaws!BelowIsCut
    BY LeafIsCut, InnerSame DEF InnerLaws!BelowIsCut, LeafIsCutShort
  <1>5. InnerLaws!BelowIsMissing
    <2>1. ASSUME NEW field, NEW ids, NEW d \in Seq(Octet), NEW o \in Nat,
                 KnownLeaf(field), o > Len(d)
          PROVE  ~ReadLeaf(field, d, o, ids).ok
      BY <2>1, LeafIsMissing
    <2> QED BY <2>1, InnerSame DEF InnerLaws!BelowIsMissing
  <1>6. InnerLaws!EntryIsLayout
    BY InnerWritesLayouts DEF InnerLaws!EntryIsLayout
  <1> QED BY <1>1, <1>2, <1>3, <1>4, <1>5, <1>6 DEF InnerLaws!BelowWorks


LEMMA MiddleBelow == ASSUME InnerLaws!FieldsWork PROVE MiddleLaws!BelowWorks
  <1>1. MiddleLaws!BelowIsWritten
    BY InnerWritesFields, InnerFields, MiddleSame, InnerSame
       DEF MiddleLaws!BelowIsWritten, InnerLaws!FieldsWork
  <1>2. MiddleLaws!BelowEndsAtInt
    BY InnerReadsFields, InnerFields, MiddleSame, InnerSame
       DEF MiddleLaws!BelowEndsAtInt, InnerLaws!FieldsWork
  <1>3. MiddleLaws!BelowReadsBack
    <2> SUFFICES ASSUME NEW field, NEW v, NEW ids, NEW d \in Seq(Octet), NEW o \in Nat,
                        InnerFits!Known(field), InnerFits!Fits(field, v), InnerFits!OnWire(field, v),
                        Holds(d, o, Inner!WriteField(field, v, ids))
                 PROVE  Inner!ReadField(field, d, o, ids)
                          = Read(v, o + Len(Inner!WriteField(field, v, ids)))
      BY MiddleSame DEF MiddleLaws!BelowReadsBack
    <2>1. InnerLaws!Known(field) /\ InnerLaws!Fits(field, v) /\ InnerLaws!OnWire(field, v)
      BY InnerFields
    <2>2. InnerLaws!WriteField(field, v, ids) = Inner!WriteField(field, v, ids)
      BY InnerWritesFields
    <2>3. InnerLaws!Holds(d, o, InnerLaws!WriteField(field, v, ids))
      BY <2>2, InnerSame
    <2>4. InnerLaws!ReadField(field, d, o, ids)
            = InnerLaws!Read(v, o + Len(InnerLaws!WriteField(field, v, ids)))
      BY <2>1, <2>3, InnerSame DEF InnerLaws!FieldsWork
    <2> QED BY <2>2, <2>4, InnerReadsFields, InnerSame
  <1>4. MiddleLaws!BelowIsCut
    BY InnerWritesFields, InnerReadsFields, InnerFields, MiddleSame, InnerSame
       DEF MiddleLaws!BelowIsCut, InnerLaws!FieldsWork
  <1>5. MiddleLaws!BelowIsMissing
    BY InnerWritesFields, InnerReadsFields, InnerFields, MiddleSame, InnerSame
       DEF MiddleLaws!BelowIsMissing, InnerLaws!FieldsWork
  <1>6. MiddleLaws!EntryIsLayout
    BY MiddleWritesLayouts DEF MiddleLaws!EntryIsLayout
  <1> QED BY <1>1, <1>2, <1>3, <1>4, <1>5, <1>6 DEF MiddleLaws!BelowWorks


LEMMA OuterBelow == ASSUME MiddleLaws!FieldsWork PROVE OuterLaws!BelowWorks
  <1>1. OuterLaws!BelowIsWritten
    BY MiddleWritesFields, MiddleFields, OuterSame, MiddleSame
       DEF OuterLaws!BelowIsWritten, MiddleLaws!FieldsWork
  <1>2. OuterLaws!BelowEndsAtInt
    BY MiddleReadsFields, MiddleFields, OuterSame, MiddleSame
       DEF OuterLaws!BelowEndsAtInt, MiddleLaws!FieldsWork
  <1>3. OuterLaws!BelowReadsBack
    <2> SUFFICES ASSUME NEW field, NEW v, NEW ids, NEW d \in Seq(Octet), NEW o \in Nat,
                        MiddleFits!Known(field), MiddleFits!Fits(field, v), MiddleFits!OnWire(field, v),
                        Holds(d, o, Middle!WriteField(field, v, ids))
                 PROVE  Middle!ReadField(field, d, o, ids)
                          = Read(v, o + Len(Middle!WriteField(field, v, ids)))
      BY OuterSame DEF OuterLaws!BelowReadsBack
    <2>1. MiddleLaws!Known(field) /\ MiddleLaws!Fits(field, v) /\ MiddleLaws!OnWire(field, v)
      BY MiddleFields
    <2>2. MiddleLaws!WriteField(field, v, ids) = Middle!WriteField(field, v, ids)
      BY MiddleWritesFields
    <2>3. MiddleLaws!Holds(d, o, MiddleLaws!WriteField(field, v, ids))
      BY <2>2, MiddleSame
    <2>4. MiddleLaws!ReadField(field, d, o, ids)
            = MiddleLaws!Read(v, o + Len(MiddleLaws!WriteField(field, v, ids)))
      BY <2>1, <2>3, MiddleSame DEF MiddleLaws!FieldsWork
    <2> QED BY <2>2, <2>4, MiddleReadsFields, MiddleSame
  <1>4. OuterLaws!BelowIsCut
    BY MiddleWritesFields, MiddleReadsFields, MiddleFields, OuterSame, MiddleSame
       DEF OuterLaws!BelowIsCut, MiddleLaws!FieldsWork
  <1>5. OuterLaws!BelowIsMissing
    BY MiddleWritesFields, MiddleReadsFields, MiddleFields, OuterSame, MiddleSame
       DEF OuterLaws!BelowIsMissing, MiddleLaws!FieldsWork
  <1>6. OuterLaws!EntryIsLayout
    BY OuterWritesLayouts DEF OuterLaws!EntryIsLayout
  <1> QED BY <1>1, <1>2, <1>3, <1>4, <1>5, <1>6 DEF OuterLaws!BelowWorks


LEMMA WholeBelow == ASSUME OuterLaws!FieldsWork PROVE WholeLaws!BelowWorks
  <1>1. WholeLaws!BelowIsWritten
    BY OuterWritesFields, OuterFields, WholeSame, OuterSame
       DEF WholeLaws!BelowIsWritten, OuterLaws!FieldsWork
  <1>2. WholeLaws!BelowEndsAtInt
    BY OuterReadsFields, OuterFields, WholeSame, OuterSame
       DEF WholeLaws!BelowEndsAtInt, OuterLaws!FieldsWork
  <1>3. WholeLaws!BelowReadsBack
    <2> SUFFICES ASSUME NEW field, NEW v, NEW ids, NEW d \in Seq(Octet), NEW o \in Nat,
                        OuterFits!Known(field), OuterFits!Fits(field, v), OuterFits!OnWire(field, v),
                        Holds(d, o, Outer!WriteField(field, v, ids))
                 PROVE  Outer!ReadField(field, d, o, ids)
                          = Read(v, o + Len(Outer!WriteField(field, v, ids)))
      BY WholeSame DEF WholeLaws!BelowReadsBack
    <2>1. OuterLaws!Known(field) /\ OuterLaws!Fits(field, v) /\ OuterLaws!OnWire(field, v)
      BY OuterFields
    <2>2. OuterLaws!WriteField(field, v, ids) = Outer!WriteField(field, v, ids)
      BY OuterWritesFields
    <2>3. OuterLaws!Holds(d, o, OuterLaws!WriteField(field, v, ids))
      BY <2>2, OuterSame
    <2>4. OuterLaws!ReadField(field, d, o, ids)
            = OuterLaws!Read(v, o + Len(OuterLaws!WriteField(field, v, ids)))
      BY <2>1, <2>3, OuterSame DEF OuterLaws!FieldsWork
    <2> QED BY <2>2, <2>4, OuterReadsFields, OuterSame
  <1>4. WholeLaws!BelowIsCut
    BY OuterWritesFields, OuterReadsFields, OuterFields, WholeSame, OuterSame
       DEF WholeLaws!BelowIsCut, OuterLaws!FieldsWork
  <1>5. WholeLaws!BelowIsMissing
    BY OuterWritesFields, OuterReadsFields, OuterFields, WholeSame, OuterSame
       DEF WholeLaws!BelowIsMissing, OuterLaws!FieldsWork
  <1>6. WholeLaws!EntryIsLayout
    BY WholeWritesLayouts DEF WholeLaws!EntryIsLayout
  <1> QED BY <1>1, <1>2, <1>3, <1>4, <1>5, <1>6 DEF WholeLaws!BelowWorks


LEMMA WholeWorks == WholeLaws!LayoutsWork
  <1>1. InnerLaws!FieldsWork
    BY LeavesWork, InnerLaws!LayerWorks
  <1>2. MiddleLaws!FieldsWork
    BY <1>1, MiddleBelow, MiddleLaws!LayerWorks
  <1>3. OuterLaws!FieldsWork
    BY <1>2, OuterBelow, OuterLaws!LayerWorks
  <1> QED BY <1>3, WholeBelow, WholeLaws!LayerWorks

------------------------------------------------------------------------------
(* Payloads as bytes                                                         *)

\* Nothing but bytes is written, or an exception is raised.
LEMMA PayloadIsWritten ==
  ASSUME NEW layout, NEW fields, NEW ids, FitsPayload(layout, fields)
  PROVE  IsWritten(Write(layout, fields, ids))
  <1>1. WholeLaws!FitsLayout(layout, fields)
    BY WholeLayouts DEF FitsPayload
  <1>2. WholeLaws!IsWritten(WholeLaws!WriteLayout(layout, fields, ids))
    BY <1>1, WholeWorks DEF WholeLaws!LayoutsWork
  <1> QED BY <1>2, WholeSame, WholeWritesLayouts DEF Write

\* The offset stays a number, whatever the bytes are.
LEMMA PayloadEndsAtInt ==
  ASSUME NEW layout, NEW ids, NEW d \in Seq(Octet), NEW o \in Int, KnownPayload(layout)
  PROVE  OffsetIsInt(ReadAll(layout, d, o, ids))
  <1>1. WholeLaws!KnownLayout(layout)
    BY WholeLayouts DEF KnownPayload
  <1>2. d \in Seq(WholeLaws!Octet)
    BY WholeSame
  <1>3. WholeLaws!OffsetIsInt(WholeLaws!ReadLayout(layout, d, o, ids))
    BY <1>1, <1>2, WholeWorks DEF WholeLaws!LayoutsWork
  <1> QED BY <1>3, WholeSame, WholeReadsLayouts DEF ReadAll

\* Whatever the layout, the values of its fields and the id sizes are: what a
\* serialize() writes, its deserialize() reads back, field for field, and
\* stops at the end of it.
THEOREM PayloadReadsBack ==
  ASSUME NEW layout, NEW fields, NEW ids, NEW d \in Seq(Octet), NEW o \in Nat,
         KnownPayload(layout), FitsPayload(layout, fields), OnWirePayload(layout, fields),
         Holds(d, o, Write(layout, fields, ids))
  PROVE  ReadAll(layout, d, o, ids) = Read(fields, o + Len(Write(layout, fields, ids)))
  <1>1. /\ WholeLaws!KnownLayout(layout) /\ WholeLaws!FitsLayout(layout, fields)
        /\ WholeLaws!OnWireLayout(layout, fields)
    BY WholeLayouts DEF KnownPayload, FitsPayload, OnWirePayload
  <1>2. d \in Seq(WholeLaws!Octet)
    BY WholeSame
  <1>3. WholeLaws!WriteLayout(layout, fields, ids) = Write(layout, fields, ids)
    BY WholeWritesLayouts DEF Write
  <1>4. WholeLaws!Holds(d, o, WholeLaws!WriteLayout(layout, fields, ids))
    BY <1>3, WholeSame
  <1>5. WholeLaws!ReadLayout(layout, d, o, ids)
          = WholeLaws!Read(fields, o + Len(WholeLaws!WriteLayout(layout, fields, ids)))
    BY <1>1, <1>2, <1>4, WholeWorks DEF WholeLaws!LayoutsWork
  <1>6. ReadAll(layout, d, o, ids) = WholeLaws!ReadLayout(layout, d, o, ids)
    BY WholeReadsLayouts DEF ReadAll
  <1> QED BY <1>3, <1>5, <1>6, WholeSame

\* A payload that lacks bytes raises, or has lost the end of a last string.
THEOREM PayloadIsCut ==
  ASSUME NEW layout, NEW fields, NEW ids, NEW d \in Seq(Octet), NEW o \in Nat,
         KnownPayload(layout), FitsPayload(layout, fields), OnWirePayload(layout, fields),
         o <= Len(d), Agrees(d, o, Write(layout, fields, ids)),
         o + Len(Write(layout, fields, ids)) > Len(d),
         ReadAll(layout, d, o, ids).ok
  PROVE  /\ LosesEndPayload(layout, fields, ReadAll(layout, d, o, ids).value, ids)
         /\ ReadAll(layout, d, o, ids).offset > Len(d)
  <1>1. /\ WholeLaws!KnownLayout(layout) /\ WholeLaws!FitsLayout(layout, fields)
        /\ WholeLaws!OnWireLayout(layout, fields)
    BY WholeLayouts DEF KnownPayload, FitsPayload, OnWirePayload
  <1>2. d \in Seq(WholeLaws!Octet)
    BY WholeSame
  <1>3. WholeLaws!WriteLayout(layout, fields, ids) = Write(layout, fields, ids)
    BY WholeWritesLayouts DEF Write
  <1>4. WholeLaws!Agrees(d, o, WholeLaws!WriteLayout(layout, fields, ids))
    BY <1>3, WholeSame
  <1> DEFINE r == WholeLaws!ReadLayout(layout, d, o, ids)
  <1>5. ReadAll(layout, d, o, ids) = r
    BY WholeReadsLayouts DEF ReadAll
  <1>6. /\ WholeLaws!LosesEndLayout(layout, fields, r.value, ids)
        /\ r.offset > Len(d)
    BY <1>1, <1>2, <1>3, <1>4, <1>5, WholeWorks DEF WholeLaws!LayoutsWork
  <1> QED BY <1>5, <1>6, WholeLayouts DEF LosesEndPayload

\* A write that did not raise is bytes.
LEMMA WrittenOctets ==
  ASSUME NEW b, IsWritten(b), ~Contains(b, Raised)
  PROVE  b \in Seq(Octet)
  <1>1. b \in Seq(Octet \cup {Raised}) /\ Len(b) \in Nat
    BY DEF IsWritten
  <1>2. ASSUME NEW k \in 1..Len(b) PROVE b[k] \in Octet
    <2>1. b[k] # Raised
      BY DEF Contains
    <2>2. b[k] \in Octet \cup {Raised}
      BY <1>1
    <2> QED BY <2>1, <2>2
  <1>3. b = [k \in 1..Len(b) |-> b[k]]
    BY <1>1
  <1>4. b \in [1..Len(b) -> Octet]
    BY <1>2, <1>3
  <1> QED BY <1>1, <1>4

\* Bytes are not an exception.
LEMMA OctetsAreNotRaised ==
  ASSUME NEW b \in Seq(Octet)
  PROVE  ~Contains(b, Raised)
  <1>1. \A k \in 1..Len(b) : b[k] \in Octet
    OBVIOUS
  <1>2. Raised \notin Octet
    BY DEF Raised, Octet
  <1> QED BY <1>1, <1>2 DEF Contains

------------------------------------------------------------------------------
(* The response of IDSizes: five numbers of 32 bits, however long ids are.   *)

IsInts(layout) == IsTuple(layout) /\ \A k \in 1..Len(layout) : layout[k] = Int32

\* What the codec makes of a field of 32 bits.
LEMMA IntField ==
  ASSUME NEW v, NEW read, NEW ids
  PROVE  /\ Outer!WriteField(Int32, v, ids) = Pack(v, 4)
         /\ OuterFits!Fits(Int32, v) = IsWord(v)
         /\ OuterFits!OnWire(Int32, v)
         /\ ~OuterCut!LosesEnd(Int32, v, read, ids)
  <1>1. Outer!WriteField(Int32, v, ids) = Pack(v, 4)
    <2>1. Int32.type = "int"
      BY DEF Int32
    <2> QED BY <2>1 DEF Outer!WriteField, Middle!WriteField, Inner!WriteField, WriteLeaf
  <1>2. OuterFits!Fits(Int32, v) = IsWord(v)
    <2>1. Int32.type = "int"
      BY DEF Int32
    <2> QED BY <2>1 DEF OuterFits!Fits, MiddleFits!Fits, InnerFits!Fits, FitsLeaf
  <1>3. OuterFits!OnWire(Int32, v)
    <2>1. Int32.type = "int"
      BY DEF Int32
    <2> QED BY <2>1 DEF OuterFits!OnWire, MiddleFits!OnWire, InnerFits!OnWire, OnWireLeaf
  <1>4. ~OuterCut!LosesEnd(Int32, v, read, ids)
    <2>1. Int32.type = "int"
      BY DEF Int32
    <2> QED BY <2>1 DEF OuterCut!LosesEnd, MiddleCut!LosesEnd, InnerCut!LosesEnd,
                        LosesEndLeaf
  <1> QED BY <1>1, <1>2, <1>3, <1>4

\* Numbers of 32 bits are written alike, however long ids are.
LEMMA IntsDoNotDependOnSizes ==
  ASSUME NEW layout, IsInts(layout), NEW fields, NEW ids, NEW others
  PROVE  Write(layout, fields, ids) = Write(layout, fields, others)
  <1> DEFINE w == [k \in 1..Len(layout) |-> Outer!WriteField(layout[k], fields[k], ids)]
             x == [k \in 1..Len(layout) |-> Outer!WriteField(layout[k], fields[k], others)]
  <1>1. ASSUME NEW k \in 1..Len(layout)
        PROVE  Outer!WriteField(layout[k], fields[k], ids)
                 = Outer!WriteField(layout[k], fields[k], others)
    <2>1. layout[k] = Int32
      BY DEF IsInts
    <2> QED BY <2>1, IntField
  <1>2. w = x
    BY <1>1
  <1>3. /\ Write(layout, fields, ids) = Whole!FlattenSeq(w)
        /\ Write(layout, fields, others) = Whole!FlattenSeq(x)
    BY DEF Write, Whole!WriteLayout
  <1> HIDE DEF w, x
  <1> QED BY <1>2, <1>3

\* They are all on the wire, and none can lose its end.
LEMMA IntsAreOnWire ==
  ASSUME NEW layout, IsInts(layout), NEW fields, NEW read, NEW ids
  PROVE  /\ OnWirePayload(layout, fields)
         /\ ~LosesEndPayload(layout, fields, read, ids)
  BY IntField DEF IsInts, OnWirePayload, LosesEndPayload, WholeFits!OnWireLayout,
                  WholeCut!LosesEndLayout, WholeCut!OneLosesEnd

\* The response of VirtualMachine.IDSizes is five of them.
LEMMA IdSizesReplyIsInts ==
  /\ IsInts(VirtualMachineIDSizes.reply)
  /\ Len(VirtualMachineIDSizes.reply) = 5
  <1> DEFINE t == <<Int32, Int32, Int32, Int32, Int32>>
  <1>1. VirtualMachineIDSizes.reply = t
    BY DEF VirtualMachineIDSizes, Command
  <1>2. t = [k \in 1..5 |-> t[k]] /\ Len(t) = 5 /\ \A k \in 1..5 : t[k] = Int32
    OBVIOUS
  <1> HIDE DEF t
  <1> QED BY <1>1, <1>2 DEF IsInts, IsTuple

\* The sizes of the VM, in the order of the response's fields.
SizeFields(s) == <<s.field, s.method, s.object, s.referenceType, s.frame>>

\* from_response() takes the five sizes for those they were written as.
LEMMA SizesAreTold ==
  ASSUME NEW S, NEW s \in [IdKinds -> S]
  PROVE  FromResponse(SizeFields(s)) = s
  <1> DEFINE t == SizeFields(s)
             u == FromResponse(t)
  <1>1. /\ t[1] = s["field"] /\ t[2] = s["method"] /\ t[3] = s["object"]
        /\ t[4] = s["referenceType"] /\ t[5] = s["frame"]
    BY DEF SizeFields
  <1> HIDE DEF t
  <1>2. u = [field |-> t[1], method |-> t[2], object |-> t[3],
             referenceType |-> t[4], frame |-> t[5]]
    BY DEF FromResponse
  <1>3. DOMAIN s = IdKinds /\ s = [k \in IdKinds |-> s[k]]
    OBVIOUS
  <1>4. DOMAIN u = IdKinds /\ u = [k \in IdKinds |-> u[k]]
    BY <1>2 DEF IdKinds
  <1>5. \A k \in IdKinds : u[k] = s[k]
    BY <1>1, <1>2 DEF IdKinds
  <1> HIDE DEF u
  <1>6. u = s
    BY <1>3, <1>4, <1>5
  <1> QED BY <1>6 DEF u, t

\* Any sizes of 32 bits can be told.
LEMMA SizesFit ==
  ASSUME NEW s \in VmSizes
  PROVE  FitsPayload(VirtualMachineIDSizes.reply, SizeFields(s))
  <1> DEFINE t == SizeFields(s)
             layout == VirtualMachineIDSizes.reply
  <1>1. /\ IsWord(s["field"]) /\ IsWord(s["method"]) /\ IsWord(s["object"])
        /\ IsWord(s["referenceType"]) /\ IsWord(s["frame"])
    BY PayloadsAssumption DEF IdKinds
  <1>2. t = [k \in 1..5 |-> t[k]] /\ Len(t) = 5
    BY DEF SizeFields
  <1>3. \A k \in 1..5 : IsWord(t[k])
    BY <1>1 DEF SizeFields
  <1> HIDE DEF t
  <1>4. Len(layout) = 5 /\ \A k \in 1..5 : layout[k] = Int32
    BY IdSizesReplyIsInts DEF IsInts
  <1> HIDE DEF layout
  <1>5. \A k \in 1..5 : OuterFits!Fits(layout[k], t[k])
    BY <1>3, <1>4, IntField
  <1>6. WholeFits!IsTuple(t)
    BY <1>2 DEF WholeFits!IsTuple
  <1>7. WholeFits!FitsLayout(layout, t)
    BY <1>2, <1>4, <1>5, <1>6 DEF WholeFits!FitsLayout
  <1> QED BY <1>7 DEF FitsPayload, t, layout

------------------------------------------------------------------------------
(* The registry                                                              *)

LEMMA RegistryIsTuple == DOMAIN Registry = 1..Len(Registry) /\ Len(Registry) \in Nat
  BY DEF Registry

\* A class is found under the numbers of the command it was registered for.
LEMMA ClassIsFound ==
  ASSUME NEW n \in DOMAIN Registry
  PROVE  GetCommandClass(Registry[n].set, Registry[n].cmd) = Registry[n]
  <1> DEFINE I == {i \in 1..Len(Registry) : Registry[i].set = Registry[n].set
                                            /\ Registry[i].cmd = Registry[n].cmd}
  <1>1. I = {n}
    BY RegistryIsTuple, RegistryAssumption
  <1>2. GetCommandClass(Registry[n].set, Registry[n].cmd)
          = Registry[IF I # {} THEN Max(I) ELSE 0]
    BY DEF GetCommandClass, SelectLastInSeq
  <1>3. Max({n}) = n
    <2>1. n \in Int /\ n >= n
      BY RegistryIsTuple
    <2> QED BY <2>1 DEF Max
  <1> HIDE DEF I
  <1> QED BY <1>1, <1>2, <1>3

\* No other class than IDSizes is found under its numbers.
LEMMA IdSizesIsRegistered ==
  ASSUME NEW n \in DOMAIN Registry,
         Registry[n].set = VirtualMachineIDSizes.set,
         Registry[n].cmd = VirtualMachineIDSizes.cmd
  PROVE  Registry[n] = VirtualMachineIDSizes
  <1>1. 7 \in DOMAIN Registry /\ Registry[7] = VirtualMachineIDSizes
    BY DEF Registry
  <1>2. n = 7
    BY <1>1, RegistryAssumption
  <1> QED BY <1>1, <1>2

------------------------------------------------------------------------------
(* The steps                                                                 *)

LEMMA PayloadInit == Init => PayloadInv
  <1> SUFFICES ASSUME Init PROVE PayloadInv
    OBVIOUS
  <1>1. DefaultSizes \in [IdKinds -> {4, 8}]
    BY DEF DefaultSizes
  <1>2. /\ sizes \in VmSizes /\ spec = DefaultSizes /\ phase = "idle"
        /\ how = "whole" /\ result = Raise
    BY DEF Init
  <1>3. ~result.ok
    BY <1>2 DEF Raise
  <1> QED BY <1>1, <1>2, <1>3
          DEF PayloadInv, SpecIsDefaultOrVms, RoundTrip, CutOnlyInLastString

\* to_bytes() puts on the wire what its payload is, or raises.
LEMMA SerializeKeeps ==
  ASSUME PayloadInv, NEW n \in DOMAIN Registry, NEW part \in {"payload", "reply"},
         NEW s \in Seeds, Serialize(Registry[n], part, s)
  PROVE  PayloadInv'
  <1> DEFINE c == Registry[n]
             f == FieldsOf(c, part, s)
             bytes == Write(c[part], f, SizesOf(FromVm(c.set, part)))
  <1>1. /\ phase = "idle" /\ how = "whole" /\ result = Raise
        /\ payload' = [set |-> c.set, cmd |-> c.cmd, part |-> part, fields |-> f]
        /\ data' = bytes
        /\ phase' = IF Contains(bytes, Raised) THEN "done" ELSE "written"
        /\ sizes' = sizes /\ spec' = spec /\ how' = how /\ result' = result
    BY DEF Serialize, PayloadInv
  <1> HIDE DEF f
  <1>2. /\ payload'.set = c.set /\ payload'.cmd = c.cmd /\ payload'.part = part
        /\ payload'.fields = f
    BY <1>1
  <1>3. Layout' = c[part]
    BY <1>2, ClassIsFound DEF Layout
  <1>4. WriterSizes' = SizesOf(FromVm(c.set, part))
    BY <1>1, <1>2 DEF WriterSizes, SizesOf, FromVm
  <1>5. KnownPayload(c[part]) /\ FitsPayload(c[part], f)
    <2>1. KnownPayload(c[part])
      BY RegistryAssumption
    <2>2. CASE c = VirtualMachineIDSizes /\ part = "reply"
      <3>1. f = SizeFields(sizes) /\ c[part] = VirtualMachineIDSizes.reply
        BY <2>2 DEF f, FieldsOf, SizeFields
      <3>2. sizes \in VmSizes
        BY DEF PayloadInv
      <3> QED BY <2>1, <3>1, <3>2, SizesFit
    <2>3. CASE ~(c = VirtualMachineIDSizes /\ part = "reply")
      <3>1. f = Choice(c[part], s)
        BY <2>3 DEF f, FieldsOf
      <3> QED BY <2>1, <3>1, ChoiceAssumption
    <2> QED BY <2>2, <2>3
  <1>6. IsIdSizesReply' =>
          c[part] = VirtualMachineIDSizes.reply /\ f = SizeFields(sizes)
    <2> SUFFICES ASSUME IsIdSizesReply'
                 PROVE  c[part] = VirtualMachineIDSizes.reply /\ f = SizeFields(sizes)
      OBVIOUS
    <2>1. c.set = VirtualMachineIDSizes.set /\ c.cmd = VirtualMachineIDSizes.cmd /\ part = "reply"
      BY <1>2 DEF IsIdSizesReply
    <2>2. c = VirtualMachineIDSizes
      BY <2>1, IdSizesIsRegistered
    <2> QED BY <2>1, <2>2 DEF f, FieldsOf, SizeFields
  <1> HIDE DEF c
  <1>7. ~Contains(bytes, Raised) => Underway'
    <2> SUFFICES ASSUME ~Contains(bytes, Raised) PROVE Underway'
      OBVIOUS
    <2>1. bytes \in Seq(Octet)
      BY <1>5, PayloadIsWritten, WrittenOctets
    <2>2. bytes = Write(Layout', payload'.fields, WriterSizes') /\ how' = "whole" /\ data' = bytes
      BY <1>1, <1>2, <1>3, <1>4
    <2>3. KnownPayload(Layout') /\ FitsPayload(Layout', payload'.fields)
      BY <1>2, <1>3, <1>5
    <2>4. IsIdSizesReply' =>
            /\ Layout' = VirtualMachineIDSizes.reply
            /\ payload'.fields = <<sizes'.field, sizes'.method, sizes'.object,
                                   sizes'.referenceType, sizes'.frame>>
      BY <1>1, <1>2, <1>3, <1>6 DEF SizeFields
    <2> HIDE DEF bytes
    <2> QED BY <2>1, <2>2, <2>3, <2>4 DEF Underway
  <1> HIDE DEF bytes
  <1>8. /\ sizes' \in VmSizes /\ spec' \in [IdKinds -> {4, 8}] /\ SpecIsDefaultOrVms'
        /\ phase' \in {"done", "written"} /\ how' = "whole" /\ result' = Raise
        /\ (phase' = "written" => Underway')
        /\ (phase' = "done" => Contains(data', Raised))
    BY <1>1, <1>7 DEF PayloadInv, SpecIsDefaultOrVms
  <1>9. ~result'.ok
    BY <1>8 DEF Raise
  <1>10. RoundTrip' /\ CutOnlyInLastString'
    BY <1>8 DEF RoundTrip, CutOnlyInLastString
  <1> QED BY <1>8, <1>9, <1>10 DEF PayloadInv

\* What stays the same while a payload is on its way.
LEMMA SameOnTheWay ==
  ASSUME UNCHANGED <<sizes, spec, payload>>
  PROVE  /\ Layout' = Layout /\ WriterSizes' = WriterSizes /\ ReaderSizes' = ReaderSizes
         /\ IsIdSizesReply' = IsIdSizesReply
  BY DEF Layout, WriterSizes, ReaderSizes, SizesOf, FromVm, IsIdSizesReply

\* What is cut is still the beginning of what was sent.
LEMMA CutKeeps ==
  ASSUME PayloadInv, NEW n \in 0..(Len(data) - 1), Cut(n)
  PROVE  PayloadInv'
  <1>1. /\ phase = "written" /\ how = "whole" /\ data' = SubSeq(data, 1, n) /\ how' = "cut"
        /\ UNCHANGED <<sizes, spec, phase, payload, result>>
    BY DEF Cut
  <1>2. Underway /\ result = Raise
    BY <1>1 DEF PayloadInv
  <1>3. Underway'
    <2> DEFINE bytes == Write(Layout, payload.fields, WriterSizes)
    <2>1. /\ KnownPayload(Layout) /\ FitsPayload(Layout, payload.fields)
          /\ bytes \in Seq(Octet) /\ data = bytes
          /\ IsIdSizesReply =>
               /\ Layout = VirtualMachineIDSizes.reply
               /\ payload.fields = <<sizes.field, sizes.method, sizes.object,
                                     sizes.referenceType, sizes.frame>>
      BY <1>1, <1>2 DEF Underway
    <2>2. Layout' = Layout /\ WriterSizes' = WriterSizes /\ IsIdSizesReply' = IsIdSizesReply
      BY <1>1, SameOnTheWay
    <2>3. n \in 0..(Len(bytes) - 1) /\ data' = SubSeq(bytes, 1, n)
      BY <1>1, <2>1
    <2>4. bytes = Write(Layout', payload'.fields, WriterSizes')
      BY <1>1, <2>2
    <2> HIDE DEF bytes
    <2> QED BY <1>1, <2>1, <2>2, <2>3, <2>4 DEF Underway
  <1>4. ~result.ok
    BY <1>2 DEF Raise
  <1> QED BY <1>1, <1>3, <1>4
          DEF PayloadInv, SpecIsDefaultOrVms, RoundTrip, CutOnlyInLastString

\* A byte more is behind all that was sent.
LEMMA ExtendKeeps ==
  ASSUME PayloadInv, Extend
  PROVE  PayloadInv'
  <1>1. /\ phase = "written" /\ how = "whole" /\ data' = Append(data, 0) /\ how' = "extended"
        /\ UNCHANGED <<sizes, spec, phase, payload, result>>
    BY DEF Extend
  <1>2. Underway /\ result = Raise
    BY <1>1 DEF PayloadInv
  <1>3. Underway'
    <2> DEFINE bytes == Write(Layout, payload.fields, WriterSizes)
    <2>1. /\ KnownPayload(Layout) /\ FitsPayload(Layout, payload.fields)
          /\ bytes \in Seq(Octet) /\ data = bytes
          /\ IsIdSizesReply =>
               /\ Layout = VirtualMachineIDSizes.reply
               /\ payload.fields = <<sizes.field, sizes.method, sizes.object,
                                     sizes.referenceType, sizes.frame>>
      BY <1>1, <1>2 DEF Underway
    <2>2. Layout' = Layout /\ WriterSizes' = WriterSizes /\ IsIdSizesReply' = IsIdSizesReply
      BY <1>1, SameOnTheWay
    <2>3. data' = Append(bytes, 0)
      BY <1>1, <2>1
    <2>4. bytes = Write(Layout', payload'.fields, WriterSizes')
      BY <1>1, <2>2
    <2> HIDE DEF bytes
    <2> QED BY <1>1, <2>1, <2>2, <2>3, <2>4 DEF Underway
  <1>4. ~result.ok
    BY <1>2 DEF Raise
  <1> QED BY <1>1, <1>3, <1>4
          DEF PayloadInv, SpecIsDefaultOrVms, RoundTrip, CutOnlyInLastString

LEMMA ForgetKeeps ==
  ASSUME PayloadInv, Forget
  PROVE  PayloadInv'
  <1>1. /\ phase' = "idle" /\ how' = "whole" /\ result' = Raise
        /\ UNCHANGED <<sizes, spec>>
    BY DEF Forget
  <1>2. ~result'.ok
    BY <1>1 DEF Raise
  <1> QED BY <1>1, <1>2
          DEF PayloadInv, SpecIsDefaultOrVms, RoundTrip, CutOnlyInLastString

LEMMA UnchangedKeeps ==
  ASSUME PayloadInv, UNCHANGED vars
  PROVE  PayloadInv'
  <1>1. UNCHANGED <<sizes, spec, phase, payload, data, how, result>>
    BY DEF vars
  <1>2. /\ Layout' = Layout /\ WriterSizes' = WriterSizes /\ ReaderSizes' = ReaderSizes
        /\ IsIdSizesReply' = IsIdSizesReply
    BY <1>1, SameOnTheWay
  <1>3. Underway => Underway'
    BY <1>1, <1>2 DEF Underway
  <1>4. RoundTrip' /\ CutOnlyInLastString'
    BY <1>1, <1>2 DEF PayloadInv, RoundTrip, CutOnlyInLastString, Agreed, AllOnWire
  <1> QED BY <1>1, <1>3, <1>4 DEF PayloadInv, SpecIsDefaultOrVms

------------------------------------------------------------------------------
(* from_bytes                                                                *)

\* Whatever happens on the way, bytes arrive.
LEMMA BytesArrive ==
  ASSUME Underway, how \in {"whole", "cut", "extended"}
  PROVE  data \in Seq(Octet)
  <1> DEFINE bytes == Write(Layout, payload.fields, WriterSizes)
  <1>1. /\ bytes \in Seq(Octet)
        /\ how = "whole" => data = bytes
        /\ how = "extended" => data = Append(bytes, 0)
        /\ how = "cut" => \E n \in 0..(Len(bytes) - 1) : data = SubSeq(bytes, 1, n)
    BY DEF Underway
  <1> HIDE DEF bytes
  <1>2. 0 \in Octet
    BY DEF Octet
  <1>3. CASE how = "extended"
    BY <1>1, <1>2, <1>3
  <1>4. CASE how = "cut"
    <2>1. PICK n \in 0..(Len(bytes) - 1) : data = SubSeq(bytes, 1, n)
      BY <1>1, <1>4
    <2>2. \A i \in 1..n : bytes[i] \in Octet
      BY <1>1
    <2> QED BY <1>1, <2>1, <2>2
  <1> QED BY <1>1, <1>3, <1>4

\* What arrived whole, or with a byte more, is read back.
LEMMA ReadsWhatArrived ==
  ASSUME Underway, how \in {"whole", "extended"}, Agreed, AllOnWire
  PROVE  ReadAll(Layout, data, 0, ReaderSizes)
           = Read(payload.fields, Len(data) - IF how = "extended" THEN 1 ELSE 0)
  <1> DEFINE bytes == Write(Layout, payload.fields, WriterSizes)
  <1>1. /\ KnownPayload(Layout) /\ FitsPayload(Layout, payload.fields)
        /\ bytes \in Seq(Octet)
        /\ how = "whole" => data = bytes
        /\ how = "extended" => data = Append(bytes, 0)
    BY DEF Underway
  <1>2. Write(Layout, payload.fields, ReaderSizes) = bytes
    BY DEF Agreed
  <1>3. OnWirePayload(Layout, payload.fields)
    BY DEF AllOnWire
  <1>4. data \in Seq(Octet)
    BY BytesArrive
  <1> HIDE DEF bytes
  <1>5. /\ Len(bytes) \in Nat /\ Len(bytes) <= Len(data)
        /\ Len(bytes) = Len(data) - IF how = "extended" THEN 1 ELSE 0
    BY <1>1
  <1>6. \A k \in 1..Len(bytes) : data[0 + k] = bytes[k]
    BY <1>1
  <1>7. Holds(data, 0, bytes)
    BY <1>5, <1>6 DEF Holds, Agrees
  <1>8. ReadAll(Layout, data, 0, ReaderSizes) = Read(payload.fields, 0 + Len(bytes))
    BY <1>1, <1>2, <1>3, <1>4, <1>7, PayloadReadsBack
  <1> QED BY <1>5, <1>8

\* What lacks bytes raises, or has lost the end of a last string.
LEMMA ReadsLess ==
  ASSUME Underway, how = "cut", Agreed, AllOnWire,
         ReadAll(Layout, data, 0, ReaderSizes).ok
  PROVE  /\ ReadAll(Layout, data, 0, ReaderSizes).offset > Len(data)
         /\ LosesEndPayload(Layout, payload.fields,
                            ReadAll(Layout, data, 0, ReaderSizes).value, ReaderSizes)
  <1> DEFINE bytes == Write(Layout, payload.fields, WriterSizes)
  <1>1. /\ KnownPayload(Layout) /\ FitsPayload(Layout, payload.fields)
        /\ bytes \in Seq(Octet)
        /\ \E n \in 0..(Len(bytes) - 1) : data = SubSeq(bytes, 1, n)
    BY DEF Underway
  <1>2. Write(Layout, payload.fields, ReaderSizes) = bytes
    BY DEF Agreed
  <1>3. OnWirePayload(Layout, payload.fields)
    BY DEF AllOnWire
  <1>4. data \in Seq(Octet)
    BY BytesArrive
  <1> HIDE DEF bytes
  <1>5. PICK n \in 0..(Len(bytes) - 1) : data = SubSeq(bytes, 1, n)
    BY <1>1
  <1>6. n \in Nat /\ n < Len(bytes) /\ Len(bytes) \in Nat
    BY <1>1
  <1>7. Len(data) = n /\ \A k \in 1..n : data[k] = bytes[k]
    BY <1>1, <1>5, <1>6
  <1>8. Agrees(data, 0, bytes)
    BY <1>6, <1>7 DEF Agrees
  <1>9. 0 <= Len(data) /\ 0 + Len(bytes) > Len(data)
    BY <1>6, <1>7
  <1> QED BY <1>1, <1>2, <1>3, <1>4, <1>8, <1>9, PayloadIsCut

\* Both sides understand the response of IDSizes, whatever sizes they have.
LEMMA IdSizesAreAgreed ==
  ASSUME Underway, IsIdSizesReply
  PROVE  Agreed /\ AllOnWire
  <1>1. Layout = VirtualMachineIDSizes.reply
    BY DEF Underway
  <1>2. IsInts(Layout)
    BY <1>1, IdSizesReplyIsInts
  <1> QED BY <1>2, IntsDoNotDependOnSizes, IntsAreOnWire DEF Agreed, AllOnWire

\* The sizes that this side adopts are the VM's.
LEMMA AdoptsVms ==
  ASSUME Underway, sizes \in VmSizes, how \in {"whole", "cut", "extended"}, IsIdSizesReply
  PROVE  IF how = "cut" THEN ~ReadAll(Layout, data, 0, ReaderSizes).ok
         ELSE FromResponse(ReadAll(Layout, data, 0, ReaderSizes).value) = sizes
  <1> DEFINE r == ReadAll(Layout, data, 0, ReaderSizes)
  <1>1. Agreed /\ AllOnWire
    BY IdSizesAreAgreed
  <1>2. CASE how = "cut"
    <2>1. ~LosesEndPayload(Layout, payload.fields, r.value, ReaderSizes)
      BY IdSizesReplyIsInts, IntsAreOnWire DEF Underway
    <2> QED BY <1>1, <1>2, <2>1, ReadsLess
  <1>3. CASE how # "cut"
    <2>1. r.value = payload.fields
      BY <1>1, <1>3, ReadsWhatArrived DEF Read
    <2>2. payload.fields = SizeFields(sizes)
      BY DEF Underway, SizeFields
    <2>3. sizes \in [IdKinds -> Int]
      BY PayloadsAssumption
    <2> QED BY <1>3, <2>1, <2>2, <2>3, SizesAreTold
  <1> QED BY <1>2, <1>3

\* from_bytes() gives back what was sent, and from_response() adopts only the sizes
\* of the VM.
LEMMA DeserializeKeeps ==
  ASSUME PayloadInv, Deserialize
  PROVE  PayloadInv'
  <1> DEFINE r == ReadAll(Layout, data, 0, ReaderSizes)
             told == FromResponse(r.value)
             adopts == r.ok /\ IsIdSizesReply
  <1>1. /\ phase = "written" /\ phase' = "done"
        /\ result' = IF adopts /\ ~Supported(told) THEN Raise ELSE r
        /\ spec' = IF adopts /\ Supported(told) THEN told ELSE spec
        /\ UNCHANGED <<sizes, payload, data, how>>
    BY DEF Deserialize
  <1>2. /\ Underway /\ sizes \in VmSizes /\ how \in {"whole", "cut", "extended"}
        /\ spec \in [IdKinds -> {4, 8}] /\ SpecIsDefaultOrVms
    BY <1>1 DEF PayloadInv
  <1>3. OffsetIsInt(r)
    <2>1. data \in Seq(Octet) /\ KnownPayload(Layout)
      BY <1>2, BytesArrive DEF Underway
    <2> QED BY <2>1, PayloadEndsAtInt
  <1>4. IsIdSizesReply => IF how = "cut" THEN ~r.ok ELSE told = sizes
    BY <1>2, AdoptsVms
  <1>5. how # "cut" /\ Agreed /\ AllOnWire
          => r = Read(payload.fields, Len(data) - IF how = "extended" THEN 1 ELSE 0)
    BY <1>2, ReadsWhatArrived
  <1>6. how = "cut" /\ Agreed /\ AllOnWire /\ r.ok
          => /\ r.offset > Len(data)
             /\ LosesEndPayload(Layout, payload.fields, r.value, ReaderSizes)
    BY <1>2, ReadsLess
  <1>7. IsIdSizesReply => Agreed /\ AllOnWire
    BY <1>2, IdSizesAreAgreed
  <1> HIDE DEF r, told
  <1>8. IsIdSizesReply' = IsIdSizesReply
    BY <1>1 DEF IsIdSizesReply
  <1>9. spec' \in [IdKinds -> {4, 8}] /\ SpecIsDefaultOrVms'
    <2>1. CASE adopts /\ Supported(told)
      <3>1. told = sizes /\ spec' = sizes
        BY <1>1, <1>4, <2>1
      <3>2. sizes \in [IdKinds -> Int]
        BY <1>2, PayloadsAssumption
      <3>3. \A k \in IdKinds : sizes[k] \in {4, 8}
        BY <2>1, <3>1 DEF Supported
      <3>4. sizes \in [IdKinds -> {4, 8}]
        BY <3>2, <3>3
      <3> QED BY <1>1, <3>1, <3>4 DEF SpecIsDefaultOrVms
    <2>2. CASE ~(adopts /\ Supported(told))
      <3>1. spec' = spec
        BY <1>1, <2>2
      <3> QED BY <1>1, <1>2, <3>1 DEF SpecIsDefaultOrVms
    <2> QED BY <2>1, <2>2
  <1>10. RoundTrip'
    <2>1. CASE IsIdSizesReply
      <3>1. SUFFICES ASSUME how # "cut", Supported(sizes)
                     PROVE  /\ result'.ok /\ result'.value = payload.fields
                            /\ result'.offset = Len(data) - IF how = "extended" THEN 1 ELSE 0
        BY <1>1, <1>8, <2>1 DEF RoundTrip
      <3>2. result' = r
        BY <1>1, <1>4, <2>1, <3>1
      <3> QED BY <1>5, <1>7, <2>1, <3>1, <3>2 DEF Read
    <2>2. CASE ~IsIdSizesReply
      <3>1. spec' = spec /\ result' = r
        BY <1>1, <2>2
      <3>2. Agreed' = Agreed /\ AllOnWire' = AllOnWire
        BY <1>1, <3>1, SameOnTheWay DEF Agreed, AllOnWire
      <3>3. SUFFICES ASSUME how # "cut", Agreed, AllOnWire
                     PROVE  /\ result'.ok /\ result'.value = payload.fields
                            /\ result'.offset = Len(data) - IF how = "extended" THEN 1 ELSE 0
        BY <1>1, <3>2 DEF RoundTrip
      <3> QED BY <1>5, <3>1, <3>3 DEF Read
    <2> QED BY <2>1, <2>2
  <1>11. CutOnlyInLastString'
    <2>1. CASE IsIdSizesReply
      <3>1. how = "cut" => result' = r /\ ~r.ok
        BY <1>1, <1>4, <2>1
      <3> QED BY <1>1, <3>1 DEF CutOnlyInLastString
    <2>2. CASE ~IsIdSizesReply
      <3>1. spec' = spec /\ result' = r
        BY <1>1, <2>2
      <3>2. /\ Agreed' = Agreed /\ AllOnWire' = AllOnWire
            /\ Layout' = Layout /\ ReaderSizes' = ReaderSizes
        BY <1>1, <3>1, SameOnTheWay DEF Agreed, AllOnWire
      <3> QED BY <1>1, <1>6, <3>1, <3>2 DEF CutOnlyInLastString
    <2> QED BY <2>1, <2>2
  <1>12. result'.ok => result'.offset \in Int
    <2>1. ~Raise.ok
      BY DEF Raise
    <2>2. r.ok => r.offset \in Int
      BY <1>3 DEF OffsetIsInt
    <2> QED BY <1>1, <2>1, <2>2
  <1> QED BY <1>1, <1>2, <1>9, <1>10, <1>11, <1>12 DEF PayloadInv

------------------------------------------------------------------------------
(* The theorems                                                              *)

LEMMA NextKeeps == PayloadInv /\ [Next]_vars => PayloadInv'
  <1> SUFFICES ASSUME PayloadInv, [Next]_vars PROVE PayloadInv'
    OBVIOUS
  <1>1. CASE \E k \in DOMAIN Registry, part \in {"payload", "reply"}, s \in Seeds :
               Serialize(Registry[k], part, s)
    <2>1. PICK k \in DOMAIN Registry, part \in {"payload", "reply"}, s \in Seeds :
            Serialize(Registry[k], part, s)
      BY <1>1
    <2> QED BY <2>1, SerializeKeeps
  <1>2. CASE \E n \in 0..(Len(data) - 1) : Cut(n)
    <2>1. PICK n \in 0..(Len(data) - 1) : Cut(n)
      BY <1>2
    <2> QED BY <2>1, CutKeeps
  <1>3. CASE Extend
    BY <1>3, ExtendKeeps
  <1>4. CASE Deserialize
    BY <1>4, DeserializeKeeps
  <1>5. CASE Forget
    BY <1>5, ForgetKeeps
  <1>6. CASE UNCHANGED vars
    BY <1>6, UnchangedKeeps
  <1> QED BY <1>1, <1>2, <1>3, <1>4, <1>5, <1>6 DEF Next

\* The inductive invariant holds of every behaviour.
LEMMA InvIsInvariant == Spec => []PayloadInv
  BY PayloadInit, NextKeeps, PTL DEF Spec

LEMMA InvIsTyped == PayloadInv => PayloadTypeOK
  <1> SUFFICES ASSUME PayloadInv PROVE PayloadTypeOK
    OBVIOUS
  <1>1. /\ spec \in [IdKinds -> {4, 8}] /\ phase \in {"idle", "written", "done"}
        /\ how \in {"whole", "cut", "extended"}
        /\ phase # "done" => result = Raise
        /\ phase = "written" => Underway
        /\ result.ok => result.offset \in Int
    BY DEF PayloadInv
  <1>2. ASSUME phase = "written" PROVE \A k \in DOMAIN data : data[k] \in 0..255
    <2>1. data \in Seq(Octet)
      BY <1>1, <1>2, BytesArrive
    <2>2. DOMAIN data = 1..Len(data) /\ \A k \in 1..Len(data) : data[k] \in Octet
      BY <2>1
    <2> QED BY <2>2 DEF Octet
  <1>3. result.ok => phase = "done"
    BY <1>1 DEF Raise
  <1> QED BY <1>1, <1>2, <1>3 DEF PayloadTypeOK

\* Types: IdSizesSpec.create() never gets a size that it has no struct for,
\* and to_bytes() sends bytes or raises.
THEOREM PayloadsAreTyped == Spec => []PayloadTypeOK
  BY InvIsInvariant, InvIsTyped, PTL

\* Of any class of the registry and any fields its annotations allow, what
\* to_bytes() wrote is what from_bytes() reads, as long as both sides agree
\* on the sizes of the ids in it.
THEOREM FieldsRoundTrip == Spec => []RoundTrip
  <1>1. PayloadInv => RoundTrip
    BY DEF PayloadInv
  <1> QED BY <1>1, InvIsInvariant, PTL

\* No order of payloads, and no payload but the response of IDSizes, gives
\* this side id sizes that are neither the default ones nor the VM's.
THEOREM SpecStaysDefaultOrVms == Spec => []SpecIsDefaultOrVms
  <1>1. PayloadInv => SpecIsDefaultOrVms
    BY DEF PayloadInv
  <1> QED BY <1>1, InvIsInvariant, PTL

\* from_bytes() raises for a payload that lacks bytes, for any class and any
\* fields, unless what is missing is the end of its last string.
THEOREM OnlyLastStringIsCut == Spec => []CutOnlyInLastString
  <1>1. PayloadInv => CutOnlyInLastString
    BY DEF PayloadInv
  <1> QED BY <1>1, InvIsInvariant, PTL
================================================================================
