--------------------------------- MODULE Codec ---------------------------------
(***************************************************************************)
(* Payloads as bytes, and bytes as payloads: the Layers that the protocol  *)
(* needs.  A list of events, or of array regions, holds one that depends   *)
(* on its kind, which holds locations and tagged values, which hold leaves.*)
(***************************************************************************)
EXTENDS Fields

Inner == INSTANCE Layer WITH
  WriteBelow <- WriteLeaf, ReadBelow <- ReadLeaf
InnerFits == INSTANCE LayerFits WITH
  KnownBelow <- KnownLeaf, FitsBelow <- FitsLeaf, OnWireBelow <- OnWireLeaf
InnerCut == INSTANCE LayerCut WITH
  WriteBelow <- WriteLeaf, WriteEntry <- Inner!WriteLayout,
  LosesEndBelow <- LosesEndLeaf

Middle == INSTANCE Layer WITH
  WriteBelow <- Inner!WriteField, ReadBelow <- Inner!ReadField
MiddleFits == INSTANCE LayerFits WITH
  KnownBelow <- InnerFits!Known, FitsBelow <- InnerFits!Fits, OnWireBelow <- InnerFits!OnWire
MiddleCut == INSTANCE LayerCut WITH
  WriteBelow <- Inner!WriteField, WriteEntry <- Middle!WriteLayout,
  LosesEndBelow <- InnerCut!LosesEnd

Outer == INSTANCE Layer WITH
  WriteBelow <- Middle!WriteField, ReadBelow <- Middle!ReadField
OuterFits == INSTANCE LayerFits WITH
  KnownBelow <- MiddleFits!Known, FitsBelow <- MiddleFits!Fits, OnWireBelow <- MiddleFits!OnWire
OuterCut == INSTANCE LayerCut WITH
  WriteBelow <- Middle!WriteField, WriteEntry <- Outer!WriteLayout,
  LosesEndBelow <- MiddleCut!LosesEnd

Whole == INSTANCE Layer WITH
  WriteBelow <- Outer!WriteField, ReadBelow <- Outer!ReadField
WholeFits == INSTANCE LayerFits WITH
  KnownBelow <- OuterFits!Known, FitsBelow <- OuterFits!Fits, OnWireBelow <- OuterFits!OnWire
WholeCut == INSTANCE LayerCut WITH
  WriteBelow <- Outer!WriteField, WriteEntry <- Whole!WriteLayout,
  LosesEndBelow <- OuterCut!LosesEnd

\* serialize(), and deserialize() from an offset on.
Write(layout, fields, sizes) == Whole!WriteLayout(layout, fields, sizes)
ReadAll(layout, data, o, sizes) == Whole!ReadLayout(layout, data, o, sizes)

KnownPayload(layout) == WholeFits!KnownLayout(layout)
FitsPayload(layout, fields) == WholeFits!FitsLayout(layout, fields)
OnWirePayload(layout, fields) == WholeFits!OnWireLayout(layout, fields)
LosesEndPayload(layout, fields, read, sizes) ==
  WholeCut!LosesEndLayout(layout, fields, read, sizes)
==============================================================================
