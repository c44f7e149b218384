---------------------------- MODULE MCSpcUpload ----------------------------
(* Sample lists for TLC: every sequence of up to MaxBlocks blocks with the *)
(* kinds and lengths given, laid out one after another from Base.          *)
EXTENDS SpcUpload, SequencesExt

CONSTANTS MaxBlocks, Lengths, Base, ListStart

Shape == [kind : {ONE_BYTE, THREE_BYTE}, len : Lengths]

Place(l, s) ==
  Append(l, [kind |-> s.kind, len |-> s.len,
             dest |-> IF l = <<>> THEN Base ELSE Last(l).dest + Last(l).len,
             src |-> IF l = <<>> THEN ListStart + RecordHead
                     ELSE Last(l).src + Last(l).len + RecordHead])

MCLists ==
  {l \in {FoldLeft(Place, <<>>, s) : s \in BoundedSeq(Shape, MaxBlocks)} :
     WellLaidOut(l)}
=============================================================================
