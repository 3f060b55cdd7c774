--------------------------- MODULE MCFitsComparator ---------------------------
(* Two by two samples, and files that differ in one sample, in the order   *)
(* of their HDUs, in a header, in a missing name or a missing HDU.         *)
EXTENDS FitsComparator

Image(samples) == [w |-> 2, h |-> 2, samples |-> samples]
Dark == Image(<< 0, 0, 0, 0 >>)
Bright == Image(<< 1, 1, 1, 1 >>)

Hdu(name, history, image) ==
    [name |-> name, image |-> image,
     cards |-> [i \in DOMAIN history |-> << "HISTORY", history[i] >>]]
Primary == Hdu(None, << "made" >>, Dark)
Segment(name, image) == Hdu(name, << >>, image)

MCFile == {
    << >>,
    << Primary, Segment("Segment10", Dark), Segment("Segment11", Bright) >>,
    << Primary, Segment("Segment11", Bright), Segment("Segment10", Dark) >>,
    << Primary, Segment("Segment10", Dark), Segment("Segment10", Dark) >>,
    << Primary, Hdu("Segment10", << "a", "b" >>, Dark), Segment("Segment11", Bright) >>,
    << Primary, Hdu("Segment10", << "b", "a" >>, Dark), Segment(None, Bright) >>,
    << Primary, Segment("Segment10", Dark) >> }
    \cup { << Primary, Segment("Segment10", Image([s \in 1 .. 4 |-> IF s = k THEN 1 ELSE 0])),
              Segment("Segment11", Bright) >> : k \in 1 .. 4 }
=============================================================================
