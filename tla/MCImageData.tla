----------------------------- MODULE MCImageData -----------------------------
EXTENDS ImageData

(* Every list up to one longer than a valid one, over the segments and one *)
(* number that is none.                                                    *)
MCLists == BoundedSeq(0 .. Segments, Segments + 1)

(* Some that agree with some number of samples, one that never does.       *)
MCRegisters == {<< 2, 2 >>, << 3, 1 >>, << 5, 9 >>}

MCLengths == 0 .. 2 * Quanta + 1
=============================================================================
