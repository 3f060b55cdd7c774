---------------------------- MODULE FitsComparator ----------------------------
(***************************************************************************)
(* fc_exe (util/FitsComparatorCMD.cpp) and the FitsComparator it runs:     *)
(* two FITS files are opened and compared as the options ask, by headers,  *)
(* by segments, by HDU, in this order, one HDU of the second file after    *)
(* the other.  An error ends one comparison and not the others.            *)
(***************************************************************************)
EXTENDS Naturals, Sequences, FiniteSets

CONSTANTS
    File,       \* what an input file may hold
    Segments,   \* how many HDUs come after the primary one, 16 in the code
    None        \* the EXTNAME of an HDU that has none

(* A file is the sequence of its HDUs, << >> when it cannot be opened.  An *)
(* HDU has a name, a sequence of cards << keyword, value >>, and an image  *)
(* of w by h samples, one row after the other.                             *)

VARIABLES
    input,      \* the files named on the command line
    options,    \* the options given
    stage,      \* the comparison main is at, or "start" or "done"
    at,         \* the HDU it is at, 0 before the first
    same,       \* no difference in the HDUs before
    verdict     \* what main printed for each comparison: "none" (nothing),
                \* "equal", "different" or "error"

vars == << input, options, stage, at, same, verdict >>

Comparison == {"headers", "segments", "hdu"}
After == [start |-> "headers", headers |-> "segments", segments |-> "hdu", hdu |-> "done"]

file1 == input[1]
file2 == input[2]

HasSegment(f, i) == i \in DOMAIN f /\ f[i].name # None

(* get_header_values fills a multimap: it is sorted by keyword, and keeps  *)
(* the cards of one keyword in the order of the file.                      *)
GetHeaderValues(cards) ==
    [k \in {cards[i][1] : i \in DOMAIN cards} |-> SelectSeq(cards, LAMBDA c : c[1] = k)]

(* get_pixels: the loop over the rows moves the first sample of the read   *)
(* on by one, and reads the width of a row from there.                     *)
GetPixels(image) ==
    [row \in 1 .. image.h |-> [x \in 1 .. image.w |-> image.samples[row + x - 1]]]

(* The HDU of file 1 compared with HDU i of file 2: the one at the same    *)
(* place when its name agrees or no name does, or else the first of that   *)
(* name.                                                                   *)
Counterpart(i) ==
    LET named == {k \in 2 .. Segments + 1 : file1[k].name = file2[i].name}
    IN  IF i = 1 \/ i \in named \/ named = {}
          THEN i
          ELSE CHOOSE k \in named : \A l \in named : k <= l

-----------------------------------------------------------------------------
Init ==
    /\ input \in UNION {[1 .. n -> File] : n \in 0 .. 2}
    /\ options \in SUBSET (Comparison \cup {"help"})
    /\ stage = "start" /\ at = 0 /\ same = TRUE
    /\ verdict = [c \in Comparison |-> "none"]

Conclude(v) ==
    /\ verdict' = [verdict EXCEPT ![stage] = v]
    /\ stage' = After[stage] /\ at' = 0 /\ same' = TRUE
    /\ UNCHANGED << input, options >>

Continue(equal) ==
    /\ at' = at + 1 /\ same' = equal
    /\ UNCHANGED << input, options, stage, verdict >>

(* main wants two files, and opens both.                                   *)
Start ==
    /\ stage = "start"
    /\ stage' = IF "help" \notin options /\ Len(input) = 2 /\ << >> \notin {file1, file2}
                  THEN After[stage] ELSE "done"
    /\ UNCHANGED << input, options, at, same, verdict >>

Skip ==
    /\ stage \in Comparison \ options
    /\ stage' = After[stage]
    /\ UNCHANGED << input, options, at, same, verdict >>

(* get_segments of file 1 needs the name of every HDU.                     *)
GetSegments ==
    /\ stage \in {"headers", "segments"} \cap options /\ at = 0
    /\ \/ /\ \A i \in 2 .. Segments + 1 : HasSegment(file1, i)
          /\ at' = IF stage = "headers" THEN 1 ELSE 2
          /\ UNCHANGED << input, options, stage, same, verdict >>
       \/ /\ \E i \in 2 .. Segments + 1 : ~ HasSegment(file1, i)
          /\ Conclude("error")

StartHdu ==
    /\ stage = "hdu" /\ stage \in options /\ at = 0
    /\ at' = 2
    /\ UNCHANGED << input, options, stage, same, verdict >>

InLoop(comparison) == stage = comparison /\ at \in 1 .. Segments + 1

(* The headers of all HDUs are looked at, to print every difference.       *)
CompareHeaders ==
    /\ InLoop("headers")
    /\ IF at > 1 /\ ~ HasSegment(file2, at)
         THEN Conclude("error")
         ELSE Continue(/\ same
                       /\ GetHeaderValues(file1[Counterpart(at)].cards)
                            = GetHeaderValues(file2[at].cards))

CompareBySegments ==
    /\ InLoop("segments")
    /\ IF ~ HasSegment(file2, at)
         THEN Conclude("error")
         ELSE IF GetPixels(file1[Counterpart(at)].image) = GetPixels(file2[at].image)
                THEN Continue(TRUE) ELSE Conclude("different")

(* A move to an HDU that is not there leaves a file where it was: what is  *)
(* read there differs, or the error is found after the loop.               *)
CompareByHdu ==
    /\ InLoop("hdu")
    /\ IF at \in DOMAIN file1 \cap DOMAIN file2
         THEN IF GetPixels(file1[at].image) = GetPixels(file2[at].image)
                THEN Continue(TRUE) ELSE Conclude("different")
         ELSE \E v \in {"different", "error"} : Conclude(v)

Finish ==
    /\ stage \in Comparison /\ at = Segments + 2
    /\ Conclude(IF same THEN "equal" ELSE "different")

Next ==
    \/ Start \/ Skip \/ GetSegments \/ StartHdu
    \/ CompareHeaders \/ CompareBySegments \/ CompareByHdu \/ Finish

Spec == Init /\ [][Next]_vars
-----------------------------------------------------------------------------
(* Two files are called equal by HDU only when the samples of every HDU    *)
(* are the same.                                                           *)
HduVerdictIsRight ==
    verdict["hdu"] = "equal" =>
        \A i \in 2 .. Segments + 1 : file1[i].image = file2[i].image

=============================================================================
