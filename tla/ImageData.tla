------------------------------ MODULE ImageData ------------------------------
(***************************************************************************)
(* The pixels of one location on their way from the DAQ into FITS files:   *)
(* ReadoutPattern checks the configured order of segments, DAQDecoder reads *)
(* each source of the image in pieces, DAQFetcher::declutter lays the      *)
(* pieces end to end into one array per CCD and segment, and               *)
(* Formatter::write_pix_file writes that array in the configured order.    *)
(*                                                                         *)
(* A sample is named by its place in what the sources give, its CCD and    *)
(* its segment; the XOR with the configured pattern marks it.              *)
(***************************************************************************)
EXTENDS Integers, Sequences, SequencesExt

CONSTANTS
    Ccd,         \* CCDs of the location
    Segments,    \* DAQ::Sensor::Segment::NUMOF
    Quanta,      \* SAMPLES, the most that is read at once
    Lists,       \* DATA_SEGMENT lists a configuration may hold
    Registers,   \* <<naxis1, naxis2>> the DAQ registers may amount to
    Lengths,     \* samples a source may have
    MaxSources   \* bound: sources of one image

ASSUME ImageDataConstants ==
    /\ Segments \in Nat \ {0} /\ Quanta \in Nat \ {0}
    /\ Lists \subseteq Seq(Int)
    /\ Registers \subseteq Nat \X Nat
    /\ Lengths \subseteq Nat
    /\ MaxSources \in Nat

VARIABLES
    phase,       \* how far the fetch is
    segment,     \* _data_segment
    sources,     \* sources processed
    remaining,   \* samples of the current source that are not read yet
    given,       \* samples the sources have given
    samples,     \* _samples
    data,        \* _data, the pieces
    placed,      \* pieces declutter is done with
    offset,      \* its offset
    pixels,      \* Pixel3d: per CCD and segment an array of samples
    fits         \* per CCD the image HDUs of its file

vars == << phase, segment, sources, remaining, given, samples, data, placed,
           offset, pixels, fits >>

Segment == 0 .. Segments - 1
Unset == "unset"
Product(axes) == axes[1] * axes[2]

(* _xor ^ x.pixel(j, i, k)                                                 *)
Xored(place, i, k) == [place |-> place, ccd |-> i, segment |-> k]

TypeOK ==
    /\ phase \in {"configured", "decoding", "placing", "placed", "written",
                  "refused", "failed"}
    /\ segment \in Lists
    /\ sources \in 0 .. MaxSources
    /\ remaining \in Nat /\ given \in Nat /\ samples \in Nat
    /\ data \in Seq([from : Nat, samples : Nat])
    /\ placed \in 0 .. Len(data)
    /\ offset \in Nat

-----------------------------------------------------------------------------
(* std::sort of a copy: a rearrangement in ascending order.                *)
Sorted(list) ==
    {s \in {[h \in DOMAIN list |-> list[p[h]]] : p \in Bijection(DOMAIN list, DOMAIN list)} :
        \A h \in 1 .. Len(list) - 1 : s[h] <= s[h + 1]}

(* Outcomes of std::equal between the sorted list and 0 .. Segments - 1: a *)
(* longer list is compared with what lies behind the reference.            *)
Equal(sorted) ==
    LET same(n) == \A h \in 1 .. n : sorted[h] = h - 1
    IN  IF Len(sorted) <= Segments THEN {same(Len(sorted))}
        ELSE IF same(Segments) THEN BOOLEAN
        ELSE {FALSE}

(* Mutant of Accepts: the sizes are not compared.                          *)
AcceptsAnySize(list, eq) == eq

Accepts(list, eq) == Len(list) = Segments /\ eq

Init ==
    /\ phase = "configured"
    /\ segment \in Lists
    /\ sources = 0 /\ remaining = 0 /\ given = 0 /\ samples = 0
    /\ data = << >> /\ placed = 0 /\ offset = 0
    /\ pixels = << >> /\ fits = << >>

(* ReadoutPattern::data_segment, called by END_READOUT for the location.   *)
Configure ==
    /\ phase = "configured"
    /\ \E sorted \in Sorted(segment) : \E eq \in Equal(sorted) :
          phase' = IF Accepts(segment, eq) THEN "decoding" ELSE "refused"
    /\ UNCHANGED << segment, sources, remaining, given, samples, data, placed,
                    offset, pixels, fits >>

(* IMS::Decoder::run calls process once for each source.                   *)
Process ==
    /\ phase = "decoding" /\ remaining = 0 /\ sources < MaxSources
    /\ sources' = sources + 1
    /\ \E length \in Lengths :
         /\ samples' = samples + length
         /\ remaining' = length
    /\ UNCHANGED << phase, segment, given, data, placed, offset, pixels, fits >>

(* What is read at once.                                                   *)
Quantum(left) == IF left > Quanta THEN Quanta ELSE left

(* One round of the loop: a buffer reads the next samples of the source.   *)
ReadPiece ==
    /\ phase = "decoding" /\ remaining > 0
    /\ LET quanta == Quantum(remaining) IN
         /\ data' = Append(data, [from |-> given, samples |-> quanta])
         /\ given' = given + quanta
         /\ remaining' = remaining - quanta
    /\ UNCHANGED << phase, segment, sources, samples, placed, offset, pixels, fits >>

(* InvalidData becomes CannotFetchPixel.                                   *)
ReadFails ==
    /\ phase = "decoding" /\ remaining > 0
    /\ phase' = "failed"
    /\ UNCHANGED << segment, sources, remaining, given, samples, data, placed,
                    offset, pixels, fits >>

(* run() returns.  With no piece at all the fetch fails; declutter gets    *)
(* memory that is not set.                                                 *)
Decoded ==
    /\ phase = "decoding" /\ remaining = 0
    /\ IF data = << >>
         THEN phase' = "failed" /\ UNCHANGED pixels
         ELSE /\ phase' = "placing"
              /\ pixels' = [i \in Ccd |-> [k \in Segment |->
                               [p \in 0 .. samples - 1 |-> Unset]]]
    /\ UNCHANGED << segment, sources, remaining, given, samples, data, placed,
                    offset, fits >>

(* Mutant of Place: the offset counts whole quanta.                        *)
PlaceByQuanta ==
    /\ phase = "placing" /\ placed < Len(data)
    /\ LET x == data[placed + 1] IN
         pixels' = [i \in Ccd |-> [k \in Segment |->
                       [p \in 0 .. samples - 1 |->
                           IF p \in offset .. offset + x.samples - 1
                             THEN Xored(x.from + (p - offset), i, k)
                             ELSE pixels[i][k][p]]]]
    /\ offset' = offset + Quanta
    /\ placed' = placed + 1
    /\ UNCHANGED << phase, segment, sources, remaining, given, samples, data, fits >>

(* One round of the outer loop of declutter.                               *)
Place ==
    /\ phase = "placing" /\ placed < Len(data)
    /\ LET x == data[placed + 1] IN
         /\ pixels' = [i \in Ccd |-> [k \in Segment |->
                          [p \in 0 .. samples - 1 |->
                              IF p \in offset .. offset + x.samples - 1
                                THEN Xored(x.from + (p - offset), i, k)
                                ELSE pixels[i][k][p]]]]
         /\ offset' = offset + x.samples
    /\ placed' = placed + 1
    /\ UNCHANGED << phase, segment, sources, remaining, given, samples, data, fits >>

Decluttered ==
    /\ phase = "placing" /\ placed = Len(data)
    /\ phase' = "placed"
    /\ UNCHANGED << segment, sources, remaining, given, samples, data, placed,
                    offset, pixels, fits >>

(* Mutant of Naxes: the registers are believed.                            *)
NaxesOfRegisters(registers) == registers

(* The registers of the first piece, if they agree with the sources.       *)
Naxes(registers) ==
    IF Product(registers) = samples THEN registers ELSE << 1, samples >>

(* An image HDU for each element of _data_segment, in every CCD's file.    *)
Write ==
    /\ phase = "placed"
    /\ phase' = "written"
    /\ \E registers \in Registers :
         fits' = [i \in Ccd |-> [h \in 1 .. Len(segment) |->
                    [naxes |-> Naxes(registers), image |-> pixels[i][segment[h]]]]]
    /\ UNCHANGED << segment, sources, remaining, given, samples, data, placed,
                    offset, pixels >>

Next ==
    \/ Configure \/ Process \/ ReadPiece \/ ReadFails \/ Decoded
    \/ Place \/ Decluttered \/ Write

Spec == Init /\ [][Next]_vars
-----------------------------------------------------------------------------
(* declutter indexes the array by j + offset without a check: no piece     *)
(* reaches behind the number of samples that was counted per source.       *)
WithinArray ==
    phase = "placing" /\ placed < Len(data)
        => offset + data[placed + 1].samples <= samples

(* All samples the sources gave for a segment of a CCD, each once and in   *)
(* order.                                                                  *)
WholeImage(i, k) == [p \in 0 .. given - 1 |-> Xored(p, i, k)]

(* What the files hold: HDU h of every CCD's file is the h-th segment of   *)
(* the configured order, whole, and every segment of the CCD is in exactly *)
(* one HDU.                                                                *)
FilesHoldImage ==
    phase = "written" => \A i \in Ccd :
        /\ DOMAIN fits[i] = DOMAIN segment
        /\ \A h \in DOMAIN fits[i] : fits[i][h].image = WholeImage(i, segment[h])
        /\ \A k \in Segment : \E h \in DOMAIN fits[i] :
              \A g \in DOMAIN fits[i] : (fits[i][g].image = WholeImage(i, k)) <=> g = h

(* Each HDU is declared as large as what is written into it, whatever the  *)
(* registers say.                                                          *)
AxesFit ==
    phase = "written" =>
        \A i \in Ccd : \A h \in DOMAIN fits[i] : Product(fits[i][h].naxes) = given
=============================================================================
