--------------------------- MODULE ImageDataProofs ---------------------------
(***************************************************************************)
(* For any number and length of sources, any piece length and any list of  *)
(* segments: the pieces tile the array, no write leaves it, every sample   *)
(* is set, and each HDU is as large as what is written into it.            *)
(***************************************************************************)
EXTENDS ImageData, SequenceTheorems, TLAPS

(* Where the first n pieces end.                                           *)
End(pieces, n) == IF n = 0 THEN 0 ELSE pieces[n].from + pieces[n].samples

(* What is counted per source has been read, or is still to be read.       *)
Counted == samples = given + remaining

(* The pieces lie end to end, from the first sample to the last given.     *)
Contiguous ==
    /\ \A n \in 1 .. Len(data) : data[n].from = End(data, n - 1) /\ End(data, n) <= given
    /\ given = End(data, Len(data))

(* declutter runs over the pieces of a finished decoder.                   *)
InOrder ==
    /\ phase \in {"placing", "placed", "written"} => remaining = 0
    /\ phase \in {"configured", "decoding"} => placed = 0
    /\ phase \in {"placed", "written"} => placed = Len(data)
    /\ phase \in {"configured", "decoding", "placing", "placed", "written"} =>
         offset = End(data, placed)

(* The samples before the offset are set, each to its own.                 *)
SetSoFar ==
    phase \in {"placing", "placed", "written"} =>
        pixels = [i \in Ccd |-> [k \in Segment |-> [p \in 0 .. samples - 1 |->
                    IF p < offset THEN Xored(p, i, k) ELSE Unset]]]

(* A list that names every segment in one place.                           *)
Permutation(list) ==
    /\ Len(list) = Segments
    /\ \A h \in 1 .. Len(list) : list[h] \in Segment
    /\ \A k \in Segment : \E h \in 1 .. Len(list) :
          list[h] = k /\ \A g \in 1 .. Len(list) : list[g] = k => g = h

(* Nothing is decoded under a list that was refused, and nothing is placed *)
(* before there is a sample.                                               *)
Accepted ==
    /\ phase \in {"decoding", "placing", "placed", "written"} => Permutation(segment)
    /\ data # << >> => given > 0
    /\ phase \in {"placing", "placed", "written"} => data # << >>

(* The HDUs hold the arrays, in the order of the list.                     *)
HdusInOrder ==
    phase = "written" =>
        \A i \in Ccd :
            /\ DOMAIN fits[i] = 1 .. Len(segment)
            /\ \A h \in 1 .. Len(segment) : fits[i][h].image = pixels[i][segment[h]]

Inv == TypeOK /\ Counted /\ Contiguous /\ InOrder /\ SetSoFar /\ AxesFit
         /\ Accepted /\ HdusInOrder

LEMMA EndIsNat == ASSUME TypeOK, NEW n \in 0 .. Len(data)
                  PROVE  End(data, n) \in Nat
<1>1. CASE n = 0
    BY <1>1 DEF End
<1>2. CASE n # 0
  <2>1. n \in 1 .. Len(data) /\ data \in Seq([from : Nat, samples : Nat])
    BY <1>2 DEF TypeOK
  <2>2. data[n] \in [from : Nat, samples : Nat]
    BY <2>1, ElementOfSeq
  <2>3. data[n].from \in Nat /\ data[n].samples \in Nat
    BY <2>2
  <2> QED
    BY <1>2, <2>3 DEF End
<1> QED
    BY <1>1, <1>2

LEMMA InvInit == Init => Inv
<1> SUFFICES ASSUME Init
             PROVE  Inv
    OBVIOUS
<1>1. TypeOK
    BY ImageDataConstants DEF Init, TypeOK
<1>2. Counted /\ Contiguous /\ InOrder
    BY DEF Init, Counted, Contiguous, InOrder, End
<1>3. SetSoFar /\ AxesFit /\ Accepted /\ HdusInOrder
    BY DEF Init, SetSoFar, AxesFit, Accepted, HdusInOrder
<1> QED
    BY <1>1, <1>2, <1>3 DEF Inv

(* A sorted list that equals 0 .. Segments - 1 came from a permutation.    *)
LEMMA AcceptsPermutations ==
    ASSUME NEW list \in Seq(Int), NEW sorted \in Sorted(list), NEW eq \in Equal(sorted),
           Accepts(list, eq)
    PROVE  Permutation(list)
<1> USE ImageDataConstants
<1>1. Len(list) = Segments /\ eq /\ DOMAIN list = 1 .. Segments
  BY DEF Accepts
<1>2. PICK p \in Bijection(1 .. Segments, 1 .. Segments) :
        sorted = [h \in 1 .. Segments |-> list[p[h]]]
  BY <1>1 DEF Sorted
<1>3. /\ p \in [1 .. Segments -> 1 .. Segments]
      /\ \A h \in 1 .. Segments : \E a \in 1 .. Segments : p[a] = h
  BY <1>2 DEF Bijection, Surjection
<1>4. \A a \in 1 .. Segments : list[p[a]] = a - 1
  <2>1. Len(sorted) = Segments
    BY <1>2
  <2>2. \A a \in 1 .. Segments : sorted[a] = a - 1
    BY <1>1, <2>1 DEF Equal
  <2>3. QED
    BY <1>2, <2>2
<1>5. ASSUME NEW k \in Segment
      PROVE  \E h \in 1 .. Segments :
                list[h] = k /\ \A g \in 1 .. Segments : list[g] = k => g = h
  <2>1. k + 1 \in 1 .. Segments /\ (k + 1) - 1 = k
    BY DEF Segment
  <2>2. p[k + 1] \in 1 .. Segments /\ list[p[k + 1]] = k
    BY <1>3, <1>4, <2>1
  <2>3. ASSUME NEW g \in 1 .. Segments, list[g] = k
        PROVE  g = p[k + 1]
    <3>1. PICK a \in 1 .. Segments : p[a] = g
      BY <1>3
    <3>2. a - 1 = k
      BY <1>4, <2>3, <3>1
    <3>3. QED
      BY <3>1, <3>2
  <2>4. QED
    BY <2>2, <2>3
<1>6. ASSUME NEW h \in 1 .. Segments
      PROVE  list[h] \in Segment
  <2>1. PICK a \in 1 .. Segments : p[a] = h
    BY <1>3
  <2>2. list[h] = a - 1
    BY <1>4, <2>1
  <2>3. QED
    BY <2>2 DEF Segment
<1>7. QED
  BY <1>1, <1>5, <1>6 DEF Permutation

LEMMA ConfigureKeeps ==
    ASSUME Inv, Configure
    PROVE  Inv'
<1> USE ImageDataConstants
<1>1. /\ phase = "configured" /\ phase' \in {"decoding", "refused"}
      /\ UNCHANGED << segment, sources, remaining, given, samples, data, placed,
                      offset, pixels, fits >>
  BY DEF Configure
<1>2. phase' = "decoding" => Permutation(segment)
  <2>1. segment \in Seq(Int)
    BY DEF Inv, TypeOK
  <2>2. \E sorted \in Sorted(segment) : \E eq \in Equal(sorted) :
          phase' = "decoding" => Accepts(segment, eq)
    BY DEF Configure
  <2>3. QED
    BY <2>1, <2>2, AcceptsPermutations
<1>3. Accepted' /\ HdusInOrder'
  BY <1>1, <1>2 DEF Inv, Accepted, HdusInOrder, Permutation
<1>4. QED
  BY <1>1, <1>3 DEF Inv, TypeOK, Counted, Contiguous, InOrder, SetSoFar, AxesFit, End

LEMMA ReadPieceKeeps == ASSUME Inv, ReadPiece
                        PROVE  Inv'
<1> USE ImageDataConstants
<1> DEFINE quanta == Quantum(remaining)
           x == [from |-> given, samples |-> quanta]
<1>1. /\ phase = "decoding" /\ remaining > 0
      /\ data' = Append(data, x)
      /\ given' = given + quanta
      /\ remaining' = remaining - quanta
      /\ UNCHANGED << phase, segment, sources, samples, placed, offset, pixels, fits >>
    BY DEF ReadPiece
<1>2. remaining \in Nat /\ given \in Nat /\ samples \in Nat
    BY DEF Inv, TypeOK
<1>3. quanta \in Nat /\ quanta <= remaining
    BY <1>2 DEF Quantum
<1>4. x \in [from : Nat, samples : Nat]
    BY <1>2, <1>3
<1>5. data \in Seq([from : Nat, samples : Nat])
    BY DEF Inv, TypeOK
<1> HIDE DEF x, quanta
<1>6. /\ data' \in Seq([from : Nat, samples : Nat])
      /\ Len(data') = Len(data) + 1 /\ Len(data) \in Nat
      /\ data'[Len(data) + 1] = x
      /\ \A n \in 1 .. Len(data) : data'[n] = data[n]
    BY <1>1, <1>4, <1>5
<1>7. placed = 0 /\ offset = 0
    BY <1>1 DEF Inv, InOrder, End
<1>8. TypeOK'
    BY <1>1, <1>2, <1>3, <1>6, <1>7 DEF Inv, TypeOK
<1>9. Counted'
    BY <1>1, <1>2, <1>3 DEF Inv, Counted
<1>10. Contiguous'
  <2>1. \A n \in 0 .. Len(data) : End(data', n) = End(data, n)
    BY <1>6 DEF End
  <2>2. End(data', Len(data) + 1) = given'
    BY <1>1, <1>6 DEF End, x
  <2>3. \A n \in 1 .. Len(data) : data'[n].from = End(data', n - 1) /\ End(data', n) <= given'
    <3> TAKE n \in 1 .. Len(data)
    <3>1. n \in 0 .. Len(data) /\ n - 1 \in 0 .. Len(data)
        BY <1>6
    <3>2. data[n].from = End(data, n - 1) /\ End(data, n) <= given
        BY DEF Inv, Contiguous
    <3>3. End(data, n) \in Nat
        BY <3>1, EndIsNat DEF Inv
    <3>4. End(data', n) <= given'
        BY <1>1, <1>2, <1>3, <2>1, <3>1, <3>2, <3>3
    <3> QED
        BY <1>6, <2>1, <3>1, <3>2, <3>4
  <2>4. data'[Len(data) + 1].from = End(data', Len(data))
    <3>1. given = End(data, Len(data))
        BY DEF Inv, Contiguous
    <3>2. Len(data) \in 0 .. Len(data)
        BY <1>6
    <3> QED
        BY <1>6, <2>1, <3>1, <3>2 DEF x
  <2>5. given' \in Nat
    BY <1>1, <1>2, <1>3
  <2>6. \A n \in 1 .. Len(data') : data'[n].from = End(data', n - 1) /\ End(data', n) <= given'
    <3> TAKE n \in 1 .. Len(data')
    <3>1. CASE n \in 1 .. Len(data)
        BY <2>3, <3>1
    <3>2. CASE n = Len(data) + 1
        BY <1>6, <2>2, <2>4, <2>5, <3>2
    <3> QED
        BY <1>6, <3>1, <3>2
  <2> QED
    BY <1>6, <2>2, <2>6 DEF Contiguous
<1>11. InOrder' /\ SetSoFar' /\ AxesFit'
    BY <1>1, <1>7 DEF Inv, InOrder, SetSoFar, AxesFit, End
<1>12. Accepted' /\ HdusInOrder'
  <2>1. quanta > 0 /\ given' > 0
    BY <1>1, <1>2 DEF Quantum, quanta
  <2> QED
    BY <1>1, <2>1 DEF Inv, Accepted, HdusInOrder, Permutation
<1> QED
    BY <1>8, <1>9, <1>10, <1>11, <1>12 DEF Inv

LEMMA PlaceKeeps == ASSUME Inv, Place
                    PROVE  Inv'
<1> USE ImageDataConstants
<1> DEFINE x == data[placed + 1]
<1>1. /\ phase = "placing" /\ placed < Len(data)
      /\ pixels' = [i \in Ccd |-> [k \in Segment |-> [p \in 0 .. samples - 1 |->
                       IF p \in offset .. offset + x.samples - 1
                         THEN Xored(x.from + (p - offset), i, k)
                         ELSE pixels[i][k][p]]]]
      /\ offset' = offset + x.samples
      /\ placed' = placed + 1
      /\ UNCHANGED << phase, segment, sources, remaining, given, samples, data, fits >>
    BY DEF Place
<1>2. /\ data \in Seq([from : Nat, samples : Nat]) /\ placed \in 0 .. Len(data)
      /\ placed + 1 \in 1 .. Len(data)
      /\ offset \in Nat /\ samples \in Nat
    BY <1>1 DEF Inv, TypeOK
<1>3. x \in [from : Nat, samples : Nat]
    BY <1>2, ElementOfSeq
<1> HIDE DEF x
<1>4. x.from \in Nat /\ x.samples \in Nat
    BY <1>3
<1>5. x.from = End(data, placed) /\ offset = End(data, placed)
  <2>1. data[placed + 1].from = End(data, (placed + 1) - 1)
    BY <1>2 DEF Inv, Contiguous
  <2>2. (placed + 1) - 1 = placed
    BY <1>2
  <2> QED
    BY <1>1, <2>1, <2>2 DEF Inv, InOrder, x
<1>6. offset' = End(data', placed')
    BY <1>1, <1>2, <1>5 DEF End, x
<1>7. TypeOK'
    BY <1>1, <1>2, <1>4 DEF Inv, TypeOK
<1>8. Counted' /\ Contiguous' /\ AxesFit'
    BY <1>1 DEF Inv, Counted, Contiguous, End, AxesFit
<1>9. InOrder'
    BY <1>1, <1>6 DEF Inv, InOrder
<1>10. SetSoFar'
  <2>1. pixels = [i \in Ccd |-> [k \in Segment |-> [p \in 0 .. samples - 1 |->
                    IF p < offset THEN Xored(p, i, k) ELSE Unset]]]
    BY <1>1 DEF Inv, SetSoFar
  <2>2. ASSUME NEW i \in Ccd, NEW k \in Segment, NEW p \in 0 .. samples - 1
        PROVE  (IF p \in offset .. offset + x.samples - 1
                  THEN Xored(x.from + (p - offset), i, k)
                  ELSE pixels[i][k][p])
               = IF p < offset' THEN Xored(p, i, k) ELSE Unset
    <3>1. pixels[i][k][p] = IF p < offset THEN Xored(p, i, k) ELSE Unset
        BY <2>1
    <3>2. x.from + (p - offset) = p
        BY <1>2, <1>4, <1>5
    <3>3. p \in offset .. offset + x.samples - 1 <=> offset <= p /\ p < offset'
        BY <1>1, <1>2, <1>4
    <3>4. p < offset => p < offset'
        BY <1>1, <1>2, <1>4
    <3>5. ~ (p < offset) <=> offset <= p
        BY <1>2
    <3> QED
        BY <3>1, <3>2, <3>3, <3>4, <3>5
  <2>3. pixels' = [i \in Ccd |-> [k \in Segment |-> [p \in 0 .. samples - 1 |->
                     IF p < offset' THEN Xored(p, i, k) ELSE Unset]]]
    BY <1>1, <2>2
  <2> QED
    BY <1>1, <2>3 DEF SetSoFar
<1>11. Accepted' /\ HdusInOrder'
    BY <1>1 DEF Inv, Accepted, HdusInOrder, Permutation
<1> QED
    BY <1>7, <1>8, <1>9, <1>10, <1>11 DEF Inv

LEMMA WriteKeeps == ASSUME Inv, Write
                    PROVE  Inv'
<1> USE ImageDataConstants
<1>1. /\ phase = "placed" /\ phase' = "written"
      /\ UNCHANGED << segment, sources, remaining, given, samples, data, placed,
                      offset, pixels >>
    BY DEF Write
<1>2. PICK registers \in Registers :
         fits' = [i \in Ccd |-> [h \in 1 .. Len(segment) |->
                    [naxes |-> Naxes(registers), image |-> pixels[i][segment[h]]]]]
    BY DEF Write
<1>3. samples = given
    BY <1>1 DEF Inv, TypeOK, Counted, InOrder
<1>4. given \in Nat
    BY DEF Inv, TypeOK
<1>5. Product(Naxes(registers)) = given
    BY <1>3, <1>4 DEF Naxes, Product
<1>6. AxesFit'
  <2>1. \A i \in Ccd : \A h \in DOMAIN fits'[i] : fits'[i][h].naxes = Naxes(registers)
    BY <1>2
  <2>2. DOMAIN fits' = Ccd
    BY <1>2
  <2>3. \A i \in Ccd : \A h \in DOMAIN fits'[i] : Product(fits'[i][h].naxes) = given'
    BY <1>1, <1>5, <2>1
  <2> QED
    BY <2>3 DEF AxesFit, Product
<1>7. TypeOK'
    BY <1>1 DEF Inv, TypeOK
<1>8. Counted' /\ Contiguous' /\ InOrder' /\ SetSoFar'
    BY <1>1 DEF Inv, Counted, Contiguous, InOrder, SetSoFar, End
<1>9. HdusInOrder'
  <2> DEFINE hdu(i, h) == [naxes |-> Naxes(registers), image |-> pixels[i][segment[h]]]
  <2>1. \A i \in Ccd : fits'[i] = [h \in 1 .. Len(segment) |-> hdu(i, h)]
    BY <1>2
  <2>2. ASSUME NEW i \in Ccd
        PROVE  /\ DOMAIN fits'[i] = 1 .. Len(segment)
               /\ \A h \in 1 .. Len(segment) : fits'[i][h].image = pixels[i][segment[h]]
    <3>1. DOMAIN fits'[i] = 1 .. Len(segment)
      <4> HIDE DEF hdu
      <4> QED
        BY <2>1
    <3>2. \A h \in 1 .. Len(segment) : fits'[i][h] = hdu(i, h)
      <4> HIDE DEF hdu
      <4> QED
        BY <2>1
    <3>3. ASSUME NEW h \in 1 .. Len(segment)
          PROVE  hdu(i, h).image = pixels[i][segment[h]]
      OBVIOUS
    <3> HIDE DEF hdu
    <3> QED
      BY <3>1, <3>2, <3>3
  <2> QED
    BY <1>1, <2>2 DEF HdusInOrder
<1>10. Accepted'
    BY <1>1 DEF Inv, Accepted, Permutation
<1> QED
    BY <1>6, <1>7, <1>8, <1>9, <1>10 DEF Inv

LEMMA DecodedKeeps == ASSUME Inv, Decoded
                      PROVE  Inv'
<1> USE ImageDataConstants
<1>1. /\ phase = "decoding" /\ remaining = 0 /\ placed = 0 /\ offset = 0
      /\ UNCHANGED << segment, sources, remaining, given, samples, data, placed,
                      offset, fits >>
    BY DEF Decoded, Inv, InOrder, End
<1>2. CASE phase' = "failed"
    BY <1>1, <1>2 DEF Inv, TypeOK, Counted, Contiguous, InOrder, SetSoFar, AxesFit, End,
       Accepted, HdusInOrder
<1>3. CASE /\ phase' = "placing" /\ data # << >>
           /\ pixels' = [i \in Ccd |-> [k \in Segment |->
                            [p \in 0 .. samples - 1 |-> Unset]]]
  <2>1. \A p \in 0 .. samples - 1 : ~ (p < offset)
    BY <1>1 DEF Inv, TypeOK
  <2>2. pixels' = [i \in Ccd |-> [k \in Segment |-> [p \in 0 .. samples - 1 |->
                     IF p < offset THEN Xored(p, i, k) ELSE Unset]]]
    BY <1>3, <2>1
  <2>3. SetSoFar'
    BY <1>1, <1>3, <2>2 DEF SetSoFar
  <2>4. Accepted' /\ HdusInOrder'
    BY <1>1, <1>3 DEF Inv, Accepted, HdusInOrder, Permutation
  <2> QED
    BY <1>1, <1>3, <2>3, <2>4 DEF Inv, TypeOK, Counted, Contiguous, InOrder, AxesFit, End
<1> QED
    BY <1>2, <1>3 DEF Decoded

LEMMA InvNext == Inv /\ [Next]_vars => Inv'
<1> SUFFICES ASSUME Inv, [Next]_vars
             PROVE  Inv'
    OBVIOUS
<1> USE ImageDataConstants
<1>1. CASE Configure
    BY <1>1, ConfigureKeeps
<1>2. CASE Process
  <2>1. PICK length \in Lengths : samples' = samples + length /\ remaining' = length
    BY <1>2 DEF Process
  <2>2. /\ phase = "decoding" /\ remaining = 0 /\ sources < MaxSources
        /\ sources' = sources + 1
        /\ UNCHANGED << phase, segment, given, data, placed, offset, pixels, fits >>
    BY <1>2 DEF Process
  <2>3. length \in Nat /\ given \in Nat /\ samples = given
    BY <2>2 DEF Inv, TypeOK, Counted
  <2>4. TypeOK'
    BY <2>1, <2>2, <2>3 DEF Inv, TypeOK
  <2>5. Counted'
    BY <2>1, <2>2, <2>3 DEF Counted
  <2>6. Contiguous'
    BY <2>2 DEF Inv, Contiguous, End
  <2>7. InOrder'
    BY <2>2 DEF Inv, InOrder, End
  <2>8. SetSoFar' /\ AxesFit' /\ Accepted' /\ HdusInOrder'
    BY <2>2 DEF SetSoFar, AxesFit, Accepted, HdusInOrder, Permutation, Inv
  <2> QED
    BY <2>4, <2>5, <2>6, <2>7, <2>8 DEF Inv
<1>3. CASE ReadPiece
    BY <1>3, ReadPieceKeeps
<1>4. CASE ReadFails
    BY <1>4 DEF ReadFails, Inv, TypeOK, Counted, Contiguous, InOrder, SetSoFar, AxesFit, End,
       Accepted, HdusInOrder
<1>5. CASE Decoded
    BY <1>5, DecodedKeeps
<1>6. CASE Place
    BY <1>6, PlaceKeeps
<1>7. CASE Decluttered
    BY <1>7 DEF Decluttered, Inv, TypeOK, Counted, Contiguous, InOrder, SetSoFar, AxesFit, End,
       Accepted, HdusInOrder, Permutation
<1>8. CASE Write
    BY <1>8, WriteKeeps
<1>9. CASE UNCHANGED vars
  <2>1. TypeOK' /\ Counted' /\ Contiguous' /\ InOrder'
    BY <1>9 DEF vars, Inv, TypeOK, Counted, Contiguous, InOrder, End
  <2>2. SetSoFar' /\ AxesFit' /\ Accepted' /\ HdusInOrder'
    BY <1>9 DEF vars, Inv, SetSoFar, AxesFit, Accepted, HdusInOrder, Permutation
  <2> QED
    BY <2>1, <2>2 DEF Inv
<1> QED
    BY <1>1, <1>2, <1>3, <1>4, <1>5, <1>6, <1>7, <1>8, <1>9 DEF Next

LEMMA InvAlways == Spec => []Inv
  BY InvInit, InvNext, PTL DEF Spec

(* declutter never writes behind its array, however many sources the DAQ   *)
(* has and however they are cut into pieces.                               *)
THEOREM DeclutterStaysInside == Spec => []WithinArray
<1>1. ASSUME Inv
      PROVE  WithinArray
  <2> SUFFICES ASSUME phase = "placing", placed < Len(data)
               PROVE  offset + data[placed + 1].samples <= samples
    BY DEF WithinArray
  <2>1. placed \in 0 .. Len(data) /\ Len(data) \in Nat
    BY <1>1 DEF Inv, TypeOK
  <2>2. placed + 1 \in 1 .. Len(data) /\ (placed + 1) - 1 = placed /\ placed + 1 # 0
    BY <2>1
  <2>3. /\ data[placed + 1].from = End(data, (placed + 1) - 1)
        /\ End(data, placed + 1) <= given
    BY <1>1, <2>2 DEF Inv, Contiguous
  <2>4. End(data, placed + 1) = data[placed + 1].from + data[placed + 1].samples
    BY <2>2 DEF End
  <2>5. offset = End(data, placed) /\ remaining = 0
    BY <1>1 DEF Inv, InOrder
  <2>6. samples = given
    BY <1>1, <2>5 DEF Inv, TypeOK, Counted
  <2> QED
    BY <2>2, <2>3, <2>4, <2>5, <2>6
<1> QED
    BY <1>1, InvAlways, PTL

(* Each HDU is declared as large as the array written into it, whatever    *)
(* the DAQ registers say.                                                  *)
THEOREM AxesAlwaysFit == Spec => []AxesFit
<1>1. Inv => AxesFit
    BY DEF Inv
<1> QED
    BY <1>1, InvAlways, PTL

(* When declutter is done every sample of every array is the one the       *)
(* sources gave at that place: none is missing, doubled or unset.          *)
Whole ==
    phase \in {"placed", "written"} =>
        \A i \in Ccd, k \in Segment :
            pixels[i][k] = [p \in 0 .. given - 1 |-> Xored(p, i, k)]

LEMMA ArraysAreWhole == Inv => Whole
<1> SUFFICES ASSUME Inv, phase \in {"placed", "written"}, NEW i \in Ccd, NEW k \in Segment
             PROVE  pixels[i][k] = [p \in 0 .. given - 1 |-> Xored(p, i, k)]
  BY DEF Whole
<1>1. placed = Len(data) /\ offset = End(data, placed) /\ remaining = 0
  BY DEF Inv, InOrder
<1>2. given = offset /\ samples = given /\ given \in Nat
  BY <1>1 DEF Inv, TypeOK, Counted, Contiguous
<1>3. pixels[i][k] = [p \in 0 .. samples - 1 |->
                        IF p < offset THEN Xored(p, i, k) ELSE Unset]
  <2>1. pixels = [c \in Ccd |-> [l \in Segment |-> [p \in 0 .. samples - 1 |->
                    IF p < offset THEN Xored(p, c, l) ELSE Unset]]]
    BY DEF Inv, SetSoFar
  <2>2. pixels[i] = [l \in Segment |-> [p \in 0 .. samples - 1 |->
                       IF p < offset THEN Xored(p, i, l) ELSE Unset]]
    BY <2>1
  <2>3. QED
    BY <2>2
<1>4. \A p \in 0 .. given - 1 : p < offset
  BY <1>2
<1>5. QED
  BY <1>2, <1>3, <1>4

(* declutter puts the pieces of all sources together without a gap or an   *)
(* overlap, however the decoder cut them (DAQFetcher.cpp:127).              *)
THEOREM PiecesMakeTheImage == Spec => []Whole
BY ArraysAreWhole, InvAlways, PTL

(* Whatever list the configuration holds: what is written has the segments *)
(* in the configured order, each segment of each CCD in exactly one HDU    *)
(* (Formatter.cpp:54-58), each sample once and in its place.               *)
THEOREM FilesAlwaysHoldImage == Spec => []FilesHoldImage
<1>1. ASSUME Inv
      PROVE  FilesHoldImage
  <2> SUFFICES ASSUME phase = "written", NEW i \in Ccd
               PROVE  /\ DOMAIN fits[i] = DOMAIN segment
                      /\ \A h \in DOMAIN fits[i] :
                            fits[i][h].image = WholeImage(i, segment[h])
                      /\ \A k \in Segment : \E h \in DOMAIN fits[i] :
                            \A g \in DOMAIN fits[i] :
                               (fits[i][g].image = WholeImage(i, k)) <=> g = h
    BY <1>1 DEF FilesHoldImage
  <2>1. /\ DOMAIN fits[i] = 1 .. Len(segment) /\ DOMAIN segment = 1 .. Len(segment)
        /\ \A h \in 1 .. Len(segment) : fits[i][h].image = pixels[i][segment[h]]
    <3>1. segment \in Seq(Int)
      BY <1>1, ImageDataConstants DEF Inv, TypeOK
    <3> QED BY <1>1, <3>1 DEF Inv, HdusInOrder
  <2>2. Permutation(segment) /\ given \in Nat /\ given > 0
    BY <1>1 DEF Inv, Accepted, TypeOK
  <2>3. \A k \in Segment : pixels[i][k] = WholeImage(i, k)
    BY <1>1, ArraysAreWhole DEF Whole, WholeImage
  <2>4. \A h \in 1 .. Len(segment) :
          segment[h] \in Segment /\ fits[i][h].image = WholeImage(i, segment[h])
    BY <2>1, <2>2, <2>3 DEF Permutation
  <2>5. ASSUME NEW k \in Segment
        PROVE  \E h \in 1 .. Len(segment) : \A g \in 1 .. Len(segment) :
                  (fits[i][g].image = WholeImage(i, k)) <=> g = h
    <3>1. PICK h \in 1 .. Len(segment) :
            segment[h] = k /\ \A g \in 1 .. Len(segment) : segment[g] = k => g = h
      BY <2>2 DEF Permutation
    <3>2. ASSUME NEW g \in 1 .. Len(segment), g # h
          PROVE  fits[i][g].image # WholeImage(i, k)
      <4>1. segment[g] \in Segment /\ segment[g] # k
        BY <2>4, <3>1, <3>2
      <4>2. 0 \in 0 .. given - 1
        BY <2>2
      <4>3. /\ WholeImage(i, segment[g])[0] = Xored(0, i, segment[g])
            /\ WholeImage(i, k)[0] = Xored(0, i, k)
        BY <4>2 DEF WholeImage
      <4>4. Xored(0, i, segment[g]) # Xored(0, i, k)
        BY <4>1 DEF Xored
      <4> QED BY <2>4, <4>3, <4>4
    <3>3. fits[i][h].image = WholeImage(i, k)
      BY <2>4, <3>1
    <3>4. ASSUME NEW g \in 1 .. Len(segment)
          PROVE  (fits[i][g].image = WholeImage(i, k)) <=> g = h
      <4>1. CASE g = h
        BY <3>3, <4>1
      <4>2. CASE g # h
        BY <3>2, <4>2
      <4> QED BY <4>1, <4>2
    <3>5. \A g \in 1 .. Len(segment) : (fits[i][g].image = WholeImage(i, k)) <=> g = h
      BY <3>4
    <3> QED BY <3>5, Zenon
  <2>6. DOMAIN fits[i] = 1 .. Len(segment) /\ DOMAIN segment = 1 .. Len(segment)
    BY <2>1
  <2>7. \A h \in DOMAIN fits[i] : fits[i][h].image = WholeImage(i, segment[h])
    BY <2>4, <2>6
  <2>8. \A k \in Segment : \E h \in DOMAIN fits[i] : \A g \in DOMAIN fits[i] :
           (fits[i][g].image = WholeImage(i, k)) <=> g = h
    <3> SUFFICES ASSUME NEW k \in Segment
                 PROVE  \E h \in DOMAIN fits[i] : \A g \in DOMAIN fits[i] :
                           (fits[i][g].image = WholeImage(i, k)) <=> g = h
      OBVIOUS
    <3>1. PICK h \in 1 .. Len(segment) : \A g \in 1 .. Len(segment) :
            (fits[i][g].image = WholeImage(i, k)) <=> g = h
      BY <2>5, Zenon
    <3>2. h \in DOMAIN fits[i]
      BY <2>6
    <3>3. \A g \in DOMAIN fits[i] : (fits[i][g].image = WholeImage(i, k)) <=> g = h
      BY <2>6, <3>1
    <3> QED BY <3>2, <3>3, Zenon
  <2> QED BY <2>6, <2>7, <2>8, Zenon
<1> QED BY <1>1, InvAlways, PTL
=============================================================================
