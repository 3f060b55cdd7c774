------------------------- MODULE FitsComparatorProofs -------------------------
(***************************************************************************)
(* What the verdicts of fc_exe can be relied on for: the violated          *)
(* HduVerdictIsRight says what they do not mean, this module what they do. *)
(***************************************************************************)
EXTENDS FitsComparator, TLAPS

Verdicts == {"none", "equal", "different", "error"}
Opened == "help" \notin options /\ Len(input) = 2 /\ << >> \notin {file1, file2}
AllNamed(f) == \A i \in 2 .. Segments + 1 : HasSegment(f, i)

(* What the three comparisons look at in HDU i of file 2.                  *)
HeaderAgrees(i) == GetHeaderValues(file1[Counterpart(i)].cards) = GetHeaderValues(file2[i].cards)
SegmentAgrees(i) == GetPixels(file1[Counterpart(i)].image) = GetPixels(file2[i].image)
HduPresent(i) == i \in DOMAIN file1 \cap DOMAIN file2
HduAgrees(i) == GetPixels(file1[i].image) = GetPixels(file2[i].image)

Types ==
    /\ stage \in Comparison \cup {"start", "done"}
    /\ at \in 0 .. Segments + 2
    /\ same \in BOOLEAN
    /\ verdict \in [Comparison -> Verdicts]

(* What the loops know of the HDUs behind them.                            *)
SoFar ==
    /\ stage \in {"start", "done"} => at = 0
    /\ at = 0 => same
    /\ at > 0 => stage \in options
    /\ (stage = "headers" /\ at > 0) =>
         /\ AllNamed(file1)
         /\ same <=> \A i \in 1 .. at - 1 : HeaderAgrees(i)
         /\ \A i \in 2 .. at - 1 : HasSegment(file2, i)
    /\ (stage = "segments" /\ at > 0) =>
         /\ at > 1 /\ AllNamed(file1) /\ same
         /\ \A i \in 2 .. at - 1 : HasSegment(file2, i) /\ SegmentAgrees(i)
    /\ (stage = "hdu" /\ at > 0) =>
         /\ at > 1 /\ same
         /\ \A i \in 2 .. at - 1 : HduPresent(i) /\ HduAgrees(i)

(* The headers are called equal or different only when every HDU was there *)
(* to be compared, and equal only when all their cards are.                *)
HeaderVerdict ==
    /\ verdict["headers"] \in {"equal", "different"} => AllNamed(file1) /\ AllNamed(file2)
    /\ verdict["headers"] = "equal" => \A i \in 1 .. Segments + 1 : HeaderAgrees(i)
    /\ verdict["headers"] = "different" => \E i \in 1 .. Segments + 1 : ~ HeaderAgrees(i)
    /\ verdict["headers"] = "error" => ~ (AllNamed(file1) /\ AllNamed(file2))

(* The segments are called equal only when every segment of file 2 has its *)
(* counterpart and no read of the pixels told them apart, and different    *)
(* only when one did.                                                      *)
SegmentVerdict ==
    /\ verdict["segments"] = "equal" =>
         AllNamed(file1) /\ AllNamed(file2) /\ \A i \in 2 .. Segments + 1 : SegmentAgrees(i)
    /\ verdict["segments"] = "different" => \E i \in 2 .. Segments + 1 : ~ SegmentAgrees(i)
    /\ verdict["segments"] = "error" => ~ (AllNamed(file1) /\ AllNamed(file2))

(* The same by HDU, where a missing HDU gives an error or a difference.    *)
HduVerdict ==
    /\ verdict["hdu"] = "equal" =>
         \A i \in 2 .. Segments + 1 : HduPresent(i) /\ HduAgrees(i)
    /\ verdict["hdu"] = "different" =>
         \E i \in 2 .. Segments + 1 : ~ (HduPresent(i) /\ HduAgrees(i))
    /\ verdict["hdu"] = "error" => \E i \in 2 .. Segments + 1 : ~ HduPresent(i)

(* The comparisons main has behind it.                                     *)
Passed == [start |-> {}, headers |-> {}, segments |-> {"headers"},
           hdu |-> {"headers", "segments"}, done |-> Comparison]

(* A comparison that main has behind it has a verdict exactly when it was  *)
(* asked for.                                                              *)
Answered ==
    /\ stage \in Comparison => Opened
    /\ Opened => \A c \in Comparison :
         verdict[c] # "none" <=> c \in Passed[stage] \cap options

Inv == Types /\ SoFar /\ HeaderVerdict /\ SegmentVerdict /\ HduVerdict /\ Answered

(* Two files that fc_exe can read give no difference when they are one.    *)
SameFileIsEqual ==
    (stage = "done" /\ Opened /\ file1 = file2 /\ AllNamed(file1)) =>
        \A c \in Comparison \cap options : verdict[c] = "equal"
(* An error in one comparison does not keep main from the others.          *)
EachIsAnswered ==
    (stage = "done" /\ Opened) =>
        \A c \in Comparison : verdict[c] # "none" <=> c \in options

-----------------------------------------------------------------------------
LEMMA InvInit == ASSUME Segments \in Nat PROVE Init => Inv
<1> SUFFICES ASSUME Init
             PROVE  Inv
    OBVIOUS
<1>1. stage = "start" /\ at = 0 /\ same = TRUE /\ verdict = [c \in Comparison |-> "none"]
    BY DEF Init
<1>2. \A c \in Comparison : verdict[c] = "none"
    BY <1>1
<1>3. Types
    BY <1>1 DEF Types, Verdicts
<1>4. SoFar
    BY <1>1 DEF SoFar
<1>5. HeaderVerdict /\ SegmentVerdict /\ HduVerdict
    BY <1>2 DEF HeaderVerdict, SegmentVerdict, HduVerdict, Comparison
<1>6. Answered
    BY <1>1, <1>2 DEF Answered, Passed, Comparison
<1> QED
    BY <1>3, <1>4, <1>5, <1>6 DEF Inv

(* The command line and the files do not change, so what is said of them   *)
(* alone holds on.                                                         *)
LEMMA FilesStay ==
    ASSUME UNCHANGED << input, options >>
    PROVE  /\ Opened' = Opened
           /\ AllNamed(file1)' = AllNamed(file1)
           /\ AllNamed(file2)' = AllNamed(file2)
           /\ \A i : /\ HeaderAgrees(i)' = HeaderAgrees(i)
                     /\ SegmentAgrees(i)' = SegmentAgrees(i)
                     /\ HduPresent(i)' = HduPresent(i)
                     /\ HduAgrees(i)' = HduAgrees(i)
                     /\ HasSegment(file2, i)' = HasSegment(file2, i)
<1>1. file1' = file1 /\ file2' = file2
    BY DEF file1, file2
<1>2. Opened' = Opened
    BY <1>1 DEF Opened
<1>3. AllNamed(file1)' = AllNamed(file1) /\ AllNamed(file2)' = AllNamed(file2)
    BY <1>1 DEF AllNamed, HasSegment
<1>4. ASSUME NEW i
      PROVE  /\ HeaderAgrees(i)' = HeaderAgrees(i)
             /\ SegmentAgrees(i)' = SegmentAgrees(i)
    <2>1. Counterpart(i)' = Counterpart(i)
        BY <1>1 DEF Counterpart
    <2> QED
        BY <1>1, <2>1 DEF HeaderAgrees, SegmentAgrees
<1>5. ASSUME NEW i
      PROVE  /\ HduPresent(i)' = HduPresent(i)
             /\ HduAgrees(i)' = HduAgrees(i)
             /\ HasSegment(file2, i)' = HasSegment(file2, i)
    BY <1>1 DEF HduPresent, HduAgrees, GetPixels, HasSegment
<1> QED
    BY <1>2, <1>3, <1>4, <1>5

(* What a verdict that was given means does not depend on anything else.   *)
LEMMA VerdictsStay ==
    ASSUME Inv, UNCHANGED << input, options, verdict >>
    PROVE  HeaderVerdict' /\ SegmentVerdict' /\ HduVerdict'
<1> USE FilesStay
<1>1. HeaderVerdict'
    BY DEF Inv, HeaderVerdict
<1>2. SegmentVerdict'
    BY DEF Inv, SegmentVerdict
<1>3. HduVerdict'
    BY DEF Inv, HduVerdict
<1> QED
    BY <1>1, <1>2, <1>3

(* A step that gives a verdict starts the next comparison from nothing.    *)
LEMMA ConcludeKeeps ==
    ASSUME Segments \in Nat, Inv, stage \in Comparison \cap options,
           NEW v \in {"equal", "different", "error"}, Conclude(v)
    PROVE  Types' /\ SoFar' /\ Answered'
<1>1. /\ verdict' = [verdict EXCEPT ![stage] = v]
      /\ stage' = After[stage] /\ at' = 0 /\ same' = TRUE
      /\ UNCHANGED << input, options >>
    BY DEF Conclude
<1>2. stage' \in {"segments", "hdu", "done"}
    BY <1>1 DEF Comparison, After
<1>3. Types'
    BY <1>1, <1>2 DEF Inv, Types, Verdicts, Comparison
<1>4. SoFar'
    BY <1>1 DEF SoFar
<1>5. Opened' = Opened /\ Opened
    BY <1>1, FilesStay DEF Inv, Answered
<1>6. Passed[stage'] = Passed[stage] \cup {stage} /\ stage \notin Passed[stage]
    BY <1>1 DEF Passed, After, Comparison
<1>7. ASSUME NEW c \in Comparison
      PROVE  verdict'[c] # "none" <=> c \in Passed[stage'] \cap options
    <2>1. CASE c = stage
        BY <1>1, <1>6, <2>1 DEF Inv, Types
    <2>2. CASE c # stage
        <3>1. verdict'[c] = verdict[c]
            BY <1>1, <2>2 DEF Inv, Types
        <3> QED
            BY <1>5, <1>6, <2>2, <3>1 DEF Inv, Answered
    <2> QED
        BY <2>1, <2>2
<1> QED
    BY <1>1, <1>3, <1>4, <1>5, <1>7 DEF Answered

(* It gives one verdict and leaves the others.                             *)
LEMMA ConcludeOne ==
    ASSUME Types, stage \in Comparison, NEW v, Conclude(v)
    PROVE  /\ verdict'[stage] = v
           /\ \A c \in Comparison \ {stage} : verdict'[c] = verdict[c]
  BY DEF Types, Conclude

LEMMA HeadersConclude ==
    ASSUME Inv, stage = "headers", NEW v \in {"equal", "different", "error"}, Conclude(v),
           v \in {"equal", "different"} => AllNamed(file1) /\ AllNamed(file2),
           v = "equal" => \A i \in 1 .. Segments + 1 : HeaderAgrees(i),
           v = "different" => \E i \in 1 .. Segments + 1 : ~ HeaderAgrees(i),
           v = "error" => ~ (AllNamed(file1) /\ AllNamed(file2))
    PROVE  HeaderVerdict' /\ SegmentVerdict' /\ HduVerdict'
<1>1. UNCHANGED << input, options >>
    BY DEF Conclude
<1>2. /\ verdict'["headers"] = v
      /\ verdict'["segments"] = verdict["segments"]
      /\ verdict'["hdu"] = verdict["hdu"]
    BY ConcludeOne DEF Inv, Comparison
<1>3. HeaderVerdict'
    BY <1>1, <1>2, FilesStay DEF HeaderVerdict
<1>4. SegmentVerdict'
    BY <1>1, <1>2, FilesStay DEF Inv, SegmentVerdict
<1>5. HduVerdict'
    BY <1>1, <1>2, FilesStay DEF Inv, HduVerdict
<1> QED
    BY <1>3, <1>4, <1>5

LEMMA SegmentsConclude ==
    ASSUME Inv, stage = "segments", NEW v \in {"equal", "different", "error"}, Conclude(v),
           v = "equal" =>
             AllNamed(file1) /\ AllNamed(file2) /\ \A i \in 2 .. Segments + 1 : SegmentAgrees(i),
           v = "different" => \E i \in 2 .. Segments + 1 : ~ SegmentAgrees(i),
           v = "error" => ~ (AllNamed(file1) /\ AllNamed(file2))
    PROVE  HeaderVerdict' /\ SegmentVerdict' /\ HduVerdict'
<1>1. UNCHANGED << input, options >>
    BY DEF Conclude
<1>2. /\ verdict'["segments"] = v
      /\ verdict'["headers"] = verdict["headers"]
      /\ verdict'["hdu"] = verdict["hdu"]
    BY ConcludeOne DEF Inv, Comparison
<1>3. HeaderVerdict'
    BY <1>1, <1>2, FilesStay DEF Inv, HeaderVerdict
<1>4. SegmentVerdict'
    BY <1>1, <1>2, FilesStay DEF SegmentVerdict
<1>5. HduVerdict'
    BY <1>1, <1>2, FilesStay DEF Inv, HduVerdict
<1> QED
    BY <1>3, <1>4, <1>5

LEMMA HduConclude ==
    ASSUME Inv, stage = "hdu", NEW v \in {"equal", "different", "error"}, Conclude(v),
           v = "equal" => \A i \in 2 .. Segments + 1 : HduPresent(i) /\ HduAgrees(i),
           v = "different" => \E i \in 2 .. Segments + 1 : ~ (HduPresent(i) /\ HduAgrees(i)),
           v = "error" => \E i \in 2 .. Segments + 1 : ~ HduPresent(i)
    PROVE  HeaderVerdict' /\ SegmentVerdict' /\ HduVerdict'
<1>1. UNCHANGED << input, options >>
    BY DEF Conclude
<1>2. /\ verdict'["hdu"] = v
      /\ verdict'["headers"] = verdict["headers"]
      /\ verdict'["segments"] = verdict["segments"]
    BY ConcludeOne DEF Inv, Comparison
<1>3. HeaderVerdict'
    BY <1>1, <1>2, FilesStay DEF Inv, HeaderVerdict
<1>4. SegmentVerdict'
    BY <1>1, <1>2, FilesStay DEF Inv, SegmentVerdict
<1>5. HduVerdict'
    BY <1>1, <1>2, FilesStay DEF HduVerdict
<1> QED
    BY <1>3, <1>4, <1>5

-----------------------------------------------------------------------------
LEMMA StartKeeps == ASSUME Segments \in Nat, Inv, Start PROVE Inv'
<1>1. stage = "start" /\ UNCHANGED << input, options, at, same, verdict >>
    BY DEF Start
<1>2. IF Opened THEN stage' = "headers" ELSE stage' = "done"
    BY <1>1 DEF Start, Opened, After
<1>3. Types' /\ SoFar'
    BY <1>1, <1>2 DEF Inv, Types, SoFar, Comparison
<1>4. Opened' = Opened
    BY <1>1, FilesStay
<1>5. Answered'
    BY <1>1, <1>2, <1>4 DEF Inv, Answered, Passed, Comparison
<1> QED
    BY <1>1, <1>3, <1>5, VerdictsStay DEF Inv

LEMMA SkipKeeps == ASSUME Segments \in Nat, Inv, Skip PROVE Inv'
<1>1. /\ stage \in Comparison \ options /\ stage' = After[stage]
      /\ UNCHANGED << input, options, at, same, verdict >>
    BY DEF Skip
<1>2. stage' \in {"segments", "hdu", "done"} /\ at = 0
    BY <1>1 DEF Comparison, After, Inv, Types, SoFar
<1>3. Types' /\ SoFar'
    BY <1>1, <1>2 DEF Inv, Types, SoFar, Comparison
<1>4. Opened' = Opened
    BY <1>1, FilesStay
<1>5. Passed[stage'] \cap options = Passed[stage] \cap options
    BY <1>1 DEF Passed, After, Comparison
<1>6. Answered'
    BY <1>1, <1>2, <1>4, <1>5 DEF Inv, Answered
<1> QED
    BY <1>1, <1>3, <1>6, VerdictsStay DEF Inv

LEMMA GetSegmentsKeeps == ASSUME Segments \in Nat, Inv, GetSegments PROVE Inv'
<1>1. stage \in {"headers", "segments"} /\ stage \in Comparison \cap options /\ at = 0 /\ same
    BY DEF GetSegments, Comparison, Inv, SoFar
<1>2. CASE /\ AllNamed(file1)
           /\ at' = IF stage = "headers" THEN 1 ELSE 2
           /\ UNCHANGED << input, options, stage, same, verdict >>
    <2>1. Types'
        BY <1>1, <1>2 DEF Inv, Types
    <2>2. SoFar'
        BY <1>1, <1>2, FilesStay DEF SoFar
    <2>3. Answered'
        BY <1>2, FilesStay DEF Inv, Answered
    <2> QED
        BY <1>2, <2>1, <2>2, <2>3, VerdictsStay DEF Inv
<1>3. CASE ~ AllNamed(file1) /\ Conclude("error")
    <2>1. Types' /\ SoFar' /\ Answered'
        BY <1>1, <1>3, ConcludeKeeps
    <2>2. HeaderVerdict' /\ SegmentVerdict' /\ HduVerdict'
        BY <1>1, <1>3, HeadersConclude, SegmentsConclude
    <2> QED
        BY <2>1, <2>2 DEF Inv
<1> QED
    BY <1>2, <1>3 DEF GetSegments, AllNamed

LEMMA StartHduKeeps == ASSUME Segments \in Nat, Inv, StartHdu PROVE Inv'
<1>1. /\ stage = "hdu" /\ stage \in options /\ at = 0 /\ at' = 2
      /\ UNCHANGED << input, options, stage, same, verdict >>
    BY DEF StartHdu
<1>2. Types' /\ SoFar'
    BY <1>1 DEF Inv, Types, SoFar, Comparison
<1>3. Answered'
    BY <1>1, FilesStay DEF Inv, Answered
<1> QED
    BY <1>1, <1>2, <1>3, VerdictsStay DEF Inv

(* A step of a loop that goes on.                                          *)
LEMMA ContinueKeeps ==
    ASSUME Segments \in Nat, Inv, stage \in Comparison, at \in 1 .. Segments + 1,
           NEW equal \in BOOLEAN, Continue(equal),
           stage = "headers" =>
             /\ equal <=> same /\ HeaderAgrees(at)
             /\ at > 1 => HasSegment(file2, at),
           stage = "segments" => equal /\ HasSegment(file2, at) /\ SegmentAgrees(at),
           stage = "hdu" => equal /\ HduPresent(at) /\ HduAgrees(at)
    PROVE  Inv'
<1>1. /\ at' = at + 1 /\ same' = equal
      /\ UNCHANGED << input, options, stage, verdict >>
    BY DEF Continue
<1>2. Types'
    BY <1>1 DEF Inv, Types
<1>3. /\ 1 .. at' - 1 = (1 .. at - 1) \cup {at}
      /\ 2 .. at' - 1 = (2 .. at - 1) \cup (IF at > 1 THEN {at} ELSE {})
      /\ at > 0 /\ at' > 0 /\ at' # 0
    BY <1>1
<1>4. stage = "headers" =>
         /\ AllNamed(file1)
         /\ equal <=> \A i \in 1 .. at' - 1 : HeaderAgrees(i)
         /\ \A i \in 2 .. at' - 1 : HasSegment(file2, i)
    BY <1>3 DEF Inv, SoFar
<1>5. stage = "segments" =>
         /\ AllNamed(file1)
         /\ \A i \in 2 .. at' - 1 : HasSegment(file2, i) /\ SegmentAgrees(i)
    BY <1>3 DEF Inv, SoFar
<1>6. stage = "hdu" => \A i \in 2 .. at' - 1 : HduPresent(i) /\ HduAgrees(i)
    BY <1>3 DEF Inv, SoFar
<1>7. stage \in options /\ stage \notin {"start", "done"}
    BY <1>3 DEF Inv, SoFar, Comparison
<1>8. SoFar'
    BY <1>1, <1>3, <1>4, <1>5, <1>6, <1>7, FilesStay DEF SoFar
<1>9. Answered'
    BY <1>1, FilesStay DEF Inv, Answered
<1> QED
    BY <1>1, <1>2, <1>8, <1>9, VerdictsStay DEF Inv

LEMMA CompareHeadersKeeps == ASSUME Segments \in Nat, Inv, CompareHeaders PROVE Inv'
<1>1. /\ stage = "headers" /\ stage \in Comparison /\ at \in 1 .. Segments + 1
      /\ stage \in options
    BY DEF CompareHeaders, InLoop, Comparison, Inv, SoFar
<1>2. CASE at > 1 /\ ~ HasSegment(file2, at)
    <2>1. Conclude("error")
        BY <1>2 DEF CompareHeaders
    <2>2. ~ AllNamed(file2)
        BY <1>1, <1>2 DEF AllNamed
    <2> QED
        BY <1>1, <2>1, <2>2, ConcludeKeeps, HeadersConclude DEF Inv
<1>3. CASE ~ (at > 1 /\ ~ HasSegment(file2, at))
    <2> DEFINE equal == same /\ HeaderAgrees(at)
    <2>1. Continue(equal)
        BY <1>3 DEF CompareHeaders, HeaderAgrees
    <2>2. equal \in BOOLEAN
        BY DEF Inv, Types
    <2> QED
        BY <1>1, <1>3, <2>1, <2>2, ContinueKeeps
<1> QED
    BY <1>2, <1>3

LEMMA CompareBySegmentsKeeps == ASSUME Segments \in Nat, Inv, CompareBySegments PROVE Inv'
<1>1. /\ stage = "segments" /\ stage \in Comparison /\ at \in 1 .. Segments + 1
      /\ stage \in options
    BY DEF CompareBySegments, InLoop, Comparison, Inv, SoFar
<1>2. at >= 2
    BY <1>1 DEF Inv, SoFar
<1>3. CASE ~ HasSegment(file2, at)
    <2>1. Conclude("error")
        BY <1>3 DEF CompareBySegments
    <2>2. ~ AllNamed(file2)
        BY <1>1, <1>2, <1>3 DEF AllNamed
    <2> QED
        BY <1>1, <2>1, <2>2, ConcludeKeeps, SegmentsConclude DEF Inv
<1>4. CASE HasSegment(file2, at) /\ SegmentAgrees(at)
    <2>1. Continue(TRUE)
        BY <1>4 DEF CompareBySegments, SegmentAgrees
    <2> QED
        BY <1>1, <1>4, <2>1, ContinueKeeps
<1>5. CASE HasSegment(file2, at) /\ ~ SegmentAgrees(at)
    <2>1. Conclude("different")
        BY <1>5 DEF CompareBySegments, SegmentAgrees
    <2> QED
        BY <1>1, <1>2, <1>5, <2>1, ConcludeKeeps, SegmentsConclude DEF Inv
<1> QED
    BY <1>3, <1>4, <1>5

LEMMA CompareByHduKeeps == ASSUME Segments \in Nat, Inv, CompareByHdu PROVE Inv'
<1>1. /\ stage = "hdu" /\ stage \in Comparison /\ at \in 1 .. Segments + 1
      /\ stage \in options
    BY DEF CompareByHdu, InLoop, Comparison, Inv, SoFar
<1>2. at >= 2
    BY <1>1 DEF Inv, SoFar
<1>3. CASE HduPresent(at) /\ HduAgrees(at)
    <2>1. Continue(TRUE)
        BY <1>3 DEF CompareByHdu, HduPresent, HduAgrees
    <2> QED
        BY <1>1, <1>3, <2>1, ContinueKeeps
<1>4. CASE HduPresent(at) /\ ~ HduAgrees(at)
    <2>1. Conclude("different")
        BY <1>4 DEF CompareByHdu, HduPresent, HduAgrees
    <2> QED
        BY <1>1, <1>2, <1>4, <2>1, ConcludeKeeps, HduConclude DEF Inv
<1>5. CASE ~ HduPresent(at)
    <2>1. PICK v \in {"different", "error"} : Conclude(v)
        BY <1>5 DEF CompareByHdu, HduPresent
    <2> QED
        BY <1>1, <1>2, <1>5, <2>1, ConcludeKeeps, HduConclude DEF Inv
<1> QED
    BY <1>3, <1>4, <1>5

LEMMA FinishKeeps == ASSUME Segments \in Nat, Inv, Finish PROVE Inv'
<1> DEFINE v == IF same THEN "equal" ELSE "different"
<1>1. stage \in Comparison /\ at = Segments + 2 /\ at > 0 /\ stage \in options /\ Conclude(v)
    BY DEF Finish, Inv, SoFar
<1>2. Types' /\ SoFar' /\ Answered'
    BY <1>1, ConcludeKeeps
<1>3. at - 1 = Segments + 1
    BY <1>1
<1>4. CASE stage = "headers"
    BY <1>1, <1>2, <1>3, <1>4, HeadersConclude DEF Inv, SoFar, AllNamed
<1>5. CASE stage = "segments"
    BY <1>1, <1>2, <1>3, <1>5, SegmentsConclude DEF Inv, SoFar, AllNamed
<1>6. CASE stage = "hdu"
    BY <1>1, <1>2, <1>3, <1>6, HduConclude DEF Inv, SoFar
<1> QED
    BY <1>1, <1>4, <1>5, <1>6 DEF Comparison

LEMMA InvNext == ASSUME Segments \in Nat PROVE Inv /\ [Next]_vars => Inv'
<1> SUFFICES ASSUME Inv, [Next]_vars
             PROVE  Inv'
    OBVIOUS
<1>1. CASE UNCHANGED vars
    <2>1. Types' /\ SoFar' /\ Answered'
        BY <1>1, FilesStay DEF vars, Inv, Types, SoFar, Answered
    <2> QED
        BY <1>1, <2>1, VerdictsStay DEF vars, Inv
<1> QED
    BY <1>1, StartKeeps, SkipKeeps, GetSegmentsKeeps, StartHduKeeps, CompareHeadersKeeps,
       CompareBySegmentsKeeps, CompareByHduKeeps, FinishKeeps DEF Next

(* What each verdict of fc_exe means, for any files and number of HDUs.    *)
THEOREM VerdictsMean ==
    ASSUME Segments \in Nat
    PROVE  Spec => [](HeaderVerdict /\ SegmentVerdict /\ HduVerdict)
<1>1. Inv => HeaderVerdict /\ SegmentVerdict /\ HduVerdict
    BY DEF Inv
<1> QED
    BY <1>1, InvInit, InvNext, PTL DEF Spec

(* Every comparison that was asked for is answered, whatever became of the *)
(* ones before it.                                                         *)
THEOREM EveryQuestionIsAnswered ==
    ASSUME Segments \in Nat
    PROVE  Spec => []EachIsAnswered
<1>1. Inv => EachIsAnswered
    BY DEF Inv, Answered, EachIsAnswered, Passed
<1> QED
    BY <1>1, InvInit, InvNext, PTL DEF Spec

(* A file with all its segments never differs from itself.                 *)
THEOREM FileEqualsItself ==
    ASSUME Segments \in Nat
    PROVE  Spec => []SameFileIsEqual
<1>1. ASSUME Inv, stage = "done", Opened, file1 = file2, AllNamed(file1),
             NEW c \in Comparison \cap options
      PROVE  verdict[c] = "equal"
    <2>1. verdict[c] \in {"equal", "different", "error"}
        BY <1>1 DEF Inv, Answered, Passed, Types, Verdicts
    <2>2. ASSUME NEW i \in 1 .. Segments + 1
          PROVE  HeaderAgrees(i) /\ SegmentAgrees(i) /\ HduAgrees(i)
        <3>1. Counterpart(i) = i
            BY <1>1 DEF Counterpart
        <3> QED
            BY <1>1, <3>1 DEF HeaderAgrees, SegmentAgrees, HduAgrees
    <2>3. ASSUME NEW i \in 2 .. Segments + 1
          PROVE  HduPresent(i) /\ i \in 1 .. Segments + 1
        BY <1>1 DEF AllNamed, HasSegment, HduPresent
    <2>4. AllNamed(file2)
        BY <1>1 DEF AllNamed
    <2>5. CASE c = "headers"
        BY <1>1, <2>1, <2>2, <2>4, <2>5 DEF Inv, HeaderVerdict
    <2>6. CASE c = "segments"
        BY <1>1, <2>1, <2>2, <2>3, <2>4, <2>6 DEF Inv, SegmentVerdict
    <2>7. CASE c = "hdu"
        BY <1>1, <2>1, <2>2, <2>3, <2>7 DEF Inv, HduVerdict
    <2> QED
        BY <2>5, <2>6, <2>7 DEF Comparison
<1>2. Inv => SameFileIsEqual
    BY <1>1 DEF SameFileIsEqual
<1> QED
    BY <1>2, InvInit, InvNext, PTL DEF Spec

-----------------------------------------------------------------------------
(* How far the reads of get_pixels reach into an image: the first w + h - 1*)
(* samples, each of them, and none behind.  One row is therefore compared  *)
(* whole, and of an image of 2 rows of w samples all but w - 1.            *)
THEOREM OnlyTheBeginningIsCompared ==
    ASSUME NEW a, NEW b, NEW w \in Nat \ {0}, NEW h \in Nat \ {0},
           a.w = w, b.w = w, a.h = h, b.h = h
    PROVE  GetPixels(a) = GetPixels(b)
             <=> \A k \in 1 .. w + h - 1 : a.samples[k] = b.samples[k]
<1>1. ASSUME \A k \in 1 .. w + h - 1 : a.samples[k] = b.samples[k]
      PROVE  GetPixels(a) = GetPixels(b)
    <2>1. \A row \in 1 .. h, x \in 1 .. w : row + x - 1 \in 1 .. w + h - 1
        OBVIOUS
    <2>2. \A row \in 1 .. h :
             [x \in 1 .. w |-> a.samples[row + x - 1]] = [x \in 1 .. w |-> b.samples[row + x - 1]]
        BY <1>1, <2>1
    <2>3. /\ GetPixels(a) = [row \in 1 .. h |-> [x \in 1 .. w |-> a.samples[row + x - 1]]]
          /\ GetPixels(b) = [row \in 1 .. h |-> [x \in 1 .. w |-> b.samples[row + x - 1]]]
        BY DEF GetPixels
    <2> QED
        BY <2>2, <2>3, Zenon
<1>2. ASSUME GetPixels(a) = GetPixels(b), NEW k \in 1 .. w + h - 1
      PROVE  a.samples[k] = b.samples[k]
    <2>1. PICK row \in 1 .. h, x \in 1 .. w : row + x - 1 = k
        <3>1. CASE k <= w
            BY <3>1, 1 + k - 1 = k, 1 \in 1 .. h, k \in 1 .. w
        <3>2. CASE k > w
            BY <3>2, (k - w + 1) + w - 1 = k, k - w + 1 \in 1 .. h, w \in 1 .. w
        <3> QED
            BY <3>1, <3>2
    <2>2. GetPixels(a)[row][x] = a.samples[k] /\ GetPixels(b)[row][x] = b.samples[k]
        BY <2>1 DEF GetPixels
    <2> QED
        BY <1>2, <2>2
<1> QED
    BY <1>1, <1>2
=============================================================================
