-------------------------- MODULE CatalogScanProofs ---------------------------
(***************************************************************************)
(* Acknowledged scans leave no gap, for any images, windows, failures and  *)
(* any delay between an image's stamp and its entry in the catalog.        *)
(***************************************************************************)
EXTENDS CatalogScan, TLAPS

(* The camera never runs ahead of the clock, and no image is out of the    *)
(* catalog for as long as Delay.                                           *)
Punctual ==
    \A i \in taken :
        /\ stamp[i] <= now
        /\ i \notin catalog => now < stamp[i] + Delay

(* What the running scan has to bring: images that were in the catalog for *)
(* certain when it began, and are within what it was asked for.            *)
Due(i) == asked < stamp[i] /\ stamp[i] <= begun - Delay

(* Nothing that is due gets lost on the way to the list.                   *)
Brought ==
    /\ phase # "idle" => begun <= now /\ cutoff <= asked
    /\ phase = "scanning" => \A i \in taken \ Corrupt : Due(i) => i \in todo \cup images
    /\ phase = "acking" => \A i \in taken \ Corrupt : Due(i) => i \in listed

(* No new image can fall into the time that is covered.                    *)
Settled == upto + Delay <= now

Inv == TypeOK /\ Punctual /\ Brought /\ Settled /\ NoImageBetweenScans

-----------------------------------------------------------------------------
(* A second begins at or before the moment it is asked for.                *)
LEMMA SecondBegun ==
    ASSUME NEW t \in Nat
    PROVE  WholeSeconds(t) \in Int /\ WholeSeconds(t) <= t
<1>1. t % Second \in 0 .. Second - 1  BY ScanConstants
<1>. QED  BY <1>1, ScanConstants DEF WholeSeconds

LEMMA Initially == Init => Inv
<1>. QED  BY ScanConstants DEF Init, Inv, TypeOK, Punctual, Brought, Settled, NoImageBetweenScans

LEMMA TypeStep == Inv /\ [Next]_vars => TypeOK'
<1>. SUFFICES ASSUME Inv, [Next]_vars PROVE TypeOK'  OBVIOUS
<1>. USE ScanConstants DEF TypeOK
<1>0. TypeOK  BY DEF Inv
<1>1. ASSUME NEW i \in Image, TakeImage(i) PROVE TypeOK'
  BY <1>0, <1>1 DEF TakeImage, scanner, covered
<1>2. ASSUME NEW i \in Image, EnterCatalog(i) PROVE TypeOK'
  BY <1>0, <1>2 DEF EnterCatalog, scanner, covered
<1>3. CASE Tick  BY <1>0, <1>3 DEF Tick, camera, scanner, covered
<1>4. ASSUME NEW m \in Minutes, Scan(m) PROVE TypeOK'
  <2>1. WholeSeconds(now) \in Int  BY <1>0, SecondBegun
  <2>2. m * Minute \in Int  OBVIOUS
  <2>3. asked' \in Int /\ cutoff' \in Int /\ begun' \in Nat
    BY <1>0, <1>4, <2>1, <2>2 DEF Scan, Since
  <2>. QED  BY <1>0, <1>4, <2>3 DEF Scan, camera, covered
<1>5. ASSUME NEW i \in Image, Process(i) PROVE TypeOK'
  BY <1>0, <1>5 DEF Process, camera, covered
<1>6. CASE Abandon  BY <1>0, <1>6 DEF Abandon, Unset, camera, covered
<1>7. CASE Push  BY <1>0, <1>7 DEF Push, camera, scanner, covered
<1>8. CASE Acknowledge  BY <1>0, <1>8 DEF Acknowledge, Unset, camera
<1>9. CASE UNCHANGED vars
  BY <1>0, <1>9 DEF vars, camera, scanner, covered
<1>. QED  BY <1>1, <1>2, <1>3, <1>4, <1>5, <1>6, <1>7, <1>8, <1>9 DEF Next

LEMMA ClockStep == Inv /\ [Next]_vars => Punctual' /\ Settled'
<1>. SUFFICES ASSUME Inv, [Next]_vars PROVE Punctual' /\ Settled'  OBVIOUS
<1>. USE ScanConstants DEF TypeOK, Punctual, Settled
<1>0. TypeOK /\ Punctual /\ Settled  BY DEF Inv
<1>1. ASSUME NEW i \in Image, TakeImage(i) PROVE Punctual' /\ Settled'
  BY <1>0, <1>1 DEF TakeImage, scanner, covered
<1>2. ASSUME NEW i \in Image, EnterCatalog(i) PROVE Punctual' /\ Settled'
  BY <1>0, <1>2 DEF EnterCatalog, scanner, covered
<1>3. CASE Tick
  <2>1. \A i \in taken : stamp[i] \in Nat  BY <1>0
  <2>. QED  BY <1>0, <1>3, <2>1 DEF Tick, camera, scanner, covered
<1>4. ASSUME NEW m \in Minutes, Scan(m) PROVE Punctual' /\ Settled'
  BY <1>0, <1>4 DEF Scan, camera, covered
<1>5. ASSUME NEW i \in Image, Process(i) PROVE Punctual' /\ Settled'
  BY <1>0, <1>5 DEF Process, camera, covered
<1>6. CASE Abandon  BY <1>0, <1>6 DEF Abandon, camera, covered
<1>7. CASE Push  BY <1>0, <1>7 DEF Push, camera, scanner, covered
<1>8. CASE Acknowledge
  <2>1. begun <= now  BY <1>8 DEF Acknowledge, Inv, Brought
  <2>. QED  BY <1>0, <1>8, <2>1 DEF Acknowledge, camera
<1>9. CASE UNCHANGED vars
  BY <1>0, <1>9 DEF vars, camera, scanner, covered
<1>. QED  BY <1>1, <1>2, <1>3, <1>4, <1>5, <1>6, <1>7, <1>8, <1>9 DEF Next

LEMMA BroughtStep == Inv /\ [Next]_vars => Brought'
<1>. SUFFICES ASSUME Inv, [Next]_vars PROVE Brought'  OBVIOUS
<1>. USE ScanConstants DEF TypeOK, Brought, Due
<1>0. TypeOK /\ Punctual /\ Brought  BY DEF Inv
<1>s. \A i \in Image : stamp[i] \in Nat  BY <1>0
(* A new image is stamped after the time that is due.                      *)
<1>1. ASSUME NEW i \in Image, TakeImage(i) PROVE Brought'
  <2>1. stamp'[i] = now /\ \A j \in taken : stamp'[j] = stamp[j]
    BY <1>0, <1>1 DEF TakeImage
  <2>2. phase # "idle" => ~ (now <= begun - Delay)  BY <1>0
  <2>. QED  BY <1>0, <1>1, <2>1, <2>2 DEF TakeImage, scanner
<1>2. ASSUME NEW i \in Image, EnterCatalog(i) PROVE Brought'
  BY <1>0, <1>2 DEF EnterCatalog, scanner
<1>3. CASE Tick  BY <1>0, <1>3 DEF Tick, camera, scanner
(* What is due is in the catalog when the walk begins.                     *)
<1>4. ASSUME NEW m \in Minutes, Scan(m) PROVE Brought'
  <2>1. WholeSeconds(now) \in Int /\ WholeSeconds(now) <= now  BY <1>0, SecondBegun
  <2>2. m * Minute \in Int  OBVIOUS
  <2>3. cutoff' <= asked'  BY <1>0, <1>4, <2>1, <2>2 DEF Scan, Since
  <2>4. \A i \in taken : stamp[i] <= now - Delay => i \in catalog
    BY <1>0, <1>s DEF Punctual
  <2>. QED  BY <1>0, <1>4, <2>3, <2>4 DEF Scan, camera
(* What is due is wanted.                                                  *)
<1>5. ASSUME NEW i \in Image, Process(i) PROVE Brought'
  <2>1. i \in taken \ Corrupt /\ Due(i) => i \in images'
    BY <1>0, <1>s, <1>5 DEF Process, Wanted
  <2>2. \A j \in todo \cup images : j # i => j \in todo' \cup images'
    BY <1>0, <1>5 DEF Process
  <2>3. i \in images => i \in images'  BY <1>5 DEF Process
  <2>. QED  BY <1>0, <1>5, <2>1, <2>2, <2>3 DEF Process, camera
<1>6. CASE Abandon  BY <1>0, <1>6 DEF Abandon, Unset
<1>7. CASE Push  BY <1>0, <1>7 DEF Push, camera, scanner
<1>8. CASE Acknowledge  BY <1>0, <1>8 DEF Acknowledge, Unset
<1>9. CASE UNCHANGED vars
  BY <1>0, <1>9 DEF vars, camera, scanner
<1>. QED  BY <1>1, <1>2, <1>3, <1>4, <1>5, <1>6, <1>7, <1>8, <1>9 DEF Next

LEMMA CoveredStep == Inv /\ [Next]_vars => NoImageBetweenScans'
<1>. SUFFICES ASSUME Inv, [Next]_vars PROVE NoImageBetweenScans'  OBVIOUS
<1>. USE ScanConstants DEF TypeOK, NoImageBetweenScans
<1>0. TypeOK /\ Settled /\ NoImageBetweenScans  BY DEF Inv
<1>s. \A i \in Image : stamp[i] \in Nat  BY <1>0
<1>1. ASSUME NEW i \in Image, TakeImage(i) PROVE NoImageBetweenScans'
  <2>1. stamp'[i] = now /\ \A j \in taken : stamp'[j] = stamp[j]
    BY <1>0, <1>1 DEF TakeImage
  <2>2. ~ (now <= upto)  BY <1>0 DEF Settled
  <2>. QED  BY <1>0, <1>1, <2>1, <2>2 DEF TakeImage, covered
<1>2. ASSUME NEW i \in Image, EnterCatalog(i) PROVE NoImageBetweenScans'
  BY <1>0, <1>2 DEF EnterCatalog, covered
<1>3. CASE Tick  BY <1>0, <1>3 DEF Tick, camera, covered
<1>4. ASSUME NEW m \in Minutes, Scan(m) PROVE NoImageBetweenScans'
  BY <1>0, <1>4 DEF Scan, camera, covered
<1>5. ASSUME NEW i \in Image, Process(i) PROVE NoImageBetweenScans'
  BY <1>0, <1>5 DEF Process, camera, covered
<1>6. CASE Abandon  BY <1>0, <1>6 DEF Abandon, camera, covered
<1>7. CASE Push  BY <1>0, <1>7 DEF Push, camera, covered
(* The new window begins at or before the end of the old one, or stands    *)
(* for itself.                                                             *)
<1>8. CASE Acknowledge
  <2>. SUFFICES ASSUME NEW i \in taken \ Corrupt, from' < stamp[i], stamp[i] <= begun - Delay
                PROVE  i \in listed
    BY <1>8 DEF Acknowledge, camera
  <2>1. asked < stamp[i] => i \in listed
    BY <1>8, <1>0 DEF Acknowledge, Inv, Brought, Due
  <2>2. CASE asked <= upto
    <3>1. from < stamp[i]  BY <1>8, <2>2 DEF Acknowledge
    <3>. QED  BY <1>0, <1>s, <2>1, <2>2, <3>1
  <2>3. CASE ~ (asked <= upto)
    BY <1>8, <2>1, <2>3 DEF Acknowledge
  <2>. QED  BY <2>2, <2>3
<1>9. CASE UNCHANGED vars
  BY <1>0, <1>9 DEF vars, camera, covered
<1>. QED  BY <1>1, <1>2, <1>3, <1>4, <1>5, <1>6, <1>7, <1>8, <1>9 DEF Next

(* Every image of a time that acknowledged scans cover without a break is  *)
(* on the archiver's list, for any window, delay and failures.             *)
THEOREM ScansLeaveNoGap == Spec => []NoImageBetweenScans
<1>1. Inv /\ [Next]_vars => Inv'
  BY TypeStep, ClockStep, BroughtStep, CoveredStep DEF Inv
<1>2. Inv => NoImageBetweenScans  BY DEF Inv
<1>. QED  BY Initially, <1>1, <1>2, PTL DEF Spec
=============================================================================
