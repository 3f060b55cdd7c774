----------------------------- MODULE CatalogScan ------------------------------
(***************************************************************************)
(* The SCAN message (miniforwarder::scan, daq/Scanner.cpp): the forwarder  *)
(* walks through the DAQ catalog, pushes the names of the images of the    *)
(* last minutes onto a Redis list of the archiver and acknowledges.        *)
(* Meanwhile the camera goes on taking images, and an image is in the      *)
(* catalog only some time after the moment it is stamped with.             *)
(***************************************************************************)
EXTENDS Integers

CONSTANTS
    Image,      \* images the camera may take
    Corrupt,    \* those whose name the catalog returns damaged
    Second,     \* clock ticks per second, the grain of time_t
    Minute,     \* clock ticks per minute
    Minutes,    \* values of the field MINUTES
    Delay,      \* an image is in the catalog less than this after its stamp
    Faults,     \* "catalog", "redis", "publish": what may fail
    MaxTime     \* bound: clock ticks

ASSUME ScanConstants ==
    /\ Corrupt \subseteq Image
    /\ Second \in Nat \ {0} /\ Minute \in Nat \ {0} /\ Delay \in Nat \ {0}
    /\ Minutes \subseteq Int
    /\ MaxTime \in Nat

VARIABLES
    now,        \* the clock
    stamp,      \* metadata().timestamp() of each image taken
    taken,      \* images taken
    catalog,    \* images in the catalog
    phase,      \* where the consumer thread is in scan()
    begun,      \* when the Scanner was made
    asked,      \* the moment the archiver asked back to
    cutoff,     \* Scanner::_timestamp
    todo,       \* catalog entries the walk has to come to
    images,     \* Scanner::_images
    listed,     \* names pushed onto the archiver's list
    from, upto  \* acknowledged scans cover the stamps above from up to upto

camera == << stamp, taken, catalog >>
scanner == << begun, asked, cutoff, todo, images >>
covered == << from, upto >>
vars == << now, camera, phase, scanner, listed, covered >>

TypeOK ==
    /\ now \in Nat
    /\ stamp \in [Image -> Nat]
    /\ taken \subseteq Image /\ catalog \subseteq taken
    /\ phase \in {"idle", "scanning", "acking"}
    /\ begun \in Nat /\ asked \in Int /\ cutoff \in Int
    /\ todo \subseteq Image /\ images \subseteq Image /\ listed \subseteq Image
    /\ from \in Int /\ upto \in Int

-----------------------------------------------------------------------------
Init ==
    /\ now = 0
    /\ stamp = [i \in Image |-> 0] /\ taken = {} /\ catalog = {}
    /\ phase = "idle"
    /\ begun = 0 /\ asked = 0 /\ cutoff = 0 /\ todo = {} /\ images = {}
    /\ listed = {}
    /\ from = - Delay /\ upto = - Delay

TakeImage(i) ==
    /\ i \notin taken
    /\ taken' = taken \cup {i}
    /\ stamp' = [stamp EXCEPT ![i] = now]
    /\ UNCHANGED << now, catalog, phase, scanner, listed, covered >>

EnterCatalog(i) ==
    /\ i \in taken \ catalog
    /\ catalog' = catalog \cup {i}
    /\ UNCHANGED << now, stamp, taken, phase, scanner, listed, covered >>

Tick ==
    /\ now < MaxTime
    /\ \A i \in taken \ catalog : now + 1 < stamp[i] + Delay
    /\ now' = now + 1
    /\ UNCHANGED << camera, phase, scanner, listed, covered >>

(* time() counts whole seconds.                                            *)
WholeSeconds(t) == t - (t % Second)

(* Mutant of Since: the second is rounded up.                               *)
SinceNextSecond(t, minutes) == WholeSeconds(t) + Second - minutes * Minute

(* The Scanner's time stamp: so many minutes before the second it is.      *)
Since(t, minutes) == WholeSeconds(t) - minutes * Minute

(* SCAN: an empty folder and a negative number of minutes end the handler. *)
Scan(minutes) ==
    /\ phase = "idle"
    /\ catalog # {}
    /\ minutes >= 0
    /\ phase' = "scanning"
    /\ begun' = now
    /\ asked' = now - minutes * Minute /\ cutoff' = Since(now, minutes)
    /\ todo' = catalog /\ images' = {}
    /\ UNCHANGED << now, camera, listed, covered >>

Wanted(i) == stamp[i] > cutoff /\ i \notin Corrupt

(* process(id): entries that came after the walk began may be met as well. *)
Process(i) ==
    /\ phase = "scanning"
    /\ i \in catalog
    /\ todo' = todo \ {i}
    /\ images' = IF Wanted(i) THEN images \cup {i} ELSE images
    /\ UNCHANGED << now, camera, phase, begun, asked, cutoff, listed, covered >>

(* The Scanner of a scan is gone when the handler ends.                    *)
Unset ==
    /\ phase' = "idle"
    /\ begun' = 0 /\ asked' = 0 /\ cutoff' = 0
    /\ todo' = {} /\ images' = {}

(* The handler ends without an acknowledgement: an entry that cannot be    *)
(* opened (ScannerError), a Redis failure, an LPUSH without a value, a     *)
(* publisher that fails.  A push may have been done when its reply is lost.*)
Abandon ==
    /\ \/ phase = "scanning" /\ "catalog" \in Faults /\ UNCHANGED listed
       \/ /\ phase = "scanning" /\ todo = {}
          /\ "redis" \in Faults \/ images = {}
          /\ listed' \in {listed, listed \cup images}
       \/ phase = "acking" /\ "publish" \in Faults /\ UNCHANGED listed
    /\ Unset
    /\ UNCHANGED << now, camera, covered >>

Push ==
    /\ phase = "scanning"
    /\ todo = {} /\ images # {}
    /\ phase' = "acking"
    /\ listed' = listed \cup images
    /\ UNCHANGED << now, camera, scanner, covered >>

(* The archiver learns that it has every image since the moment it asked   *)
(* for, except such as may not have been in the catalog yet when the walk  *)
(* began.                                                                  *)
Acknowledge ==
    /\ phase = "acking"
    /\ Unset
    /\ from' = IF asked <= upto THEN from ELSE asked
    /\ upto' = begun - Delay
    /\ UNCHANGED << now, camera, listed >>

Next ==
    \/ Tick \/ Push \/ Acknowledge \/ Abandon
    \/ \E i \in Image : TakeImage(i) \/ EnterCatalog(i) \/ Process(i)
    \/ \E minutes \in Minutes : Scan(minutes)

Spec == Init /\ [][Next]_vars
-----------------------------------------------------------------------------
(* Acknowledged scans leave no gap: when each of them asked back at least  *)
(* to where the one before had come, every image of that whole time whose  *)
(* name is sound is on the archiver's list, whatever the camera did while  *)
(* the catalog was walked through and whichever scans failed in between.   *)
NoImageBetweenScans ==
    \A i \in taken \ Corrupt :
        (from < stamp[i] /\ stamp[i] <= upto) => i \in listed
=============================================================================
