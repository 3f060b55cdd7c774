---------------------------- MODULE ImageTransfer ----------------------------
(***************************************************************************)
(* What the forwarder promises about pixel files, without saying how: it   *)
(* holds files it has taken from the DAQ, delivers copies of files it      *)
(* holds, tells the archive only of copies it delivered, and lets go only  *)
(* of files it delivered, unless it dies and forgets everything it held.   *)
(***************************************************************************)
CONSTANTS File, Target

VARIABLES
    held,        \* files the forwarder answers for
    delivered,   \* <<destination, file>> that have arrived
    told         \* <<destination, file>> announced as transferred

vars == << held, delivered, told >>

Init == held = {} /\ delivered = {} /\ told = {}

Take(f) ==
    /\ held' = held \cup {f}
    /\ UNCHANGED << delivered, told >>

Deliver(t, files) ==
    /\ files \subseteq held
    /\ delivered' = delivered \cup ({t} \X files)
    /\ UNCHANGED << held, told >>

Tell(t, f) ==
    /\ f \in held /\ << t, f >> \in delivered
    /\ told' = told \cup {<< t, f >>}
    /\ UNCHANGED << held, delivered >>

LetGo(t, files) ==
    /\ {t} \X files \subseteq delivered
    /\ held' = held \ files
    /\ UNCHANGED << delivered, told >>

Die == held' = {} /\ UNCHANGED << delivered, told >>

Next ==
    \/ \E f \in File : Take(f)
    \/ \E t \in Target :
         \/ \E files \in SUBSET File : Deliver(t, files) \/ LetGo(t, files)
         \/ \E f \in File : Tell(t, f)
    \/ Die

Spec == Init /\ [][Next]_vars
=============================================================================
