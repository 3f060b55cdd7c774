--------------------------------- MODULE Link ---------------------------------
(***************************************************************************)
(* What the callers of a RedisConnection take it to be, Scoreboard above   *)
(* all: each exec() gives them the answers to their own commands, or an    *)
(* exception, and after an exception it never gives answers again.         *)
(***************************************************************************)
VARIABLES
    link,       \* "up", or "dead" for good
    answer      \* what the last exec() gave its caller

vars == << link, answer >>

Init == link = "up" /\ answer = "none"

Ask ==
    /\ answer # "pending"
    /\ answer' = "pending"
    /\ UNCHANGED link

Returns ==
    /\ answer = "pending" /\ link = "up"
    /\ answer' = "own"
    /\ UNCHANGED link

Throws ==
    /\ answer = "pending"
    /\ answer' = "exception"
    /\ link' = "dead"

Next == Ask \/ Returns \/ Throws

Spec == Init /\ [][Next]_vars
=============================================================================
