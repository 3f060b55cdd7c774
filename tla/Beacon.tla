-------------------------------- MODULE Beacon --------------------------------
(***************************************************************************)
(* Beacon (core/Beacon.cpp): a detached thread that sets the forwarder's   *)
(* association key with an expiry, over and over, until clear() raises the *)
(* stop flag.  The flag is read outside the mutex, so the notification of  *)
(* clear() may find nobody waiting.                                        *)
(*                                                                         *)
(* Time passes in ticks, and only as far as the thread may let it: it does *)
(* not sleep longer than it asked to, and what it does between two sleeps  *)
(* takes at most Latency.                                                  *)
(***************************************************************************)
EXTENDS Naturals

CONSTANTS
    Expire,    \* seconds_to_expire
    Update,    \* seconds_to_update
    Latency    \* bound: time between two sleeps, Redis included

ASSUME BeaconConstants ==
    /\ Expire \in Nat /\ Update \in Nat /\ Latency \in Nat
    /\ Update + 2 * Latency < Expire

VARIABLES
    stop,      \* _stop
    pc,        \* where the thread is
    timer,     \* time left for what the thread is at
    ttl,       \* time until the key expires, 0 when there is none
    isSet,     \* the key was set at least once
    quiet      \* time since clear(), counted up to Settled

vars == << stop, pc, timer, ttl, isSet, quiet >>

(* How long after clear() the key may be seen.                             *)
Settled == Expire + Latency + 1

TypeOK ==
    /\ stop \in BOOLEAN /\ isSet \in BOOLEAN
    /\ pc \in {"connecting", "looping", "setting", "set", "waiting", "ended", "failed"}
    /\ timer \in Nat
    /\ ttl \in 0 .. Expire
    /\ quiet \in 0 .. Settled

-----------------------------------------------------------------------------
Init ==
    /\ stop = FALSE /\ isSet = FALSE
    /\ pc = "connecting" /\ timer = Latency
    /\ ttl = 0 /\ quiet = 0

Connect ==
    /\ pc = "connecting"
    /\ pc' = "looping"
    /\ UNCHANGED << stop, timer, ttl, isSet, quiet >>

(* Mutant of Look: the flag is not looked at.                               *)
LookAway ==
    /\ pc = "looping"
    /\ pc' = "setting"
    /\ UNCHANGED << stop, timer, ttl, isSet, quiet >>

Look ==
    /\ pc = "looping"
    /\ pc' = IF stop THEN "ended" ELSE "setting"
    /\ UNCHANGED << stop, timer, ttl, isSet, quiet >>

(* SETEX reaches the server; its reply follows.                            *)
SetKey ==
    /\ pc = "setting"
    /\ pc' = "set"
    /\ ttl' = Expire
    /\ isSet' = TRUE
    /\ UNCHANGED << stop, timer, quiet >>

(* Mutant of Sleep: the two periods are swapped.                            *)
SleepExpire ==
    /\ pc = "set"
    /\ pc' = "waiting"
    /\ timer' = Expire
    /\ UNCHANGED << stop, ttl, isSet, quiet >>

(* The mutex is taken, and given back by wait_for.                         *)
Sleep ==
    /\ pc = "set"
    /\ pc' = "waiting"
    /\ timer' = Update
    /\ UNCHANGED << stop, ttl, isSet, quiet >>

(* The period is over, or the wake-up is a spurious one.                   *)
Wake ==
    /\ pc = "waiting"
    /\ pc' = "looping"
    /\ timer' = Latency
    /\ UNCHANGED << stop, ttl, isSet, quiet >>

(* A RedisError, from the constructor or from exec(), ends the thread.     *)
Fail ==
    /\ pc \in {"connecting", "setting", "set"}
    /\ pc' = "failed"
    /\ UNCHANGED << stop, timer, ttl, isSet, quiet >>

(* clear(): the flag and the notification, under the mutex.                *)
Clear ==
    /\ ~ stop
    /\ stop' = TRUE
    /\ IF pc = "waiting"
         THEN pc' = "looping" /\ timer' = Latency
         ELSE UNCHANGED << pc, timer >>
    /\ UNCHANGED << ttl, isSet, quiet >>

Tick ==
    /\ pc \in {"ended", "failed"} \/ timer > 0
    /\ timer' = IF timer > 0 THEN timer - 1 ELSE 0
    /\ ttl' = IF ttl > 0 THEN ttl - 1 ELSE 0
    /\ quiet' = IF stop /\ quiet < Settled THEN quiet + 1 ELSE quiet
    /\ UNCHANGED << stop, pc, isSet >>

Next ==
    Connect \/ Look \/ SetKey \/ Sleep \/ Wake \/ Fail \/ Clear \/ Tick

Spec == Init /\ [][Next]_vars
-----------------------------------------------------------------------------
(* A forwarder that lives is never taken for dead: from its first SETEX    *)
(* until clear() or a Redis failure the key does not expire, whatever the  *)
(* time each round takes.                                                  *)
KeyKeptAlive == (isSet /\ ~ stop /\ pc # "failed") => ttl > 0

(* "Beacon thread is killed, so no one is updating key and key shouldn't   *)
(* exist after timeout" (BeaconTest.cpp): even a clear() whose             *)
(* notification was lost leaves no key behind once one exchange with Redis *)
(* and the expiry have passed.                                             *)
KeyGoesAfterClear == quiet = Settled => ttl = 0
=============================================================================
