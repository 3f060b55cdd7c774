------------------------------- MODULE Watcher -------------------------------
(***************************************************************************)
(* Watcher (core/Watcher.cpp): start() stops the thread of an earlier      *)
(* association by the flag all threads share, sleeps half a second, lowers *)
(* the flag again and detaches a new thread, which looks at the key of the *)
(* association until the key is gone; then it registers the forwarder with *)
(* the archiver again and ends.                                            *)
(*                                                                         *)
(* Time passes in ticks: nobody sleeps longer than it asked to, and what a *)
(* thread does between two sleeps takes at most Latency.                   *)
(***************************************************************************)
EXTENDS Naturals

CONSTANTS
    Key,        \* association keys
    Expire,     \* seconds_to_expire, the pause between two looks at the key
    KeyTime,    \* expiry the owner of a key gives it
    Latency,    \* bound: time between two sleeps, Redis included
    Pause,      \* the half second start() sleeps
    Wakeup,     \* bound: time until a notified thread looks at the flag
    MaxStarts   \* bound: calls of start()

ASSUME WatcherConstants ==
    /\ Expire \in Nat /\ KeyTime \in Nat \ {0} /\ Latency \in Nat
    /\ Pause \in Nat /\ Wakeup \in Nat /\ Wakeup < Pause
    /\ MaxStarts \in Nat

VARIABLES
    stop,       \* _stop
    starting,   \* the consumer thread is inside start()
    sleep,      \* time left of its sleep
    pc,         \* where each watcher thread is
    timer,      \* time left for what it is at
    watching,   \* the key of each thread
    ttl,        \* time until each key expires, 0 when there is none
    notified,   \* threads that a notification found waiting
    executed,   \* threads that called register_fwd
    missed      \* how long each thread's key has been gone, up to TooLong

threads == << pc, timer, watching >>
ghosts == << notified, executed, missed >>
vars == << stop, starting, sleep, threads, ttl, ghosts >>

Thread == 1 .. MaxStarts
Live == {"connecting", "looping", "asking", "there", "gone", "waiting"}

(* A key that expires right after it was seen is missed after the rest of  *)
(* that round, the pause, and the next round.                              *)
TooLong == Expire + 2 * Latency + 1

TypeOK ==
    /\ stop \in BOOLEAN /\ starting \in BOOLEAN
    /\ sleep \in 0 .. Pause
    /\ pc \in [Thread -> Live \cup {"off", "ended", "failed"}]
    /\ timer \in [Thread -> Nat]
    /\ watching \in [Thread -> Key]
    /\ ttl \in [Key -> 0 .. KeyTime]
    /\ notified \subseteq Thread /\ executed \subseteq Thread
    /\ missed \in [Thread -> 0 .. TooLong]

(* The thread of the latest start() that has returned.                     *)
Latest(n) == ~ starting /\ pc[n] # "off" /\ \A m \in Thread : m > n => pc[m] = "off"

-----------------------------------------------------------------------------
Init ==
    /\ stop \in BOOLEAN
    /\ starting = FALSE /\ sleep = 0
    /\ pc = [n \in Thread |-> "off"]
    /\ timer = [n \in Thread |-> 0]
    /\ watching \in [Thread -> Key]
    /\ ttl \in [Key -> {0, KeyTime}]
    /\ notified = {} /\ executed = {}
    /\ missed = [n \in Thread |-> 0]

(* ASSOCIATED calls start(), which calls clear(): the flag is raised and   *)
(* the threads that wait are woken, under the mutex.                       *)
Clear ==
    /\ ~ starting
    /\ \E n \in Thread : pc[n] = "off"
    /\ starting' = TRUE /\ sleep' = Pause
    /\ stop' = TRUE
    /\ pc' = [n \in Thread |-> IF pc[n] = "waiting" THEN "looping" ELSE pc[n]]
    /\ timer' = [n \in Thread |-> IF pc[n] = "waiting" THEN Wakeup ELSE timer[n]]
    /\ notified' = notified \cup {n \in Thread : pc[n] = "waiting"}
    /\ UNCHANGED << watching, ttl, executed, missed >>

(* Mutant of Spawn: the new thread is started without the sleep.            *)
SpawnAtOnce(n) ==
    /\ starting
    /\ pc[n] = "off" /\ \A m \in Thread : m < n => pc[m] # "off"
    /\ starting' = FALSE /\ sleep' = 0
    /\ stop' = FALSE
    /\ pc' = [pc EXCEPT ![n] = "connecting"]
    /\ timer' = [timer EXCEPT ![n] = Latency]
    /\ UNCHANGED << watching, ttl, ghosts >>

(* Mutant of Spawn: the flag stays up.                                      *)
SpawnStopped(n) ==
    /\ starting /\ sleep = 0
    /\ pc[n] = "off" /\ \A m \in Thread : m < n => pc[m] # "off"
    /\ starting' = FALSE
    /\ pc' = [pc EXCEPT ![n] = "connecting"]
    /\ timer' = [timer EXCEPT ![n] = Latency]
    /\ UNCHANGED << stop, sleep, watching, ttl, ghosts >>

Spawn(n) ==
    /\ starting /\ sleep = 0
    /\ pc[n] = "off" /\ \A m \in Thread : m < n => pc[m] # "off"
    /\ starting' = FALSE
    /\ stop' = FALSE
    /\ pc' = [pc EXCEPT ![n] = "connecting"]
    /\ timer' = [timer EXCEPT ![n] = Latency]
    /\ UNCHANGED << sleep, watching, ttl, ghosts >>

Goes(n, from, to) ==
    /\ pc[n] = from
    /\ pc' = [pc EXCEPT ![n] = to]
    /\ UNCHANGED << stop, starting, sleep, watching, ttl, notified, missed >>

Connect(n) == Goes(n, "connecting", "looping") /\ UNCHANGED << timer, executed >>

Look(n) ==
    /\ Goes(n, "looping", IF stop THEN "ended" ELSE "asking")
    /\ UNCHANGED << timer, executed >>

(* The server answers EXISTS.                                              *)
Ask(n) ==
    /\ Goes(n, "asking", IF ttl[watching[n]] > 0 THEN "there" ELSE "gone")
    /\ UNCHANGED << timer, executed >>

(* The mutex is taken, and given back by wait_for.                         *)
Sleep(n) ==
    /\ Goes(n, "there", "waiting")
    /\ timer' = [timer EXCEPT ![n] = Expire]
    /\ UNCHANGED executed

(* The pause is over, or the wake-up is a spurious one.                    *)
Wake(n) ==
    /\ Goes(n, "waiting", "looping")
    /\ timer' = [timer EXCEPT ![n] = Latency]
    /\ UNCHANGED executed

(* execute() is register_fwd.                                              *)
Execute(n) ==
    /\ Goes(n, "gone", "ended")
    /\ executed' = executed \cup {n}
    /\ UNCHANGED timer

(* A RedisError ends the thread.                                           *)
Fail(n) ==
    /\ \E from \in {"connecting", "asking"} : Goes(n, from, "failed")
    /\ UNCHANGED << timer, executed >>

(* The owner of a key lives and sets it again.                             *)
Refresh(k) ==
    /\ ttl' = [ttl EXCEPT ![k] = KeyTime]
    /\ missed' = [n \in Thread |-> IF watching[n] = k THEN 0 ELSE missed[n]]
    /\ UNCHANGED << stop, starting, sleep, threads, notified, executed >>

Tick ==
    /\ starting => sleep > 0
    /\ \A n \in Thread : pc[n] \in Live => timer[n] > 0
    /\ sleep' = IF sleep > 0 THEN sleep - 1 ELSE 0
    /\ timer' = [n \in Thread |-> IF timer[n] > 0 THEN timer[n] - 1 ELSE 0]
    /\ ttl' = [k \in Key |-> IF ttl[k] > 0 THEN ttl[k] - 1 ELSE 0]
    /\ missed' = [n \in Thread |->
                    IF pc[n] # "off" /\ ttl[watching[n]] = 0 /\ missed[n] < TooLong
                      THEN missed[n] + 1 ELSE missed[n]]
    /\ UNCHANGED << stop, starting, pc, watching, notified, executed >>

Next ==
    \/ Clear \/ Tick
    \/ \E n \in Thread :
         \/ Spawn(n) \/ Connect(n) \/ Look(n) \/ Ask(n) \/ Sleep(n) \/ Wake(n)
         \/ Execute(n) \/ Fail(n)
    \/ \E k \in Key : Refresh(k)

Spec == Init /\ [][Next]_vars
-----------------------------------------------------------------------------
(* The loss of the archiver is noticed in time: when the key of the latest *)
(* association has been gone for longer than a pause and two rounds, the   *)
(* forwarder has registered itself again, whatever older threads do,       *)
(* unless the thread itself met a Redis failure.                           *)
LossNoticed ==
    \A n \in Thread :
        (Latest(n) /\ missed[n] = TooLong /\ pc[n] # "failed") => n \in executed

(* start() sleeps longer than a wake-up takes, so the threads it woke see  *)
(* the flag before it is lowered: none of them outlives it.  A thread that *)
(* is busy with Redis may, and goes on next to the new one.                *)
WokenEnd == ~ starting => \A n \in notified : pc[n] = "ended"
=============================================================================
