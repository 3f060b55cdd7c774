----------------------------- MODULE Association ------------------------------
(***************************************************************************)
(* How an archiver finds a forwarder and keeps it: the forwarder starts,   *)
(* puts itself on the archiver's list (register_fwd) and serves; an        *)
(* archiver takes the entry and sends ASSOCIATED; the handler acknowledges *)
(* and starts a Watcher, which puts the forwarder on the list again when   *)
(* the archiver's key is gone.  Composed with the threads of Watcher.      *)
(***************************************************************************)
EXTENDS Watcher

CONSTANTS
    Faults,     \* "config" (a thing the start-up needs), "redis", "publish",
                \* "broker", "death"
    MaxEntries  \* bound: entries and messages beyond which no process starts

ASSUME AssociationConstants == MaxEntries \in Nat

VARIABLES
    stage,      \* how far the process has come
    entries,    \* entries of this forwarder on forwarder_list
    asked,      \* ASSOCIATED messages in the consumer's queue
    cut         \* a failure took the forwarder from list or archiver

office == << entries, asked, cut >>
watcher == << stop, starting, sleep, threads, ttl, ghosts >>
avars == << watcher, stage, office >>

AssociationTypeOK ==
    /\ TypeOK
    /\ stage \in {"down", "loading", "authenticating", "preparing", "registering",
                  "opening", "serving"}
    /\ entries \in Nat /\ asked \in Nat /\ cut \in BOOLEAN

-----------------------------------------------------------------------------
(* A process has no watcher before its first association.                  *)
NoThreads ==
    /\ stop' \in BOOLEAN
    /\ starting' = FALSE /\ sleep' = 0
    /\ pc' = [n \in Thread |-> "off"]
    /\ timer' = [n \in Thread |-> 0]
    /\ notified' = {} /\ executed' = {}
    /\ missed' = [n \in Thread |-> 0]
    /\ UNCHANGED << watching, ttl >>

AssociationInit ==
    /\ Init
    /\ stage = "loading"
    /\ entries = 0 /\ asked = 0 /\ cut = FALSE

(* One step of the start-up; what it needs may be missing, and then the    *)
(* process exits.                                                          *)
Advance(here, there, fault) ==
    /\ stage = here
    /\ stage' \in {there} \cup {x \in {"down"} : fault \in Faults}
    /\ UNCHANGED << watcher, office >>

(* IIPBase: the environment, the configuration file, the log.              *)
LoadConfig == Advance("loading", "authenticating", "config")

(* Credentials: a secure file in a secure directory.                       *)
LoadCredentials == Advance("authenticating", "preparing", "config")

(* The values of the configuration, the host's name, the users, the        *)
(* directories, the publisher, the scoreboard.                             *)
Prepare == Advance("preparing", "registering", "config")

(* register_fwd: one LPUSH over a connection of its own; a RedisError is   *)
(* swallowed, and nobody tries again.                                      *)
RegisterFwd(needed) ==
    \/ entries' = entries + 1 /\ cut' = cut
    \/ "redis" \in Faults /\ cut' = (cut \/ needed) /\ entries' = entries

Register ==
    /\ stage = "registering"
    /\ RegisterFwd(TRUE)
    /\ stage' = "opening"
    /\ UNCHANGED << watcher, asked >>

(* Beacon, Watcher, the DAQ stream, then run() and its Consumer.           *)
Open == Advance("opening", "serving", "broker")

(* systemd starts the process again.                                       *)
Restart ==
    /\ stage = "down" /\ entries + asked < MaxEntries
    /\ stage' = "loading"
    /\ cut' = FALSE
    /\ UNCHANGED << watcher, entries, asked >>

(* The process dies and its threads with it.                               *)
Die ==
    /\ stage = "serving" /\ "death" \in Faults
    /\ stage' = "down"
    /\ NoThreads
    /\ UNCHANGED office

(* An archiver takes an entry off the list and sends ASSOCIATED.           *)
Take ==
    /\ entries > 0
    /\ entries' = entries - 1 /\ asked' = asked + 1
    /\ UNCHANGED << watcher, stage, cut >>

(* ASSOCIATED: the acknowledgement is published before the watcher starts; *)
(* when that fails, none is started.                                       *)
Associated ==
    /\ stage = "serving" /\ ~ starting /\ asked > 0
    /\ asked' = asked - 1
    /\ \/ Clear /\ cut' = cut
       \/ "publish" \in Faults /\ cut' = TRUE /\ UNCHANGED watcher
    /\ UNCHANGED << stage, entries >>

(* start() returns with its new thread watching.                           *)
StartReturns(n) ==
    /\ Spawn(n)
    /\ cut' = FALSE
    /\ UNCHANGED << stage, entries, asked >>

(* Mutant of LoseArchiver: the action given to the watcher does nothing.    *)
LoseArchiverQuietly(n) == Execute(n) /\ UNCHANGED << stage, office >>

(* The key is gone: the watcher's action is register_fwd.                  *)
LoseArchiver(n) ==
    /\ Execute(n)
    /\ RegisterFwd(Latest(n))
    /\ UNCHANGED << stage, asked >>

WatcherFails(n) ==
    /\ "redis" \in Faults
    /\ Fail(n)
    /\ cut' = (cut \/ Latest(n))
    /\ UNCHANGED << stage, entries, asked >>

(* What the threads and the archivers' beacons do unseen.                  *)
Watching ==
    /\ \/ \E n \in Thread : Connect(n) \/ Look(n) \/ Ask(n) \/ Sleep(n) \/ Wake(n)
       \/ \E k \in Key : Refresh(k)
       \/ Tick
    /\ UNCHANGED << stage, office >>

AssociationNext ==
    \/ LoadConfig \/ LoadCredentials \/ Prepare \/ Register \/ Open
    \/ Restart \/ Die \/ Take \/ Associated \/ Watching
    \/ \E n \in Thread : StartReturns(n) \/ LoseArchiver(n) \/ WatcherFails(n)

AssociationSpec == AssociationInit /\ [][AssociationNext]_avars
-----------------------------------------------------------------------------
(* A forwarder that serves can be had or is had: it is on the list, or an  *)
(* ASSOCIATED is on its way or being handled, or a watcher looks after the *)
(* archiver's key and will put it back, unless a Redis or publisher        *)
(* failure has cut it off since the last association.                      *)
Reachable ==
    stage = "serving" =>
        \/ cut \/ entries > 0 \/ asked > 0 \/ starting
        \/ \E n \in Thread : Latest(n) /\ pc[n] \in Live
=============================================================================
