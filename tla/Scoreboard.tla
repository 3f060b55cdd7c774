----------------------------- MODULE Scoreboard -----------------------------
(***************************************************************************)
(* The forwarder's bookkeeping in its local Redis database                 *)
(* (forwarder/Scoreboard.cpp), one action per method.  Keys of an image    *)
(* are <id>:target, :session_id, :job_num (written together, modelled as   *)
(* target), <id>:locations, <id>:header and <id>:ccd.                      *)
(*                                                                         *)
(* Redis lists are read whole and every element is treated alike, so a     *)
(* list is the number of times each element occurs in it.                  *)
(***************************************************************************)
EXTENDS Naturals

CONSTANTS
    Image,       \* image ids
    Location,    \* board names a message may carry, e.g. "22/0"
    Target,      \* destination, session and job of one transfer request
    NoTarget,    \* reply of GET on a key that does not exist
    Sensors,     \* number of CCDs behind the board at a location
    Prefixed,    \* ids that match the glob "<id>*", the id itself included
    Faults       \* kinds of failure the environment may produce

ASSUME ScoreboardConstants ==
    /\ Sensors \in [Location -> 1 .. 3]
    /\ Prefixed \in [Image -> SUBSET Image]
    /\ \A i \in Image : i \in Prefixed[i]
    /\ NoTarget \notin Target

VARIABLES
    link,      \* the Scoreboard's own connection: "up", or "dead" for good
    target,    \* <id>:target, <id>:session_id, <id>:job_num
    locs,      \* <id>:locations, how often each location is listed
    hdr,       \* images that have an <id>:header key
    ccds       \* <id>:ccd, how often each pixel file is listed

keys == << target, locs, hdr, ccds >>
board == << link, keys >>

(* A pixel file <id>-R<location><ccd>.fits.                                *)
File == {f \in Image \X Location \X (0 .. 2) : f[3] < Sensors[f[2]]}
FilesOf(i) == {f \in File : f[1] = i}

ScoreboardTypeOK ==
    /\ link \in {"up", "dead"}
    /\ target \in [Image -> Target \cup {NoTarget}]
    /\ locs \in [Image -> [Location -> Nat]]
    /\ hdr \subseteq Image
    /\ ccds \in [File -> Nat]

-----------------------------------------------------------------------------
(* The constructor flushes the database: a restarted forwarder starts from *)
(* an empty scoreboard.                                                    *)
Empty(t, l, h, c) ==
    /\ t = [i \in Image |-> NoTarget]
    /\ l = [i \in Image |-> [x \in Location |-> 0]]
    /\ h = {}
    /\ c = [f \in File |-> 0]

ScoreboardInit == link = "up" /\ Empty(target, locs, hdr, ccds)

Flush == link' = "up" /\ Empty(target', locs', hdr', ccds')

(* exec() returns only on a connection that never failed, as long as the   *)
(* server refuses the same commands each time (RedisConnection shows both, *)
(* and what an error does that goes away is left out).  After an error     *)
(* reply the batch stays queued and is sent again, and after an I/O error  *)
(* the context is never reopened, so every later exec() throws.  Nothing   *)
(* read from a dead link is ever used: what its re-sent commands still do  *)
(* to the keys is not tracked.                                             *)
ExecReturns == link = "up" /\ UNCHANGED link

ExecThrows ==
    /\ link = "dead" \/ "redis" \in Faults
    /\ link' = "dead"
    /\ UNCHANGED keys

(* SET ... SET ... SET ... LPUSH.  The locations are pushed in front of    *)
(* those of an earlier request.  LPUSH without a value is an error reply.  *)
AddXfer(i, t, list) ==
    \/ /\ \E l \in Location : list[l] > 0
       /\ ExecReturns
       /\ target' = [target EXCEPT ![i] = t]
       /\ locs' = [locs EXCEPT ![i] = [l \in Location |-> @[l] + list[l]]]
       /\ UNCHANGED << hdr, ccds >>
    \/ /\ \A l \in Location : list[l] = 0
       /\ link = "up"
       /\ link' = "dead"
       /\ target' = [target EXCEPT ![i] = t]
       /\ UNCHANGED << locs, hdr, ccds >>
    \/ ExecThrows

AddHeader(i) ==
    /\ ExecReturns
    /\ hdr' = hdr \cup {i}
    /\ UNCHANGED << target, locs, ccds >>

(* Formatter::write pushes <id>:ccd through a connection of its own.       *)
PushCcd(f) ==
    /\ ccds' = [ccds EXCEPT ![f] = @ + 1]
    /\ UNCHANGED << link, target, locs, hdr >>

(* Mutant of Remove: KEYS without the id.                                   *)
RemoveAll(i) ==
    /\ ExecReturns
    /\ target' = [j \in Image |-> NoTarget]
    /\ locs' = [j \in Image |-> [l \in Location |-> 0]]
    /\ hdr' = {}
    /\ ccds' = [f \in File |-> 0]

(* Mutant of Remove: only what add_xfer wrote is deleted.                   *)
RemoveXfer(i) ==
    /\ ExecReturns
    /\ target' = [target EXCEPT ![i] = NoTarget]
    /\ locs' = [locs EXCEPT ![i] = [l \in Location |-> 0]]
    /\ UNCHANGED << hdr, ccds >>

(* Mutant of Remove: the header key is forgotten.                           *)
RemoveButHeader(i) ==
    /\ ExecReturns
    /\ target' = [target EXCEPT ![i] = NoTarget]
    /\ locs' = [locs EXCEPT ![i] = [l \in Location |-> 0]]
    /\ ccds' = [f \in File |-> IF f[1] = i THEN 0 ELSE ccds[f]]
    /\ UNCHANGED hdr

(* KEYS <id>* and DEL of what it returned: the keys of every image whose   *)
(* id starts with this one go as well.                                     *)
Remove(i) ==
    /\ ExecReturns
    /\ target' = [j \in Image |-> IF j \in Prefixed[i] THEN NoTarget ELSE target[j]]
    /\ locs' = [j \in Image |->
                  [l \in Location |-> IF j \in Prefixed[i] THEN 0 ELSE locs[j][l]]]
    /\ hdr' = hdr \ Prefixed[i]
    /\ ccds' = [f \in File |-> IF f[1] \in Prefixed[i] THEN 0 ELSE ccds[f]]

(* EXISTS <id>:ccd and EXISTS <id>:header.                                 *)
Ready(i) == i \in hdr /\ \E f \in FilesOf(i) : ccds[f] > 0

Ccds(i) == {f \in FilesOf(i) : ccds[f] > 0}
=============================================================================
