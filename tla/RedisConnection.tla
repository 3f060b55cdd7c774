--------------------------- MODULE RedisConnection ---------------------------
(***************************************************************************)
(* One RedisConnection (core/RedisConnection.cpp, RedisResponse.cpp): its  *)
(* methods queue commands, exec() sends the queue down a hiredis pipeline  *)
(* and reads one reply per command.  An error reply, or an I/O error,      *)
(* leaves exec() with an exception in the middle of that: the queue is     *)
(* kept and the replies not yet read stay in the pipeline.                 *)
(***************************************************************************)
EXTENDS Naturals, Sequences

CONSTANTS
    Command,    \* commands the callers queue
    Refused,    \* commands the server answers with an error, each time
    Fickle,     \* commands it answers with an error at times (out of memory,
                \* a background save that fails)
    MaxBatch,   \* bound: commands queued for one exec()
    MaxExecs    \* bound: calls of exec()

ASSUME RedisConstants ==
    /\ Refused \subseteq Command
    /\ Fickle \subseteq Command
    /\ MaxBatch \in Nat \ {0}
    /\ MaxExecs \in Nat

VARIABLES
    commands,   \* _commands
    wire,       \* commands appended to the pipeline whose reply is not read
    broken,     \* _context->err
    asked,      \* what the caller queued since the last exec()
    got,        \* replies read by this exec(), named by the command they answer
    state,      \* "idle", "reading", or how the last exec() ended
    execs,      \* calls of exec() so far
    lapse       \* history: the server refused what it does not always refuse

vars == << commands, wire, broken, asked, got, state, execs, lapse >>

(* A command as issued: the number of its exec() tells two of them apart.  *)
Issued == (1 .. MaxExecs) \X Command
Batch == UNION {[1 .. n -> Command] : n \in 1 .. MaxBatch}

TypeOK ==
    /\ commands \in Seq(Issued)
    /\ wire \in Seq(Issued)
    /\ broken \in BOOLEAN
    /\ asked \in Seq(Issued)
    /\ got \in Seq(Issued)
    /\ state \in {"idle", "reading", "returned", "threw"}
    /\ execs \in 0 .. MaxExecs
    /\ lapse \in BOOLEAN

-----------------------------------------------------------------------------
Init ==
    /\ commands = << >> /\ wire = << >> /\ asked = << >> /\ got = << >>
    /\ broken = FALSE
    /\ state = "idle"
    /\ execs = 0
    /\ lapse = FALSE

(* A caller queues its commands and calls exec(), which appends the whole  *)
(* queue, what a failed exec() left in it included, to the pipeline.       *)
Exec(batch) ==
    /\ state # "reading" /\ execs < MaxExecs
    /\ execs' = execs + 1
    /\ asked' = [i \in DOMAIN batch |-> << execs + 1, batch[i] >>]
    /\ commands' = commands \o asked'
    /\ wire' = wire \o commands'
    /\ got' = << >>
    /\ state' = "reading"
    /\ UNCHANGED << broken, lapse >>

(* The next reply of the pipeline, whosever it is, is taken as the reply   *)
(* to the next command.                                                    *)
ReadReply ==
    /\ state = "reading" /\ Len(got) < Len(commands)
    /\ ~ broken /\ Head(wire)[2] \notin Refused
    /\ got' = Append(got, Head(wire))
    /\ wire' = Tail(wire)
    /\ UNCHANGED << commands, broken, asked, state, execs, lapse >>

(* The next reply is an error.                                             *)
ErrorReply ==
    /\ state = "reading" /\ Len(got) < Len(commands)
    /\ ~ broken /\ Head(wire)[2] \in Refused \cup Fickle
    /\ lapse' = (lapse \/ Head(wire)[2] \notin Refused)

(* Mutant of ReadError: the queue is emptied before the exception leaves.   *)
ReadErrorAndClear ==
    /\ ErrorReply
    /\ wire' = Tail(wire)
    /\ commands' = << >>
    /\ state' = "threw"
    /\ UNCHANGED << broken, asked, got, execs >>

(* Mutant of ReadError: the commands that have their answer leave the queue. *)
ReadErrorAndPop ==
    /\ ErrorReply
    /\ wire' = Tail(wire)
    /\ commands' = SubSeq(commands, Len(got) + 2, Len(commands))
    /\ state' = "threw"
    /\ UNCHANGED << broken, asked, got, execs >>

(* RedisResponse::reply throws on an error reply.                          *)
ReadError ==
    /\ ErrorReply
    /\ wire' = Tail(wire)
    /\ state' = "threw"
    /\ UNCHANGED << commands, broken, asked, got, execs >>

(* redisGetReply fails, now or because it did before: hiredis gives up on  *)
(* the context, and nothing here connects again.                           *)
ReadFails ==
    /\ state = "reading" /\ Len(got) < Len(commands)
    /\ broken' = TRUE
    /\ state' = "threw"
    /\ UNCHANGED << commands, wire, asked, got, execs, lapse >>

Return ==
    /\ state = "reading" /\ Len(got) = Len(commands)
    /\ commands' = << >>
    /\ state' = "returned"
    /\ UNCHANGED << wire, broken, asked, got, execs, lapse >>

Next ==
    \/ \E batch \in Batch : Exec(batch)
    \/ ReadReply \/ ReadError \/ ReadFails \/ Return

Spec == Init /\ [][Next]_vars
-----------------------------------------------------------------------------
(* Scoreboard reads replies by their place (r[0].str is the session): an   *)
(* exec() that returns has the replies to its own caller's commands, in    *)
(* their order, after any failures of earlier ones but a lapse.  Once the  *)
(* server refused a command that it takes when exec() sends it again,      *)
(* replies are out of step and are returned so.                            *)
AnswersInStep == (state = "returned" /\ ~ lapse) => got = asked

(* Something was left over by an exec() that threw.                        *)
Poisoned == broken \/ Len(commands) > (IF state = "reading" THEN Len(asked) ELSE 0)

(* A connection that failed once fails for good, as long as the server     *)
(* refuses the same commands each time: the commands kept in the queue and *)
(* the replies kept in the pipeline never line up again in a way that lets *)
(* a later exec() return.                                                  *)
FailedForGood == [][(Poisoned /\ ~ lapse') => Poisoned']_vars

(* The connection is what Scoreboard takes it to be (its ExecReturns and   *)
(* ExecThrows): up until an exec() throws, dead from then on, and an       *)
(* exec() that returns has the answers its caller asked for.  That holds   *)
(* until a lapse: what follows one is not looked at.                       *)
Answer ==
    CASE state = "threw" \/ lapse      -> "exception"
      [] state = "idle" /\ ~ lapse     -> "none"
      [] state = "reading" /\ ~ lapse  -> "pending"
      [] state = "returned" /\ ~ lapse -> IF got = asked THEN "own" ELSE "strange"
LinkState == IF Poisoned \/ lapse THEN "dead" ELSE "up"
AsScoreboardSees == INSTANCE Link WITH link <- LinkState, answer <- Answer
ImplementsLink == AsScoreboardSees!Spec
=============================================================================
