--------------------------- MODULE ForwarderProofs ---------------------------
(***************************************************************************)
(* Proofs about Forwarder for every set of images, locations and           *)
(* destinations, every kind of failure and every bound.                    *)
(***************************************************************************)
EXTENDS Forwarder, PixelFetchProofs

-----------------------------------------------------------------------------
(* The inductive invariant.  Types are not enough: what may be announced    *)
(* depends on a destination being known, which depends on why a file came   *)
(* to be on the scoreboard.                                                *)

(* Threads exist only inside the loop that joins them.                     *)
WorkersJoined ==
    \A t \in Task : task[t] # "off" => phase \in {"fetching", "unwinding"}

(* Whatever was listed, is being fetched or was registered for an image    *)
(* was asked for, with a destination.                                      *)
Asked ==
    /\ \A i \in Image, l \in Location : locs[i][l] > 0 => target[i] \in Target
    /\ \A f \in File : ccds[f] > 0 => target[f[1]] \in Target
    /\ \A t \in Task : task[t] # "off" => target[cur] \in Target

(* Once assemble has begun it has a destination; once it announces, every  *)
(* registered file of the image has arrived there.                         *)
Assembling ==
    /\ phase \in {"formatting", "sending", "announcing"} => target[cur] \in Target
    /\ phase = "announcing" =>
         /\ todo \subseteq Ccds(cur)
         /\ \A f \in Ccds(cur) : archive[target[cur]][f] # "absent"

Inv == TypeOK /\ PushedInRange /\ WorkersJoined /\ Asked /\ Assembling
         /\ AnnouncedDelivered

USE DEF fetching, workers, board, keys, handler, outside, counts

(* The forwarder starts with nothing asked for.                            *)
LEMMA InitInv == ForwarderInit => Inv
<1> SUFFICES ASSUME ForwarderInit PROVE Inv
  OBVIOUS
<1>1. ScoreboardInit /\ WorkersOff
  BY DEF ForwarderInit
<1>2. ScoreboardTypeOK
  BY <1>1 DEF ScoreboardTypeOK, ScoreboardInit, Empty
<1>3. PixelFetchTypeOK
  <2>1. disk \in [File -> Content] /\ daq \subseteq Image /\ cur \in Image
    BY DEF ForwarderInit, Content
  <2> QED BY <1>1, <2>1 DEF PixelFetchTypeOK, WorkersOff
<1>4. stream \in Seq(Image)
  <2>1. stream = << >>
    BY DEF ForwarderInit
  <2> QED BY <2>1
<1>5. TypeOK
  BY <1>2, <1>3, <1>4 DEF ForwarderInit, TypeOK, Phase, Content
<1>6. PushedInRange
  BY <1>1, ScoreboardConstants DEF PushedInRange, WorkersOff, Task
<1>7. WorkersJoined
  BY <1>1 DEF WorkersJoined, WorkersOff
<1>8. Asked
  <2>1. /\ locs = [i \in Image |-> [x \in Location |-> 0]]
        /\ ccds = [f \in File |-> 0]
        /\ task = [t \in Task |-> "off"]
    BY <1>1 DEF WorkersOff, ScoreboardInit, Empty
  <2>2. \A i \in Image, l \in Location : locs[i][l] = 0
    BY <2>1
  <2>3. \A f \in File : ccds[f] = 0
    BY <2>1
  <2>4. \A t \in Task : task[t] = "off"
    BY <2>1
  <2> QED BY <2>2, <2>3, <2>4 DEF Asked
<1>9. Assembling /\ AnnouncedDelivered
  BY DEF ForwarderInit, Assembling, AnnouncedDelivered
<1> QED BY <1>5, <1>6, <1>7, <1>8, <1>9 DEF Inv

(* A step that starts no thread leaves no work behind.                     *)
LEMMA LaunchTypes ==
    ASSUME NEW S \in SUBSET Task, Launch(S)
    PROVE  /\ task' \in [Task -> {"off", "fetching", "writing", "failed", "done"}]
           /\ pushed' \in [Task -> 0 .. 3]
           /\ writer' \in [Writer -> {"off", "ready", "checked", "open", "lost",
                                      "done", "failed", "refused"}]
           /\ PushedInRange'
           /\ \A t \in Task : task'[t] # "off" => t \in S
  BY ScoreboardConstants DEF Launch, PushedInRange, Task

(* What error telemetry may say.                                           *)
Notice == {5610, 5611, 5612} \X SUBSET File

(* Error telemetry names files.                                            *)
LEMMA TelemetryTypes ==
    ASSUME TypeOK, NEW about \in SUBSET Notice, Telemetry(about)
    PROVE  reports' \subseteq Report
<1>1. PICK said \in SUBSET Notice :
        reports' = reports \cup UNION {{m[1]} \X m[2] : m \in said}
  BY DEF Telemetry
<1>2. \A m \in Notice : {m[1]} \X m[2] \subseteq Report
  BY DEF Notice, Report
<1> QED BY <1>1, <1>2 DEF TypeOK

(* ... and so does an exception that leaves a handler.                     *)
LEMMA EscapeTypes ==
    ASSUME TypeOK, NEW about \in SUBSET Notice, Escape(about)
    PROVE  reports' \subseteq Report
<1>1. << 5610, FilesOf(cur) >> \in Notice
  BY DEF Notice, FilesOf
<1>2. PICK more \in SUBSET Notice : Telemetry(more)
  BY <1>1 DEF Escape
<1> QED BY <1>2, TelemetryTypes

(* TypeOK in two halves: the fetch threads' part, and the part that belongs *)
(* to the handlers, without the stream.                                    *)
HandlerTypes ==
    /\ phase \in Phase
    /\ via \in {"header", "end"}
    /\ hfile \in [Image -> {"absent", "good", "bad"}]
    /\ todo \subseteq File
    /\ archive \in [Target -> [File -> Content]]
    /\ told \subseteq Target \X File
    /\ reports \subseteq Report
    /\ messages \in Nat
    /\ crashes \in Nat

(* TypeOK is these parts.                                                 *)
LEMMA TypesSplit ==
    TypeOK <=> /\ ScoreboardTypeOK /\ PixelFetchTypeOK /\ HandlerTypes
               /\ stream \in Seq(Image)
  BY Zenon DEF TypeOK, HandlerTypes

(* ... after a step as well.                                              *)
LEMMA TypesSplitPrimed ==
    ASSUME ScoreboardTypeOK', PixelFetchTypeOK', HandlerTypes', stream' \in Seq(Image)
    PROVE  TypeOK'
  BY Zenon DEF TypeOK, HandlerTypes

(* Every method of Scoreboard keeps the types of its keys.                 *)
LEMMA AddXferTypes ==
    ASSUME ScoreboardTypeOK, NEW i \in Image, NEW t \in Target,
           NEW list \in [Location -> Nat], AddXfer(i, t, list)
    PROVE  ScoreboardTypeOK'
<1> USE DEF ScoreboardTypeOK
<1>1. [locs EXCEPT ![i] = [l \in Location |-> @[l] + list[l]]] \in [Image -> [Location -> Nat]]
  OBVIOUS
<1>2. CASE ExecThrows
  BY <1>2 DEF ExecThrows
<1>3. CASE ~ ExecThrows
  BY <1>1, <1>3 DEF AddXfer, ExecReturns
<1> QED BY <1>2, <1>3

(* Scoreboard::remove keeps the types of the keys.                         *)
LEMMA RemoveTypes ==
    ASSUME ScoreboardTypeOK, NEW i \in Image, Remove(i)
    PROVE  ScoreboardTypeOK'
  BY DEF ScoreboardTypeOK, Remove, ExecReturns

(* An emptied scoreboard is well typed.                                    *)
LEMMA FlushTypes == Flush => ScoreboardTypeOK'
  BY DEF ScoreboardTypeOK, Flush, Empty
-----------------------------------------------------------------------------
(* XFER_PARAMS gives a destination to whatever it lists.                    *)
LEMMA XferParamsInv ==
    ASSUME Inv, NEW i \in Image, NEW t \in Target, NEW list \in Lists,
           XferParams(i, t, list)
    PROVE  Inv'
<1> USE DEF Inv, XferParams, Taken
<1>1. list \in [Location -> Nat]
  BY ForwarderConstants
<1>2. ScoreboardTypeOK'
  <2>1. CASE AddXfer(i, t, list)
    BY <1>1, <2>1, AddXferTypes DEF TypeOK
  <2>2. CASE UNCHANGED board
    BY <2>2 DEF TypeOK, ScoreboardTypeOK
  <2> QED BY <2>1, <2>2
<1>3. TypeOK'
  <2>1. PixelFetchTypeOK'
    BY DEF TypeOK, PixelFetchTypeOK
  <2>2. stream' = stream /\ messages' \in Nat
    BY DEF TypeOK
  <2> QED BY <1>2, <2>1, <2>2 DEF TypeOK
<1>4. Asked'
  <2>1. CASE UNCHANGED board
    BY <2>1 DEF Asked
  <2>2. CASE AddXfer(i, t, list)
    BY <1>1, <2>2 DEF Asked, AddXfer, ExecReturns, ExecThrows, WorkersJoined, TypeOK, File,
                     ScoreboardTypeOK
  <2> QED BY <2>1, <2>2
<1>5. PushedInRange' /\ WorkersJoined' /\ Assembling' /\ AnnouncedDelivered'
  BY DEF PushedInRange, WorkersJoined, Assembling, AnnouncedDelivered
<1> QED BY <1>3, <1>4, <1>5

(* HEADER_READY assembles only what was registered, and so asked for.       *)
LEMMA HeaderReadyInv ==
    ASSUME Inv, NEW i \in Image, HeaderReady(i)
    PROVE  Inv'
<1>1. {<< 5610, FilesOf(i) >>} \in SUBSET Notice
  BY DEF FilesOf, Notice
<1>2. reports' \subseteq Report
  <2>1. Telemetry({<< 5610, FilesOf(i) >>}) => reports' \subseteq Report
    BY <1>1, TelemetryTypes DEF Inv
  <2>2. reports' = reports => reports' \subseteq Report
    BY DEF Inv, TypeOK
  <2> QED BY <2>1, <2>2 DEF HeaderReady, HeaderPullFails, HeaderPulled
<1>3. ScoreboardTypeOK'
  BY DEF Inv, TypeOK, ScoreboardTypeOK, HeaderReady, HeaderPullFails,
         HeaderPulled, AddHeader, ExecReturns, ExecThrows
<1>4. PixelFetchTypeOK'
  BY DEF Inv, TypeOK, PixelFetchTypeOK, HeaderReady, HeaderPullFails,
         HeaderPulled, Taken
<1>5. TypeOK'
  <2>1. HandlerTypes'
    <3>1. HandlerTypes
      BY TypesSplit DEF Inv
    <3>2. /\ UNCHANGED << todo, archive, told, crashes >>
          /\ messages' = messages + 1
          /\ phase' \in Phase /\ via' = "header"
      BY DEF HeaderReady, HeaderPullFails,
         HeaderPulled, Taken, Phase
    <3>3. hfile' \in [Image -> {"absent", "good", "bad"}]
      BY <3>1 DEF HandlerTypes, HeaderReady, HeaderPullFails, HeaderPulled
    <3> QED BY <1>2, <3>1, <3>2, <3>3 DEF HandlerTypes
  <2>2. stream' \in Seq(Image)
    BY TypesSplit DEF Inv, HeaderReady, HeaderPullFails, HeaderPulled
  <2> QED BY <1>3, <1>4, <2>1, <2>2, TypesSplitPrimed
<1>6. PushedInRange' /\ WorkersJoined' /\ AnnouncedDelivered'
  BY DEF Inv, PushedInRange, WorkersJoined, AnnouncedDelivered, HeaderReady, HeaderPullFails,
         HeaderPulled, Taken
<1>7. Asked'
  BY DEF Inv, Asked, WorkersJoined, HeaderReady, HeaderPullFails,
         HeaderPulled, Taken, AddHeader, ExecThrows
<1>8. Assembling'
  BY DEF Inv, Assembling, Asked, Ready, FilesOf, HeaderReady, HeaderPullFails,
         HeaderPulled, Taken, AddHeader
<1> QED BY <1>5, <1>6, <1>7, <1>8 DEF Inv

(* END_READOUT and ASSOCIATED only move the handler and the stream.         *)
LEMMA EndReadoutInv ==
    ASSUME Inv, (\E i \in Image : EndReadout(i)) \/ Associated
    PROVE  Inv'
<1>1. ScoreboardTypeOK' /\ PixelFetchTypeOK'
  BY DEF Inv, EndReadout, Associated, Taken, TypeOK, ScoreboardTypeOK, PixelFetchTypeOK
<1>2. stream' \in Seq(Image)
  <2>1. stream' = stream \/ stream' = << >>
    BY DEF EndReadout, Associated
  <2>2. stream \in Seq(Image)
    BY TypesSplit, Zenon DEF Inv
  <2>3. << >> \in Seq(Image)
    OBVIOUS
  <2> QED BY <2>1, <2>2, <2>3, Zenon
<1>3. TypeOK'
  <2>1. HandlerTypes'
    <3>1. HandlerTypes
      BY TypesSplit DEF Inv
    <3>2. /\ UNCHANGED << todo, archive, told, hfile, crashes, reports >>
          /\ messages' = messages + 1
      BY DEF EndReadout, Associated, Taken
    <3>3. phase' \in Phase /\ via' \in {"header", "end"}
      BY <3>1 DEF EndReadout, Associated, Taken, HandlerTypes, Phase
    <3> QED BY <3>1, <3>2, <3>3 DEF HandlerTypes
  <2> QED BY <1>1, <1>2, <2>1, TypesSplitPrimed
<1>4. PushedInRange' /\ WorkersJoined' /\ Asked' /\ AnnouncedDelivered'
  BY DEF Inv, EndReadout, Associated, Taken, PushedInRange, WorkersJoined, Asked,
         AnnouncedDelivered
<1>5. Assembling'
  BY DEF Inv, EndReadout, Associated, Taken, Assembling
<1> QED BY <1>3, <1>4, <1>5 DEF Inv

(* Waiting for the image on the stream.                                     *)
LEMMA BlockInv ==
    ASSUME Inv, SkipImage \/ MatchImage \/ BlockTimesOut
    PROVE  Inv'
<1>1. ScoreboardTypeOK' /\ PixelFetchTypeOK'
  BY DEF Inv, SkipImage, MatchImage, BlockTimesOut, TypeOK, ScoreboardTypeOK,
         PixelFetchTypeOK
<1>2. stream' \in Seq(Image)
  <2>1. stream' = stream \/ (stream # << >> /\ stream' = Tail(stream))
    BY DEF SkipImage, MatchImage, BlockTimesOut
  <2> QED BY <2>1, TypesSplit DEF Inv
<1>3. TypeOK'
  <2>1. HandlerTypes'
    BY TypesSplit DEF Inv, HandlerTypes, SkipImage, MatchImage, BlockTimesOut, Phase
  <2> QED BY <1>1, <1>2, <2>1, TypesSplitPrimed
<1>4. PushedInRange' /\ WorkersJoined' /\ Asked' /\ AnnouncedDelivered'
  BY DEF Inv, SkipImage, MatchImage, BlockTimesOut, PushedInRange, WorkersJoined, Asked,
         AnnouncedDelivered
<1>5. Assembling'
  BY DEF Inv, SkipImage, MatchImage, BlockTimesOut, Assembling
<1> QED BY <1>3, <1>4, <1>5 DEF Inv

(* The camera reads an image out.                                           *)
LEMMA ReadoutInv ==
    ASSUME Inv, NEW i \in Image, Readout(i)
    PROVE  Inv'
<1>1. ScoreboardTypeOK' /\ PixelFetchTypeOK'
  BY DEF Inv, Readout, TypeOK, ScoreboardTypeOK, PixelFetchTypeOK
<1>2. stream' \in Seq(Image)
  <2>1. stream' = Append(stream, i)
    BY DEF Readout
  <2> QED BY <2>1, TypesSplit DEF Inv
<1>3. TypeOK'
  <2>1. HandlerTypes'
    BY TypesSplit DEF Inv, HandlerTypes, Readout
  <2> QED BY <1>1, <1>2, <2>1, TypesSplitPrimed
<1>4. PushedInRange' /\ WorkersJoined' /\ Asked' /\ AnnouncedDelivered' /\ Assembling'
  BY DEF Inv, Readout, PushedInRange, WorkersJoined, Asked, AnnouncedDelivered, Assembling,
         Ccds, FilesOf
<1> QED BY <1>3, <1>4 DEF Inv

(* Starting the tasks: only listed locations are started.                   *)
LEMMA StartTasksInv ==
    ASSUME Inv, StartTasks
    PROVE  Inv'
<1>1. PICK S \in SUBSET Listed :
        (Launch(S) /\ phase' \in {"fetching", "unwinding"}) \/
        (UNCHANGED workers /\ phase' = "idle")
  BY DEF StartTasks
<1>2. Listed \subseteq Task
  BY DEF Listed
<1>3. ScoreboardTypeOK'
  BY TypesSplit DEF Inv, StartTasks, ScoreboardTypeOK, ExecReturns, ExecThrows
<1>4. PixelFetchTypeOK' /\ PushedInRange'
  <2>1. UNCHANGED << cur, daq, disk >>
    BY DEF StartTasks
  <2>2. PixelFetchTypeOK /\ PushedInRange
    BY TypesSplit DEF Inv
  <2>3. CASE Launch(S)
    BY <1>2, <2>1, <2>2, <2>3, LaunchTypes DEF PixelFetchTypeOK
  <2>4. CASE UNCHANGED workers
    BY <2>1, <2>2, <2>4 DEF PixelFetchTypeOK, PushedInRange
  <2> QED BY <1>1, <2>3, <2>4
<1>5. TypeOK'
  <2>1. HandlerTypes'
    BY TypesSplit DEF Inv, HandlerTypes, StartTasks, Phase
  <2>2. stream' \in Seq(Image)
    BY TypesSplit DEF Inv, StartTasks
  <2> QED BY <1>3, <1>4, <2>1, <2>2, TypesSplitPrimed
<1>6. \A t \in Task : task'[t] # "off" => (t \in Listed /\ phase' \in {"fetching", "unwinding"})
  <2>1. CASE Launch(S) /\ phase' \in {"fetching", "unwinding"}
    BY <1>2, <2>1, LaunchTypes
  <2>2. CASE UNCHANGED workers /\ phase' = "idle"
    BY <2>2 DEF Inv, WorkersJoined, StartTasks
  <2> QED BY <1>1, <2>1, <2>2
<1>7. WorkersJoined'
  BY <1>6 DEF WorkersJoined
<1>8. Asked'
  <2>1. UNCHANGED << cur, keys >>
    BY DEF StartTasks, ExecThrows
  <2>2. ASSUME NEW t \in Listed PROVE target[cur] \in Target
    <3>1. cur \in Image /\ t[1] \in Location /\ t[2] \in 1 .. MaxCopies
      BY TypesSplit DEF Inv, PixelFetchTypeOK, Listed, Task
    <3>2. locs[cur][t[1]] \in Nat /\ t[2] <= locs[cur][t[1]]
      BY <3>1, TypesSplit DEF Inv, ScoreboardTypeOK, Listed
    <3>3. locs[cur][t[1]] > 0
      BY <3>1, <3>2, PixelFetchConstants
    <3> QED BY <3>1, <3>3 DEF Inv, Asked
  <2> QED BY <1>6, <2>1, <2>2 DEF Inv, Asked
<1>9. Assembling' /\ AnnouncedDelivered'
  BY <1>1 DEF Inv, Assembling, AnnouncedDelivered, StartTasks
<1> QED BY <1>4, <1>5, <1>7, <1>8, <1>9 DEF Inv

(* A step of the threads registers files only of the image that is fetched. *)
LEMMA RunTasksInv ==
    ASSUME Inv, RunTasks
    PROVE  Inv'
<1>1. FetchStep /\ phase \in {"fetching", "unwinding"}
      /\ UNCHANGED << handler, hfile, stream, outside, counts >>
  BY DEF RunTasks
<1>2. FetchTypes'
  BY <1>1, FetchStepTypes, TypesSplit DEF Inv, FetchTypes
<1>3. TypeOK'
  <2>1. HandlerTypes'
    BY <1>1, TypesSplit DEF Inv, HandlerTypes
  <2>2. stream' \in Seq(Image)
    BY <1>1, TypesSplit DEF Inv
  <2> QED BY <1>2, <2>1, <2>2, TypesSplitPrimed DEF FetchTypes
<1>4. UNCHANGED << cur, target, locs >>
  BY <1>1 DEF FetchStep, FetchPixels, FetchFails, Register, RegisterFails, PushCcd,
              CheckFile, CreateFile, WritePixels, WriteFails
<1>5. \A t \in Task : task'[t] # "off" => task[t] # "off"
  BY <1>1, TypesSplit DEF Inv, PixelFetchTypeOK, FetchStep, FetchPixels, FetchFails,
              Register, RegisterFails, CheckFile, CreateFile, WritePixels, WriteFails
<1>6. \A f \in File : ccds'[f] > 0 =>
        (ccds[f] > 0 \/ (f[1] = cur /\ \E t \in Task : task[t] # "off"))
  <2>1. CASE ccds' = ccds
    BY <2>1
  <2>2. ASSUME NEW t \in Task, Pushes(t)
        PROVE  \A f \in File : ccds'[f] > 0 =>
                 (ccds[f] > 0 \/ (f[1] = cur /\ \E u \in Task : task[u] # "off"))
    <3>1. /\ task[t] = "writing"
          /\ ccds' = [ccds EXCEPT ![Path(Next2Push(t))] = @ + 1]
          /\ Path(Next2Push(t))[1] = cur
      BY <2>2 DEF Pushes, PushCcd, Path
    <3>2. ccds \in [File -> Nat]
      BY TypesSplit DEF Inv, ScoreboardTypeOK
    <3>3. ASSUME NEW f \in File, f # Path(Next2Push(t)) PROVE ccds'[f] = ccds[f]
      BY <3>1, <3>2, <3>3
    <3> QED BY <3>1, <3>3
  <2>3. ccds' = ccds \/ \E t \in Task : Pushes(t)
    BY <1>1 DEF FetchStep, FetchPixels, FetchFails, Register, RegisterFails, Pushes,
                CheckFile, CreateFile, WritePixels, WriteFails
  <2> QED BY <2>1, <2>2, <2>3
<1>7. WorkersJoined'
  BY <1>1, <1>5 DEF Inv, WorkersJoined
<1>8. Asked'
  <2>1. \A f \in File : ccds'[f] > 0 => target[f[1]] \in Target
    BY <1>6 DEF Inv, Asked
  <2> QED BY <1>4, <1>5, <2>1 DEF Inv, Asked
<1>9. Assembling' /\ AnnouncedDelivered'
  BY <1>1, <1>4 DEF Inv, Assembling, AnnouncedDelivered
<1> QED BY <1>2, <1>3, <1>7, <1>8, <1>9 DEF Inv, FetchTypes

(* Both ends of the fetch: the handler goes on without threads.             *)
LEMMA JoinInv ==
    ASSUME Inv, Unwound \/ JoinTasks
    PROVE  Inv'
<1>1. Launch({})
  BY DEF Unwound, JoinTasks
<1>2. /\ \A t \in Task : task'[t] = "off"
      /\ PushedInRange'
  BY <1>1, LaunchTypes
<1>3. ScoreboardTypeOK'
  BY TypesSplit DEF Inv, Unwound, JoinTasks, ScoreboardTypeOK, ExecReturns, ExecThrows
<1>4. PixelFetchTypeOK'
  BY <1>1, LaunchTypes, TypesSplit DEF Inv, PixelFetchTypeOK, Unwound, JoinTasks
<1>5. reports' \subseteq Report
  <2>1. NotFetched \in SUBSET Notice
    BY DEF NotFetched, FilesOf, Notice
  <2>2. Telemetry(NotFetched) => reports' \subseteq Report
    BY <2>1, TelemetryTypes DEF Inv
  <2>3. reports' = reports => reports' \subseteq Report
    BY TypesSplit DEF Inv, HandlerTypes
  <2> QED BY <2>2, <2>3 DEF Unwound, JoinTasks
<1>6. TypeOK'
  <2>1. HandlerTypes'
    BY <1>5, TypesSplit DEF Inv, HandlerTypes, Unwound, JoinTasks, Phase
  <2>2. stream' \in Seq(Image)
    BY TypesSplit DEF Inv, Unwound, JoinTasks
  <2> QED BY <1>3, <1>4, <2>1, <2>2, TypesSplitPrimed
<1>7. WorkersJoined'
  BY <1>2 DEF WorkersJoined
<1>8. Asked'
  BY <1>2 DEF Inv, Asked, Unwound, JoinTasks, ExecThrows
<1>9. Assembling'
  <2>1. Ready(cur) => target[cur] \in Target
    BY DEF Inv, Asked, Ready, FilesOf
  <2> QED BY <2>1 DEF Assembling, Unwound, JoinTasks
<1>10. AnnouncedDelivered'
  BY DEF Inv, AnnouncedDelivered, Unwound, JoinTasks
<1> QED BY <1>2, <1>6, <1>7, <1>8, <1>9, <1>10 DEF Inv

(* Formatting rewrites local files and nothing the transfer depends on.     *)
LEMMA FormatInv ==
    ASSUME Inv, Format
    PROVE  Inv'
<1>1. Ccds(cur) \in SUBSET File /\ FilesOf(cur) \in SUBSET File
  BY DEF Ccds, FilesOf
<1>2. PICK out \in [Ccds(cur) -> {"ok", "caught", "escaped"}],
           content \in [Ccds(cur) -> Content] :
        /\ disk' = [f \in File |-> IF f \in Ccds(cur) THEN content[f] ELSE disk[f]]
        /\ \/ /\ phase' = "sending"
              /\ Telemetry(Caught(out))
           \/ \E before \in SUBSET Caught(out) : Escape(before)
  BY DEF Format
<1>3. disk' \in [File -> Content]
  BY <1>1, <1>2, TypesSplit DEF Inv, PixelFetchTypeOK
<1>4. reports' \subseteq Report
  <2>1. Caught(out) \in SUBSET Notice
    BY <1>1 DEF Caught, Notice
  <2>2. Telemetry(Caught(out)) => reports' \subseteq Report
    BY <2>1, TelemetryTypes DEF Inv
  <2>3. ASSUME NEW before \in SUBSET Caught(out), Escape(before)
        PROVE  reports' \subseteq Report
    BY <2>1, <2>3, EscapeTypes DEF Inv
  <2> QED BY <1>2, <2>2, <2>3
<1>5. phase = "formatting" /\ phase' \in {"idle", "sending"}
  BY <1>2 DEF Format, Escape
<1>6. UNCHANGED << cur, daq, workers, board, via, todo, hfile, stream, archive, told, counts >>
  BY DEF Format
<1>7. TypeOK'
  <2>1. ScoreboardTypeOK'
    BY <1>6, TypesSplit DEF Inv, ScoreboardTypeOK
  <2>2. PixelFetchTypeOK'
    BY <1>3, <1>6, TypesSplit DEF Inv, PixelFetchTypeOK
  <2>3. HandlerTypes'
    BY <1>4, <1>5, <1>6, TypesSplit DEF Inv, HandlerTypes, Phase
  <2>4. stream' \in Seq(Image)
    BY <1>6, TypesSplit DEF Inv
  <2> QED BY <2>1, <2>2, <2>3, <2>4, TypesSplitPrimed
<1>8. PushedInRange' /\ WorkersJoined' /\ Asked'
  BY <1>5, <1>6 DEF Inv, PushedInRange, WorkersJoined, Asked
<1>9. Assembling' /\ AnnouncedDelivered'
  BY <1>5, <1>6 DEF Inv, Assembling, AnnouncedDelivered
<1> QED BY <1>7, <1>8, <1>9 DEF Inv

(* Sending puts the files of one image at its destination; no copy that is *)
(* there is ever taken away, by a transfer that fails included.            *)
LEMMA SendInv ==
    ASSUME Inv, SendFiles \/ SendFails
    PROVE  Inv'
<1>1. UNCHANGED << fetching, via, hfile, stream, told, counts >>
  BY DEF SendFiles, SendFails
<1>2. /\ target[cur] \in Target
      /\ archive \in [Target -> [File -> Content]]
      /\ disk \in [File -> Content]
      /\ Ccds(cur) \in SUBSET File /\ FilesOf(cur) \in SUBSET File
  BY TypesSplit DEF Inv, Assembling, HandlerTypes, PixelFetchTypeOK, Ccds, FilesOf,
                    SendFiles, SendFails
<1>3. PICK whole \in SUBSET {f \in Ccds(cur) : disk[f] # "absent"}, cut \in SUBSET File :
        Copy(whole, cut) /\ (phase' = "announcing" => whole = Ccds(cur))
  <2>1. CASE SendFiles
    <3>1. Ccds(cur) \in SUBSET {f \in Ccds(cur) : disk[f] # "absent"}
      BY <2>1 DEF SendFiles
    <3> QED BY <2>1, <3>1 DEF SendFiles
  <2>2. CASE SendFails
    <3>1. phase' # "announcing"
      BY <2>2 DEF SendFails
    <3>2. PICK whole \in SUBSET {f \in Ccds(cur) : disk[f] # "absent"},
               cut \in {{}} \cup {{f} : f \in {x \in Ccds(cur) : disk[x] # "absent"}} :
            Copy(whole, cut)
      BY <2>2 DEF SendFails
    <3>3. cut \in SUBSET File
      BY <1>2
    <3> QED BY <3>1, <3>2, <3>3
  <2> QED BY <2>1, <2>2
<1> DEFINE g == [f \in File |-> IF f \in cut THEN "partial"
                                ELSE IF f \in whole THEN disk[f]
                                ELSE archive[target[cur]][f]]
<1>3a. /\ g \in [File -> Content]
       /\ archive' = [archive EXCEPT ![target[cur]] = g]
  BY <1>2, <1>3 DEF Copy, Content
<1>3b. \A f \in File : archive[target[cur]][f] # "absent" => g[f] # "absent"
  BY <1>2
<1>3c. phase' = "announcing" => \A f \in Ccds(cur) : g[f] # "absent"
  BY <1>2, <1>3
<1> HIDE DEF g
<1>4. /\ archive' \in [Target -> [File -> Content]]
      /\ archive'[target[cur]] = g
      /\ \A t \in Target, f \in File : archive[t][f] # "absent" => archive'[t][f] # "absent"
  BY <1>2, <1>3a, <1>3b
<1>5. /\ phase = "sending"
      /\ \/ phase' = "idle" /\ todo' = todo
         \/ phase' = "announcing" /\ todo' = Ccds(cur)
  BY DEF SendFiles, SendFails
<1>6. reports' \subseteq Report
  <2>1. {<< 5612, FilesOf(cur) >>} \in SUBSET Notice
    BY <1>2 DEF Notice
  <2>1a. Telemetry({<< 5612, FilesOf(cur) >>}) => reports' \subseteq Report
    BY <2>1, TelemetryTypes DEF Inv
  <2>2. reports' = reports => reports' \subseteq Report
    BY TypesSplit DEF Inv, HandlerTypes
  <2> QED BY <2>1a, <2>2 DEF SendFiles, SendFails
<1>7. TypeOK'
  <2>1. ScoreboardTypeOK'
    BY <1>1, TypesSplit DEF Inv, ScoreboardTypeOK
  <2>2. PixelFetchTypeOK'
    BY <1>1, TypesSplit DEF Inv, PixelFetchTypeOK
  <2>3. HandlerTypes'
    BY <1>1, <1>2, <1>4, <1>5, <1>6, TypesSplit DEF Inv, HandlerTypes, Phase
  <2>4. stream' \in Seq(Image)
    BY <1>1, TypesSplit DEF Inv
  <2> QED BY <2>1, <2>2, <2>3, <2>4, TypesSplitPrimed
<1>8. PushedInRange' /\ WorkersJoined' /\ Asked'
  BY <1>1, <1>5 DEF Inv, PushedInRange, WorkersJoined, Asked
<1>9. Assembling'
  <2>1. Ccds(cur)' = Ccds(cur) /\ target'[cur'] = target[cur]
    BY <1>1 DEF Ccds, FilesOf
  <2>2. phase' = "announcing" => \A f \in Ccds(cur) : archive'[target[cur]][f] # "absent"
    BY <1>3c, <1>4
  <2> QED BY <1>2, <1>5, <2>1, <2>2 DEF Assembling
<1>10. AnnouncedDelivered'
  <2>1. told \subseteq Target \X File
    BY TypesSplit DEF Inv, HandlerTypes
  <2> QED BY <1>1, <1>4, <2>1 DEF Inv, AnnouncedDelivered
<1> QED BY <1>7, <1>8, <1>9, <1>10 DEF Inv

(* An announcement names a file of the transfer that just succeeded.        *)
LEMMA AnnounceInv ==
    ASSUME Inv, NEW f \in File, Announce(f)
    PROVE  Inv'
<1>1. UNCHANGED << fetching, phase, via, hfile, stream, archive, reports, counts >>
  BY DEF Announce
<1>2. /\ phase = "announcing" /\ f \in todo /\ todo' = todo \ {f}
      /\ told' \in {told, told \cup {<< target[cur], f >>}}
  BY DEF Announce
<1>3. target[cur] \in Target /\ archive[target[cur]][f] # "absent"
  BY <1>2 DEF Inv, Assembling
<1>4. TypeOK'
  <2>1. ScoreboardTypeOK'
    BY <1>1, TypesSplit DEF Inv, ScoreboardTypeOK
  <2>2. PixelFetchTypeOK'
    BY <1>1, TypesSplit DEF Inv, PixelFetchTypeOK
  <2>3. HandlerTypes'
    BY <1>1, <1>2, <1>3, TypesSplit DEF Inv, HandlerTypes
  <2>4. stream' \in Seq(Image)
    BY <1>1, TypesSplit DEF Inv
  <2> QED BY <2>1, <2>2, <2>3, <2>4, TypesSplitPrimed
<1>5. PushedInRange' /\ WorkersJoined' /\ Asked'
  BY <1>1 DEF Inv, PushedInRange, WorkersJoined, Asked
<1>6. Assembling'
  BY <1>1, <1>2 DEF Inv, Assembling, Ccds, FilesOf
<1>7. AnnouncedDelivered'
  BY <1>1, <1>2, <1>3 DEF Inv, AnnouncedDelivered
<1> QED BY <1>4, <1>5, <1>6, <1>7 DEF Inv

(* cleanup forgets destination and files of an image together.              *)
LEMMA CleanupInv ==
    ASSUME Inv, Cleanup
    PROVE  Inv'
<1>1. UNCHANGED << cur, daq, workers, via, todo, stream, archive, told, counts >>
      /\ phase = "announcing" /\ phase' = "idle"
  BY DEF Cleanup, Escape
<1>2. ScoreboardTypeOK'
  <2>1. cur \in Image /\ ScoreboardTypeOK
    BY TypesSplit DEF Inv, PixelFetchTypeOK
  <2>2. CASE Remove(cur)
    BY <2>1, <2>2, RemoveTypes
  <2>3. CASE ExecThrows
    BY <2>1, <2>3 DEF ExecThrows, ScoreboardTypeOK
  <2> QED BY <2>2, <2>3 DEF Cleanup
<1>3. PixelFetchTypeOK'
  <2>1. disk' \in [File -> Content]
    BY TypesSplit DEF Inv, PixelFetchTypeOK, Cleanup, Content
  <2> QED BY <1>1, <2>1, TypesSplit DEF Inv, PixelFetchTypeOK
<1>4. reports' \subseteq Report
  <2>1. {} \in SUBSET Notice
    OBVIOUS
  <2>2. Escape({}) => reports' \subseteq Report
    BY <2>1, EscapeTypes DEF Inv
  <2>3. reports' = reports => reports' \subseteq Report
    BY TypesSplit DEF Inv, HandlerTypes
  <2> QED BY <2>2, <2>3 DEF Cleanup
<1>5. TypeOK'
  <2>1. hfile' \in [Image -> {"absent", "good", "bad"}]
    BY TypesSplit DEF Inv, HandlerTypes, Cleanup
  <2>2. HandlerTypes'
    BY <1>1, <1>4, <2>1, TypesSplit DEF Inv, HandlerTypes, Phase
  <2>3. stream' \in Seq(Image)
    BY <1>1, TypesSplit DEF Inv
  <2> QED BY <1>2, <1>3, <2>2, <2>3, TypesSplitPrimed
<1>6. WorkersJoined' /\ PushedInRange'
  BY <1>1 DEF Inv, WorkersJoined, PushedInRange
<1>7. Asked'
  <2>1. \A t \in Task : task'[t] = "off"
    BY <1>1, TypesSplit DEF Inv, WorkersJoined
  <2>2. CASE Remove(cur)
    <3>1. \A i \in Image, l \in Location : locs'[i][l] > 0 => target'[i] \in Target
      BY <2>2, TypesSplit DEF Inv, Asked, Remove, ScoreboardTypeOK
    <3>2. \A f \in File : ccds'[f] > 0 => target'[f[1]] \in Target
      BY <2>2, TypesSplit DEF Inv, Asked, Remove, ScoreboardTypeOK, File
    <3> QED BY <2>1, <3>1, <3>2 DEF Asked
  <2>3. CASE ExecThrows
    BY <1>1, <2>3 DEF Inv, Asked, ExecThrows
  <2> QED BY <2>2, <2>3 DEF Cleanup
<1>8. Assembling' /\ AnnouncedDelivered'
  BY <1>1 DEF Inv, Assembling, AnnouncedDelivered
<1> QED BY <1>5, <1>6, <1>7, <1>8 DEF Inv

(* A restart forgets everything but what is on disk and in the archive.     *)
LEMMA CrashInv ==
    ASSUME Inv, Crash
    PROVE  Inv'
<1>1. /\ Launch({}) /\ Flush
      /\ phase' = "idle" /\ todo' = {} /\ stream' = << >>
      /\ crashes' = crashes + 1
      /\ UNCHANGED << cur, daq, disk, via, hfile, outside, messages >>
  BY DEF Crash
<1>2. PushedInRange' /\ \A t \in Task : task'[t] = "off"
  BY <1>1, LaunchTypes
<1>3. ScoreboardTypeOK'
  BY <1>1, FlushTypes
<1>4. PixelFetchTypeOK'
  BY <1>1, LaunchTypes, TypesSplit DEF Inv, PixelFetchTypeOK
<1>5. TypeOK'
  <2>1. HandlerTypes'
    BY <1>1, TypesSplit DEF Inv, HandlerTypes, Phase
  <2>2. << >> \in Seq(Image)
    OBVIOUS
  <2> QED BY <1>1, <1>3, <1>4, <2>1, <2>2, TypesSplitPrimed
<1>6. Asked'
  <2>1. \A i \in Image, l \in Location : locs'[i][l] = 0
    BY <1>1 DEF Flush, Empty
  <2>2. \A f \in File : ccds'[f] = 0
    BY <1>1 DEF Flush, Empty
  <2> QED BY <1>2, <2>1, <2>2 DEF Asked
<1>7. WorkersJoined' /\ Assembling' /\ AnnouncedDelivered'
  BY <1>1, <1>2 DEF Inv, WorkersJoined, Assembling, AnnouncedDelivered
<1> QED BY <1>2, <1>5, <1>6, <1>7 DEF Inv

(* Every step of the forwarder keeps the invariant.                         *)
LEMMA NextInv == Inv /\ [ForwarderNext]_vars => Inv'
<1> SUFFICES ASSUME Inv, [ForwarderNext]_vars PROVE Inv'
  OBVIOUS
<1>1. CASE Receive
  BY <1>1, XferParamsInv, HeaderReadyInv, EndReadoutInv DEF Receive
<1>2. CASE Work
  BY <1>2, BlockInv, StartTasksInv, RunTasksInv, JoinInv, FormatInv, SendInv, AnnounceInv,
     CleanupInv DEF Work
<1>3. CASE Crash
  BY <1>3, CrashInv
<1>4. CASE \E i \in Image : Readout(i)
  BY <1>4, ReadoutInv
<1>5. CASE UNCHANGED vars
  <2>1. TypeOK'
    BY <1>5 DEF Inv, TypeOK, ScoreboardTypeOK, PixelFetchTypeOK, vars
  <2>2. PushedInRange' /\ WorkersJoined' /\ Asked' /\ Assembling' /\ AnnouncedDelivered'
    BY <1>5 DEF Inv, PushedInRange, WorkersJoined, Asked, Assembling, AnnouncedDelivered,
                Ccds, FilesOf, vars
  <2> QED BY <2>1, <2>2 DEF Inv
<1> QED BY <1>1, <1>2, <1>3, <1>4, <1>5 DEF ForwarderNext

(* The inductive invariant holds in every reachable state.                  *)
THEOREM InvHolds == Spec => []Inv
<1> QED BY InitInv, NextInv, PTL DEF Spec

-----------------------------------------------------------------------------
(* Every variable of the forwarder keeps its type.                          *)
THEOREM TypeCorrect == Spec => []TypeOK
<1>1. Inv => TypeOK
  BY DEF Inv
<1> QED BY <1>1, InvHolds, PTL

(* Through every failure, retry, repeated message and crash: what was       *)
(* announced as transferred is in the archive at the destination announced. *)
THEOREM AnnouncedIsDelivered == Spec => []AnnouncedDelivered
<1>1. Inv => AnnouncedDelivered
  BY DEF Inv
<1> QED BY <1>1, InvHolds, PTL

(* An image that assemble finds ready has a destination.                    *)
THEOREM ReadyImageHasTarget == Spec => []ReadyHasTarget
<1>1. Inv => ReadyHasTarget
  BY DEF Inv, Asked, ReadyHasTarget, Ready, FilesOf
<1> QED BY <1>1, InvHolds, PTL

-----------------------------------------------------------------------------
(* Without failing pulls, a header key never outlives its file: a repeated *)
(* HEADER_READY puts a new file in the old one's place, and cleanup takes  *)
(* the key before the file.                                                *)
HeadersThere == \A i \in hdr : hfile[i] # "absent"

LEMMA HeaderStep ==
    ASSUME "header" \notin Faults, Inv, HeadersThere, [ForwarderNext]_vars
    PROVE  HeadersThere'
<1>1. hdr \subseteq Image /\ hfile \in [Image -> {"absent", "good", "bad"}] /\ cur \in Image
  BY TypesSplit DEF Inv, ScoreboardTypeOK, PixelFetchTypeOK, HandlerTypes
<1>2. ASSUME NEW i \in Image, HeaderReady(i)
      PROVE  HeadersThere'
  <2>1. HeaderPulled(i) /\ hdr' \subseteq hdr \cup {i}
    BY <1>2 DEF HeaderReady, HeaderPullFails, AddHeader, ExecThrows
  <2>2. \A j \in Image : hfile'[j] # "absent" \/ (j # i /\ hfile'[j] = hfile[j])
    BY <1>1, <2>1 DEF HeaderPulled
  <2>3. QED
    BY <1>1, <2>1, <2>2 DEF HeadersThere
<1>3. CASE Cleanup
  <2>1. CASE Remove(cur) /\ hfile' = [hfile EXCEPT ![cur] = "absent"]
    BY <1>1, <2>1, ScoreboardConstants DEF HeadersThere, Remove
  <2>2. CASE UNCHANGED << hdr, hfile >>
    BY <2>2 DEF HeadersThere
  <2>3. QED
    BY <1>3, <2>1, <2>2 DEF Cleanup, ExecThrows
<1>4. CASE Crash
  BY <1>4 DEF Crash, Flush, Empty, HeadersThere
<1>5. CASE UNCHANGED << hdr, hfile >>
  BY <1>5 DEF HeadersThere
<1>6. CASE Work /\ ~ Cleanup
  <2>1. UNCHANGED << hdr, hfile >>
    BY <1>6 DEF Work, SkipImage, MatchImage, BlockTimesOut, StartTasks, RunTasks, FetchStep,
           FetchPixels, FetchFails, Register, RegisterFails, PushCcd, CheckFile, CreateFile,
           WritePixels, WriteFails, Unwound, JoinTasks, ExecThrows, Format, SendFiles,
           SendFails, Announce
  <2>2. QED
    BY <1>5, <2>1
<1>7. CASE Receive /\ \A i \in Image : ~ HeaderReady(i)
  <2>1. UNCHANGED << hdr, hfile >>
    BY <1>7 DEF Receive, XferParams, AddXfer, ExecThrows, EndReadout, Associated
  <2>2. QED
    BY <1>5, <2>1
<1>8. QED
  BY <1>2, <1>3, <1>4, <1>5, <1>6, <1>7 DEF ForwarderNext, Readout, vars

(* The scoreboard points to a header only while its file exists, as long   *)
(* as the pulls of repeated HEADER_READYs succeed.                         *)
THEOREM HeaderKeysHaveFiles ==
    ASSUME "header" \notin Faults
    PROVE  Spec => []HeaderKeyHasFile
<1>1. ForwarderInit => HeadersThere
  <2>1. ForwarderInit => hdr = {}
    BY DEF ForwarderInit, ScoreboardInit, Empty
  <2>2. QED
    BY <2>1 DEF HeadersThere
<1>2. Inv /\ HeadersThere /\ [ForwarderNext]_vars => HeadersThere'
  BY HeaderStep
<1>3. HeadersThere => HeaderKeyHasFile
  BY DEF HeadersThere, HeaderKeyHasFile
<1>4. QED
  BY <1>1, <1>2, <1>3, InvHolds, PTL DEF Spec

-----------------------------------------------------------------------------
(* How an END_READOUT accounts for every file: each listed location has a  *)
(* task, and a task ends failed, to be reported, or with all its files on  *)
(* the scoreboard.                                                         *)
ListsBounded == \A i \in Image, l \in Location : locs[i][l] <= MaxCopies

NothingPushed == phase \notin {"fetching", "unwinding"} => \A t \in Task : pushed[t] = 0

EveryListedRuns == phase = "fetching" => \A t \in Listed : task[t] # "off"

DoneHasPushedAll == \A t \in Task : task[t] = "done" => pushed[t] = Sensors[t[1]]

PushedIsRegistered ==
    \A t \in Task, f \in FilesOf(cur) : (f[2] = t[1] /\ f[3] < pushed[t]) => ccds[f] > 0

Accounts ==
    /\ ListsBounded /\ NothingPushed /\ EveryListedRuns /\ DoneHasPushedAll
    /\ PushedIsRegistered /\ EveryFileAccountedFor

LEMMA AccountsBegin == ForwarderInit => Accounts
<1> SUFFICES ASSUME ForwarderInit PROVE Accounts
  OBVIOUS
<1>1. /\ locs = [i \in Image |-> [l \in Location |-> 0]]
      /\ pushed = [t \in Task |-> 0] /\ task = [t \in Task |-> "off"] /\ phase = "idle"
  BY DEF ForwarderInit, ScoreboardInit, Empty, WorkersOff
<1>2. QED
  BY <1>1, PixelFetchConstants
     DEF Accounts, ListsBounded, NothingPushed, EveryListedRuns, DoneHasPushedAll,
         PushedIsRegistered, EveryFileAccountedFor, FilesOf, File

(* Where no thread runs, there is little to account for.                   *)
LEMMA AccountsAtRest ==
    ASSUME phase' \notin {"fetching", "unwinding"}, \A t \in Task : pushed'[t] = 0,
           \A t \in Task : task'[t] = "off", ListsBounded', EveryFileAccountedFor'
    PROVE  Accounts'
BY DEF Accounts, NothingPushed, EveryListedRuns, DoneHasPushedAll, PushedIsRegistered,
       FilesOf, File

LEMMA RestingTasks ==
    ASSUME Inv, Accounts, phase \notin {"fetching", "unwinding"}
    PROVE  \A t \in Task : task[t] = "off" /\ pushed[t] = 0
BY DEF Inv, WorkersJoined, Accounts, NothingPushed

(* The handlers' own steps.                                                *)
LEMMA AccountsReceive ==
    ASSUME Inv, Accounts, Receive \/ Crash \/ \E i \in Image : Readout(i)
    PROVE  Accounts'
<1>1. CASE Receive
  <2>1. ASSUME phase = "idle", UNCHANGED workers, UNCHANGED locs,
               phase' \notin {"fetching", "unwinding"}, phase' = "formatting" => via' = "header"
        PROVE  Accounts'
    <3>1. ListsBounded'
      BY <2>1 DEF Accounts, ListsBounded
    <3>2. QED
      BY <2>1, <3>1, RestingTasks, AccountsAtRest DEF EveryFileAccountedFor
  <2>2. ASSUME NEW i \in Image, NEW t \in Target, NEW list \in Lists, XferParams(i, t, list)
        PROVE  Accounts'
    <3>1. phase = "idle" /\ phase' = "idle" /\ UNCHANGED workers
      BY <2>2 DEF XferParams, Taken
    <3>2. \/ locs' = locs
          \/ locs' = [locs EXCEPT ![i] = [l \in Location |-> @[l] + list[l]]]
      BY <2>2 DEF XferParams, AddXfer, ExecThrows
    <3>3. \A l \in Location : locs[i][l] + list[l] <= MaxCopies
      BY <2>2 DEF XferParams
    <3>4. locs \in [Image -> [Location -> Nat]]
      BY TypesSplit DEF Inv, ScoreboardTypeOK
    <3>5. ListsBounded'
      BY <3>2, <3>3, <3>4 DEF Accounts, ListsBounded
    <3>6. QED
      BY <3>1, <3>5, RestingTasks, AccountsAtRest DEF EveryFileAccountedFor
  <2>3. ASSUME NEW i \in Image, HeaderReady(i)
        PROVE  Accounts'
    <3>1. phase = "idle" /\ UNCHANGED workers /\ via' = "header"
      BY <2>3 DEF HeaderReady, Taken
    <3>2. phase' \in {"idle", "formatting"} /\ UNCHANGED locs
      BY <2>3 DEF HeaderReady, AddHeader, ExecThrows
    <3>3. QED
      BY <2>1, <3>1, <3>2
  <2>4. CASE Associated \/ \E i \in Image : EndReadout(i)
    BY <2>1, <2>4 DEF Associated, EndReadout, Taken
  <2>5. QED
    BY <1>1, <2>2, <2>3, <2>4 DEF Receive
<1>2. CASE Crash
  <2>1. /\ phase' = "idle" /\ locs' = [i \in Image |-> [l \in Location |-> 0]]
        /\ pushed' = [t \in Task |-> 0] /\ task' = [t \in Task |-> "off"]
    BY <1>2 DEF Crash, Flush, Empty, Launch
  <2>2. ListsBounded'
    BY <2>1, PixelFetchConstants DEF ListsBounded
  <2>3. QED
    BY <2>1, <2>2, AccountsAtRest DEF EveryFileAccountedFor
<1>3. CASE \E i \in Image : Readout(i)
  BY <1>3 DEF Readout, Accounts, ListsBounded, NothingPushed, EveryListedRuns, Listed,
     DoneHasPushedAll, PushedIsRegistered, EveryFileAccountedFor, FilesOf
<1>4. QED
  BY <1>1, <1>2, <1>3

LEMMA AccountsResting ==
    ASSUME Inv, Accounts,
           \/ SkipImage \/ MatchImage \/ BlockTimesOut \/ Format \/ SendFiles \/ SendFails
           \/ Cleanup \/ \E f \in File : Announce(f)
    PROVE  Accounts'
<1>1. phase \notin {"fetching", "unwinding"} /\ UNCHANGED workers
  BY DEF SkipImage, MatchImage, BlockTimesOut, Format, SendFiles, SendFails, Cleanup, Announce
<1>2. phase' \notin {"fetching", "unwinding", "formatting"}
  <2>1. CASE Format
    <3>1. PICK out \in [Ccds(cur) -> {"ok", "caught", "escaped"}] :
            phase' = "sending" \/ \E before \in SUBSET Caught(out) : Escape(before)
      BY <2>1 DEF Format
    <3>2. ASSUME NEW before \in SUBSET Caught(out), Escape(before)
          PROVE  phase' = "idle"
      BY <3>2 DEF Escape
    <3>3. QED
      BY <3>1, <3>2
  <2>2. CASE Cleanup
    BY <2>2 DEF Cleanup, Escape
  <2>3. QED
    BY <2>1, <2>2 DEF SkipImage, MatchImage, BlockTimesOut, SendFiles, SendFails, Announce
<1>3. ListsBounded'
  <2>1. CASE Remove(cur)
    BY <2>1, PixelFetchConstants DEF Remove, Accounts, ListsBounded
  <2>2. CASE UNCHANGED locs
    BY <2>2 DEF Accounts, ListsBounded
  <2>3. QED
    BY <2>1, <2>2 DEF SkipImage, MatchImage, BlockTimesOut, Format, SendFiles, SendFails,
       Cleanup, ExecThrows, Announce
<1>4. QED
  BY <1>1, <1>2, <1>3, RestingTasks, AccountsAtRest DEF EveryFileAccountedFor

(* Every listed location gets a task, or the handler does not get as far.  *)
LEMMA AccountsStart ==
    ASSUME Inv, Accounts, StartTasks
    PROVE  Accounts'
<1>1. UNCHANGED << cur, target, locs, hdr, ccds >> /\ phase = "starting"
  BY DEF StartTasks, ExecThrows
<1>2. ListsBounded'
  BY <1>1 DEF Accounts, ListsBounded
<1>3. CASE UNCHANGED workers /\ phase' = "idle"
  BY <1>1, <1>2, <1>3, RestingTasks, AccountsAtRest DEF EveryFileAccountedFor
<1>4. ASSUME NEW S \in SUBSET Task, Launch(S), phase' \in {"fetching", "unwinding"},
             phase' = "fetching" => S = Listed
      PROVE  Accounts'
  <2>1. Listed' = Listed
    BY <1>1 DEF Listed
  <2>2. /\ \A t \in Task : pushed'[t] = 0
        /\ \A t \in Task : task'[t] = IF t \in S THEN "fetching" ELSE "off"
    BY <1>4 DEF Launch
  <2>3. Listed \subseteq Task
    BY DEF Listed
  <2>4. QED
    BY <1>2, <1>4, <2>1, <2>2, <2>3
       DEF Accounts, NothingPushed, EveryListedRuns, DoneHasPushedAll, PushedIsRegistered,
           EveryFileAccountedFor, FilesOf, File
<1>5. QED
  BY <1>3, <1>4 DEF StartTasks, Listed

(* The threads: what is pushed is on the scoreboard, and done is all.      *)
LEMMA AccountsRun ==
    ASSUME Inv, Accounts, RunTasks
    PROVE  Accounts'
<1>1. FetchStep /\ UNCHANGED << phase, via, reports >> /\ phase \in {"fetching", "unwinding"}
  BY DEF RunTasks
<1>2. UNCHANGED << cur, target, locs, hdr >>
  BY <1>1 DEF FetchStep, FetchPixels, FetchFails, Register, RegisterFails, PushCcd,
              CheckFile, CreateFile, WritePixels, WriteFails
<1>3. /\ task \in [Task -> {"off", "fetching", "writing", "failed", "done"}]
      /\ pushed \in [Task -> 0 .. 3] /\ ccds \in [File -> Nat] /\ FetchTypes
  BY TypesSplit DEF Inv, ScoreboardTypeOK, PixelFetchTypeOK, FetchTypes
<1>4. EveryListedRuns'
  <2>1. \A t \in Task : task'[t] = "off" => task[t] = "off"
    BY <1>1, <1>3 DEF FetchStep, FetchPixels, FetchFails, Register, RegisterFails, CheckFile,
       CreateFile, WritePixels, WriteFails
  <2>2. Listed' = Listed /\ Listed \subseteq Task
    BY <1>2 DEF Listed
  <2>3. QED
    BY <1>1, <2>1, <2>2 DEF Accounts, EveryListedRuns
<1>5. ListsBounded' /\ NothingPushed' /\ EveryFileAccountedFor'
  BY <1>1, <1>2 DEF Accounts, ListsBounded, NothingPushed, EveryFileAccountedFor
<1>6. ASSUME NEW t \in Task, Register(t) \/ RegisterFails(t)
      PROVE  DoneHasPushedAll' /\ PushedIsRegistered'
  <2>1. /\ task[t] = "writing"
        /\ \A u \in Task : u # t => task'[u] = task[u] /\ pushed'[u] = pushed[u]
        /\ task'[t] = "done" => pushed'[t] = Sensors[t[1]]
    BY <1>3, <1>6 DEF Register, RegisterFails
  <2>2. DoneHasPushedAll'
    BY <2>1 DEF Accounts, DoneHasPushedAll
  <2>3. CASE UNCHANGED << pushed, ccds >>
    BY <1>2, <2>2, <2>3 DEF Accounts, PushedIsRegistered, FilesOf
  <2>4. CASE PushCcd(Path(Next2Push(t))) /\ pushed' = [pushed EXCEPT ![t] = @ + 1]
    <3>1. PICK g \in File : g = Path(Next2Push(t))
      BY <1>3, <2>1, NextWriter, PathIsFile DEF FetchTypes
    <3>2. g[1] = cur /\ g[2] = t[1] /\ g[3] = pushed[t]
      BY <3>1 DEF Path, Next2Push
    <3>3. ccds' = [ccds EXCEPT ![g] = @ + 1]
      BY <2>4, <3>1 DEF PushCcd
    <3>4. SUFFICES ASSUME NEW u \in Task, NEW f \in File, f[1] = cur, f[2] = u[1],
                          f[3] < pushed'[u]
                   PROVE  ccds'[f] > 0
      BY <1>2, <2>2 DEF PushedIsRegistered, FilesOf
    <3>5. CASE f[3] < pushed[u]
      BY <1>3, <3>3, <3>4, <3>5 DEF Accounts, PushedIsRegistered, FilesOf
    <3>6. CASE ~ (f[3] < pushed[u])
      <4>1. u = t /\ f[3] = pushed[t]
        BY <1>3, <2>4, <3>4, <3>6 DEF File
      <4>2. f = g
        BY <3>2, <3>4, <4>1 DEF File
      <4>3. QED
        BY <1>3, <3>3, <4>2
    <3>7. QED
      BY <3>5, <3>6
  <2>5. QED
    BY <1>6, <2>2, <2>3, <2>4 DEF Register, RegisterFails
<1>7. ASSUME UNCHANGED << pushed, ccds >>,
             \A t \in Task : task'[t] = "done" => task[t] = "done"
      PROVE  DoneHasPushedAll' /\ PushedIsRegistered'
  <2>1. pushed' = pushed /\ ccds' = ccds /\ FilesOf(cur)' = FilesOf(cur)
    BY <1>2, <1>7 DEF FilesOf
  <2>2. QED
    BY <1>7, <2>1 DEF Accounts, DoneHasPushedAll, PushedIsRegistered
<1>8. DoneHasPushedAll' /\ PushedIsRegistered'
  <2>1. ASSUME NEW t \in Task, FetchPixels(t) \/ FetchFails(t)
        PROVE  DoneHasPushedAll' /\ PushedIsRegistered'
    BY <1>3, <1>7, <2>1 DEF FetchPixels, FetchFails
  <2>2. ASSUME NEW w \in Writer,
               CheckFile(w) \/ CreateFile(w) \/ WritePixels(w) \/ WriteFails(w)
        PROVE  DoneHasPushedAll' /\ PushedIsRegistered'
    BY <1>7, <2>2 DEF CheckFile, CreateFile, WritePixels, WriteFails
  <2>3. QED
    BY <1>1, <1>6, <2>1, <2>2 DEF FetchStep
<1>9. QED
  BY <1>4, <1>5, <1>8 DEF Accounts

(* The get() loop: who is not done has failed and is reported.             *)
LEMMA AccountsJoin ==
    ASSUME "telemetry" \notin Faults, Inv, Accounts, Unwound \/ JoinTasks
    PROVE  Accounts'
<1>1. /\ phase' \in {"idle", "formatting"}
      /\ UNCHANGED << cur, via, target, locs, hdr, ccds >>
      /\ \A t \in Task : task'[t] = "off" /\ pushed'[t] = 0
  BY DEF Unwound, JoinTasks, Launch, ExecThrows
<1>2. ListsBounded'
  BY <1>1 DEF Accounts, ListsBounded
<1>3. EveryFileAccountedFor'
  <2>1. SUFFICES ASSUME phase' = "formatting", NEW f \in FilesOf(cur), locs[cur][f[2]] > 0
                 PROVE  ccds[f] > 0 \/ << 5611, f >> \in reports'
    BY <1>1 DEF EveryFileAccountedFor, FilesOf
  <2>2. phase = "fetching" /\ Quiet /\ Telemetry(NotFetched)
    BY <2>1 DEF Unwound, JoinTasks
  <2>3. f \in File /\ f[1] = cur /\ f[2] \in Location /\ f[3] \in Nat /\ f[3] < Sensors[f[2]]
    BY DEF FilesOf, File
  <2>4. cur \in Image /\ locs[cur][f[2]] \in Nat /\ locs[cur][f[2]] <= MaxCopies
    BY <2>3, TypesSplit DEF Inv, PixelFetchTypeOK, ScoreboardTypeOK, Accounts, ListsBounded
  <2>5. << f[2], 1 >> \in Listed
    BY <2>1, <2>3, <2>4, PixelFetchConstants DEF Listed, Task
  <2>6. PICK t \in Task : t[1] = f[2] /\ task[t] \in {"failed", "done"}
    BY <2>2, <2>5 DEF Accounts, EveryListedRuns, Quiet, Listed
  <2>7. CASE task[t] = "done"
    BY <2>3, <2>6, <2>7 DEF Accounts, DoneHasPushedAll, PushedIsRegistered
  <2>8. CASE task[t] = "failed"
    <3>1. << 5611, {g \in FilesOf(cur) : g[2] = t[1]} >> \in NotFetched
      BY <2>6, <2>8 DEF NotFetched
    <3>2. reports' = reports \cup UNION {{m[1]} \X m[2] : m \in NotFetched}
      BY <2>2 DEF Telemetry
    <3>3. << 5611, f >> \in {5611} \X {g \in FilesOf(cur) : g[2] = t[1]}
      BY <2>6
    <3>4. QED
      BY <3>1, <3>2, <3>3
  <2>9. QED
    BY <2>6, <2>7, <2>8
<1>4. QED
  BY <1>1, <1>2, <1>3, AccountsAtRest

(* No file of a readout gets lost between the request and assemble, unless *)
(* its report does: it is on the scoreboard, or was reported missing.      *)
THEOREM EveryFileIsAccountedFor ==
    ASSUME "telemetry" \notin Faults
    PROVE  Spec => []EveryFileAccountedFor
<1>1. Inv /\ Accounts /\ [ForwarderNext]_vars => Accounts'
  <2>1. CASE UNCHANGED vars
    BY <2>1 DEF vars, Accounts, ListsBounded, NothingPushed, EveryListedRuns, Listed,
       DoneHasPushedAll, PushedIsRegistered, EveryFileAccountedFor, FilesOf
  <2>2. QED
    BY <2>1, AccountsReceive, AccountsResting, AccountsStart, AccountsRun, AccountsJoin
       DEF ForwarderNext, Work
<1>2. Accounts => EveryFileAccountedFor
  BY DEF Accounts
<1>3. QED
  BY <1>1, <1>2, AccountsBegin, InvHolds, PTL DEF Spec

-----------------------------------------------------------------------------
(* In live mode an image comes off the stream once, so its files are       *)
(* written once when no location is listed twice.                          *)
OneReadout == Live /\ MaxCopies = 1

Pending == {stream[k] : k \in 1 .. Len(stream)}

(* What was registered, or is being fetched, will not come again.          *)
ReadOnce ==
    /\ \A k, l \in 1 .. Len(stream) : stream[k] = stream[l] => k = l
    /\ Pending \subseteq daq
    /\ \A f \in File : ccds[f] > 0 => f[1] \in daq \ Pending
    /\ phase \in {"starting", "fetching", "unwinding"} => cur \in daq \ Pending
    /\ phase = "starting" => \A f \in FilesOf(cur) : ccds[f] = 0

(* What a failure that nobody looks at makes of a file.                    *)
Unseen == {c \in {"damaged"} : "unseen" \in Faults}

OnDisk ==
    \A f \in File :
        /\ ccds[f] \in {0, 1}
        /\ ccds[f] = 1 => disk[f] \in {"pixels", "headed"} \cup Unseen

(* Each writer is alone on its file, and a task registers what is done.    *)
WritersKeep ==
    phase \in {"fetching", "unwinding"} =>
        /\ \A t \in Task : task[t] = "fetching" => pushed[t] = 0
        /\ \A w \in Writer :
             /\ writer[w] # "lost"
             /\ writer[w] = "done" => disk[Path(w)] \in {"pixels"} \cup Unseen
             /\ ccds[Path(w)] > 0 => w[2] < pushed[w[1]]
             /\ w[2] < pushed[w[1]] => writer[w] = "done"

(* The archive has what is about to be removed.                            *)
SentAsIs == phase = "announcing" => \A f \in Ccds(cur) : archive[target[cur]][f] = disk[f]

Custody == ReadOnce /\ OnDisk /\ WritersKeep /\ SentAsIs

(* What Inv says about the state that Custody relates.                     *)
LEMMA CustodyTypes ==
    ASSUME Inv
    PROVE  /\ cur \in Image /\ daq \subseteq Image /\ stream \in Seq(Image)
           /\ ccds \in [File -> Nat] /\ disk \in [File -> Content]
           /\ task \in [Task -> {"off", "fetching", "writing", "failed", "done"}]
           /\ pushed \in [Task -> 0 .. 3]
           /\ target \in [Image -> Target \cup {NoTarget}]
           /\ archive \in [Target -> [File -> Content]]
           /\ FetchTypes
BY TypesSplit DEF Inv, ScoreboardTypeOK, PixelFetchTypeOK, HandlerTypes, FetchTypes

LEMMA CustodyBegins == ForwarderInit => Custody
<1> SUFFICES ASSUME ForwarderInit PROVE Custody
  OBVIOUS
<1>1. ccds = [f \in File |-> 0] /\ stream = << >> /\ phase = "idle"
  BY DEF ForwarderInit, ScoreboardInit, Empty
<1>2. QED
  BY <1>1 DEF Custody, ReadOnce, Pending, OnDisk, WritersKeep, SentAsIs

(* Taking the first image off the stream.                                  *)
LEMMA TakenOff ==
    ASSUME Inv, Custody, stream # << >>, stream' = Tail(stream)
    PROVE  /\ \A k, l \in 1 .. Len(stream') : stream'[k] = stream'[l] => k = l
           /\ Pending' \subseteq Pending
           /\ Head(stream) \in Pending \ Pending'
<1>1. stream \in Seq(Image)
  BY CustodyTypes
<1>2. \A k, l \in 1 .. Len(stream) : stream[k] = stream[l] => k = l
  BY DEF Custody, ReadOnce
<1>3. Len(stream) \in Nat \ {0} /\ Head(stream) = stream[1]
  BY <1>1
<1>4. Len(stream') = Len(stream) - 1 /\ \A k \in 1 .. Len(stream') : stream'[k] = stream[k + 1]
  BY <1>1
<1>5. \A k, l \in 1 .. Len(stream') : stream'[k] = stream'[l] => k = l
  BY <1>2, <1>3, <1>4
<1>6. QED
  BY <1>2, <1>3, <1>4, <1>5 DEF Pending

(* An image read out is new to the stream.                                 *)
LEMMA PutOn ==
    ASSUME Inv, Custody, NEW i \in Image, i \notin daq, stream' = Append(stream, i)
    PROVE  /\ \A k, l \in 1 .. Len(stream') : stream'[k] = stream'[l] => k = l
           /\ Pending' = Pending \cup {i}
<1>1. stream \in Seq(Image)
  BY CustodyTypes
<1>2. /\ \A k, l \in 1 .. Len(stream) : stream[k] = stream[l] => k = l
      /\ \A k \in 1 .. Len(stream) : stream[k] # i
  BY DEF Custody, ReadOnce, Pending
<1>3. /\ Len(stream) \in Nat /\ Len(stream') = Len(stream) + 1
      /\ stream'[Len(stream) + 1] = i
      /\ \A k \in 1 .. Len(stream) : stream'[k] = stream[k]
  BY <1>1
<1>4. \A k, l \in 1 .. Len(stream') : stream'[k] = stream'[l] => k = l
  BY <1>2, <1>3
<1>5. QED
  BY <1>3, <1>4 DEF Pending

(* Handlers that touch neither files nor the stream.                       *)
LEMMA CustodyStays ==
    ASSUME Custody, UNCHANGED << daq, disk, ccds, stream >>,
           phase' \notin {"starting", "fetching", "unwinding", "announcing"}
    PROVE  Custody'
BY DEF Custody, ReadOnce, Pending, OnDisk, WritersKeep, SentAsIs

LEMMA CustodyReceive ==
    ASSUME OneReadout, Inv, Custody, Receive
    PROVE  Custody'
<1>1. ASSUME NEW i \in Image, NEW t \in Target, NEW list \in Lists, XferParams(i, t, list)
      PROVE  Custody'
  <2>1. UNCHANGED << daq, disk, stream >> /\ phase' = "idle"
    BY <1>1 DEF XferParams, Taken
  <2>2. ccds' = ccds
    BY <1>1 DEF XferParams, AddXfer, ExecThrows
  <2>3. QED
    BY <2>1, <2>2, CustodyStays
<1>2. ASSUME NEW i \in Image, HeaderReady(i)
      PROVE  Custody'
  <2>1. UNCHANGED << daq, disk, stream >> /\ phase' \in {"idle", "formatting"}
    BY <1>2 DEF HeaderReady, Taken
  <2>2. ccds' = ccds
    BY <1>2 DEF HeaderReady, AddHeader, ExecThrows
  <2>3. QED
    BY <2>1, <2>2, CustodyStays
<1>3. ASSUME NEW i \in Image, EndReadout(i)
      PROVE  Custody'
  BY <1>3, CustodyStays DEF OneReadout, EndReadout, Taken
<1>4. CASE Associated
  <2>1. UNCHANGED << daq, disk, ccds >> /\ phase' = "idle"
    BY <1>4 DEF Associated, Taken
  <2>2. CASE stream' = stream
    BY <2>1, <2>2, CustodyStays
  <2>3. CASE stream' = << >>
    BY <2>1, <2>3 DEF Custody, ReadOnce, Pending, OnDisk, WritersKeep, SentAsIs
  <2>4. QED
    BY <1>4, <2>2, <2>3 DEF Associated
<1>5. QED
  BY <1>1, <1>2, <1>3, <1>4 DEF Receive

LEMMA CustodyBlock ==
    ASSUME Inv, Custody,
           SkipImage \/ MatchImage \/ BlockTimesOut \/ \E i \in Image : Readout(i)
    PROVE  Custody'
<1>1. CASE BlockTimesOut
  BY <1>1, CustodyStays DEF BlockTimesOut
<1>2. CASE SkipImage \/ MatchImage
  <2>1. /\ phase' \in {"blocking", "idle"} \/ (phase' = "starting" /\ Head(stream) = cur)
        /\ stream # << >> /\ stream' = Tail(stream)
        /\ UNCHANGED << cur, daq, disk, ccds >>
    BY <1>2 DEF SkipImage, MatchImage
  <2>2. /\ \A k, l \in 1 .. Len(stream') : stream'[k] = stream'[l] => k = l
        /\ Pending' \subseteq Pending
        /\ Head(stream) \in Pending \ Pending'
    BY <2>1, TakenOff
  <2>3. phase' = "starting" => /\ cur \in daq \ Pending'
                               /\ \A f \in FilesOf(cur) : ccds[f] = 0
    BY <2>1, <2>2, CustodyTypes DEF Custody, ReadOnce, FilesOf, OnDisk
  <2>4. ReadOnce'
    <3>1. FilesOf(cur)' = FilesOf(cur)
      BY <2>1 DEF FilesOf
    <3>2. QED
      BY <2>1, <2>2, <2>3, <3>1 DEF Custody, ReadOnce
  <2>5. QED
    BY <2>1, <2>4 DEF Custody, OnDisk, WritersKeep, SentAsIs
<1>3. ASSUME NEW i \in Image, Readout(i)
      PROVE  Custody'
  <2>1. /\ i \notin daq /\ daq' = daq \cup {i} /\ stream' = Append(stream, i)
        /\ UNCHANGED << cur, task, pushed, writer, disk, target, ccds, phase, archive >>
    BY <1>3 DEF Readout
  <2>2. /\ \A k, l \in 1 .. Len(stream') : stream'[k] = stream'[l] => k = l
        /\ Pending' = Pending \cup {i}
    BY <2>1, PutOn
  <2>3. FilesOf(cur)' = FilesOf(cur) /\ Ccds(cur)' = Ccds(cur)
        /\ \A w \in Writer : Path(w)' = Path(w)
    BY <2>1 DEF FilesOf, Ccds, Path
  <2>4. ReadOnce'
    BY <2>1, <2>2, <2>3 DEF Custody, ReadOnce
  <2>5. QED
    BY <2>1, <2>3, <2>4 DEF Custody, OnDisk, WritersKeep, SentAsIs
<1>4. QED
  BY <1>1, <1>2, <1>3

LEMMA CustodyStart ==
    ASSUME Inv, Custody, StartTasks
    PROVE  Custody'
<1>1. /\ UNCHANGED << cur, daq, disk, ccds, stream >> /\ phase = "starting"
      /\ \/ phase' = "idle"
         \/ \E S \in SUBSET Task : Launch(S) /\ phase' \in {"fetching", "unwinding"}
  BY DEF StartTasks, ExecThrows, Listed
<1>2. CASE phase' = "idle"
  BY <1>1, <1>2, CustodyStays
<1>3. ASSUME NEW S \in SUBSET Task, Launch(S), phase' \in {"fetching", "unwinding"}
      PROVE  Custody'
  <2>1. ReadOnce' /\ OnDisk' /\ SentAsIs'
    BY <1>1, <1>3 DEF Custody, ReadOnce, Pending, OnDisk, SentAsIs
  <2>2. /\ \A t \in Task : pushed'[t] = 0
        /\ \A w \in Writer : writer'[w] = "off"
    BY <1>3 DEF Launch
  <2>3. \A w \in Writer : Path(w)' = Path(w) /\ Path(w) \in FilesOf(cur)
    BY <1>1, CustodyTypes, PathIsFile DEF FetchTypes, FilesOf, Path
  <2>4. \A w \in Writer : ccds'[Path(w)'] = 0
    BY <1>1, <2>3 DEF Custody, ReadOnce
  <2>5. \A w \in Writer : w[1] \in Task /\ w[2] \in Nat
    BY WriterHasTask
  <2>6. WritersKeep'
    BY <2>2, <2>4, <2>5 DEF WritersKeep
  <2>7. QED
    BY <2>1, <2>6 DEF Custody
<1>4. QED
  BY <1>1, <1>2, <1>3

(* A location that is listed once has one writer for each of its files.    *)
LEMMA OneWriter ==
    ASSUME OneReadout, NEW v \in Writer, NEW w \in Writer, Path(v) = Path(w)
    PROVE  v = w
<1>1. v[1] = << v[1][1], 1 >> /\ w[1] = << w[1][1], 1 >>
  BY DEF OneReadout, Writer, Task
<1>2. v[1][1] = w[1][1] /\ v[2] = w[2]
  BY SamePath
<1>3. QED
  BY <1>1, <1>2, WriterHasTask

(* One step of a writer, with the file it works on.                        *)
LEMMA CustodyWriter ==
    ASSUME OneReadout, Inv, Custody, phase \in {"fetching", "unwinding"},
           UNCHANGED << phase, cur, daq, stream, task, pushed, ccds >>,
           NEW w \in Writer,
           CheckFile(w) \/ CreateFile(w) \/ WritePixels(w) \/ WriteFails(w)
    PROVE  Custody'
<1>1. /\ disk \in [File -> Content] /\ ccds \in [File -> Nat] /\ Path(w) \in File
      /\ \A v \in Writer : Path(v) \in File /\ Path(v)' = Path(v)
  BY CustodyTypes, PathIsFile DEF FetchTypes, Path
<1>2. writer[w] \notin {"done", "lost"}
  BY DEF CheckFile, CreateFile, WritePixels, WriteFails, Custody, WritersKeep
<1>3. /\ \A v \in Writer : v # w => writer'[v] = writer[v]
      /\ \A f \in File : f # Path(w) => disk'[f] = disk[f]
      /\ writer'[w] # "lost"
      /\ writer'[w] = "done" => disk'[Path(w)] \in {"pixels"} \cup Unseen
  <2>1. \A v \in Writer : v # w => Path(v) # Path(w)
    BY OneWriter
  <2>2. CASE CheckFile(w)
    BY <1>1, <2>1, <2>2 DEF CheckFile
  <2>3. writer \in [Writer -> {"off", "ready", "checked", "open", "lost", "done",
                               "failed", "refused"}]
    BY CustodyTypes DEF FetchTypes, PixelFetchTypeOK
  <2>4. CASE CreateFile(w) \/ WritePixels(w) \/ WriteFails(w)
    BY <1>1, <1>2, <2>3, <2>4 DEF CreateFile, WritePixels, WriteFails, Unseen
  <2>5. QED
    BY <2>2, <2>4
<1>4. ~ (w[2] < pushed[w[1]]) /\ ~ (ccds[Path(w)] > 0)
  BY <1>2 DEF Custody, WritersKeep
<1>5. OnDisk'
  BY <1>1, <1>3, <1>4 DEF Custody, OnDisk
<1>6. WritersKeep'
  <2>1. \A v \in Writer : v # w => Path(v) # Path(w)
    BY OneWriter
  <2>2. \A v \in Writer : v # w => disk'[Path(v)] = disk[Path(v)]
    BY <1>1, <1>3, <2>1
  <2>3. QED
    BY <1>1, <1>3, <1>4, <2>2 DEF Custody, WritersKeep
<1>7. QED
  BY <1>5, <1>6 DEF Custody, ReadOnce, Pending, FilesOf, SentAsIs

(* One step of a task, with the file it registers.                         *)
LEMMA CustodyTask ==
    ASSUME OneReadout, Inv, Custody, phase \in {"fetching", "unwinding"},
           UNCHANGED << phase, cur, daq, stream >>, NEW t \in Task,
           FetchPixels(t) \/ FetchFails(t) \/ Register(t) \/ RegisterFails(t)
    PROVE  Custody'
<1>1. /\ disk \in [File -> Content] /\ ccds \in [File -> Nat] /\ disk' = disk
      /\ task \in [Task -> {"off", "fetching", "writing", "failed", "done"}]
      /\ pushed \in [Task -> 0 .. 3] /\ FetchTypes
      /\ \A v \in Writer : Path(v) \in File /\ Path(v)' = Path(v) /\ Path(v)[1] = cur
  BY CustodyTypes, PathIsFile
     DEF FetchTypes, Path, FetchPixels, FetchFails, Register, RegisterFails
<1>2. CASE FetchPixels(t) \/ FetchFails(t)
  <2>1. UNCHANGED << pushed, ccds >> /\ \A u \in Task : task'[u] = "fetching" => task[u] = "fetching"
    BY <1>1, <1>2 DEF FetchPixels, FetchFails
  <2>2. \A w \in Writer : writer'[w] = writer[w] \/ (writer'[w] = "ready" /\ w[1] = t)
    BY <1>2 DEF FetchPixels, FetchFails
  <2>3. task[t] = "fetching" /\ pushed[t] = 0
    BY <1>2 DEF FetchPixels, FetchFails, Custody, WritersKeep
  <2>4. \A w \in Writer : w[1] \in Task /\ w[2] \in Nat
    BY WriterHasTask
  <2>5. WritersKeep'
    BY <1>1, <2>1, <2>2, <2>3, <2>4 DEF Custody, WritersKeep
  <2>6. QED
    BY <1>1, <2>1, <2>5 DEF Custody, ReadOnce, Pending, OnDisk, FilesOf, SentAsIs
<1>3. CASE Register(t) \/ RegisterFails(t)
  <2>1. /\ task[t] = "writing" /\ writer' = writer
        /\ \A u \in Task : task'[u] = "fetching" => task[u] = "fetching" /\ u # t
    BY <1>1, <1>3 DEF Register, RegisterFails
  <2>2. CASE UNCHANGED << pushed, ccds >>
    <3>1. WritersKeep'
      BY <1>1, <2>1, <2>2 DEF Custody, WritersKeep
    <3>2. OnDisk'
      BY <1>1, <2>2 DEF Custody, OnDisk
    <3>3. QED
      BY <1>1, <2>2, <3>1, <3>2 DEF Custody, ReadOnce, Pending, FilesOf, SentAsIs
  <2>3. CASE /\ writer[Next2Push(t)] = "done" /\ PushCcd(Path(Next2Push(t)))
             /\ pushed' = [pushed EXCEPT ![t] = @ + 1]
    <3>1. PICK w \in Writer : w = Next2Push(t)
      BY <1>1, <2>1, NextWriter
    <3>2. /\ writer[w] = "done" /\ w[1] = t /\ w[2] = pushed[t]
          /\ ccds' = [ccds EXCEPT ![Path(w)] = @ + 1]
          /\ pushed'[t] = pushed[t] + 1
          /\ \A u \in Task : u # t => pushed'[u] = pushed[u]
      BY <1>1, <2>3, <3>1 DEF Next2Push, PushCcd
    <3>3. pushed[t] \in Nat /\ ~ (w[2] < pushed[w[1]])
      BY <1>1, <3>2
    <3>4. ccds[Path(w)] = 0 /\ disk[Path(w)] \in {"pixels"} \cup Unseen
      BY <1>1, <3>2, <3>3 DEF Custody, WritersKeep
    <3>5. /\ ccds'[Path(w)] = 1
          /\ \A f \in File : f # Path(w) => ccds'[f] = ccds[f]
      BY <1>1, <3>2, <3>4
    <3>6. OnDisk'
      BY <1>1, <3>4, <3>5 DEF Custody, OnDisk
    <3>7. ReadOnce'
      <4>1. ReadOnce /\ Pending' = Pending
        BY DEF Custody, Pending
      <4>2. cur \in daq \ Pending /\ Path(w)[1] = cur
        BY <1>1, <4>1 DEF ReadOnce
      <4>3. \A f \in File : ccds'[f] > 0 => f[1] \in daq \ Pending
        BY <3>5, <4>1, <4>2 DEF ReadOnce
      <4>4. QED
        BY <4>1, <4>2, <4>3 DEF ReadOnce
    <3>8. WritersKeep'
      <4>1. \A u \in Task : task'[u] = "fetching" => pushed'[u] = 0
        BY <2>1, <3>2 DEF Custody, WritersKeep
      <4>2. ASSUME NEW v \in Writer
            PROVE  /\ ccds'[Path(v)] > 0 => v[2] < pushed'[v[1]]
                   /\ v[2] < pushed'[v[1]] => writer[v] = "done"
        <5>1. v[1] \in Task /\ v[2] \in Nat /\ v = << v[1], v[2] >>
          BY WriterHasTask
        <5>2. CASE v = w
          BY <3>2, <3>3, <5>2
        <5>3. CASE v # w /\ v[1] # t
          <6>1. Path(v) # Path(w)
            BY <5>3, OneWriter
          <6>2. QED
            BY <1>1, <3>2, <3>5, <5>1, <5>3, <6>1 DEF Custody, WritersKeep
        <5>4. CASE v # w /\ v[1] = t
          <6>1. Path(v) # Path(w)
            BY <5>4, OneWriter
          <6>2. v[2] # pushed[t]
            BY <3>1, <5>1, <5>4 DEF Next2Push
          <6>3. v[2] < pushed'[t] <=> v[2] < pushed[t]
            BY <3>2, <3>3, <5>1, <6>2
          <6>4. QED
            BY <1>1, <3>5, <5>4, <6>1, <6>3 DEF Custody, WritersKeep
        <5>5. QED
          BY <5>2, <5>3, <5>4
      <4>3. QED
        BY <1>1, <2>1, <4>1, <4>2 DEF Custody, WritersKeep
    <3>9. QED
      BY <3>6, <3>7, <3>8 DEF Custody, SentAsIs
  <2>4. QED
    BY <1>3, <2>2, <2>3 DEF Register, RegisterFails
<1>4. QED
  BY <1>2, <1>3

LEMMA CustodyRun ==
    ASSUME OneReadout, Inv, Custody, RunTasks
    PROVE  Custody'
<1>1. FetchStep /\ phase \in {"fetching", "unwinding"} /\ UNCHANGED << phase, stream >>
  BY DEF RunTasks
<1>2. ASSUME NEW w \in Writer, CheckFile(w) \/ CreateFile(w) \/ WritePixels(w) \/ WriteFails(w)
      PROVE  Custody'
  <2>1. UNCHANGED << cur, daq, task, pushed, ccds >>
    BY <1>2 DEF CheckFile, CreateFile, WritePixels, WriteFails
  <2>2. QED
    BY <1>1, <1>2, <2>1, CustodyWriter
<1>3. ASSUME NEW t \in Task,
             FetchPixels(t) \/ FetchFails(t) \/ Register(t) \/ RegisterFails(t)
      PROVE  Custody'
  <2>1. UNCHANGED << cur, daq >>
    BY <1>3 DEF FetchPixels, FetchFails, Register, RegisterFails
  <2>2. QED
    BY <1>1, <1>3, <2>1, CustodyTask
<1>4. QED
  BY <1>1, <1>2, <1>3 DEF FetchStep

LEMMA CustodyJoin ==
    ASSUME Custody, Unwound \/ JoinTasks
    PROVE  Custody'
<1>1. UNCHANGED << daq, disk, ccds, stream >> /\ phase' \in {"idle", "formatting"}
  BY DEF Unwound, JoinTasks, ExecThrows
<1>2. QED
  BY <1>1, CustodyStays

(* Formatting makes no registered file worse than it was.                  *)
LEMMA CustodyFormat ==
    ASSUME Inv, Custody, Format
    PROVE  Custody'
<1>1. UNCHANGED << cur, daq, ccds, stream >> /\ phase' \in {"idle", "sending"}
  <2>1. PICK out \in [Ccds(cur) -> {"ok", "caught", "escaped"}] :
          phase' = "sending" \/ \E before \in SUBSET Caught(out) : Escape(before)
    BY DEF Format
  <2>2. ASSUME NEW before \in SUBSET Caught(out), Escape(before)
        PROVE  phase' = "idle"
    BY <2>2 DEF Escape
  <2>3. QED
    BY <2>1, <2>2 DEF Format
<1>2. PICK out \in [Ccds(cur) -> {"ok", "caught", "escaped"}],
           content \in [Ccds(cur) -> Content] :
        /\ \A f \in Ccds(cur) : FormatOutcome(f, out[f], content[f])
        /\ disk' = [f \in File |-> IF f \in Ccds(cur) THEN content[f] ELSE disk[f]]
  BY DEF Format
<1>3. OnDisk'
  <2>1. SUFFICES ASSUME NEW f \in File, ccds[f] = 1
                 PROVE  disk'[f] \in {"pixels", "headed"} \cup Unseen
    BY <1>1 DEF Custody, OnDisk
  <2>2. disk[f] \in {"pixels", "headed"} \cup Unseen
    BY <2>1 DEF Custody, OnDisk
  <2>3. CASE f \in Ccds(cur)
    <3>1. FormatOutcome(f, out[f], content[f]) /\ disk'[f] = content[f]
      BY <1>2, <2>3
    <3>2. content[f] \in {"headed", disk[f]} \cup Unseen
      BY <2>1, <2>2, <3>1 DEF FormatOutcome, Unlooked, Unseen
    <3>3. QED
      BY <2>2, <3>1, <3>2
  <2>4. CASE f \notin Ccds(cur)
    BY <1>2, <2>2, <2>4
  <2>5. QED
    BY <2>3, <2>4
<1>4. QED
  BY <1>1, <1>3 DEF Custody, ReadOnce, Pending, WritersKeep, SentAsIs

LEMMA CustodySend ==
    ASSUME Inv, Custody, SendFiles \/ SendFails \/ \E f \in File : Announce(f)
    PROVE  Custody'
<1>1. CASE SendFails
  BY <1>1, CustodyStays DEF SendFails
<1>2. CASE SendFiles
  <2>1. UNCHANGED << cur, daq, disk, target, ccds, stream >> /\ phase' = "announcing"
    BY <1>2 DEF SendFiles
  <2>2. target[cur] \in Target /\ archive \in [Target -> [File -> Content]]
    BY <1>2, CustodyTypes DEF SendFiles, Inv, Assembling
  <2>3. Copy(Ccds(cur), {}) /\ Ccds(cur) \subseteq File
    BY <1>2 DEF SendFiles, Ccds, FilesOf
  <2>4. \A f \in Ccds(cur) : archive'[target[cur]][f] = disk[f]
    BY <2>2, <2>3 DEF Copy
  <2>5. Ccds(cur)' = Ccds(cur)
    BY <2>1 DEF Ccds, FilesOf
  <2>6. QED
    BY <2>1, <2>4, <2>5 DEF Custody, ReadOnce, Pending, OnDisk, WritersKeep, SentAsIs
<1>3. ASSUME NEW f \in File, Announce(f)
      PROVE  Custody'
  <2>1. UNCHANGED << cur, daq, disk, target, ccds, stream, phase, archive >>
        /\ phase = "announcing"
    BY <1>3 DEF Announce
  <2>2. Ccds(cur)' = Ccds(cur)
    BY <2>1 DEF Ccds, FilesOf
  <2>3. QED
    BY <2>1, <2>2 DEF Custody, ReadOnce, Pending, OnDisk, WritersKeep, SentAsIs
<1>4. QED
  BY <1>1, <1>2, <1>3

LEMMA CustodyCleanup ==
    ASSUME Inv, Custody, Cleanup
    PROVE  Custody'
<1>1. UNCHANGED << daq, stream >> /\ phase' = "idle"
  BY DEF Cleanup, Escape
<1>2. CASE ExecThrows /\ disk' = disk
  BY <1>1, <1>2, CustodyStays DEF ExecThrows
<1>3. CASE /\ Remove(cur)
           /\ disk' = [f \in File |-> IF f \in Ccds(cur) THEN "absent" ELSE disk[f]]
  <2>1. cur \in Prefixed[cur]
    BY CustodyTypes, ScoreboardConstants
  <2>2. \A f \in File : ccds'[f] = IF f[1] \in Prefixed[cur] THEN 0 ELSE ccds[f]
    BY <1>3 DEF Remove
  <2>3. \A f \in Ccds(cur) : f[1] = cur
    BY DEF Ccds, FilesOf
  <2>4. \A f \in File : ccds'[f] # 0 => ccds'[f] = ccds[f] /\ disk'[f] = disk[f]
    BY <1>3, <2>1, <2>2, <2>3
  <2>5. OnDisk'
    BY <2>2, <2>4 DEF Custody, OnDisk
  <2>6. QED
    BY <1>1, <2>2, <2>5 DEF Custody, ReadOnce, Pending, WritersKeep, SentAsIs
<1>4. QED
  BY <1>2, <1>3 DEF Cleanup

LEMMA CustodyCrash ==
    ASSUME Custody, Crash
    PROVE  Custody'
<1>1. ccds' = [f \in File |-> 0] /\ stream' = << >> /\ phase' = "idle"
  BY DEF Crash, Flush, Empty
<1>2. QED
  BY <1>1 DEF Custody, ReadOnce, Pending, OnDisk, WritersKeep, SentAsIs

LEMMA CustodyStep ==
    ASSUME OneReadout, Inv, Custody, [ForwarderNext]_vars
    PROVE  Custody'
<1>1. CASE UNCHANGED vars
  BY <1>1 DEF vars, Custody, ReadOnce, Pending, FilesOf, OnDisk, WritersKeep, Path, SentAsIs, Ccds
<1>2. QED
  BY <1>1, CustodyReceive, CustodyBlock, CustodyStart, CustodyRun, CustodyJoin, CustodyFormat,
     CustodySend, CustodyCleanup, CustodyCrash DEF ForwarderNext, Work

LEMMA CustodyHolds ==
    ASSUME OneReadout
    PROVE  Spec => []Custody
<1>1. Inv /\ Custody /\ [ForwarderNext]_vars => Custody'
  BY CustodyStep
<1>2. QED
  BY <1>1, CustodyBegins, InvHolds, PTL DEF Spec

(* assemble opens no file that is missing, or whose writing or closing was *)
(* seen to fail, whatever failed: in live mode, with every location listed *)
(* once.  A file that cfitsio damaged where the code does not look (the    *)
(* close, FitsOpener.cpp:75-77) it does open.                              *)
THEOREM RegisteredFilesAreOnDisk ==
    ASSUME OneReadout
    PROVE  Spec => []RegisteredAreOnDisk
<1>1. Custody => RegisteredAreOnDisk
  BY DEF Custody, OnDisk, RegisteredAreOnDisk, Unseen, Damaged
<1>2. QED
  BY <1>1, CustodyHolds, PTL

(* Every message begins with the consumer.                                 *)
LEMMA ReceiveTakes == Receive => Taken
<1>1. ASSUME NEW i \in Image, NEW t \in Target, NEW list \in Lists, XferParams(i, t, list)
      PROVE  Taken
  BY <1>1 DEF XferParams
<1>2. ASSUME NEW i \in Image, HeaderReady(i)
      PROVE  Taken
  BY <1>2 DEF HeaderReady
<1>3. ASSUME NEW i \in Image, EndReadout(i)
      PROVE  Taken
  BY <1>3 DEF EndReadout
<1>4. Associated => Taken
  BY DEF Associated
<1>5. QED
  BY <1>1, <1>2, <1>3, <1>4 DEF Receive

(* What removes the local copy of a registered file.                       *)
LEMMA LocalCopyStep ==
    ASSUME OneReadout, Inv, Custody, [ForwarderNext]_vars,
           NEW f \in File, ccds[f] > 0, disk[f] # "absent", disk'[f] = "absent"
    PROVE  archive[target[f[1]]][f] = disk[f]
<1>1. ~ (ccds'[f] > 0)
  <2>1. Custody'
    BY CustodyStep
  <2>2. QED
    BY <2>1 DEF Custody, OnDisk, Unseen
<1>2. CASE Cleanup
  <2>1. phase = "announcing" /\ f \in Ccds(cur)
    BY <1>2 DEF Cleanup
  <2>2. f[1] = cur
    BY <2>1 DEF Ccds, FilesOf
  <2>3. QED
    BY <2>1, <2>2 DEF Custody, SentAsIs
<1>3. ASSUME NEW t \in Task, PushCcd(Path(Next2Push(t)))
      PROVE  FALSE
  BY <1>1, <1>3, CustodyTypes DEF PushCcd
<1>4. CASE RunTasks
  <2>1. ccds' = ccds
    BY <1>3, <1>4 DEF RunTasks, FetchStep, FetchPixels, FetchFails, Register, RegisterFails,
       CheckFile, CreateFile, WritePixels, WriteFails
  <2>2. QED
    BY <1>1, <2>1
<1>5. disk' # disk /\ ccds' # ccds
  BY <1>1
<1>6. ~ Receive
  <2>1. Receive => Taken
    BY ReceiveTakes
  <2>2. QED
    BY <1>5, <2>1 DEF Taken
<1>7. ~ Crash /\ ~ UNCHANGED vars /\ \A i \in Image : ~ Readout(i)
  BY <1>5 DEF Crash, vars, Readout
<1>8. CASE Work
  BY <1>2, <1>4, <1>5, <1>8 DEF Work, SkipImage, MatchImage, BlockTimesOut, StartTasks, Unwound,
     JoinTasks, Format, SendFiles, SendFails, Announce, ExecThrows
<1>9. QED
  BY <1>6, <1>7, <1>8 DEF ForwarderNext

(* The last complete copy of a file leaves the forwarder only when the     *)
(* archive has one: in live mode, with every location listed once.         *)
THEOREM LocalCopyOutlives ==
    ASSUME OneReadout
    PROVE  Spec => LocalCopyOutlivesTransfer
<1>1. Inv /\ Custody /\ [ForwarderNext]_vars =>
        [\A f \in File :
           (ccds[f] > 0 /\ disk[f] # "absent" /\ disk'[f] = "absent") =>
              archive[target[f[1]]][f] = disk[f]]_vars
  BY LocalCopyStep
<1>2. QED
  BY <1>1, CustodyHolds, InvHolds, PTL DEF Spec, LocalCopyOutlivesTransfer

-----------------------------------------------------------------------------
(* Who is told of a file, and when: its image has been read out and will   *)
(* not be again, and the file is off the scoreboard or on its way off.     *)
Past(i) == i \in daq \ Pending /\ (phase \in {"starting", "fetching", "unwinding"} => cur # i)

ToldOnce ==
    \A x \in told :
        /\ archive[x[1]][x[2]] \in {"headed"} \cup Unseen \/ Reported(x[2])
        /\ Past(x[2][1])
        /\ ccds[x[2]] > 0 => link = "dead" \/ (phase = "announcing" /\ cur = x[2][1])

HeadersIn ==
    phase \in {"sending", "announcing"} =>
        \A f \in Ccds(cur) : disk[f] \in {"headed"} \cup Unseen \/ Reported(f)

AssemblesWithLink == phase \in {"formatting", "sending", "announcing"} => link = "up"

Intact == ToldOnce /\ HeadersIn /\ AssemblesWithLink

(* Without lost telemetry every report arrives, and none is taken back.    *)
LEMMA ReportsArrive ==
    ASSUME "telemetry" \notin Faults, NEW about, Telemetry(about)
    PROVE  /\ reports \subseteq reports'
           /\ \A m \in about : \A f \in m[2] : Reported(f)'
<1>1. reports' = reports \cup UNION {{m[1]} \X m[2] : m \in about}
  BY DEF Telemetry
<1>2. ASSUME NEW m \in about, NEW f, f \in m[2]
      PROVE  Reported(f)'
  <2>1. << m[1], f >> \in {m[1]} \X m[2]
    BY <1>2
  <2>2. << m[1], f >> \in reports'
    BY <1>1, <2>1
  <2>3. QED
    BY <2>2 DEF Reported
<1>3. QED
  BY <1>1, <1>2

LEMMA TelemetryAdds ==
    ASSUME NEW about \in SUBSET Notice, Telemetry(about)
    PROVE  reports \subseteq reports'
<1>1. PICK said \in SUBSET Notice :
        reports' = reports \cup UNION {{m[1]} \X m[2] : m \in said}
  BY DEF Telemetry
<1>2. QED
  BY <1>1

(* ... nor does an exception that leaves a handler take one back.          *)
LEMMA EscapeAdds ==
    ASSUME NEW about \in SUBSET Notice, Escape(about)
    PROVE  reports \subseteq reports'
<1>1. << 5610, FilesOf(cur) >> \in Notice
  BY DEF Notice, FilesOf
<1>2. PICK more \in SUBSET Notice : Telemetry(more)
  BY <1>1 DEF Escape
<1>3. QED
  BY <1>2, TelemetryAdds

(* Nothing that was reported is forgotten.                                 *)
LEMMA ReportsStay ==
    ASSUME [ForwarderNext]_vars
    PROVE  \A f \in File : Reported(f) => Reported(f)'
<1> SUFFICES reports \subseteq reports'
  BY DEF Reported
<1>1. CASE Receive
  <2>1. ASSUME NEW i \in Image, HeaderReady(i)
        PROVE  reports \subseteq reports'
    <3>1. {<< 5610, FilesOf(i) >>} \in SUBSET Notice
      BY DEF FilesOf, Notice
    <3>2. Telemetry({<< 5610, FilesOf(i) >>}) => reports \subseteq reports'
      BY <3>1, TelemetryAdds
    <3>3. QED
      BY <2>1, <3>2 DEF HeaderReady
  <2>2. QED
    BY <1>1, <2>1 DEF Receive, XferParams, EndReadout, Associated
<1>2. CASE JoinTasks
  <2>1. NotFetched \in SUBSET Notice
    BY DEF NotFetched, FilesOf, Notice
  <2>2. Telemetry(NotFetched) => reports \subseteq reports'
    BY <2>1, TelemetryAdds
  <2>3. QED
    BY <1>2, <2>2 DEF JoinTasks
<1>3. CASE Format
  <2>1. PICK out \in [Ccds(cur) -> {"ok", "caught", "escaped"}] :
          Telemetry(Caught(out)) \/ \E before \in SUBSET Caught(out) : Escape(before)
    BY <1>3 DEF Format
  <2>2. Caught(out) \in SUBSET Notice
    BY DEF Caught, Notice, Ccds, FilesOf
  <2>3. Telemetry(Caught(out)) => reports \subseteq reports'
    BY <2>2, TelemetryAdds
  <2>4. ASSUME NEW before \in SUBSET Caught(out), Escape(before)
        PROVE  reports \subseteq reports'
    BY <2>2, <2>4, EscapeAdds
  <2>5. QED
    BY <2>1, <2>3, <2>4
<1>4. CASE SendFails
  <2>1. {<< 5612, FilesOf(cur) >>} \in SUBSET Notice
    BY DEF Notice, FilesOf
  <2>2. Telemetry({<< 5612, FilesOf(cur) >>}) => reports \subseteq reports'
    BY <2>1, TelemetryAdds
  <2>3. QED
    BY <1>4, <2>2 DEF SendFails
<1>5. CASE Cleanup
  <2>1. {} \in SUBSET Notice
    OBVIOUS
  <2>2. Escape({}) => reports \subseteq reports'
    BY <2>1, EscapeAdds
  <2>3. QED
    BY <1>5, <2>2 DEF Cleanup
<1>6. CASE Work
  BY <1>2, <1>3, <1>4, <1>5, <1>6 DEF Work, SkipImage, MatchImage, BlockTimesOut, StartTasks,
     RunTasks, Unwound, SendFiles, Announce
<1>7. QED
  BY <1>1, <1>6 DEF ForwarderNext, Crash, Readout, vars

LEMMA IntactBegins == ForwarderInit => Intact
<1> SUFFICES ASSUME ForwarderInit PROVE Intact
  OBVIOUS
<1>1. told = {} /\ phase = "idle"
  BY DEF ForwarderInit
<1>2. QED
  BY <1>1 DEF Intact, ToldOnce, HeadersIn, AssemblesWithLink

(* A step that tells and sends nothing, and lets no image come again.      *)
LEMMA ToldStays ==
    ASSUME "telemetry" \notin Faults, Inv, Intact, [ForwarderNext]_vars,
           UNCHANGED << told, archive >>,
           \A i \in daq \ Pending : i \in daq' \ Pending',
           phase' \in {"starting", "fetching", "unwinding"} =>
               cur' = cur /\ (phase \in {"starting", "fetching", "unwinding"} \/ cur \in Pending),
           \A f \in File : ccds'[f] > 0 => ccds[f] > 0 \/ ~ Past(f[1]),
           link = "dead" => (link' = "dead" \/ \A f \in File : ~ (ccds'[f] > 0)),
           phase = "announcing" =>
               \/ link' = "dead"
               \/ phase' = "announcing" /\ cur' = cur
               \/ \A f \in FilesOf(cur) : ~ (ccds'[f] > 0)
    PROVE  ToldOnce'
<1>1. told \subseteq Target \X File
  BY TypesSplit DEF Inv, HandlerTypes
<1>2. SUFFICES ASSUME NEW x \in told
               PROVE  /\ (archive[x[1]][x[2]] \in {"headed"} \cup Unseen \/ Reported(x[2])')
                      /\ Past(x[2][1])'
                      /\ ccds'[x[2]] > 0 =>
                           link' = "dead" \/ (phase' = "announcing" /\ cur' = x[2][1])
  BY DEF ToldOnce
<1>3. x[2] \in File /\ x[2][1] \in Image
  BY <1>1, <1>2 DEF File
<1>4. /\ archive[x[1]][x[2]] \in {"headed"} \cup Unseen \/ Reported(x[2])
      /\ Past(x[2][1])
      /\ ccds[x[2]] > 0 => link = "dead" \/ (phase = "announcing" /\ cur = x[2][1])
  BY <1>2 DEF Intact, ToldOnce
<1>5. archive[x[1]][x[2]] \in {"headed"} \cup Unseen \/ Reported(x[2])'
  BY <1>3, <1>4, ReportsStay
<1>6. Past(x[2][1])'
  BY <1>4 DEF Past
<1>7. ASSUME ccds'[x[2]] > 0
      PROVE  link' = "dead" \/ (phase' = "announcing" /\ cur' = x[2][1])
  <2>1. ccds[x[2]] > 0
    BY <1>3, <1>4, <1>7
  <2>2. CASE link = "dead"
    BY <1>3, <1>7, <2>2
  <2>3. CASE phase = "announcing" /\ cur = x[2][1]
    <3>1. x[2] \in FilesOf(cur)
      BY <1>3, <2>3 DEF FilesOf
    <3>2. QED
      BY <1>7, <2>3, <3>1
  <2>4. QED
    BY <1>4, <2>1, <2>2, <2>3
<1>8. QED
  BY <1>5, <1>6, <1>7

LEMMA IntactReceive ==
    ASSUME OneReadout, "telemetry" \notin Faults, Inv, Custody, Intact, Receive
    PROVE  Intact'
<1>1. phase = "idle" /\ UNCHANGED << told, archive, daq >>
  <2>1. Taken
    BY ReceiveTakes
  <2>2. QED
    BY <2>1 DEF Taken
<1>2. /\ ccds' = ccds
      /\ link = "dead" => link' = "dead"
      /\ phase' \in {"idle", "blocking", "formatting"}
      /\ phase' = "formatting" => link' = "up"
      /\ stream' \in {stream, << >>}
  <2>1. ASSUME NEW i \in Image, NEW t \in Target, NEW list \in Lists, XferParams(i, t, list)
        PROVE  /\ ccds' = ccds /\ (link = "dead" => link' = "dead")
               /\ phase' = phase /\ stream' = stream
    BY <2>1 DEF XferParams, AddXfer, ExecReturns, ExecThrows
  <2>2. ASSUME NEW i \in Image, HeaderReady(i)
        PROVE  /\ ccds' = ccds /\ (link = "dead" => link' = "dead")
               /\ phase' \in {"idle", "formatting"} /\ stream' = stream
               /\ phase' = "formatting" => link' = "up"
    BY <2>2 DEF HeaderReady, AddHeader, ExecReturns, ExecThrows
  <2>3. CASE Associated \/ \E i \in Image : EndReadout(i)
    BY <1>1, <2>3 DEF Associated, EndReadout, OneReadout
  <2>4. QED
    BY <1>1, <2>1, <2>2, <2>3 DEF Receive
<1>3. Pending' \subseteq Pending
  BY <1>2 DEF Pending
<1>4. ToldOnce'
  BY <1>1, <1>2, <1>3, ToldStays DEF ForwarderNext
<1>5. QED
  BY <1>2, <1>4 DEF Intact, HeadersIn, AssemblesWithLink

LEMMA IntactBlock ==
    ASSUME "telemetry" \notin Faults, Inv, Custody, Intact,
           SkipImage \/ MatchImage \/ BlockTimesOut
    PROVE  Intact'
<1>1. /\ phase = "blocking" /\ UNCHANGED << told, archive, daq, cur, ccds, link >>
      /\ phase' \in {"idle", "blocking"} \/ (phase' = "starting" /\ MatchImage)
  BY DEF SkipImage, MatchImage, BlockTimesOut
<1>2. Pending' \subseteq Pending /\ (MatchImage => cur \in Pending)
  <2>1. CASE BlockTimesOut
    BY <2>1 DEF BlockTimesOut, MatchImage, Pending
  <2>2. CASE SkipImage \/ MatchImage
    BY <2>2, TakenOff DEF SkipImage, MatchImage
  <2>3. QED
    BY <2>1, <2>2
<1>3. ToldOnce'
  BY <1>1, <1>2, ToldStays DEF ForwarderNext, Work
<1>4. QED
  BY <1>1, <1>3 DEF Intact, HeadersIn, AssemblesWithLink

LEMMA IntactReadout ==
    ASSUME "telemetry" \notin Faults, Inv, Custody, Intact, NEW i \in Image, Readout(i)
    PROVE  Intact'
<1>1. /\ i \notin daq /\ daq' = daq \cup {i} /\ stream' = Append(stream, i)
      /\ UNCHANGED << told, archive, cur, ccds, link, phase, disk, reports >>
  BY DEF Readout
<1>2. Pending' = Pending \cup {i}
  BY <1>1, PutOn
<1>3. ToldOnce'
  BY <1>1, <1>2, ToldStays DEF ForwarderNext
<1>4. QED
  BY <1>1, <1>3 DEF Intact, HeadersIn, AssemblesWithLink, Ccds, FilesOf, Reported

LEMMA IntactFetch ==
    ASSUME "telemetry" \notin Faults, Inv, Custody, Intact,
           StartTasks \/ RunTasks \/ Unwound \/ JoinTasks
    PROVE  Intact'
<1>1. /\ UNCHANGED << told, archive, stream, cur, daq >>
      /\ phase \in {"starting", "fetching", "unwinding"}
      /\ phase' \in {"idle", "fetching", "unwinding", "formatting"}
      /\ link = "dead" => link' = "dead"
      /\ phase' = "formatting" => link' = "up"
  <2>1. CASE StartTasks
    BY <2>1 DEF StartTasks, ExecReturns, ExecThrows
  <2>2. CASE RunTasks
    BY <2>2 DEF RunTasks, FetchStep, FetchPixels, FetchFails, Register, RegisterFails, PushCcd,
       CheckFile, CreateFile, WritePixels, WriteFails
  <2>3. CASE Unwound \/ JoinTasks
    BY <2>3 DEF Unwound, JoinTasks, ExecReturns, ExecThrows
  <2>4. QED
    BY <2>1, <2>2, <2>3
<1>2. \A f \in File : ccds'[f] > 0 => ccds[f] > 0 \/ ~ Past(f[1])
  <2>1. CASE ccds' = ccds
    BY <2>1
  <2>2. ASSUME NEW t \in Task, Pushes(t)
        PROVE  \A f \in File : ccds'[f] > 0 => ccds[f] > 0 \/ ~ Past(f[1])
    <3>1. /\ ccds' = [ccds EXCEPT ![Path(Next2Push(t))] = @ + 1]
          /\ Path(Next2Push(t))[1] = cur
      BY <2>2 DEF Pushes, PushCcd, Path
    <3>2. ~ Past(cur)
      BY <1>1 DEF Past
    <3>3. QED
      BY <3>1, <3>2, CustodyTypes
  <2>3. CASE RunTasks
    BY <2>1, <2>2, <2>3 DEF RunTasks, FetchStep, FetchPixels, FetchFails, Register, RegisterFails,
       Pushes, CheckFile, CreateFile, WritePixels, WriteFails
  <2>4. CASE StartTasks \/ Unwound \/ JoinTasks
    BY <2>1, <2>4 DEF StartTasks, Unwound, JoinTasks, ExecThrows
  <2>5. QED
    BY <2>3, <2>4
<1>3. Pending' = Pending
  BY <1>1 DEF Pending
<1>4. ToldOnce'
  BY <1>1, <1>2, <1>3, ToldStays DEF ForwarderNext, Work
<1>5. QED
  BY <1>1, <1>4 DEF Intact, HeadersIn, AssemblesWithLink

(* What goes on to the transfer has its header, or is reported.            *)
LEMMA IntactFormat ==
    ASSUME "telemetry" \notin Faults, Inv, Custody, Intact, Format
    PROVE  Intact'
<1>1. /\ phase = "formatting" /\ UNCHANGED << told, archive, stream, cur, daq, ccds, link >>
  BY DEF Format
<1>2. PICK out \in [Ccds(cur) -> {"ok", "caught", "escaped"}],
           content \in [Ccds(cur) -> Content] :
        /\ \A f \in Ccds(cur) : FormatOutcome(f, out[f], content[f])
        /\ disk' = [f \in File |-> IF f \in Ccds(cur) THEN content[f] ELSE disk[f]]
        /\ \/ /\ \A f \in Ccds(cur) : out[f] # "escaped"
              /\ phase' = "sending"
              /\ Telemetry(Caught(out))
           \/ \E before \in SUBSET Caught(out) : Escape(before)
  BY DEF Format
<1>3. phase' \in {"idle", "sending"}
  <2>1. ASSUME NEW before \in SUBSET Caught(out), Escape(before)
        PROVE  phase' = "idle"
    BY <2>1 DEF Escape
  <2>2. QED
    BY <1>2, <2>1
<1>4. Pending' = Pending /\ Ccds(cur)' = Ccds(cur) /\ Ccds(cur) \subseteq File
  BY <1>1 DEF Pending, Ccds, FilesOf
<1>5. ToldOnce'
  BY <1>1, <1>3, <1>4, ToldStays DEF ForwarderNext, Work
<1>6. ASSUME phase' = "sending", NEW f \in Ccds(cur)
      PROVE  disk'[f] \in {"headed"} \cup Unseen \/ Reported(f)'
  <2>1. /\ \A g \in Ccds(cur) : out[g] # "escaped"
        /\ Telemetry(Caught(out))
    BY <1>2, <1>6 DEF Escape
  <2>2. /\ FormatOutcome(f, out[f], content[f]) /\ disk'[f] = content[f]
        /\ out[f] \in {"ok", "caught"}
    BY <1>2, <1>4, <2>1
  <2>3. ccds[f] = 1 /\ disk[f] \in {"pixels", "headed"} \cup Unseen
    BY DEF Custody, OnDisk, Ccds, FilesOf
  <2>4. CASE out[f] = "ok"
    BY <2>2, <2>3, <2>4 DEF FormatOutcome, Unlooked, Unseen
  <2>5. CASE out[f] = "caught"
    <3>1. << 5611, {f} >> \in Caught(out)
      BY <2>5 DEF Caught
    <3>2. QED
      BY <2>1, <3>1, ReportsArrive
  <2>6. QED
    BY <2>2, <2>4, <2>5
<1>7. QED
  BY <1>1, <1>3, <1>4, <1>5, <1>6 DEF Intact, HeadersIn, AssemblesWithLink

(* No transfer touches what was announced before.                          *)
LEMMA IntactSend ==
    ASSUME "telemetry" \notin Faults, Inv, Custody, Intact, SendFiles \/ SendFails
    PROVE  Intact'
<1>1. /\ phase = "sending" /\ phase' \in {"idle", "announcing"}
      /\ UNCHANGED << told, stream, cur, daq, ccds, link, disk >>
  BY DEF SendFiles, SendFails
<1>2. PICK whole \in SUBSET Ccds(cur), cut \in SUBSET Ccds(cur) : Copy(whole, cut)
  BY DEF SendFiles, SendFails
<1>3. archive \in [Target -> [File -> Content]] /\ told \subseteq Target \X File
  BY TypesSplit DEF Inv, HandlerTypes
<1>4. link = "up"
  BY <1>1 DEF Intact, AssemblesWithLink
<1>5. Pending' = Pending /\ Ccds(cur)' = Ccds(cur) /\ \A f \in Ccds(cur) : ccds[f] > 0
  BY <1>1 DEF Pending, Ccds, FilesOf
<1>6. ASSUME NEW x \in told
      PROVE  /\ archive'[x[1]][x[2]] = archive[x[1]][x[2]]
             /\ x[2] \in File /\ ~ (ccds[x[2]] > 0)
  <2>1. ~ (ccds[x[2]] > 0)
    BY <1>1, <1>4, <1>6 DEF Intact, ToldOnce
  <2>2. x[1] \in Target /\ x[2] \in File /\ x[2] \notin Ccds(cur)
    BY <1>3, <1>5, <1>6, <2>1
  <2>3. QED
    BY <1>2, <1>3, <2>1, <2>2 DEF Copy
<1>7. \A f \in File : Reported(f) => Reported(f)'
  BY ReportsStay DEF ForwarderNext, Work
<1>8. ToldOnce'
  BY <1>1, <1>5, <1>6, <1>7 DEF Intact, ToldOnce, Past
<1>9. HeadersIn'
  BY <1>1, <1>5, <1>7 DEF Intact, HeadersIn, Ccds, FilesOf
<1>10. QED
  BY <1>1, <1>4, <1>8, <1>9 DEF Intact, AssemblesWithLink

LEMMA IntactAnnounce ==
    ASSUME Inv, Custody, Intact, NEW f \in File, Announce(f)
    PROVE  Intact'
<1>1. /\ phase = "announcing" /\ f \in todo /\ told' \in {told, told \cup {<< target[cur], f >>}}
      /\ UNCHANGED << phase, stream, cur, daq, ccds, link, disk, archive, reports >>
  BY DEF Announce
<1>2. Pending' = Pending /\ Ccds(cur)' = Ccds(cur)
  BY <1>1 DEF Pending, Ccds, FilesOf
<1>3. f \in Ccds(cur) /\ f[1] = cur /\ ccds[f] > 0
  BY <1>1 DEF Inv, Assembling, Ccds, FilesOf
<1>4. archive[target[cur]][f] \in {"headed"} \cup Unseen \/ Reported(f)
  BY <1>1, <1>3 DEF Custody, SentAsIs, Intact, HeadersIn
<1>5. Past(cur)
  BY <1>1, <1>3 DEF Custody, ReadOnce, Past
<1>6. ToldOnce'
  BY <1>1, <1>2, <1>3, <1>4, <1>5 DEF Intact, ToldOnce, Past, Reported
<1>7. QED
  BY <1>1, <1>2, <1>6 DEF Intact, HeadersIn, AssemblesWithLink, Reported

LEMMA IntactCleanup ==
    ASSUME "telemetry" \notin Faults, Inv, Custody, Intact, Cleanup
    PROVE  Intact'
<1>1. /\ phase = "announcing" /\ phase' = "idle"
      /\ UNCHANGED << told, archive, stream, cur, daq >>
  BY DEF Cleanup, Escape
<1>2. link = "up" /\ Pending' = Pending
  BY <1>1 DEF Intact, AssemblesWithLink, Pending
<1>3. /\ \A g \in File : ccds'[g] > 0 => ccds[g] > 0
      /\ link' = "dead" \/ \A g \in FilesOf(cur) : ~ (ccds'[g] > 0)
  <2>1. CASE Remove(cur)
    <3>1. cur \in Prefixed[cur]
      BY CustodyTypes, ScoreboardConstants
    <3>2. \A g \in File : ccds'[g] = IF g[1] \in Prefixed[cur] THEN 0 ELSE ccds[g]
      BY <2>1 DEF Remove
    <3>3. QED
      BY <3>1, <3>2 DEF FilesOf
  <2>2. CASE ExecThrows
    BY <2>2 DEF ExecThrows
  <2>3. QED
    BY <2>1, <2>2 DEF Cleanup
<1>4. ToldOnce'
  BY <1>1, <1>2, <1>3, ToldStays DEF ForwarderNext, Work
<1>5. QED
  BY <1>1, <1>4 DEF Intact, HeadersIn, AssemblesWithLink

LEMMA IntactCrash ==
    ASSUME "telemetry" \notin Faults, Inv, Custody, Intact, Crash
    PROVE  Intact'
<1>1. /\ phase' = "idle" /\ ccds' = [f \in File |-> 0] /\ stream' = << >>
      /\ UNCHANGED << told, archive, cur, daq >>
  BY DEF Crash, Flush, Empty
<1>2. Pending' = {} /\ \A f \in File : ~ (ccds'[f] > 0)
  BY <1>1 DEF Pending
<1>3. \A f \in FilesOf(cur) : f \in File
  BY DEF FilesOf
<1>4. ToldOnce'
  BY <1>1, <1>2, <1>3, ToldStays DEF ForwarderNext
<1>5. QED
  BY <1>1, <1>4 DEF Intact, HeadersIn, AssemblesWithLink

(* A file that is announced holds its pixels and its header, or telemetry  *)
(* spoke of it, or a failure damaged it that the code does not look at     *)
(* (FitsOpener.cpp:75-77, YAMLFormatter.cpp:110-114): in live mode, each   *)
(* location listed once, no telemetry lost.                                *)
THEOREM AnnouncedAreIntact ==
    ASSUME OneReadout, "telemetry" \notin Faults
    PROVE  Spec => []AnnouncedIntact
<1>1. Inv /\ Custody /\ Intact /\ [ForwarderNext]_vars => Intact'
  <2>1. CASE UNCHANGED vars
    BY <2>1 DEF vars, Intact, ToldOnce, Past, Pending, HeadersIn, AssemblesWithLink, Ccds, FilesOf,
       Reported
  <2>2. QED
    BY <2>1, IntactReceive, IntactBlock, IntactReadout, IntactFetch, IntactFormat, IntactSend,
       IntactAnnounce, IntactCleanup, IntactCrash DEF ForwarderNext, Work
<1>2. Intact => AnnouncedIntact
  BY DEF Intact, ToldOnce, AnnouncedIntact, Unseen
<1>3. QED
  BY <1>1, <1>2, IntactBegins, CustodyHolds, InvHolds, PTL DEF Spec

-----------------------------------------------------------------------------
(* Who is responsible for an image that has both halves: the handler that  *)
(* is at it, or the telemetry that gave it up.  A header whose file is     *)
(* not good was reported when its pull failed.                             *)
NoSilentLoss ==
    /\ {"redis", "content", "open", "telemetry"} \cap Faults = {}
    /\ BadPattern = {}

BadHeaderReported ==
    \A i \in hdr : hfile[i] = "good" \/ \A f \in FilesOf(i) : Reported(f)

InHand(f) == f[1] = cur /\ phase \in {"fetching", "formatting", "sending", "announcing"}

Spoilt(i) == \E g \in Ccds(i) : Damaged(g)

LeftReported ==
    link = "up" => \A f \in File :
        (ccds[f] > 0 /\ f[1] \in hdr) => Reported(f) \/ InHand(f) \/ Spoilt(f[1])

Left == phase # "unwinding" /\ BadHeaderReported /\ LeftReported

LEMMA LeftBegins == ForwarderInit => Left
<1> SUFFICES ASSUME ForwarderInit PROVE Left
  OBVIOUS
<1>1. phase = "idle" /\ hdr = {}
  BY DEF ForwarderInit, ScoreboardInit, Empty
<1>2. QED
  BY <1>1 DEF Left, BadHeaderReported, LeftReported

(* A writer is at work on a file that is not registered yet.               *)
LEMMA WriterSparesRegistered ==
    ASSUME Inv, Custody, phase \in {"fetching", "unwinding"}, NEW w \in Writer,
           CheckFile(w) \/ CreateFile(w) \/ WritePixels(w) \/ WriteFails(w)
    PROVE  \A f \in File : ccds[f] > 0 => disk'[f] = disk[f]
<1>1. writer[w] \notin {"done", "lost"}
  BY DEF CheckFile, CreateFile, WritePixels, WriteFails, Custody, WritersKeep
<1>2. ~ (ccds[Path(w)] > 0)
  BY <1>1 DEF Custody, WritersKeep
<1>3. \A f \in File : f # Path(w) => disk'[f] = disk[f]
  BY CustodyTypes, PathIsFile DEF CheckFile, CreateFile, WritePixels, WriteFails, FetchTypes
<1>4. QED
  BY <1>2, <1>3

(* A damaged file stays as it is as long as its image is registered.       *)
LEMMA SpoiltStays ==
    ASSUME OneReadout, Inv, Custody, ForwarderNext
    PROVE  \A f \in File : (Spoilt(f[1]) /\ ccds'[f] > 0) => Spoilt(f[1])'
<1>1. /\ disk \in [File -> Content] /\ ccds \in [File -> Nat] /\ cur \in Image
      /\ cur \in Prefixed[cur]
  BY CustodyTypes, ScoreboardConstants
<1>2. ASSUME \A g \in File : (ccds[g] > 0 /\ Damaged(g)) => (ccds'[g] > 0 /\ Damaged(g)')
      PROVE  \A f \in File : Spoilt(f[1]) => Spoilt(f[1])'
  <2>1. SUFFICES ASSUME NEW f \in File, NEW g \in Ccds(f[1]), Damaged(g)
                 PROVE  Spoilt(f[1])'
    BY DEF Spoilt
  <2>2. g \in File /\ ccds[g] > 0 /\ g[1] = f[1]
    BY DEF Ccds, FilesOf
  <2>3. QED
    BY <1>2, <2>1, <2>2 DEF Spoilt, Ccds, FilesOf
<1>3. CASE UNCHANGED << disk, ccds >>
  BY <1>2, <1>3 DEF Damaged
<1>4. ASSUME Receive
      PROVE  UNCHANGED << disk, ccds >>
  <2>1. disk' = disk
    BY <1>4, ReceiveTakes DEF Taken
  <2>2. ASSUME NEW i \in Image, NEW t \in Target, NEW list \in Lists, XferParams(i, t, list)
        PROVE  ccds' = ccds
    BY <2>2 DEF XferParams, AddXfer, ExecThrows
  <2>3. ASSUME NEW i \in Image, HeaderReady(i)
        PROVE  ccds' = ccds
    BY <2>3 DEF HeaderReady, AddHeader, ExecThrows
  <2>4. ASSUME Associated \/ \E i \in Image : EndReadout(i)
        PROVE  ccds' = ccds
    BY <2>4 DEF Associated, EndReadout
  <2>5. QED
    BY <1>4, <2>1, <2>2, <2>3, <2>4 DEF Receive
<1>5. ASSUME \/ SkipImage \/ MatchImage \/ BlockTimesOut \/ StartTasks \/ Unwound \/ JoinTasks
             \/ SendFiles \/ SendFails \/ \E f \in File : Announce(f)
             \/ \E i \in Image : Readout(i)
      PROVE  UNCHANGED << disk, ccds >>
  BY <1>5 DEF SkipImage, MatchImage, BlockTimesOut, StartTasks, Unwound, JoinTasks, SendFiles,
              SendFails, Announce, Readout, ExecThrows
<1>6. CASE RunTasks
  <2>1. phase \in {"fetching", "unwinding"} /\ FetchStep
    BY <1>6 DEF RunTasks
  <2>2. ASSUME NEW w \in Writer,
               CheckFile(w) \/ CreateFile(w) \/ WritePixels(w) \/ WriteFails(w)
        PROVE  \A g \in File : ccds[g] > 0 => ccds'[g] > 0 /\ disk'[g] = disk[g]
    <3>1. ccds' = ccds
      BY <2>2 DEF CheckFile, CreateFile, WritePixels, WriteFails
    <3>2. QED
      BY <2>1, <2>2, <3>1, WriterSparesRegistered
  <2>3. ASSUME NEW t \in Task,
               FetchPixels(t) \/ FetchFails(t) \/ Register(t) \/ RegisterFails(t)
        PROVE  \A g \in File : ccds[g] > 0 => ccds'[g] > 0 /\ disk'[g] = disk[g]
    <3>1. disk' = disk /\ (ccds' = ccds \/ PushCcd(Path(Next2Push(t))))
      BY <2>3 DEF FetchPixels, FetchFails, Register, RegisterFails
    <3>2. QED
      BY <1>1, <3>1 DEF PushCcd
  <2>4. QED
    BY <1>2, <2>1, <2>2, <2>3 DEF FetchStep, Damaged
<1>7. CASE Format
  <2>1. PICK out \in [Ccds(cur) -> {"ok", "caught", "escaped"}],
             content \in [Ccds(cur) -> Content] :
          /\ \A f \in Ccds(cur) : FormatOutcome(f, out[f], content[f])
          /\ disk' = [f \in File |-> IF f \in Ccds(cur) THEN content[f] ELSE disk[f]]
    BY <1>7 DEF Format
  <2>2. ccds' = ccds
    BY <1>7 DEF Format
  <2>3. ASSUME NEW g \in File, ccds[g] > 0, disk[g] = "damaged"
        PROVE  disk'[g] = "damaged"
    <3>1. CASE g \in Ccds(cur)
      <4>1. FormatOutcome(g, out[g], content[g]) /\ ccds[g] = 1 /\ disk'[g] = content[g]
        BY <2>1, <2>3, <3>1 DEF Custody, OnDisk
      <4>2. QED
        BY <2>3, <4>1 DEF FormatOutcome, Unlooked
    <3>2. QED
      BY <2>1, <2>3, <3>1
  <2>4. QED
    BY <1>2, <2>2, <2>3 DEF Damaged
<1>8. CASE Cleanup
  <2>1. CASE ExecThrows /\ UNCHANGED disk
    BY <1>3, <2>1 DEF ExecThrows
  <2>2. CASE /\ Remove(cur)
             /\ disk' = [f \in File |-> IF f \in Ccds(cur) THEN "absent" ELSE disk[f]]
    <3>1. ASSUME NEW f \in File, NEW g \in Ccds(f[1]), Damaged(g), ccds'[f] > 0
          PROVE  Spoilt(f[1])'
      <4>1. \A x \in File : ccds'[x] = IF x[1] \in Prefixed[cur] THEN 0 ELSE ccds[x]
        BY <2>2 DEF Remove
      <4>2. f[1] \notin Prefixed[cur] /\ f[1] # cur
        BY <1>1, <3>1, <4>1
      <4>3. g \in File /\ g[1] = f[1] /\ ccds[g] > 0
        BY <3>1 DEF Ccds, FilesOf
      <4>4. ccds'[g] > 0 /\ disk'[g] = disk[g]
        BY <2>2, <4>1, <4>2, <4>3 DEF Ccds, FilesOf
      <4>5. QED
        BY <3>1, <4>3, <4>4 DEF Spoilt, Ccds, FilesOf, Damaged
    <3>2. QED
      BY <3>1 DEF Spoilt
  <2>3. QED
    BY <1>8, <2>1, <2>2 DEF Cleanup
<1>9. CASE Crash
  BY <1>9 DEF Crash, Flush, Empty
<1>10. QED
  BY <1>3, <1>4, <1>5, <1>6, <1>7, <1>8, <1>9 DEF ForwarderNext, Work

(* Steps that bring together no halves and drop nothing in hand.           *)
LEMMA LeftStays ==
    ASSUME OneReadout, Inv, Custody, Left, [ForwarderNext]_vars, phase' # "unwinding",
           hdr' \subseteq hdr, \A i \in hdr' : hfile'[i] = hfile[i],
           link' = "up" =>
             /\ link = "up"
             /\ \A f \in File : ccds'[f] > 0 => ccds[f] > 0
             /\ \A f \in File : (InHand(f) /\ ccds'[f] > 0 /\ f[1] \in hdr') =>
                                    InHand(f)' \/ Reported(f)' \/ Spoilt(f[1])
    PROVE  Left'
<1>1. \A f \in File : Reported(f) => Reported(f)'
  BY ReportsStay
<1>2. hdr \subseteq Image
  BY TypesSplit DEF Inv, ScoreboardTypeOK
<1>3. \A i \in Image : FilesOf(i)' = FilesOf(i) /\ FilesOf(i) \subseteq File
  BY DEF FilesOf
<1>4. BadHeaderReported'
  BY <1>1, <1>2, <1>3 DEF Left, BadHeaderReported
<1>5. \A f \in File : (Spoilt(f[1]) /\ ccds'[f] > 0) => Spoilt(f[1])'
  BY SpoiltStays DEF vars, fetching, board, Spoilt, Ccds, FilesOf, Damaged
<1>6. LeftReported'
  BY <1>1, <1>5 DEF Left, LeftReported
<1>7. QED
  BY <1>4, <1>6 DEF Left

LEMMA LeftReceive ==
    ASSUME OneReadout, NoSilentLoss, Inv, Custody, Left, Receive
    PROVE  Left'
<1>1. phase = "idle" /\ ForwarderNext
  BY ReceiveTakes DEF Taken, ForwarderNext
<1>2. /\ \A f \in File : ~ InHand(f)
      /\ \A f \in File : (Spoilt(f[1]) /\ ccds'[f] > 0) => Spoilt(f[1])'
  BY <1>1, SpoiltStays DEF InHand
<1>3. ASSUME NEW i \in Image, NEW t \in Target, NEW list \in Lists, XferParams(i, t, list)
      PROVE  Left'
  <2>1. /\ UNCHANGED << hdr, ccds, hfile, phase >>
        /\ link' = "up" => link = "up"
    BY <1>3 DEF XferParams, AddXfer, ExecReturns, ExecThrows
  <2>2. QED
    BY <1>1, <1>2, <2>1, LeftStays
<1>4. ASSUME NEW i \in Image, HeaderReady(i)
      PROVE  Left'
  <2>1. cur' = i /\ ccds' = ccds /\ hfile \in [Image -> {"absent", "good", "bad"}]
        /\ (link' = "up" => link = "up")
    BY <1>4, TypesSplit DEF Inv, HandlerTypes, HeaderReady, AddHeader, ExecReturns, ExecThrows
  <2>2. /\ hdr \subseteq Image /\ \A j \in Image : FilesOf(j)' = FilesOf(j)
        /\ \A j \in Image : FilesOf(j) \subseteq File
    BY TypesSplit DEF Inv, ScoreboardTypeOK, FilesOf
  <2>3. \A f \in File : Reported(f) => Reported(f)'
    BY <1>1, ReportsStay
  <2>4. CASE /\ HeaderPullFails(i) /\ phase' = "idle" /\ UNCHANGED board
             /\ Telemetry({<< 5610, FilesOf(i) >>})
    <3>1. \A f \in FilesOf(i) : Reported(f)'
      <4>1. << 5610, FilesOf(i) >> \in {<< 5610, FilesOf(i) >>}
        OBVIOUS
      <4>2. \A m \in {<< 5610, FilesOf(i) >>} : \A f \in m[2] : Reported(f)'
        BY <2>4, ReportsArrive DEF NoSilentLoss
      <4>3. QED
        BY <4>1, <4>2
    <3>2. \A j \in Image : j # i => hfile'[j] = hfile[j]
      BY <2>1, <2>4 DEF HeaderPullFails
    <3>3. BadHeaderReported'
      BY <2>2, <2>3, <2>4, <3>1, <3>2 DEF Left, BadHeaderReported
    <3>4. LeftReported'
      BY <1>2, <2>3, <2>4 DEF Left, LeftReported
    <3>5. QED
      BY <2>4, <3>3, <3>4 DEF Left
  <2>5. CASE /\ HeaderPulled(i) /\ AddHeader(i)
             /\ phase' = IF Ready(i)' THEN "formatting" ELSE "idle"
    <3>1. hfile' = [hfile EXCEPT ![i] = "good"]
      BY <2>5 DEF HeaderPulled, NoSilentLoss
    <3>2. hdr' = hdr \cup {i}
      BY <2>5 DEF AddHeader
    <3>3. BadHeaderReported'
      BY <2>1, <2>2, <2>3, <3>1, <3>2 DEF Left, BadHeaderReported
    <3>4. ASSUME NEW f \in File, ccds'[f] > 0, f[1] = i
          PROVE  InHand(f)'
      <4>1. Ready(i)'
        BY <2>1, <3>2, <3>4 DEF Ready, FilesOf
      <4>2. QED
        BY <2>1, <2>5, <3>4, <4>1 DEF InHand
    <3>5. LeftReported'
      BY <1>2, <2>1, <2>3, <3>2, <3>4 DEF Left, LeftReported
    <3>6. QED
      BY <2>5, <3>3, <3>5 DEF Left
  <2>6. CASE /\ HeaderPulled(i) /\ ExecThrows /\ phase' = "idle"
    <3>1. hfile' = [hfile EXCEPT ![i] = "good"] /\ hdr' = hdr /\ link' = "dead"
      BY <2>6 DEF HeaderPulled, NoSilentLoss, ExecThrows
    <3>2. BadHeaderReported'
      BY <2>1, <2>2, <2>3, <3>1 DEF Left, BadHeaderReported
    <3>3. QED
      BY <2>6, <3>1, <3>2 DEF Left, LeftReported
  <2>7. QED
    BY <1>4, <2>4, <2>5, <2>6 DEF HeaderReady
<1>5. CASE Associated \/ \E i \in Image : EndReadout(i)
  <2>1. UNCHANGED << hdr, ccds, hfile, link >> /\ phase' # "unwinding"
    BY <1>1, <1>5 DEF Associated, EndReadout
  <2>2. QED
    BY <1>1, <1>2, <2>1, LeftStays
<1>6. QED
  BY <1>3, <1>4, <1>5 DEF Receive

(* Until the tasks are joined nothing of the image is formatted.           *)
LEMMA LeftFetch ==
    ASSUME OneReadout, NoSilentLoss, Inv, Custody, Left,
           SkipImage \/ MatchImage \/ BlockTimesOut \/ StartTasks \/ RunTasks \/ Unwound \/ JoinTasks
    PROVE  Left'
<1>1. /\ ForwarderNext
      /\ \A f \in File : (Spoilt(f[1]) /\ ccds'[f] > 0) => Spoilt(f[1])'
  BY SpoiltStays DEF ForwarderNext, Work
<1>2. CASE SkipImage \/ MatchImage \/ BlockTimesOut \/ StartTasks
  <2>1. /\ phase \in {"blocking", "starting"} /\ UNCHANGED << hdr, ccds, hfile >>
        /\ link' = "up" => link = "up"
    BY <1>2 DEF SkipImage, MatchImage, BlockTimesOut, StartTasks, ExecReturns, ExecThrows
  <2>2. phase' # "unwinding"
    <3>1. Listed \cap Refused = {} /\ "redis" \notin Faults
      BY DEF NoSilentLoss, Refused
    <3>2. QED
      BY <1>2, <2>1, <3>1 DEF SkipImage, MatchImage, BlockTimesOut, StartTasks
  <2>3. \A f \in File : ~ InHand(f)
    BY <2>1 DEF InHand
  <2>4. QED
    BY <1>1, <2>1, <2>2, <2>3, LeftStays
<1>3. CASE RunTasks
  <2>1. phase = "fetching" /\ UNCHANGED << hdr, hfile, link, phase, cur, reports >>
    BY <1>3 DEF RunTasks, FetchStep, FetchPixels, FetchFails, Register, RegisterFails, PushCcd,
       CheckFile, CreateFile, WritePixels, WriteFails, Left
  <2>2. \A f \in File : f[1] = cur \/ ccds'[f] = ccds[f]
    <3>1. CASE ccds' = ccds
      BY <3>1
    <3>2. ASSUME NEW t \in Task, PushCcd(Path(Next2Push(t)))
          PROVE  \A f \in File : f[1] = cur \/ ccds'[f] = ccds[f]
      BY <3>2, CustodyTypes DEF PushCcd, Path
    <3>3. QED
      BY <1>3, <3>1, <3>2 DEF RunTasks, FetchStep, FetchPixels, FetchFails, Register, RegisterFails,
         CheckFile, CreateFile, WritePixels, WriteFails
  <2>3. LeftReported'
    BY <1>1, <2>1, <2>2 DEF Left, LeftReported, InHand, Reported
  <2>4. BadHeaderReported'
    BY <2>1 DEF Left, BadHeaderReported, FilesOf, Reported
  <2>5. QED
    BY <2>1, <2>3, <2>4 DEF Left
<1>4. CASE JoinTasks
  <2>1. /\ phase = "fetching" /\ UNCHANGED << hdr, ccds, hfile, cur >>
        /\ \/ link' = link /\ phase' = IF Ready(cur) THEN "formatting" ELSE "idle"
           \/ link' = "dead" /\ phase' = "idle"
    BY <1>4 DEF JoinTasks, ExecReturns, ExecThrows
  <2>2. ASSUME link' = "up", NEW f \in File, InHand(f), ccds'[f] > 0, f[1] \in hdr'
        PROVE  InHand(f)'
    <3>1. Ready(cur)
      BY <2>1, <2>2 DEF Ready, InHand, FilesOf
    <3>2. QED
      BY <2>1, <2>2, <3>1 DEF InHand
  <2>3. QED
    BY <1>1, <2>1, <2>2, LeftStays
<1>5. CASE Unwound
  BY <1>5 DEF Unwound, Left
<1>6. QED
  BY <1>2, <1>3, <1>4, <1>5

LEMMA LeftFormat ==
    ASSUME OneReadout, NoSilentLoss, Inv, Custody, Left, Format
    PROVE  Left'
<1>1. /\ phase = "formatting" /\ UNCHANGED << hdr, ccds, hfile, link, cur >> /\ ForwarderNext
  BY DEF Format, ForwarderNext, Work
<1>2. PICK out \in [Ccds(cur) -> {"ok", "caught", "escaped"}],
           content \in [Ccds(cur) -> Content] :
        /\ \A f \in Ccds(cur) : FormatOutcome(f, out[f], content[f])
        /\ \/ phase' = "sending"
           \/ /\ \E f \in Ccds(cur) : out[f] = "escaped"
              /\ \E before \in SUBSET Caught(out) : Escape(before)
  BY DEF Format
<1>3. CASE phase' = "sending"
  BY <1>1, <1>3, LeftStays DEF InHand
<1>4. CASE /\ \E f \in Ccds(cur) : out[f] = "escaped"
           /\ \E before \in SUBSET Caught(out) : Escape(before)
  <2>1. phase' = "idle"
    <3>1. ASSUME NEW before \in SUBSET Caught(out), Escape(before)
          PROVE  phase' = "idle"
      BY <3>1 DEF Escape
    <3>2. QED
      BY <1>4, <3>1
  <2>2. PICK f \in Ccds(cur) : out[f] = "escaped"
    BY <1>4
  <2>3. f \in File /\ ccds[f] = 1 /\ disk[f] \in {"pixels", "headed"} \cup Unseen
    BY DEF Custody, OnDisk, Ccds, FilesOf
  <2>4. hfile[cur] = "bad" \/ Spoilt(cur)
    <3>1. FormatOutcome(f, out[f], content[f]) /\ "open" \notin Faults
      BY <1>2 DEF NoSilentLoss
    <3>2. hfile[cur] = "bad" \/ Damaged(f)
      BY <2>2, <2>3, <3>1 DEF FormatOutcome, Unseen, Damaged
    <3>3. QED
      BY <3>2 DEF Spoilt
  <2>5. (cur \in hdr /\ hfile[cur] = "bad") => \A g \in FilesOf(cur) : Reported(g)
    BY DEF Left, BadHeaderReported
  <2>6. ASSUME NEW g \in File, InHand(g), g[1] \in hdr'
        PROVE  Reported(g)' \/ Spoilt(g[1])
    <3>1. g \in FilesOf(cur) /\ cur \in hdr /\ g[1] = cur
      BY <1>1, <2>6 DEF InHand, FilesOf
    <3>2. QED
      BY <1>1, <2>4, <2>5, <3>1, ReportsStay
  <2>7. QED
    BY <1>1, <2>1, <2>6, LeftStays
<1>5. QED
  BY <1>2, <1>3, <1>4

LEMMA LeftSend ==
    ASSUME OneReadout, NoSilentLoss, Inv, Custody, Left,
           SendFiles \/ SendFails \/ \E f \in File : Announce(f)
    PROVE  Left'
<1>1. /\ UNCHANGED << hdr, ccds, hfile, link, cur >> /\ ForwarderNext
      /\ phase' \in {"idle", "announcing"}
  BY DEF SendFiles, SendFails, Announce, ForwarderNext, Work
<1>2. CASE SendFails
  <2>1. phase' = "idle" /\ Telemetry({<< 5612, FilesOf(cur) >>})
    BY <1>2 DEF SendFails
  <2>2. \A f \in FilesOf(cur) : Reported(f)'
    <3>1. << 5612, FilesOf(cur) >> \in {<< 5612, FilesOf(cur) >>}
      OBVIOUS
    <3>2. \A m \in {<< 5612, FilesOf(cur) >>} : \A f \in m[2] : Reported(f)'
      BY <2>1, ReportsArrive DEF NoSilentLoss
    <3>3. QED
      BY <3>1, <3>2
  <2>3. \A f \in File : InHand(f) => f \in FilesOf(cur)
    BY DEF InHand, FilesOf
  <2>4. QED
    BY <1>1, <2>1, <2>2, <2>3, LeftStays
<1>3. CASE phase' = "announcing"
  BY <1>1, <1>3, LeftStays DEF InHand
<1>4. QED
  BY <1>1, <1>2, <1>3 DEF SendFiles, Announce

LEMMA LeftCleanup ==
    ASSUME OneReadout, Inv, Custody, Left, Cleanup
    PROVE  Left'
<1>1. cur' = cur /\ phase' = "idle" /\ ForwarderNext
  BY DEF Cleanup, Escape, ForwarderNext, Work
<1>2. CASE Remove(cur) /\ hfile' = [hfile EXCEPT ![cur] = "absent"]
  <2>1. cur \in Image /\ cur \in Prefixed[cur]
    BY CustodyTypes, ScoreboardConstants
  <2>2. /\ hdr' = hdr \ Prefixed[cur] /\ link' = link
        /\ \A f \in File : ccds'[f] = IF f[1] \in Prefixed[cur] THEN 0 ELSE ccds[f]
    BY <1>2 DEF Remove, ExecReturns
  <2>3. \A i \in hdr' : hfile'[i] = hfile[i]
    <3>1. hfile \in [Image -> {"absent", "good", "bad"}] /\ hdr \subseteq Image
      BY TypesSplit DEF Inv, HandlerTypes, ScoreboardTypeOK
    <3>2. QED
      BY <1>2, <2>1, <2>2, <3>1
  <2>4. QED
    BY <1>1, <2>1, <2>2, <2>3, LeftStays DEF InHand
<1>3. CASE ExecThrows /\ UNCHANGED hfile
  BY <1>1, <1>3, LeftStays DEF ExecThrows
<1>4. QED
  BY <1>2, <1>3 DEF Cleanup

LEMMA LeftElse ==
    ASSUME OneReadout, Inv, Custody, Left, Crash \/ \E i \in Image : Readout(i)
    PROVE  Left'
<1>1. CASE Crash
  <2>1. phase' = "idle" /\ hdr' = {}
    BY <1>1 DEF Crash, Flush, Empty
  <2>2. QED
    BY <2>1 DEF Left, BadHeaderReported, LeftReported
<1>2. ASSUME NEW i \in Image, Readout(i)
      PROVE  Left'
  <2>1. \A f \in File : (Spoilt(f[1]) /\ ccds'[f] > 0) => Spoilt(f[1])'
    BY <1>2, SpoiltStays DEF ForwarderNext
  <2>2. QED
    BY <1>2, <2>1 DEF Readout, Left, BadHeaderReported, LeftReported, FilesOf, Reported, InHand
<1>3. QED
  BY <1>1, <1>2

(* No image with both halves is left lying unreported when the forwarder   *)
(* is idle, unless a file of it is damaged where the code does not look    *)
(* (FitsOpener.cpp:75-77): in live mode, each location listed once,        *)
(* without the failures that end a handler with a log line only.           *)
THEOREM NothingIsLeftReady ==
    ASSUME OneReadout, NoSilentLoss
    PROVE  Spec => []NothingLeftReady
<1>1. Inv /\ Custody /\ Left /\ [ForwarderNext]_vars => Left'
  <2>1. CASE UNCHANGED vars
    BY <2>1 DEF vars, Left, BadHeaderReported, LeftReported, FilesOf, Reported, InHand,
       Spoilt, Ccds, Damaged
  <2>2. QED
    BY <2>1, LeftReceive, LeftFetch, LeftFormat, LeftSend, LeftCleanup, LeftElse
       DEF ForwarderNext, Work
<1>2. Left => NothingLeftReady
  BY DEF Left, LeftReported, InHand, NothingLeftReady, Spoilt
<1>3. QED
  BY <1>1, <1>2, LeftBegins, CustodyHolds, InvHolds, PTL DEF Spec

-----------------------------------------------------------------------------
(* Why every handler ends.  A step shrinks what is ahead when it shrinks   *)
(* one part of it and adds to none; most steps leave a phase for good.     *)
LEMMA PartsShrink ==
    ASSUME \A k \in 1 .. 5 : Ahead'[k] \subseteq Ahead[k],
           NEW k \in 1 .. 5, Ahead'[k] # Ahead[k]
    PROVE  Shrinks(Ahead', Ahead)
<1>1. DOMAIN Ahead = 1 .. 5
  BY DEF Ahead
<1> QED BY <1>1 DEF Shrinks

LEMMA LeavesPhase ==
    ASSUME PhasesLeft' < PhasesLeft, \A k \in 2 .. 5 : Ahead'[k] \subseteq Ahead[k]
    PROVE  Shrinks(Ahead', Ahead)
<1>1. PhasesLeft \in 0 .. 6 /\ PhasesLeft' \in 0 .. 6
  BY DEF PhasesLeft
<1>2. Ahead[1] = 1 .. PhasesLeft /\ Ahead'[1] = 1 .. PhasesLeft'
  BY DEF Ahead
<1>3. Ahead'[1] \subseteq Ahead[1] /\ Ahead'[1] # Ahead[1]
  <2>1. PhasesLeft \in Ahead[1] /\ PhasesLeft \notin Ahead'[1]
    BY <1>1, <1>2
  <2> QED BY <1>1, <1>2, <2>1
<1>4. \A k \in 1 .. 5 : Ahead'[k] \subseteq Ahead[k]
  BY <1>3
<1> QED BY <1>3, <1>4, PartsShrink

(* The threads ahead, before and after a step.                             *)
LEMMA ThreadsAhead ==
    /\ JoinsAhead \subseteq Task \X (0 .. 3) /\ JoinsAhead' \subseteq Task \X (0 .. 3)
    /\ WritesAhead \subseteq Writer \X (1 .. 3) /\ WritesAhead' \subseteq Writer \X (1 .. 3)
BY DEF JoinsAhead, WritesAhead

LEMMA NothingLaunched ==
    ASSUME Launch({})
    PROVE  JoinsAhead' = {} /\ WritesAhead' = {}
<1>1. /\ \A t \in Task : task'[t] = "off"
      /\ \A w \in Writer : writer'[w] = "off"
  BY DEF Launch
<1>2. FileSteps("off") = {}
  BY DEF FileSteps
<1> QED BY <1>1, <1>2, WriterHasTask DEF JoinsAhead, WritesAhead

(* Waiting for the image and starting the tasks.                           *)
LEMMA BlockAhead ==
    ASSUME Inv, SkipImage \/ MatchImage \/ BlockTimesOut
    PROVE  Shrinks(Ahead', Ahead)
<1>1. CASE SkipImage
  <2>1. /\ phase = "blocking" /\ stream # << >> /\ stream' = Tail(stream)
        /\ UNCHANGED << phase, todo, task, pushed, writer >>
    BY <1>1 DEF SkipImage
  <2>2. stream \in Seq(Image)
    BY DEF Inv, TypeOK
  <2>3. /\ DOMAIN stream' \subseteq DOMAIN stream
        /\ Len(stream) \in DOMAIN stream /\ Len(stream) \notin DOMAIN stream'
    BY <2>1, <2>2
  <2>4. /\ Ahead[2] = DOMAIN stream /\ Ahead'[2] = DOMAIN stream'
        /\ \A k \in {1, 3, 4, 5} : Ahead'[k] = Ahead[k]
    BY <2>1 DEF Ahead, Unstarted, PhasesLeft, JoinsAhead, WritesAhead
  <2>5. Ahead'[2] # Ahead[2] /\ \A k \in 1 .. 5 : Ahead'[k] \subseteq Ahead[k]
    BY <2>3, <2>4
  <2> QED BY <2>5, PartsShrink
<1>2. CASE MatchImage \/ BlockTimesOut
  <2>1. phase = "blocking" /\ phase' \in {"starting", "idle"}
    BY <1>2 DEF MatchImage, BlockTimesOut
  <2>2. PhasesLeft' < PhasesLeft
    BY <2>1 DEF PhasesLeft
  <2>3. \A k \in 2 .. 5 : Ahead'[k] \subseteq Ahead[k]
    BY <2>1, ThreadsAhead DEF Ahead, Unstarted
  <2> QED BY <2>2, <2>3, LeavesPhase
<1> QED BY <1>1, <1>2

LEMMA StartAhead ==
    ASSUME Inv, StartTasks
    PROVE  Shrinks(Ahead', Ahead)
<1>1. phase = "starting" /\ phase' \in {"fetching", "unwinding", "idle"}
  BY DEF StartTasks
<1>2. PhasesLeft' < PhasesLeft
  BY <1>1 DEF PhasesLeft
<1>3. \A k \in 2 .. 5 : Ahead'[k] \subseteq Ahead[k]
  BY <1>1, ThreadsAhead DEF Ahead, Unstarted
<1> QED BY <1>2, <1>3, LeavesPhase

(* The threads run, and are joined.                                        *)
LEMMA RunAhead ==
    ASSUME Inv, WritersFollow, RunTasks
    PROVE  Shrinks(Ahead', Ahead)
<1>1. /\ phase \in {"fetching", "unwinding"} /\ FetchStep
      /\ UNCHANGED << phase, todo, stream >>
  BY DEF RunTasks
<1>2. /\ JoinsAhead' \subseteq JoinsAhead /\ WritesAhead' \subseteq WritesAhead
      /\ JoinsAhead' # JoinsAhead \/ WritesAhead' # WritesAhead
  BY <1>1, FetchStepAhead DEF Inv, TypeOK, FetchTypes
<1>3. /\ Ahead[3] = JoinsAhead /\ Ahead'[3] = JoinsAhead'
      /\ Ahead[4] = WritesAhead /\ Ahead'[4] = WritesAhead'
      /\ \A k \in {1, 2, 5} : Ahead'[k] = Ahead[k]
  BY <1>1 DEF Ahead, Unstarted, PhasesLeft
<1>4. \A k \in 1 .. 5 : Ahead'[k] \subseteq Ahead[k]
  BY <1>2, <1>3
<1> QED BY <1>2, <1>3, <1>4, PartsShrink

LEMMA JoinAhead ==
    ASSUME Unwound \/ JoinTasks
    PROVE  Shrinks(Ahead', Ahead)
<1>1. /\ phase \in {"fetching", "unwinding"} /\ phase' \in {"idle", "formatting"}
      /\ Launch({})
  BY DEF Unwound, JoinTasks
<1>2. PhasesLeft' < PhasesLeft
  BY <1>1 DEF PhasesLeft
<1>3. \A k \in 2 .. 5 : Ahead'[k] \subseteq Ahead[k]
  BY <1>1, NothingLaunched DEF Ahead, Unstarted
<1> QED BY <1>2, <1>3, LeavesPhase

(* assemble goes through its phases once.                                  *)
LEMMA AssembleAhead ==
    ASSUME Inv, Format \/ SendFiles \/ SendFails \/ Cleanup
    PROVE  Shrinks(Ahead', Ahead)
<1>1. \/ phase = "formatting" /\ phase' \in {"sending", "idle"}
      \/ phase = "sending" /\ phase' = "announcing" /\ todo' = Ccds(cur)
      \/ phase \in {"sending", "announcing"} /\ phase' = "idle"
  <2>1. CASE Format
    <3>1. PICK out \in [Ccds(cur) -> {"ok", "caught", "escaped"}] :
            phase' = "sending" \/ \E before \in SUBSET Caught(out) : Escape(before)
      BY <2>1 DEF Format
    <3>2. ASSUME NEW before \in SUBSET Caught(out), Escape(before)
          PROVE  phase' = "idle"
      BY <3>2 DEF Escape
    <3> QED BY <2>1, <3>1, <3>2 DEF Format
  <2>2. CASE SendFiles \/ SendFails \/ Cleanup
    BY <2>2 DEF SendFiles, SendFails, Cleanup, Escape
  <2> QED BY <2>1, <2>2
<1>2. UNCHANGED << task, pushed, writer >>
  BY DEF Format, SendFiles, SendFails, Cleanup
<1>3. PhasesLeft' < PhasesLeft
  BY <1>1 DEF PhasesLeft
<1>4. JoinsAhead' = JoinsAhead /\ WritesAhead' = WritesAhead
  BY <1>2 DEF JoinsAhead, WritesAhead
<1>5. Ccds(cur) \subseteq File
  BY DEF Ccds, FilesOf
<1>6. \A k \in 2 .. 5 : Ahead'[k] \subseteq Ahead[k]
  BY <1>1, <1>4, <1>5 DEF Ahead, Unstarted
<1> QED BY <1>3, <1>6, LeavesPhase

LEMMA AnnounceAhead ==
    ASSUME NEW f \in File, Announce(f)
    PROVE  Shrinks(Ahead', Ahead)
<1>1. /\ phase = "announcing" /\ f \in todo /\ todo' = todo \ {f}
      /\ UNCHANGED << phase, stream, task, pushed, writer >>
  BY DEF Announce
<1>2. /\ Ahead[5] = todo /\ Ahead'[5] = todo \ {f}
      /\ \A k \in 1 .. 4 : Ahead'[k] = Ahead[k]
  BY <1>1 DEF Ahead, Unstarted, PhasesLeft, JoinsAhead, WritesAhead
<1>3. Ahead'[5] # Ahead[5] /\ \A k \in 1 .. 5 : Ahead'[k] \subseteq Ahead[k]
  BY <1>1, <1>2
<1> QED BY <1>3, PartsShrink

(* Outside the loop that joins them no thread has a state.                 *)
LEMMA ForwarderWritersFollow == Spec => []WritersFollow
<1>1. ForwarderInit => WritersFollow
  BY WriterHasTask DEF ForwarderInit, WorkersOff, WritersFollow
<1>2. Inv /\ WritersFollow /\ [ForwarderNext]_vars => WritersFollow'
  <2> SUFFICES ASSUME Inv, WritersFollow, [ForwarderNext]_vars PROVE WritersFollow'
    OBVIOUS
  <2>1. CASE RunTasks
    BY <2>1, WritersFollowStep DEF RunTasks, Inv, TypeOK, FetchTypes
  <2>2. ASSUME NEW S \in SUBSET Task, Launch(S)
        PROVE  WritersFollow'
    BY <2>2, WriterHasTask DEF Launch, WritersFollow
  <2>3. ASSUME UNCHANGED workers
        PROVE  WritersFollow'
    BY <2>3 DEF WritersFollow
  <2>4. Receive => UNCHANGED workers
    BY ReceiveTakes DEF Taken
  <2>5. StartTasks => UNCHANGED workers \/ \E S \in SUBSET Task : Launch(S)
    <3>1. Listed \in SUBSET Task
      BY DEF Listed
    <3> QED BY <3>1 DEF StartTasks
  <2>6. Unwound \/ JoinTasks \/ Crash => \E S \in SUBSET Task : Launch(S)
    <3>1. {} \in SUBSET Task
      OBVIOUS
    <3> QED BY <3>1 DEF Unwound, JoinTasks, Crash
  <2>7. SkipImage \/ MatchImage \/ BlockTimesOut \/ Format \/ SendFiles \/ SendFails
          \/ Cleanup \/ (\E f \in File : Announce(f)) \/ (\E i \in Image : Readout(i))
        => UNCHANGED workers
    BY DEF SkipImage, MatchImage, BlockTimesOut, Format, SendFiles, SendFails, Cleanup,
           Announce, Readout
  <2>8. UNCHANGED vars => UNCHANGED workers
    BY DEF vars
  <2> QED BY <2>1, <2>2, <2>3, <2>4, <2>5, <2>6, <2>7, <2>8 DEF ForwarderNext, Work
<1> QED BY <1>1, <1>2, InvHolds, PTL DEF Spec

(* Each step of a handler or of its threads leaves less to do, so that it  *)
(* runs out of steps, whatever fails: nothing is tried twice, nothing is   *)
(* put back (miniforwarder.cpp:302-363, 503-612, Formatter.cpp:77-108).  *)
THEOREM HandlersRunOut == Spec => HandlerRunsOut
<1>1. Inv /\ WritersFollow /\ Work => Shrinks(Ahead', Ahead)
  BY BlockAhead, StartAhead, RunAhead, JoinAhead, AssembleAhead, AnnounceAhead DEF Work
<1>2. Inv /\ WritersFollow /\ [ForwarderNext]_vars => [Work => Shrinks(Ahead', Ahead)]_vars
  BY <1>1
<1> QED BY <1>2, InvHolds, ForwarderWritersFollow, PTL DEF Spec, HandlerRunsOut

(* The two phases that could have no way out: threads that wait for each   *)
(* other, and a file that write_header can neither fill nor refuse.        *)
HandlerCanGoOn ==
    /\ NobodyWaitsInVain
    /\ \E out \in [Ccds(cur) -> {"ok", "caught", "escaped"}],
          content \in [Ccds(cur) -> Content] :
         \A f \in Ccds(cur) : FormatOutcome(f, out[f], content[f])

(* Any file, missing, cut short or whole, meets any header, missing, empty *)
(* or whole, with an outcome.                                              *)
LEMMA EveryFileHasOutcome ==
    ASSUME Inv, NEW f \in Ccds(cur)
    PROVE  \E o \in {"ok", "caught", "escaped"}, c \in Content : FormatOutcome(f, o, c)
<1>1. /\ hfile[cur] \in {"absent", "good", "bad"} /\ disk[f] \in Content
      /\ ccds[f] \in Nat
  BY DEF Inv, TypeOK, ScoreboardTypeOK, PixelFetchTypeOK, Ccds, FilesOf
<1>2. CASE disk[f] = "absent" \/ hfile[cur] = "bad"
  BY <1>1, <1>2 DEF FormatOutcome, Unlooked, Content
<1>3. CASE disk[f] # "absent" /\ hfile[cur] = "good"
  BY <1>1, <1>3 DEF FormatOutcome, Unlooked, Content
<1>4. CASE disk[f] # "absent" /\ hfile[cur] = "absent"
  BY <1>1, <1>4 DEF FormatOutcome, Unlooked, Content
<1> QED BY <1>1, <1>2, <1>3, <1>4

(* No handler is ever stuck: until its futures are ready one of its        *)
(* threads can go on, and assemble has an outcome for every state the      *)
(* files are in.  With HandlersRunOut this is why the consumer thread      *)
(* comes back for the next message, for any number of files                *)
(* (miniforwarder.cpp:337-360, 533-575, Formatter.cpp:77-108).           *)
THEOREM HandlersCanGoOn == Spec => []HandlerCanGoOn
<1>1. ASSUME Inv, WritersFollow
      PROVE  HandlerCanGoOn
  <2>1. NobodyWaitsInVain
    BY <1>1, SomeThreadCanGoOn DEF Inv, TypeOK, FetchTypes
  <2> DEFINE Fits(f, x) == FormatOutcome(f, x[1], x[2])
             Outcomes == {"ok", "caught", "escaped"} \X Content
             chosen == [f \in Ccds(cur) |-> CHOOSE x \in Outcomes : Fits(f, x)]
             out == [f \in Ccds(cur) |-> chosen[f][1]]
             content == [f \in Ccds(cur) |-> chosen[f][2]]
  <2>2. ASSUME NEW f \in Ccds(cur)
        PROVE  chosen[f] \in Outcomes /\ Fits(f, chosen[f])
    <3>1. PICK o \in {"ok", "caught", "escaped"}, c \in Content : FormatOutcome(f, o, c)
      BY <1>1, EveryFileHasOutcome
    <3>2. << o, c >> \in Outcomes /\ Fits(f, << o, c >>)
      BY <3>1
    <3> HIDE DEF Fits, Outcomes
    <3> QED BY <3>2
  <2>3. /\ out \in [Ccds(cur) -> {"ok", "caught", "escaped"}]
        /\ content \in [Ccds(cur) -> Content]
        /\ \A f \in Ccds(cur) : FormatOutcome(f, out[f], content[f])
    BY <2>2
  <2> HIDE DEF out, content
  <2> QED BY <2>1, <2>3 DEF HandlerCanGoOn
<1> QED BY <1>1, InvHolds, ForwarderWritersFollow, PTL

-----------------------------------------------------------------------------
(* Forwarder implements ImageTransfer, provided no image id is the         *)
(* beginning of another (Scoreboard::remove deletes by prefix).            *)
IdsApart == \A i \in Image : Prefixed[i] = {i}

(* What ImageTransfer sees of a step that leaves <id>:ccd, the archive and *)
(* the announcements alone: nothing.                                       *)
Invisible == UNCHANGED << ccds, archive, told >>

(* An invisible step changes no variable of ImageTransfer.                 *)
LEMMA InvisibleStutters == Invisible => UNCHANGED Transfer!vars
  BY DEF Invisible, Transfer!vars, Held, Delivered

(* The handlers' bookkeeping is invisible.                                 *)
LEMMA BookkeepingInvisible ==
    ASSUME \/ Receive
           \/ SkipImage \/ MatchImage \/ BlockTimesOut
           \/ StartTasks \/ Unwound \/ JoinTasks \/ Format
           \/ \E i \in Image : Readout(i)
    PROVE  Invisible
<1>1. CASE Receive
  <2>1. UNCHANGED << archive, told >>
    <3>1. ASSUME NEW i \in Image, NEW t \in Target, NEW list \in Lists, XferParams(i, t, list)
          PROVE  Taken
      BY <3>1, Zenon DEF XferParams
    <3>2. ASSUME NEW i \in Image, HeaderReady(i) \/ EndReadout(i)
          PROVE  Taken
      BY <3>2, Zenon DEF HeaderReady, EndReadout
    <3>3. ASSUME Associated
          PROVE  Taken
      BY <3>3, Zenon DEF Associated
    <3>4. Taken
      BY <1>1, <3>1, <3>2, <3>3, Zenon DEF Receive
    <3>5. QED
      BY <3>4 DEF Taken
  <2>2. ASSUME NEW i \in Image, HeaderReady(i)
        PROVE  ccds' = ccds
    BY <2>2 DEF HeaderReady, HeaderPullFails,
                HeaderPulled, AddHeader, ExecThrows
  <2>3. ASSUME NEW i \in Image, NEW t \in Target, NEW list \in Lists, XferParams(i, t, list)
        PROVE  ccds' = ccds
    BY <2>3 DEF XferParams, AddXfer, ExecThrows
  <2>4. ASSUME (\E i \in Image : EndReadout(i)) \/ Associated
        PROVE  ccds' = ccds
    BY <2>4 DEF EndReadout, Associated
  <2> QED BY <1>1, <2>1, <2>2, <2>3, <2>4 DEF Receive, Invisible
<1>2. CASE SkipImage \/ MatchImage \/ BlockTimesOut
  BY <1>2 DEF SkipImage, MatchImage, BlockTimesOut, Invisible
<1>3. CASE StartTasks \/ Unwound \/ JoinTasks \/ Format
  BY <1>3 DEF StartTasks, Unwound, JoinTasks, Format, ExecThrows, Invisible
<1>4. CASE \E i \in Image : Readout(i)
  BY <1>4 DEF Readout, Invisible
<1> QED BY <1>1, <1>2, <1>3, <1>4

(* Registering a file takes custody of it.                                 *)
LEMMA RunTasksTakes ==
    ASSUME Inv, RunTasks
    PROVE  Invisible \/ \E f \in File : Transfer!Take(f)
<1>1. UNCHANGED << archive, told >>
  BY DEF RunTasks
<1>2. CASE ccds' = ccds
  BY <1>1, <1>2 DEF Invisible
<1>3. ASSUME NEW t \in Task, Pushes(t)
      PROVE  \E f \in File : Transfer!Take(f)
  <2> DEFINE p == Path(Next2Push(t))
  <2>1. FetchTypes
    BY TypesSplit DEF Inv, FetchTypes
  <2>2. p \in File
    <3>1. /\ Sensors[t[1]] \in 1 .. 3
          /\ pushed[t] \in 0 .. 2
          /\ pushed[t] < Sensors[t[1]]
      BY <1>3, <2>1, ScoreboardConstants
         DEF Pushes, Task, FetchTypes, PixelFetchTypeOK, PushedInRange
    <3> QED BY <2>1, <3>1 DEF FetchTypes, PixelFetchTypeOK, Path, Next2Push, Task, File
  <2>3. ccds \in [File -> Nat] /\ ccds' = [ccds EXCEPT ![p] = @ + 1]
    BY <1>3, <2>1 DEF Pushes, PushCcd, FetchTypes, ScoreboardTypeOK
  <2> HIDE DEF p
  <2>4. \A f \in File : ccds'[f] > 0 <=> (ccds[f] > 0 \/ f = p)
    BY <2>2, <2>3
  <2>5. Held' = Held \cup {p}
    BY <2>2, <2>4 DEF Held
  <2>6. Delivered' = Delivered
    BY <1>1 DEF Delivered
  <2> QED BY <1>1, <2>2, <2>5, <2>6 DEF Transfer!Take
<1>4. ccds' = ccds \/ \E t \in Task : Pushes(t)
  BY DEF RunTasks, FetchStep, FetchPixels, FetchFails, Register, RegisterFails, Pushes,
         CheckFile, CreateFile, WritePixels, WriteFails
<1> QED BY <1>2, <1>3, <1>4

(* A transfer, successful or not, delivers files the forwarder holds.      *)
LEMMA SendDelivers ==
    ASSUME Inv, SendFiles \/ SendFails
    PROVE  \E t \in Target : \E files \in SUBSET File : Transfer!Deliver(t, files)
<1>1. /\ target[cur] \in Target
      /\ archive \in [Target -> [File -> Content]]
      /\ Ccds(cur) \in SUBSET Held /\ Held \in SUBSET File
  BY TypesSplit DEF Inv, Assembling, HandlerTypes, Ccds, FilesOf, Held, SendFiles, SendFails
<1>2. PICK whole \in SUBSET {f \in Ccds(cur) : disk[f] # "absent"},
           cut \in SUBSET Ccds(cur) : Copy(whole, cut)
  <2>1. CASE SendFiles
    <3>1. Ccds(cur) \in SUBSET {f \in Ccds(cur) : disk[f] # "absent"}
      BY <2>1 DEF SendFiles
    <3> QED BY <2>1, <3>1 DEF SendFiles
  <2>2. CASE SendFails
    <3>1. PICK whole \in SUBSET {f \in Ccds(cur) : disk[f] # "absent"},
               cut \in {{}} \cup {{f} : f \in {x \in Ccds(cur) : disk[x] # "absent"}} :
            Copy(whole, cut)
      BY <2>2 DEF SendFails
    <3>2. cut \in SUBSET Ccds(cur)
      OBVIOUS
    <3> QED BY <3>1, <3>2
  <2> QED BY <2>1, <2>2
<1> DEFINE g == [f \in File |-> IF f \in cut THEN "partial"
                                ELSE IF f \in whole THEN disk[f]
                                ELSE archive[target[cur]][f]]
<1>3. archive' = [archive EXCEPT ![target[cur]] = g]
  BY <1>1, <1>2 DEF Copy
<1>4. \A f \in File : g[f] # "absent" <=>
                        (f \in whole \cup cut \/ archive[target[cur]][f] # "absent")
  BY <1>1, <1>2
<1> HIDE DEF g
<1>5. \A t \in Target : archive'[t] = IF t = target[cur] THEN g ELSE archive[t]
  BY <1>1, <1>3
<1>6. Delivered' = Delivered \cup ({target[cur]} \X (whole \cup cut))
  <2>1. ASSUME NEW x \in Target \X File
        PROVE  x \in Delivered' <=> (x \in Delivered \cup ({target[cur]} \X (whole \cup cut)))
    BY <1>1, <1>4, <1>5 DEF Delivered
  <2>2. {target[cur]} \X (whole \cup cut) \subseteq Target \X File
    BY <1>1
  <2> QED BY <2>1, <2>2 DEF Delivered
<1>7. UNCHANGED << Held, told >>
  BY DEF SendFiles, SendFails, Held
<1>8. whole \cup cut \in SUBSET Held
  BY <1>1
<1> QED BY <1>1, <1>6, <1>7, <1>8 DEF Transfer!Deliver

(* An announcement tells of a delivered file that is still held.           *)
LEMMA AnnounceTells ==
    ASSUME Inv, NEW f \in File, Announce(f)
    PROVE  Invisible \/ Transfer!Tell(target[cur], f)
<1>1. /\ UNCHANGED << ccds, archive >>
      /\ told' \in {told, told \cup {<< target[cur], f >>}}
      /\ phase = "announcing" /\ f \in todo
  BY DEF Announce
<1>2. f \in Held /\ << target[cur], f >> \in Delivered
  BY <1>1 DEF Inv, Assembling, Ccds, FilesOf, Held, Delivered
<1>3. UNCHANGED << Held, Delivered >>
  BY <1>1 DEF Held, Delivered
<1> QED BY <1>1, <1>2, <1>3 DEF Invisible, Transfer!Tell

(* With ids that are no beginnings of each other, cleanup lets go of the   *)
(* files it delivered and of no others.                                    *)
LEMMA CleanupLetsGo ==
    ASSUME Inv, IdsApart, Cleanup
    PROVE  Invisible \/ Transfer!LetGo(target[cur], Ccds(cur))
<1>1. phase = "announcing" /\ UNCHANGED << archive, told >>
  BY DEF Cleanup
<1>2. CASE ExecThrows
  BY <1>1, <1>2 DEF ExecThrows, Invisible
<1>3. CASE Remove(cur)
  <2>1. cur \in Image /\ target[cur] \in Target
    BY <1>1, TypesSplit DEF Inv, PixelFetchTypeOK, Assembling
  <2>2. ccds' = [f \in File |-> IF f[1] = cur THEN 0 ELSE ccds[f]]
    BY <1>3, <2>1 DEF Remove, IdsApart
  <2>3. \A f \in File : ccds'[f] > 0 <=> (ccds[f] > 0 /\ f[1] # cur)
    BY <2>2
  <2>4. Held' = Held \ Ccds(cur)
    BY <2>3 DEF Held, Ccds, FilesOf
  <2>5. {target[cur]} \X Ccds(cur) \subseteq Delivered
    BY <1>1, <2>1 DEF Inv, Assembling, Ccds, FilesOf, Delivered
  <2>6. UNCHANGED << Delivered, told >>
    BY <1>1 DEF Delivered
  <2> QED BY <2>4, <2>5, <2>6 DEF Transfer!LetGo
<1> QED BY <1>2, <1>3 DEF Cleanup

(* A crash forgets what was held and nothing that was delivered.           *)
LEMMA CrashDies ==
    ASSUME Crash
    PROVE  Transfer!Die
<1>1. \A f \in File : ccds'[f] = 0
  BY DEF Crash, Flush, Empty
<1>2. Held' = {}
  BY <1>1 DEF Held
<1>3. UNCHANGED << Delivered, told >>
  BY DEF Crash, Delivered
<1> QED BY <1>2, <1>3 DEF Transfer!Die

(* Every step of the forwarder is a step of ImageTransfer, or invisible.   *)
LEMMA StepImplements ==
    ASSUME IdsApart, Inv, [ForwarderNext]_vars
    PROVE  [Transfer!Next]_Transfer!vars
<1>1. CASE Invisible
  BY <1>1, InvisibleStutters
<1>2. CASE RunTasks
  BY <1>1, <1>2, RunTasksTakes DEF Transfer!Next
<1>3. CASE SendFiles \/ SendFails
  BY <1>3, SendDelivers DEF Transfer!Next
<1>4. ASSUME NEW f \in File, Announce(f)
      PROVE  [Transfer!Next]_Transfer!vars
  <2>1. target[cur] \in Target
    BY <1>4 DEF Announce, Inv, Assembling
  <2> QED BY <1>1, <1>4, <2>1, AnnounceTells DEF Transfer!Next
<1>5. CASE Cleanup
  <2>1. target[cur] \in Target /\ Ccds(cur) \in SUBSET File
    BY <1>5 DEF Cleanup, Inv, Assembling, Ccds, FilesOf
  <2> QED BY <1>1, <1>5, <2>1, CleanupLetsGo DEF Transfer!Next
<1>6. CASE Crash
  BY <1>6, CrashDies DEF Transfer!Next
<1>7. CASE UNCHANGED vars
  BY <1>1, <1>7 DEF vars, Invisible
<1> QED BY <1>1, <1>2, <1>3, <1>4, <1>5, <1>6, <1>7, BookkeepingInvisible
        DEF ForwarderNext, Work

(* A forwarder that starts holds and has delivered nothing.                *)
LEMMA InitImplements == ForwarderInit => Transfer!Init
<1> SUFFICES ASSUME ForwarderInit PROVE Transfer!Init
  OBVIOUS
<1>1. \A f \in File : ccds[f] = 0
  BY DEF ForwarderInit, ScoreboardInit, Empty
<1>2. Held = {}
  BY <1>1 DEF Held
<1>3. Delivered = {} /\ told = {}
  BY DEF ForwarderInit, Delivered
<1> QED BY <1>2, <1>3 DEF Transfer!Init

(* The forwarder keeps custody of pixel files: it delivers only files it   *)
(* took, tells only of files it delivered, and while it lives it lets go   *)
(* only of files it delivered.                                             *)
THEOREM Implements ==
    ASSUME IdsApart
    PROVE  Spec => ImplementsTransfer
<1>1. Inv /\ [ForwarderNext]_vars => [Transfer!Next]_Transfer!vars
  BY StepImplements
<1> QED BY <1>1, InitImplements, InvHolds, PTL DEF Spec, ImplementsTransfer, Transfer!Spec

-----------------------------------------------------------------------------
(* Cleaning up one image never makes the forwarder forget an undelivered   *)
(* file, neither of that image nor of another.                             *)
LEMMA StepForgetsDelivered ==
    ASSUME IdsApart, Inv, [ForwarderNext]_vars, crashes' = crashes,
           NEW f \in File, ccds[f] > 0, ccds'[f] = 0
    PROVE  archive[target[f[1]]][f] # "absent"
<1>1. ~ Invisible
  BY DEF Invisible
<1>2. ~ Crash
  <2>1. crashes \in Nat
    BY TypesSplit DEF Inv, HandlerTypes
  <2> QED BY <2>1 DEF Crash
<1>3. CASE RunTasks
  <2>1. \A x \in File : ~ Transfer!Take(x)
    <3>1. f \in Held /\ f \notin Held'
      BY DEF Held
    <3> QED BY <3>1 DEF Transfer!Take
  <2> QED BY <1>1, <1>3, <2>1, RunTasksTakes
<1>4. ~ (SendFiles \/ SendFails) /\ \A x \in File : ~ Announce(x)
  BY DEF SendFiles, SendFails, Announce
<1>5. CASE Cleanup
  <2>1. Remove(cur) /\ phase = "announcing"
    BY <1>1, <1>5 DEF Cleanup, ExecThrows, Invisible
  <2>2. f[1] = cur
    BY <2>1, TypesSplit DEF Inv, PixelFetchTypeOK, Remove, IdsApart
  <2> QED BY <2>1, <2>2 DEF Inv, Assembling, Ccds, FilesOf
<1> QED BY <1>1, <1>2, <1>3, <1>4, <1>5, BookkeepingInvisible
        DEF ForwarderNext, Work, vars, Invisible

(* A registered file leaves the scoreboard of a running forwarder only     *)
(* after it was delivered, whatever fails and whoever is cleaned up.       *)
THEOREM ForgetsOnlyDelivered ==
    ASSUME IdsApart
    PROVE  Spec => ForgottenOnlyWhenDelivered
<1>1. Inv /\ [ForwarderNext]_vars =>
        [crashes' = crashes =>
           \A f \in File : (ccds[f] > 0 /\ ccds'[f] = 0) =>
              archive[target[f[1]]][f] # "absent"]_vars
  BY StepForgetsDelivered
<1> QED BY <1>1, InvHolds, PTL DEF Spec, ForgottenOnlyWhenDelivered
=============================================================================
