------------------------------ MODULE Forwarder ------------------------------
(***************************************************************************)
(* The forwarder process (forwarder/miniforwarder.cpp): one thread takes   *)
(* messages from the consume queue and runs their handlers to the end, one *)
(* at a time.  END_READOUT waits for the image on the DAQ stream, runs the *)
(* threads of PixelFetch and joins them; HEADER_READY fetches the header.  *)
(* Whichever of the two finds both halves on the scoreboard assembles the  *)
(* image: headers into the files, files to the archive, announcements out, *)
(* local copies away.                                                      *)
(*                                                                         *)
(* A handler is cut where another thread, or the death of the process, can *)
(* be told apart from not having come between.                             *)
(***************************************************************************)
EXTENDS PixelFetch, Sequences

CONSTANTS
    DaqLocation,   \* locations the partition's configuration lists
    BadPattern,    \* locations whose readout pattern is refused
    Live,          \* MODE: TRUE for live, FALSE for catchup
    Lists,         \* bound: RAFT_CCD_LISTs that XFER_PARAMS may carry
    MaxMessages,   \* bound: messages delivered
    MaxCrashes     \* bound: deaths of the process

ASSUME ForwarderConstants ==
    /\ DaqLocation \subseteq Location
    /\ BadPattern \subseteq DaqLocation
    /\ Live \in BOOLEAN
    /\ Lists \subseteq [Location -> Nat]
    /\ MaxMessages \in Nat
    /\ MaxCrashes \in Nat

VARIABLES
    phase,      \* where the consumer thread is in its handler
    via,        \* the handler that assembles: "header" or "end"
    hfile,      \* header files in the work directory
    stream,     \* images pending on the DAQ stream
    todo,       \* delivered files still to be announced
    archive,    \* files at each destination
    told,       \* what was announced: <<destination, file>>
    reports,    \* error telemetry: <<code, file it speaks of>>
    messages,   \* messages delivered so far
    crashes     \* deaths so far

handler == << phase, via, todo >>
outside == << archive, told, reports >>
counts == << messages, crashes >>
vars == << fetching, handler, hfile, stream, outside, counts >>

Phase == {"idle", "blocking", "starting", "fetching", "unwinding", "formatting",
          "sending", "announcing"}
Report == {5610, 5611, 5612} \X File

TypeOK ==
    /\ ScoreboardTypeOK
    /\ PixelFetchTypeOK
    /\ phase \in Phase
    /\ via \in {"header", "end"}
    /\ hfile \in [Image -> {"absent", "good", "bad"}]
    /\ stream \in Seq(Image)
    /\ todo \subseteq File
    /\ archive \in [Target -> [File -> Content]]
    /\ told \subseteq Target \X File
    /\ reports \subseteq Report
    /\ messages \in Nat
    /\ crashes \in Nat

-----------------------------------------------------------------------------
ForwarderInit ==
    /\ ScoreboardInit
    /\ WorkersOff
    /\ cur \in Image
    /\ daq = IF Live THEN {} ELSE Image
    /\ disk = [f \in File |-> "absent"]
    /\ phase = "idle" /\ via = "end" /\ todo = {}
    /\ hfile = [i \in Image |-> "absent"]
    /\ stream = << >>
    /\ archive = [t \in Target |-> [f \in File |-> "absent"]]
    /\ told = {} /\ reports = {}
    /\ messages = 0 /\ crashes = 0

(* Error telemetry, one <<code, files it speaks of>> per message;          *)
(* publish_image_retrieval_for_archiving swallows a PublisherError, so any *)
(* of them may be lost.                                                    *)
Telemetry(about) ==
    \E said \in (IF "telemetry" \in Faults THEN SUBSET about ELSE {about}) :
        reports' = reports \cup UNION {{m[1]} \X m[2] : m \in said}

(* The consumer thread takes a message off the queue.                      *)
Taken ==
    /\ phase = "idle"
    /\ messages < MaxMessages
    /\ messages' = messages + 1
    /\ UNCHANGED << daq, crashes, archive, told, workers, disk, todo >>

(* An exception that assemble lets through: header_ready turns it into a   *)
(* 5610, end_readout leaves it to on_message, which only logs it.          *)
Escape(about) ==
    /\ phase' = "idle"
    /\ Telemetry(about \cup IF via = "header" THEN {<< 5610, FilesOf(cur) >>} ELSE {})

-----------------------------------------------------------------------------
(* check_valid_board: the list may repeat a location, and may be empty.    *)
Configured(list) == \A l \in Location : list[l] > 0 => l \in DaqLocation

(* XFER_PARAMS: a list with a location that is not configured is refused   *)
(* as a whole; a RedisError is logged.                                     *)
XferParams(i, t, list) ==
    /\ Taken
    /\ \A l \in Location : locs[i][l] + list[l] <= MaxCopies
    /\ IF Configured(list) THEN AddXfer(i, t, list) ELSE UNCHANGED board
    /\ UNCHANGED << cur, phase, via, hfile, stream, reports >>

(* Mutant of HeaderReady: it leaves assembling to END_READOUT.              *)
HeaderReadyOnly(i) ==
    /\ Taken
    /\ cur' = i /\ via' = "header"
    /\ hfile' = [hfile EXCEPT ![i] = "good"]
    /\ AddHeader(i)
    /\ phase' = "idle"
    /\ UNCHANGED << stream, reports >>

(* HeaderFetcher::fetch removes the file of an earlier fetch before it     *)
(* pulls the new one.  A failed pull leaves none, a failing curl_easy_init *)
(* an empty one; what was pulled is not looked at.                         *)
HeaderPullFails(i) ==
    /\ "header" \in Faults
    /\ hfile' \in {[hfile EXCEPT ![i] = c] : c \in {"absent", "bad"}}

HeaderPulled(i) ==
    hfile' \in {[hfile EXCEPT ![i] = c] :
                   c \in {"good"} \cup {x \in {"bad"} : "content" \in Faults}}

(* HEADER_READY: fetch, add_header, assemble; any exception becomes a 5610. *)
HeaderReady(i) ==
    /\ Taken
    /\ cur' = i /\ via' = "header"
    /\ \/ /\ HeaderPullFails(i)
          /\ phase' = "idle"
          /\ Telemetry({<< 5610, FilesOf(i) >>})
          /\ UNCHANGED board
       \/ /\ HeaderPulled(i)
          /\ \/ /\ AddHeader(i)
                /\ phase' = IF Ready(i)' THEN "formatting" ELSE "idle"
                /\ UNCHANGED reports
             \/ /\ ExecThrows
                /\ phase' = "idle"
                /\ Telemetry({<< 5610, FilesOf(i) >>})
    /\ UNCHANGED stream

(* END_READOUT.                                                            *)
EndReadout(i) ==
    /\ Taken
    /\ cur' = i /\ via' = "end"
    /\ phase' = IF Live THEN "blocking" ELSE "starting"
    /\ UNCHANGED << board, hfile, stream, reports >>

(* ASSOCIATED restarts the DAQ stream once its acknowledgement is out:      *)
(* pending images are dropped.                                             *)
Associated ==
    /\ Taken
    /\ stream' \in {<< >>} \cup {s \in {stream} : "publish" \in Faults}
    /\ UNCHANGED << cur, board, phase, via, hfile, reports >>

-----------------------------------------------------------------------------
(* Mutant of BlockTimesOut: the stream is waited for without a timeout.     *)
BlockWaits ==
    /\ phase = "blocking"
    /\ stream = << >> /\ cur \in daq
    /\ phase' = "idle"
    /\ UNCHANGED << fetching, via, todo, hfile, stream, outside, counts >>

(* Mutant of SkipImage: an image of another readout goes back to the stream. *)
SkipImageForLater ==
    /\ phase = "blocking"
    /\ stream # << >> /\ Head(stream) # cur
    /\ stream' = Append(Tail(stream), Head(stream))
    /\ UNCHANGED << fetching, handler, hfile, outside, counts >>

(* Notification::block: images of other readouts are passed over, the      *)
(* first match releases the handler, an empty stream times out and the     *)
(* handler returns without a word of telemetry.                            *)
SkipImage ==
    /\ phase = "blocking"
    /\ stream # << >> /\ Head(stream) # cur
    /\ stream' = Tail(stream)
    /\ UNCHANGED << fetching, handler, hfile, outside, counts >>

MatchImage ==
    /\ phase = "blocking"
    /\ stream # << >> /\ Head(stream) = cur
    /\ stream' = Tail(stream)
    /\ phase' \in {"starting"} \cup {x \in {"idle"} : "barrier" \in Faults}
    /\ UNCHANGED << fetching, via, todo, hfile, outside, counts >>

BlockTimesOut ==
    /\ phase = "blocking"
    /\ stream = << >>
    /\ phase' = "idle"
    /\ UNCHANGED << fetching, via, todo, hfile, stream, outside, counts >>

(* The LRANGE of the locations, then the loop that makes one DAQFetcher    *)
(* per element.  A readout pattern that is refused, or a DAQFetcher that   *)
(* cannot connect to Redis, ends the loop: the exception leaves the        *)
(* handler, after the destructors have waited for the tasks begun so far.  *)
Listed == {t \in Task : t[2] <= locs[cur][t[1]]}
Refused == {t \in Task : t[1] \in BadPattern}

StartTasks ==
    /\ phase = "starting"
    /\ \/ /\ ExecReturns
          /\ UNCHANGED keys
          /\ \/ /\ Listed \cap Refused = {}
                /\ Launch(Listed)
                /\ phase' = "fetching"
             \/ \E begun \in SUBSET (Listed \ Refused) :
                  /\ "redis" \in Faults \/ Listed \cap Refused # {}
                  /\ begun # Listed
                  /\ Launch(begun)
                  /\ phase' = "unwinding"
       \/ /\ ExecThrows
          /\ phase' = "idle"
          /\ UNCHANGED workers
    /\ UNCHANGED << cur, daq, disk, via, todo, hfile, stream, outside, counts >>

RunTasks ==
    /\ phase \in {"fetching", "unwinding"}
    /\ FetchStep
    /\ UNCHANGED << handler, hfile, stream, outside, counts >>

Unwound ==
    /\ phase = "unwinding" /\ Quiet
    /\ phase' = "idle"
    /\ Launch({})
    /\ UNCHANGED << cur, daq, disk, board, via, todo, hfile, stream, outside, counts >>

(* The get() loop reports the board of each task that failed; assemble     *)
(* follows.                                                                *)
NotFetched ==
    {<< 5611, {f \in FilesOf(cur) : f[2] = t[1]} >> : t \in {u \in Task : task[u] = "failed"}}

(* Mutant of JoinTasks: failed tasks are logged but not reported.           *)
JoinTasksQuietly ==
    /\ phase = "fetching" /\ Quiet
    /\ Launch({})
    /\ ExecReturns /\ UNCHANGED keys
    /\ phase' = IF Ready(cur) THEN "formatting" ELSE "idle"
    /\ UNCHANGED << cur, daq, disk, via, todo, hfile, stream, outside, counts >>

(* Mutant of JoinTasks: assembling is left to HEADER_READY.                 *)
JoinTasksOnly ==
    /\ phase = "fetching" /\ Quiet
    /\ Launch({})
    /\ Telemetry(NotFetched)
    /\ phase' = "idle"
    /\ UNCHANGED << board, cur, daq, disk, via, todo, hfile, stream, archive, told, counts >>

JoinTasks ==
    /\ phase = "fetching" /\ Quiet
    /\ Launch({})
    /\ Telemetry(NotFetched)
    /\ \/ ExecReturns /\ UNCHANGED keys /\ phase' = IF Ready(cur) THEN "formatting" ELSE "idle"
       \/ ExecThrows /\ phase' = "idle"
    /\ UNCHANGED << cur, daq, disk, via, todo, hfile, stream, archive, told, counts >>

-----------------------------------------------------------------------------
(* assemble reads target, header and ccds from the scoreboard when it      *)
(* begins; nothing changes them before cleanup, so the phases below read   *)
(* them where they need them.                                              *)

(* A file write_header had open holds what was meant to be in it, or is    *)
(* damaged: the status of fits_movabs_hdu, of a keyword whose value is     *)
(* tagged "!" and of the close are not looked at.                          *)
Unlooked(content, meant) ==
    content = meant \/ ("unseen" \in Faults /\ content = "damaged")

(* What write_header can make of a file: the header goes in (into a file   *)
(* cut short or damaged as well, which does not mend it), a                *)
(* CannotFormatFitsfile is caught and reported, or another exception (the  *)
(* FITS file does not open, the YAML does not parse) escapes.  Two tasks   *)
(* on one file race, and the file holds what either of them left.          *)
FormatOutcome(f, out, content) ==
    LET short == disk[f] \in {"partial", "damaged"} IN
    IF ccds[f] > 1
      THEN \E meant \in {"partial", "pixels", "headed"} : Unlooked(content, meant)
      ELSE \/ /\ out = "ok" /\ hfile[cur] = "good" /\ disk[f] # "absent"
              /\ Unlooked(content, IF short THEN disk[f] ELSE "headed")
           \/ /\ out = "caught" /\ disk[f] # "absent"
              /\ Unlooked(content, disk[f])
              /\ hfile[cur] # "good" \/ short \/ "format" \in Faults
           \/ /\ out = "escaped" /\ disk[f] # "absent"
              /\ Unlooked(content, disk[f])
              /\ hfile[cur] = "bad" \/ short \/ "open" \in Faults
           \/ out = "escaped" /\ disk[f] = "absent" /\ content = "absent"

Caught(out) == {<< 5611, {f} >> : f \in {x \in Ccds(cur) : out[x] = "caught"}}

(* Mutant of Format: CannotFormatFitsfile is caught but not reported.       *)
FormatQuietly ==
    /\ phase = "formatting"
    /\ \E out \in [Ccds(cur) -> {"ok", "caught", "escaped"}],
          content \in [Ccds(cur) -> Content] :
         /\ \A f \in Ccds(cur) : FormatOutcome(f, out[f], content[f])
         /\ disk' = [f \in File |-> IF f \in Ccds(cur) THEN content[f] ELSE disk[f]]
         /\ IF \A f \in Ccds(cur) : out[f] # "escaped"
              THEN phase' = "sending" /\ UNCHANGED reports
              ELSE Escape({})
    /\ UNCHANGED << cur, daq, workers, board, via, todo, hfile, stream, archive, told,
                    counts >>

(* One task per file; the get() loop reports what it catches until another *)
(* exception ends it.                                                      *)
Format ==
    /\ phase = "formatting"
    /\ \E out \in [Ccds(cur) -> {"ok", "caught", "escaped"}],
          content \in [Ccds(cur) -> Content] :
         /\ \A f \in Ccds(cur) : FormatOutcome(f, out[f], content[f])
         /\ disk' = [f \in File |-> IF f \in Ccds(cur) THEN content[f] ELSE disk[f]]
         /\ IF \A f \in Ccds(cur) : out[f] # "escaped"
              THEN /\ phase' = "sending"
                   /\ Telemetry(Caught(out))
              ELSE \E before \in SUBSET Caught(out) : Escape(before)
    /\ UNCHANGED << cur, daq, workers, board, via, todo, hfile, stream, archive, told,
                    counts >>

(* The copy at the destination: some files arrive whole, some cut short.    *)
Copy(whole, cut) ==
    archive' = [archive EXCEPT ![target[cur]] =
                  [f \in File |-> IF f \in cut THEN "partial"
                                  ELSE IF f \in whole THEN disk[f] ELSE @[f]]]

(* Mutant of SendFiles: the keys go before the announcements.               *)
SendFilesAndForget ==
    /\ phase = "sending"
    /\ \A f \in Ccds(cur) : disk[f] # "absent"
    /\ Copy(Ccds(cur), {})
    /\ phase' = "announcing"
    /\ todo' = Ccds(cur)
    /\ Remove(cur)
    /\ UNCHANGED << cur, daq, workers, disk, via, hfile, stream, told, reports, counts >>

(* Mutant of SendFails: the exit status of the transfer is ignored.         *)
SendFailsUnseen ==
    /\ phase = "sending"
    /\ "send" \in Faults
    /\ phase' = "announcing"
    /\ todo' = Ccds(cur)
    /\ UNCHANGED << fetching, via, hfile, stream, outside, counts >>

(* Mutant of SendFails: the transfer is tried again at once.                *)
SendFailsAndRetries ==
    /\ phase = "sending"
    /\ "send" \in Faults \/ \E f \in Ccds(cur) : disk[f] = "absent"
    /\ Telemetry({<< 5612, FilesOf(cur) >>})
    /\ UNCHANGED << fetching, handler, hfile, stream, archive, told, counts >>

(* Mutant of SendFails: the local files are removed all the same.           *)
SendFailsAndRemoves ==
    /\ phase = "sending"
    /\ "send" \in Faults
    /\ disk' = [f \in File |-> IF f \in Ccds(cur) THEN "absent" ELSE disk[f]]
    /\ phase' = "idle"
    /\ Telemetry({<< 5612, FilesOf(cur) >>})
    /\ UNCHANGED << cur, daq, workers, board, via, todo, hfile, stream, archive, told, counts >>

(* One command (XFER_OPTION: bbcp or scp) copies all files.  It fails when *)
(* a file is missing or the transfer breaks; what was copied until then    *)
(* stays, the last file cut short.                                         *)
SendFiles ==
    /\ phase = "sending"
    /\ \A f \in Ccds(cur) : disk[f] # "absent"
    /\ Copy(Ccds(cur), {})
    /\ phase' = "announcing"
    /\ todo' = Ccds(cur)
    /\ UNCHANGED << fetching, via, hfile, stream, told, reports, counts >>

SendFails ==
    /\ phase = "sending"
    /\ "send" \in Faults \/ \E f \in Ccds(cur) : disk[f] = "absent"
    /\ \E whole \in SUBSET {f \in Ccds(cur) : disk[f] # "absent"},
          cut \in {{}} \cup {{f} : f \in {x \in Ccds(cur) : disk[x] # "absent"}} :
         Copy(whole, cut)
    /\ phase' = "idle"
    /\ Telemetry({<< 5612, FilesOf(cur) >>})
    /\ UNCHANGED << fetching, via, todo, hfile, stream, told, counts >>

(* publish_completed_msgs: one pair of messages per file.                  *)
Announce(f) ==
    /\ phase = "announcing" /\ f \in todo
    /\ todo' = todo \ {f}
    /\ told' \in {told \cup {<< target[cur], f >>}}
                   \cup {x \in {told} : "publish" \in Faults}
    /\ UNCHANGED << fetching, phase, via, hfile, stream, archive, reports, counts >>

(* cleanup: the keys, then the local files.                                *)
Cleanup ==
    /\ phase = "announcing" /\ todo = {}
    /\ \/ /\ Remove(cur)
          /\ disk' = [f \in File |-> IF f \in Ccds(cur) THEN "absent" ELSE disk[f]]
          /\ hfile' = [hfile EXCEPT ![cur] = "absent"]
          /\ phase' = "idle"
          /\ UNCHANGED reports
       \/ /\ ExecThrows
          /\ Escape({})
          /\ UNCHANGED << disk, hfile >>
    /\ UNCHANGED << cur, daq, workers, via, todo, stream, archive, told, counts >>

-----------------------------------------------------------------------------
(* The camera reads an image out: it enters the catalog and the stream.    *)
Readout(i) ==
    /\ i \notin daq
    /\ daq' = daq \cup {i}
    /\ stream' = Append(stream, i)
    /\ UNCHANGED << cur, workers, disk, board, handler, hfile, outside, counts >>

(* The process dies and is started again by systemd (Restart=always): the  *)
(* scoreboard is flushed, the stream opened anew, the message in hand was  *)
(* acknowledged when it was taken.  Files stay behind as they are.         *)
Crash ==
    /\ crashes < MaxCrashes
    /\ crashes' = crashes + 1
    /\ Flush
    /\ Launch({})
    /\ phase' = "idle" /\ todo' = {}
    /\ stream' = << >>
    /\ UNCHANGED << cur, daq, disk, via, hfile, outside, messages >>

Receive ==
    \/ \E i \in Image, t \in Target, list \in Lists : XferParams(i, t, list)
    \/ \E i \in Image : HeaderReady(i) \/ EndReadout(i)
    \/ Associated

Work ==
    \/ SkipImage \/ MatchImage \/ BlockTimesOut
    \/ StartTasks \/ RunTasks \/ Unwound \/ JoinTasks
    \/ Format \/ SendFiles \/ SendFails \/ Cleanup
    \/ \E f \in File : Announce(f)

ForwarderNext == Receive \/ Work \/ Crash \/ \E i \in Image : Readout(i)

Spec == ForwarderInit /\ [][ForwarderNext]_vars

(* The operating system runs the threads of the process, and every call a  *)
(* handler blocks in has a timeout or waits for such a thread.             *)
FairSpec == Spec /\ WF_vars(Work)
-----------------------------------------------------------------------------
(* What assemble relies on when it reads the keys one after another: an    *)
(* image that is ready was asked for, so it has a destination.             *)
ReadyHasTarget ==
    link = "up" => \A i \in Image : Ready(i) => target[i] \in Target

(* xfer_complete and telemetry code 0 name only files that the transfer    *)
(* delivered to that destination, through every failure, retry and crash.  *)
AnnouncedDelivered == \A x \in told : archive[x[1]][x[2]] # "absent"

(* A file announced as transferred holds all pixels and its header, or     *)
(* some telemetry said that this file or its image has a problem, or       *)
(* cfitsio failed on it where the code does not look (a close, a keyword   *)
(* tagged "!"): such a file is announced, and nobody is told.              *)
Reported(f) == \E r \in reports : r[2] = f
AnnouncedIntact ==
    \A x \in told :
        \/ archive[x[1]][x[2]] = "headed"
        \/ "unseen" \in Faults /\ archive[x[1]][x[2]] = "damaged"
        \/ Reported(x[2])

(* When an END_READOUT goes on to assemble, every file of every location   *)
(* that was asked for is registered or was reported missing with a 5611.   *)
EveryFileAccountedFor ==
    (phase = "formatting" /\ via = "end") =>
        \A f \in FilesOf(cur) :
            locs[cur][f[2]] > 0 => (ccds[f] > 0 \/ << 5611, f >> \in reports)

(* HEADER_READY and END_READOUT come in either order and may be repeated:  *)
(* no image that has both halves is left lying when the forwarder is idle, *)
(* unless its transfer failed and was reported, or a file of it was        *)
(* damaged unseen: opening that one may throw what END_READOUT only logs.  *)
NothingLeftReady ==
    (phase = "idle" /\ link = "up") =>
        \A f \in File : (ccds[f] > 0 /\ f[1] \in hdr) =>
            Reported(f) \/ \E g \in Ccds(f[1]) : Damaged(g)

(* A file on the scoreboard is on disk with all its pixels whenever no     *)
(* thread is writing: assemble never opens a missing file, nor one whose   *)
(* writing was seen to fail.  One that a close damaged unseen it does open. *)
RegisteredAreOnDisk ==
    phase \notin {"fetching", "unwinding"} =>
        \A f \in File : ccds[f] > 0 => disk[f] \in {"pixels", "headed"} \/ Damaged(f)

(* The scoreboard points to a header only while its file exists.           *)
HeaderKeyHasFile == link = "up" => \A i \in hdr : hfile[i] # "absent"

(* A registered file leaves the scoreboard of a running forwarder only     *)
(* after it was delivered: cleaning up one image loses no other.           *)
ForgottenOnlyWhenDelivered ==
    [][crashes' = crashes =>
         \A f \in File : (ccds[f] > 0 /\ ccds'[f] = 0) =>
            archive[target[f[1]]][f] # "absent"]_vars

(* The last complete copy of a registered file is never destroyed: once it *)
(* is gone from the disk, the archive has it as it was.                    *)
LocalCopyOutlivesTransfer ==
    [][\A f \in File :
         (ccds[f] > 0 /\ disk[f] # "absent" /\ disk'[f] = "absent") =>
            archive[target[f[1]]][f] = disk[f]]_vars

(* The forwarder keeps custody of images as ImageTransfer asks.            *)
Held == {f \in File : ccds[f] > 0}
Delivered == {x \in Target \X File : archive[x[1]][x[2]] # "absent"}
Transfer == INSTANCE ImageTransfer WITH held <- Held, delivered <- Delivered
ImplementsTransfer == Transfer!Spec

(* What the handler in hand still has to do: phases to leave, images to     *)
(* pass over, joins and file steps of its threads, files to announce.      *)
PhasesLeft ==
    CASE phase = "blocking"                    -> 6
      [] phase = "starting"                    -> 5
      [] phase \in {"fetching", "unwinding"}   -> 4
      [] phase = "formatting"                  -> 3
      [] phase = "sending"                     -> 2
      [] phase = "announcing"                  -> 1
      [] OTHER                                 -> 0
Unstarted == phase \in {"blocking", "starting"}
Ahead ==
    << 1 .. PhasesLeft,
       IF phase = "blocking" THEN DOMAIN stream ELSE {},
       IF Unstarted THEN Task \X (0 .. 3) ELSE JoinsAhead,
       IF Unstarted THEN Writer \X (1 .. 3) ELSE WritesAhead,
       IF phase = "announcing" THEN todo ELSE IF phase = "idle" THEN {} ELSE File >>

(* A handler runs out of things to do: each step of it or of its threads,  *)
(* a failing one included, leaves less ahead, and none brings work back.   *)
HandlerRunsOut == [][Work => Shrinks(Ahead', Ahead)]_vars

(* The consumer thread always comes back for the next message.             *)
HandlerReturns == phase # "idle" ~> phase = "idle"

(* Once an image has its header and a pixel file, that file is delivered   *)
(* with its header to the destination asked for, and announced.            *)
ReadyIsDelivered ==
    \A f \in File :
        (ccds[f] > 0 /\ f[1] \in hdr) ~>
            (\E t \in Target : archive[t][f] = "headed" /\ << t, f >> \in told)
=============================================================================
