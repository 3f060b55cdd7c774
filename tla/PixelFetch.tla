----------------------------- MODULE PixelFetch -----------------------------
(***************************************************************************)
(* The concurrent half of one END_READOUT: a DAQFetcher task per listed    *)
(* location (std::async in miniforwarder.cpp), and under each task a       *)
(* writer thread per CCD (Formatter::write), which replaces the file of    *)
(* that CCD on disk (FitsOpener) and whose name the task then appends to   *)
(* <id>:ccd.  The threads share the disk and Redis and nothing else.       *)
(*                                                                         *)
(* Each disjunct is one step between two points where another thread may   *)
(* run: the existence check with the removal, the creation, the pixel      *)
(* writes with the close.                                                  *)
(***************************************************************************)
EXTENDS Scoreboard, FiniteSets

CONSTANT MaxCopies   \* bound: how often one location may be listed

ASSUME PixelFetchConstants == MaxCopies \in Nat

VARIABLES
    cur,      \* the image whose handler runs, or ran last
    daq,      \* images in the DAQ catalog
    task,     \* state of each DAQFetcher
    pushed,   \* how many of its files a task has registered
    writer,   \* state of each writer thread
    disk      \* pixel files in the work directory

Task == Location \X (1 .. MaxCopies)
Writer == {w \in Task \X (0 .. 2) : w[2] < Sensors[w[1][1]]}

(* What a file holds.  "damaged": some call of cfitsio failed on it whose   *)
(* status nobody looks at, so it may lack pixels or keywords.              *)
Content == {"absent", "partial", "pixels", "headed", "damaged"}

workers == << task, pushed, writer >>
fetching == << cur, daq, workers, disk, board >>

PixelFetchTypeOK ==
    /\ cur \in Image
    /\ daq \subseteq Image
    /\ task \in [Task -> {"off", "fetching", "writing", "failed", "done"}]
    /\ pushed \in [Task -> 0 .. 3]
    /\ writer \in [Writer -> {"off", "ready", "checked", "open", "lost",
                              "done", "failed", "refused"}]
    /\ disk \in [File -> Content]

(* The file a writer was given, <cur>-R<location><ccd>.fits.               *)
Path(w) == << cur, w[1][1], w[2] >>
WritersOf(t) == {w \in Writer : w[1] = t}
Next2Push(t) == << t, pushed[t] >>

(* No task runs, and the destructors of all writer futures have returned.  *)
Quiet ==
    /\ \A t \in Task : task[t] \in {"off", "failed", "done"}
    /\ \A w \in Writer : writer[w] \in {"off", "done", "failed", "refused"}

-----------------------------------------------------------------------------
WorkersOff ==
    /\ task = [t \in Task |-> "off"]
    /\ pushed = [t \in Task |-> 0]
    /\ writer = [w \in Writer |-> "off"]

(* One std::async per element of the list.                                 *)
Launch(started) ==
    /\ task' = [t \in Task |-> IF t \in started THEN "fetching" ELSE "off"]
    /\ pushed' = [t \in Task |-> 0]
    /\ writer' = [w \in Writer |-> "off"]

(* Mutant of FetchPixels: the writer of the first CCD is not started.       *)
FetchPixelsButFirst(t) ==
    /\ task[t] = "fetching"
    /\ cur \in daq
    /\ task' = [task EXCEPT ![t] = "writing"]
    /\ writer' = [w \in Writer |-> IF w[1] = t /\ w[2] > 0 THEN "ready" ELSE writer[w]]
    /\ UNCHANGED << cur, daq, pushed, disk, board >>

(* The catalog knows the image and its data decodes: Formatter::write      *)
(* starts one writer per CCD.                                              *)
FetchPixels(t) ==
    /\ task[t] = "fetching"
    /\ cur \in daq
    /\ task' = [task EXCEPT ![t] = "writing"]
    /\ writer' = [w \in Writer |-> IF w[1] = t THEN "ready" ELSE writer[w]]
    /\ UNCHANGED << cur, daq, pushed, disk, board >>

(* CannotFetchPixel: no such image, no data, or data that does not decode. *)
FetchFails(t) ==
    /\ task[t] = "fetching"
    /\ cur \notin daq \/ "daq" \in Faults
    /\ task' = [task EXCEPT ![t] = "failed"]
    /\ UNCHANGED << cur, daq, pushed, writer, disk, board >>

(* FitsOpener, first half: an existing file is removed, and whoever still  *)
(* has it open goes on writing to a file without a name.                   *)
CheckFile(w) ==
    /\ writer[w] = "ready"
    /\ writer' = [v \in Writer |->
                    IF v = w THEN "checked"
                    ELSE IF Path(v) = Path(w) /\ writer[v] = "open" THEN "lost"
                    ELSE writer[v]]
    /\ disk' = [disk EXCEPT ![Path(w)] = "absent"]
    /\ UNCHANGED << cur, daq, task, pushed, board >>

(* Mutant of CreateFile: a writer that cannot create its file removes what  *)
(* is there.                                                               *)
CreateFileOrRemove(w) ==
    /\ writer[w] = "checked"
    /\ \/ /\ disk[Path(w)] = "absent"
          /\ writer' = [writer EXCEPT ![w] = "open"]
          /\ disk' = [disk EXCEPT ![Path(w)] = "partial"]
       \/ /\ disk[Path(w)] # "absent"
          /\ writer' = [writer EXCEPT ![w] = "refused"]
          /\ disk' = [disk EXCEPT ![Path(w)] = "absent"]
    /\ UNCHANGED << cur, daq, task, pushed, board >>

(* FitsOpener, second half: fits_create_file refuses an existing file.     *)
CreateFile(w) ==
    /\ writer[w] = "checked"
    /\ \/ /\ disk[Path(w)] = "absent"
          /\ writer' = [writer EXCEPT ![w] = "open"]
          /\ disk' = [disk EXCEPT ![Path(w)] = "partial"]
       \/ /\ disk[Path(w)] # "absent"
          /\ writer' = [writer EXCEPT ![w] = "refused"]
          /\ UNCHANGED disk
       \/ /\ disk[Path(w)] = "absent" /\ "write" \in Faults
          /\ writer' = [writer EXCEPT ![w] = "failed"]
          /\ UNCHANGED disk
    /\ UNCHANGED << cur, daq, task, pushed, board >>

(* All segments are written, their status is good, and the destructor      *)
(* closes the file, which writes the last buffers.  The status of the      *)
(* close is ignored: a file it damages is returned like any other.         *)
WritePixels(w) ==
    /\ \/ /\ writer[w] = "open"
          /\ \/ disk' = [disk EXCEPT ![Path(w)] = "pixels"]
             \/ "unseen" \in Faults /\ disk' = [disk EXCEPT ![Path(w)] = "damaged"]
       \/ /\ writer[w] = "lost"
          /\ UNCHANGED disk
    /\ writer' = [writer EXCEPT ![w] = "done"]
    /\ UNCHANGED << cur, daq, task, pushed, board >>

(* CannotFormatFitsfile from a cfitsio status: the file stays as it is.    *)
WriteFails(w) ==
    /\ writer[w] \in {"open", "lost"}
    /\ "write" \in Faults
    /\ writer' = [writer EXCEPT ![w] = "failed"]
    /\ UNCHANGED << cur, daq, task, pushed, disk, board >>

(* Mutant of Register: the name is pushed without waiting for the writer.   *)
RegisterEarly(t) ==
    /\ task[t] = "writing"
    /\ writer[Next2Push(t)] \in {"open", "done"}
    /\ PushCcd(Path(Next2Push(t)))
    /\ pushed' = [pushed EXCEPT ![t] = @ + 1]
    /\ task' = [task EXCEPT ![t] =
                  IF pushed[t] + 1 = Sensors[t[1]] THEN "done" ELSE "writing"]
    /\ UNCHANGED << cur, daq, writer, disk >>

(* Mutant of Register: the loop pushes the first name every time.           *)
RegisterFirst(t) ==
    /\ task[t] = "writing"
    /\ writer[Next2Push(t)] = "done"
    /\ PushCcd(Path(<< t, 0 >>))
    /\ pushed' = [pushed EXCEPT ![t] = @ + 1]
    /\ task' = [task EXCEPT ![t] =
                  IF pushed[t] + 1 = Sensors[t[1]] THEN "done" ELSE "writing"]
    /\ UNCHANGED << cur, daq, writer, disk >>

(* Formatter::write joins its writers in order and registers each file as  *)
(* soon as its own writer has returned.                                    *)
Register(t) ==
    /\ task[t] = "writing"
    /\ writer[Next2Push(t)] = "done"
    /\ PushCcd(Path(Next2Push(t)))
    /\ pushed' = [pushed EXCEPT ![t] = @ + 1]
    /\ task' = [task EXCEPT ![t] =
                  IF pushed[t] + 1 = Sensors[t[1]] THEN "done" ELSE "writing"]
    /\ UNCHANGED << cur, daq, writer, disk >>

(* Mutant of RegisterFails: a writer's exception is swallowed and its file  *)
(* registered.                                                             *)
RegisterFailed(t) ==
    /\ task[t] = "writing"
    /\ writer[Next2Push(t)] = "failed"
    /\ PushCcd(Path(Next2Push(t)))
    /\ task' = [task EXCEPT ![t] = "failed"]
    /\ UNCHANGED << cur, daq, pushed, writer, disk >>

(* Mutant of RegisterFails: a failed writer never makes its future ready.   *)
RegisterWaits(t) ==
    /\ task[t] = "writing"
    /\ writer[Next2Push(t)] = "done" /\ "redis" \in Faults
    /\ task' = [task EXCEPT ![t] = "failed"]
    /\ UNCHANGED << cur, daq, pushed, writer, disk, board >>

(* The first writer that failed, or a failing LPUSH, ends the loop: files  *)
(* of later CCDs are still written but never registered.  An LPUSH whose   *)
(* reply is lost may have been executed.                                   *)
RegisterFails(t) ==
    /\ task[t] = "writing"
    /\ task' = [task EXCEPT ![t] = "failed"]
    /\ \/ /\ \/ writer[Next2Push(t)] \in {"failed", "refused"}
             \/ writer[Next2Push(t)] = "done" /\ "redis" \in Faults
          /\ UNCHANGED << pushed, board >>
       \/ /\ writer[Next2Push(t)] = "done" /\ "redis" \in Faults
          /\ PushCcd(Path(Next2Push(t)))
          /\ pushed' = [pushed EXCEPT ![t] = @ + 1]
    /\ UNCHANGED << cur, daq, writer, disk >>

FetchStep ==
    \/ \E t \in Task :
         FetchPixels(t) \/ FetchFails(t) \/ Register(t) \/ RegisterFails(t)
    \/ \E w \in Writer :
         CheckFile(w) \/ CreateFile(w) \/ WritePixels(w) \/ WriteFails(w)

-----------------------------------------------------------------------------
(* One END_READOUT on its own: any list of locations, any files left over  *)
(* by earlier runs of the forwarder.                                       *)
PixelFetchInit ==
    /\ ScoreboardInit
    /\ cur \in Image
    /\ daq \in SUBSET Image
    /\ disk \in [File -> {"absent", "partial", "pixels"}]
    /\ pushed = [t \in Task |-> 0]
    /\ writer = [w \in Writer |-> "off"]
    /\ \E list \in [Location -> 0 .. MaxCopies] :
         task = [t \in Task |-> IF t[2] <= list[t[1]] THEN "fetching" ELSE "off"]

PixelFetchSpec == PixelFetchInit /\ [][FetchStep]_fetching

-----------------------------------------------------------------------------
(* The message that asked for this readout lists location l at most once.  *)
ListedOnce(l) ==
    \A t, u \in Task :
        (t[1] = l /\ u[1] = l /\ task[t] # "off" /\ task[u] # "off") => t = u

(* A failure nobody looks at (FitsOpener closes without a look at the      *)
(* status) may have damaged the file: no property holds it against one.    *)
Damaged(f) == "unseen" \in Faults /\ disk[f] = "damaged"

(* While the tasks run and after them, a file whose name is in <id>:ccd is *)
(* complete on disk, short of a close that failed unseen, as long as its   *)
(* location is listed once: neither a late writer nor the failure of a     *)
(* sibling CCD, of Redis or of the DAQ touches it.                         *)
RegisteredAreComplete ==
    \A f \in File :
        (ccds[f] > 0 /\ ListedOnce(f[2])) => disk[f] = "pixels" \/ Damaged(f)

Pushers(f) == {t \in Task : t[1] = f[2] /\ pushed[t] > f[3]}

(* A file is registered exactly once for each task that got past it, and   *)
(* none of another image is: no push is lost, doubled or made under the    *)
(* name of another CCD.                                                    *)
RegisteredOncePerTask ==
    \A f \in File : ccds[f] = IF f[1] = cur THEN Cardinality(Pushers(f)) ELSE 0

(* A location listed twice makes two writers race on every file.  Whoever  *)
(* loses, the file that is registered in the end is there and complete,    *)
(* unless writing or closing that very file failed.                        *)
RaceLeavesCompleteFile ==
    Quiet => \A f \in Ccds(cur) :
        \/ disk[f] = "pixels" \/ Damaged(f)
        \/ \E w \in Writer : Path(w) = f /\ writer[w] = "failed"

(* "Removing is safe for synchronous application. If there is asynchronous *)
(* access to file. remove should be carefully handled." (FitsOpener.cpp):  *)
(* no writer loses a file it has open.                                     *)
NoWriterLosesItsFile == \A w \in Writer : writer[w] # "lost"

(* What the threads of a readout still have to do: the look at the catalog *)
(* (0) and the joins (1, 2, 3) of each task, and the file steps of each    *)
(* writer, those of writers that a fetch may still start included.         *)
JoinsAhead ==
    {x \in Task \X (0 .. 3) :
        /\ x[2] <= Sensors[x[1][1]]
        /\ task[x[1]] = "fetching" \/ (task[x[1]] = "writing" /\ x[2] > pushed[x[1]])}

FileSteps(s) ==
    CASE s = "ready"            -> 1 .. 3
      [] s = "checked"          -> 2 .. 3
      [] s \in {"open", "lost"} -> {3}
      [] OTHER                  -> {}

WritesAhead ==
    {x \in Writer \X (1 .. 3) :
        task[x[1][1]] = "fetching" \/ x[2] \in FileSteps(writer[x[1]])}

(* Nothing was added to what is ahead, and something is done.              *)
Shrinks(ahead, before) ==
    /\ \A k \in DOMAIN before : ahead[k] \subseteq before[k]
    /\ ahead # before

(* No thread waits for one that was never started, or that waits itself:   *)
(* until all futures are ready there is a thread that can take its step.   *)
ThreadCanGoOn ==
    \/ \E t \in Task :
         \/ task[t] = "fetching"
         \/ task[t] = "writing" /\ writer[Next2Push(t)] \in {"done", "failed", "refused"}
    \/ \E w \in Writer : writer[w] \in {"ready", "checked", "open", "lost"}
NobodyWaitsInVain == Quiet \/ ThreadCanGoOn

(* All futures of a readout become ready: the handler's get() loop and the *)
(* destructors of the futures return.                                      *)
FetchEnds == <>[]Quiet
=============================================================================
