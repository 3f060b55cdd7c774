-------------------------- MODULE PixelFetchProofs ---------------------------
(***************************************************************************)
(* Proofs about PixelFetch: what the fetch and writer threads of one       *)
(* readout register, for every list of locations, every number of CCDs,    *)
(* every file left over and every failure.                                 *)
(***************************************************************************)
EXTENDS PixelFetch, FiniteSetTheorems, TLAPS

(* A task that still registers files has one left to register.             *)
PushedInRange ==
    \A t \in Task : task[t] \in {"fetching", "writing"} => pushed[t] < Sensors[t[1]]

FetchTypes == ScoreboardTypeOK /\ PixelFetchTypeOK /\ PushedInRange

(* A task's LPUSH reaches Redis, whether or not its reply comes back.      *)
Pushes(t) == task[t] = "writing" /\ PushCcd(Path(Next2Push(t)))

(* A step of the fetch threads keeps the types of all the state they touch. *)
LEMMA FetchStepTypes ==
    ASSUME FetchTypes, FetchStep
    PROVE  FetchTypes'
<1> USE ScoreboardConstants, PixelFetchConstants
    DEF FetchTypes, ScoreboardTypeOK, PixelFetchTypeOK, PushedInRange
<1>1. ASSUME NEW t \in Task, FetchPixels(t)
      PROVE  FetchTypes'
  BY <1>1 DEF FetchPixels, board, keys
<1>2. ASSUME NEW t \in Task, FetchFails(t)
      PROVE  FetchTypes'
  BY <1>2 DEF FetchFails, board, keys
<1>3. ASSUME NEW t \in Task, Register(t) \/ RegisterFails(t)
      PROVE  FetchTypes'
  <2>1. /\ task[t] = "writing"
        /\ Sensors[t[1]] \in 1 .. 3
        /\ pushed[t] \in 0 .. 2
        /\ pushed[t] < Sensors[t[1]]
    BY <1>3 DEF Register, RegisterFails, Task
  <2>2. Path(Next2Push(t)) \in File
    BY <2>1 DEF Path, Next2Push, Task, File
  <2>3. ScoreboardTypeOK'
    <3>1. UNCHANGED << link, target, locs, hdr >>
      BY <1>3 DEF Register, RegisterFails, PushCcd, board, keys
    <3>2. ccds' = ccds \/ ccds' = [ccds EXCEPT ![Path(Next2Push(t))] = @ + 1]
      BY <1>3 DEF Register, RegisterFails, PushCcd, board, keys
    <3> QED BY <2>2, <3>1, <3>2
  <2>4. PixelFetchTypeOK'
    <3>1. UNCHANGED << cur, daq, writer, disk >>
      BY <1>3 DEF Register, RegisterFails
    <3>2. pushed' \in {pushed, [pushed EXCEPT ![t] = @ + 1]}
      BY <1>3 DEF Register, RegisterFails
    <3>3. task' \in {[task EXCEPT ![t] = s] : s \in {"writing", "failed", "done"}}
      BY <1>3 DEF Register, RegisterFails
    <3>4. pushed' \in [Task -> 0 .. 3]
      BY <2>1, <3>2
    <3>5. task' \in [Task -> {"off", "fetching", "writing", "failed", "done"}]
      BY <3>3
    <3> QED BY <3>1, <3>4, <3>5
  <2>5. PushedInRange'
    BY <1>3, <2>1 DEF Register, RegisterFails
  <2> QED BY <2>3, <2>4, <2>5
<1>5. ASSUME NEW w \in Writer, CheckFile(w)
      PROVE  FetchTypes'
  BY <1>5 DEF CheckFile, board, keys, Content
<1>6. ASSUME NEW w \in Writer, CreateFile(w)
      PROVE  FetchTypes'
  BY <1>6 DEF CreateFile, board, keys, Content
<1>7. ASSUME NEW w \in Writer, WritePixels(w)
      PROVE  FetchTypes'
  BY <1>7 DEF WritePixels, board, keys, Content
<1>8. ASSUME NEW w \in Writer, WriteFails(w)
      PROVE  FetchTypes'
  BY <1>8 DEF WriteFails, board, keys
<1> QED BY <1>1, <1>2, <1>3, <1>5, <1>6, <1>7, <1>8 DEF FetchStep
-----------------------------------------------------------------------------
(* A task that has not fetched has neither writers nor registered files.   *)
NothingBeforeFetch ==
    \A t \in Task : task[t] \in {"off", "fetching"} =>
        /\ pushed[t] = 0
        /\ \A w \in Writer : w[1] = t => writer[w] = "off"

(* The loop over the CCDs stops at the first that is not done.             *)
PushedAreDone ==
    \A t \in Task, w \in Writer : (w[1] = t /\ w[2] < pushed[t]) => writer[w] = "done"

(* Alone on its location, a writer keeps its file and leaves it complete,  *)
(* or closes it unseen to fail.                                            *)
Undisturbed ==
    \A w \in Writer : ListedOnce(w[1][1]) =>
        /\ writer[w] # "lost"
        /\ writer[w] = "done" => disk[Path(w)] = "pixels" \/ Damaged(Path(w))

(* However many writers race for a file, it is complete, or one of them is *)
(* about to make it so, or failed to.                                      *)
Attended(f) ==
    \/ disk[f] = "pixels" \/ Damaged(f)
    \/ disk[f] = "partial" /\ \E v \in Writer : Path(v) = f /\ writer[v] = "open"
    \/ disk[f] = "absent" /\ \E v \in Writer : Path(v) = f /\ writer[v] = "checked"
    \/ \E v \in Writer : Path(v) = f /\ writer[v] = "failed"

RacersAttend ==
    \A w \in Writer : writer[w] \notin {"off", "ready"} => Attended(Path(w))

FetchInv ==
    /\ FetchTypes /\ NothingBeforeFetch /\ PushedAreDone
    /\ RegisteredOncePerTask /\ Undisturbed /\ RacersAttend

-----------------------------------------------------------------------------
LEMMA WriterHasTask ==
  ASSUME NEW w \in Writer
  PROVE  w[1] \in Task /\ w[1][1] \in Location /\ w[2] \in Nat /\ w = << w[1], w[2] >>
BY DEF Writer, Task

LEMMA PathIsFile ==
  ASSUME PixelFetchTypeOK, NEW w \in Writer
  PROVE  Path(w) \in File /\ Path(w)[1] = cur /\ Path(w)[2] = w[1][1] /\ Path(w)[3] = w[2]
<1>1. w[1][1] \in Location /\ w[2] \in 0 .. 2 /\ w[2] < Sensors[w[1][1]]
  BY DEF Writer, Task
<1>2. cur \in Image
  BY DEF PixelFetchTypeOK
<1>3. QED
  BY <1>1, <1>2 DEF Path, File

LEMMA SamePath ==
  ASSUME NEW v \in Writer, NEW w \in Writer, Path(v) = Path(w)
  PROVE  v[1][1] = w[1][1] /\ v[2] = w[2]
BY DEF Path

(* The next file of a task that registers belongs to one of its writers.   *)
LEMMA NextWriter ==
  ASSUME FetchTypes, NEW t \in Task, task[t] = "writing"
  PROVE  Next2Push(t) \in Writer /\ pushed[t] \in 0 .. 2
<1>1. Sensors[t[1]] \in 1 .. 3 /\ pushed[t] \in 0 .. 3 /\ pushed[t] < Sensors[t[1]]
  BY ScoreboardConstants
     DEF ScoreboardConstants, FetchTypes, PushedInRange, PixelFetchTypeOK, Task
<1>2. QED
  BY <1>1 DEF Next2Push, Writer

LEMMA PushersFinite ==
  ASSUME NEW f \in File
  PROVE  IsFiniteSet(Pushers(f))
<1>1. IsFiniteSet(1 .. MaxCopies)
  BY FS_Interval, PixelFetchConstants
<1>2. IsFiniteSet({f[2]})
  BY FS_Singleton
<1>3. IsFiniteSet({f[2]} \X (1 .. MaxCopies))
  BY <1>1, <1>2, FS_Product
<1>4. Pushers(f) \subseteq {f[2]} \X (1 .. MaxCopies)
  BY DEF Pushers, Task
<1>5. QED
  BY <1>3, <1>4, FS_Subset

(* Which locations are listed once does not change while the tasks run.    *)
LEMMA ListStays ==
  ASSUME FetchTypes, FetchStep
  PROVE  \A l \in Location : ListedOnce(l)' = ListedOnce(l)
<1>1. \A t \in Task : task'[t] = "off" <=> task[t] = "off"
  BY DEF FetchTypes, PixelFetchTypeOK, FetchStep, FetchPixels, FetchFails, Register,
         RegisterFails, CheckFile, CreateFile, WritePixels, WriteFails
<1>2. QED
  BY <1>1 DEF ListedOnce

LEMMA FetchInitInv == PixelFetchInit => FetchInv
<1> SUFFICES ASSUME PixelFetchInit PROVE FetchInv
  OBVIOUS
<1> USE ScoreboardConstants, PixelFetchConstants DEF PixelFetchInit
<1>1. PICK list \in [Location -> 0 .. MaxCopies] :
         task = [t \in Task |-> IF t[2] <= list[t[1]] THEN "fetching" ELSE "off"]
  OBVIOUS
<1>2. FetchTypes
  <2>1. ScoreboardTypeOK
    BY DEF ScoreboardTypeOK, ScoreboardInit, Empty
  <2>2. PixelFetchTypeOK
    BY <1>1 DEF PixelFetchTypeOK, Content
  <2>3. PushedInRange
    BY DEF PushedInRange, Task
  <2>4. QED
    BY <2>1, <2>2, <2>3 DEF FetchTypes
<1>3. NothingBeforeFetch /\ PushedAreDone
  BY <1>1, WriterHasTask DEF NothingBeforeFetch, PushedAreDone
<1>4. RegisteredOncePerTask
  <2>1. ASSUME NEW f \in File PROVE Pushers(f) = {} /\ ccds[f] = 0
    BY DEF Pushers, File, ScoreboardInit, Empty
  <2>2. QED
    BY <2>1, FS_EmptySet DEF RegisteredOncePerTask
<1>5. Undisturbed /\ RacersAttend
  BY DEF Undisturbed, RacersAttend
<1>6. QED
  BY <1>2, <1>3, <1>4, <1>5 DEF FetchInv

-----------------------------------------------------------------------------
LEMMA OnceStays ==
  RegisteredOncePerTask /\ UNCHANGED << cur, pushed, ccds >> => RegisteredOncePerTask'
BY DEF RegisteredOncePerTask, Pushers

(* One LPUSH of a task's next file and the count that goes with it.        *)
LEMMA OncePerPush ==
  ASSUME FetchTypes, RegisteredOncePerTask, NEW t \in Task, task[t] = "writing",
         PushCcd(Path(Next2Push(t))), pushed' = [pushed EXCEPT ![t] = @ + 1],
         cur' = cur
  PROVE  RegisteredOncePerTask'
<1>0. PICK g \in File : g = Path(Next2Push(t))
  BY NextWriter, PathIsFile DEF FetchTypes
<1>1. g \in File /\ g[1] = cur /\ g[2] = t[1] /\ g[3] = pushed[t] /\ pushed[t] \in 0 .. 2
  BY <1>0, NextWriter, PathIsFile DEF FetchTypes, Next2Push
<1>2. ccds' = [ccds EXCEPT ![g] = @ + 1] /\ ccds \in [File -> Nat]
  BY <1>0 DEF PushCcd, FetchTypes, ScoreboardTypeOK
<1>3. pushed \in [Task -> 0 .. 3]
  BY DEF FetchTypes, PixelFetchTypeOK
<1>4. Pushers(g)' = Pushers(g) \cup {t} /\ t \notin Pushers(g)
  BY <1>1, <1>3 DEF Pushers
<1>5. Cardinality(Pushers(g)') = Cardinality(Pushers(g)) + 1
  BY <1>1, <1>4, PushersFinite, FS_AddElement
<1>6. ASSUME NEW f \in File, f # g
      PROVE  ccds'[f] = IF f[1] = cur' THEN Cardinality(Pushers(f)') ELSE 0
  <2>1. ccds'[f] = ccds[f]
    BY <1>1, <1>2, <1>6
  <2>2. CASE f[1] # cur
    BY <2>1, <2>2 DEF RegisteredOncePerTask
  <2>3. CASE f[1] = cur
    <3>1. f[2] # t[1] \/ f[3] # pushed[t]
      BY <1>1, <1>6, <2>3 DEF File
    <3>2. f[3] \in 0 .. 2
      BY DEF File
    <3>3. Pushers(f)' = Pushers(f)
      BY <1>1, <1>3, <3>1, <3>2 DEF Pushers
    <3>4. QED
      BY <2>1, <2>3, <3>3 DEF RegisteredOncePerTask
  <2>4. QED
    BY <2>2, <2>3
<1>7. ccds'[g] = IF g[1] = cur' THEN Cardinality(Pushers(g)') ELSE 0
  BY <1>1, <1>2, <1>5 DEF RegisteredOncePerTask
<1>8. QED
  BY <1>6, <1>7 DEF RegisteredOncePerTask

LEMMA FetchPixelsStep ==
  ASSUME FetchInv, NEW t \in Task, FetchPixels(t)
  PROVE  NothingBeforeFetch' /\ PushedAreDone' /\ RegisteredOncePerTask'
         /\ Undisturbed' /\ RacersAttend'
<1> USE DEF FetchInv
<1>1. \A w \in Writer : w[1] = t => writer[w] = "off" /\ writer'[w] = "ready"
  BY DEF FetchPixels, NothingBeforeFetch
<1>2. \A w \in Writer : w[1] # t => writer'[w] = writer[w]
  BY DEF FetchPixels
<1>3. NothingBeforeFetch'
  BY <1>1, <1>2 DEF FetchPixels, NothingBeforeFetch, FetchTypes, PixelFetchTypeOK
<1>4. PushedAreDone'
  <2>1. pushed[t] = 0
    BY DEF FetchPixels, NothingBeforeFetch
  <2>2. QED
    BY <1>2, <2>1, WriterHasTask DEF FetchPixels, PushedAreDone
<1>5. RegisteredOncePerTask'
  BY OnceStays DEF FetchPixels, board, keys
<1>6. Undisturbed'
  BY <1>1, <1>2, ListStays, WriterHasTask DEF FetchPixels, FetchStep, Undisturbed, Damaged, Path
<1>7. RacersAttend'
  BY <1>1, <1>2 DEF FetchPixels, RacersAttend, Attended, Damaged, Path
<1>8. QED
  BY <1>3, <1>4, <1>5, <1>6, <1>7

LEMMA FetchFailsStep ==
  ASSUME FetchInv, NEW t \in Task, FetchFails(t)
  PROVE  NothingBeforeFetch' /\ PushedAreDone' /\ RegisteredOncePerTask'
         /\ Undisturbed' /\ RacersAttend'
<1> USE DEF FetchInv
<1>1. UNCHANGED << cur, pushed, writer, disk, ccds >>
  BY DEF FetchFails, board, keys
<1>2. NothingBeforeFetch'
  BY <1>1 DEF FetchFails, NothingBeforeFetch, FetchTypes, PixelFetchTypeOK
<1>3. Undisturbed'
  BY <1>1, ListStays, WriterHasTask DEF FetchStep, Undisturbed, Damaged, Path
<1>4. PushedAreDone' /\ RegisteredOncePerTask' /\ RacersAttend'
  BY <1>1, OnceStays DEF PushedAreDone, RacersAttend, Attended, Damaged, Path
<1>5. QED
  BY <1>2, <1>3, <1>4

LEMMA RegisterStep ==
  ASSUME FetchInv, NEW t \in Task, Register(t) \/ RegisterFails(t)
  PROVE  NothingBeforeFetch' /\ PushedAreDone' /\ RegisteredOncePerTask'
         /\ Undisturbed' /\ RacersAttend'
<1> USE DEF FetchInv
<1>1. /\ task[t] = "writing" /\ task'[t] \in {"writing", "failed", "done"}
      /\ \A u \in Task : u # t => task'[u] = task[u]
      /\ UNCHANGED << cur, writer, disk >>
  BY DEF Register, RegisterFails, FetchTypes, PixelFetchTypeOK
<1>2. \/ UNCHANGED << pushed, ccds >>
      \/ /\ writer[Next2Push(t)] = "done"
         /\ PushCcd(Path(Next2Push(t)))
         /\ pushed' = [pushed EXCEPT ![t] = @ + 1]
  BY DEF Register, RegisterFails, board, keys
<1>3. pushed \in [Task -> 0 .. 3] /\ \A u \in Task : u # t => pushed'[u] = pushed[u]
  BY <1>2 DEF FetchTypes, PixelFetchTypeOK
<1>4. NothingBeforeFetch'
  BY <1>1, <1>3 DEF NothingBeforeFetch
<1>5. PushedAreDone'
  <2>1. SUFFICES ASSUME NEW u \in Task, NEW w \in Writer, w[1] = u, w[2] < pushed'[u]
                 PROVE  writer[w] = "done"
    BY <1>1 DEF PushedAreDone
  <2>2. CASE w[2] < pushed[u]
    BY <2>1, <2>2 DEF PushedAreDone
  <2>3. CASE ~ (w[2] < pushed[u])
    <3>1. u = t /\ writer[Next2Push(t)] = "done" /\ w[2] = pushed[t]
      BY <1>2, <1>3, <2>1, <2>3, WriterHasTask
    <3>2. w = Next2Push(t)
      BY <2>1, <3>1, WriterHasTask DEF Next2Push
    <3>3. QED
      BY <3>1, <3>2
  <2>4. QED
    BY <2>2, <2>3
<1>6. RegisteredOncePerTask'
  BY <1>1, <1>2, OnceStays, OncePerPush
<1>7. Undisturbed'
  BY <1>1, ListStays, WriterHasTask DEF FetchStep, Undisturbed, Damaged, Path
<1>8. RacersAttend'
  BY <1>1 DEF RacersAttend, Attended, Damaged, Path
<1>9. QED
  BY <1>4, <1>5, <1>6, <1>7, <1>8

(* Two writers at work on one file of a location listed once are the same. *)
LEMMA AloneOnPath ==
  ASSUME FetchInv, NEW v \in Writer, NEW w \in Writer, Path(v) = Path(w),
         writer[v] # "off", writer[w] # "off", ListedOnce(w[1][1])
  PROVE  v = w
<1>1. v[1] \in Task /\ w[1] \in Task /\ v[1][1] = w[1][1] /\ v[2] = w[2]
  BY WriterHasTask, SamePath
<1>2. task[v[1]] # "off" /\ task[w[1]] # "off"
  BY <1>1 DEF FetchInv, NothingBeforeFetch
<1>3. v[1] = w[1]
  BY <1>1, <1>2 DEF ListedOnce
<1>4. QED
  BY <1>1, <1>3, WriterHasTask

(* What a writer thread does, seen from the tasks.                         *)
LEMMA WriterStepTasks ==
  ASSUME FetchInv, NEW w \in Writer,
         CheckFile(w) \/ CreateFile(w) \/ WritePixels(w) \/ WriteFails(w)
  PROVE  /\ NothingBeforeFetch' /\ PushedAreDone' /\ RegisteredOncePerTask'
         /\ writer[w] \notin {"off", "done"}
<1> USE DEF FetchInv
<1>1. UNCHANGED << cur, task, pushed, ccds >>
  BY DEF CheckFile, CreateFile, WritePixels, WriteFails, board, keys
<1>2. \A v \in Writer : writer[v] \in {"off", "done"} => writer'[v] = writer[v]
  BY DEF CheckFile, CreateFile, WritePixels, WriteFails, FetchTypes, PixelFetchTypeOK
<1>3. writer[w] \notin {"off", "done"}
  BY DEF CheckFile, CreateFile, WritePixels, WriteFails
<1>4. NothingBeforeFetch' /\ PushedAreDone'
  BY <1>1, <1>2 DEF NothingBeforeFetch, PushedAreDone
<1>5. QED
  BY <1>1, <1>3, <1>4, OnceStays

LEMMA CheckFileStep ==
  ASSUME FetchInv, NEW w \in Writer, CheckFile(w)
  PROVE  Undisturbed' /\ RacersAttend'
<1> USE DEF FetchInv
<1>1. Path(w) \in File /\ disk \in [File -> Content] /\ cur' = cur
  BY PathIsFile DEF FetchTypes, PixelFetchTypeOK, CheckFile
<1>2. /\ writer[w] = "ready" /\ writer'[w] = "checked"
      /\ \A v \in Writer : v # w =>
           writer'[v] = IF Path(v) = Path(w) /\ writer[v] = "open" THEN "lost" ELSE writer[v]
      /\ disk' = [disk EXCEPT ![Path(w)] = "absent"]
  BY DEF CheckFile
<1>3. \A v \in Writer : Path(v)' = Path(v)
  BY <1>1 DEF Path
<1>4. Undisturbed'
  <2>1. SUFFICES ASSUME NEW v \in Writer, ListedOnce(v[1][1])
                 PROVE  /\ writer'[v] # "lost"
                        /\ writer'[v] = "done" => disk'[Path(v)] = "pixels" \/ Damaged(Path(v))'
    BY <1>3, ListStays, WriterHasTask DEF FetchStep, Undisturbed, Damaged
  <2>2. (v # w /\ writer[v] # "off") => Path(v) # Path(w)
    BY <1>2, <2>1, AloneOnPath
  <2>3. Path(v) \in File
    BY PathIsFile DEF FetchTypes
  <2>4. QED
    <3>1. CASE v = w
      BY <1>2, <3>1
    <3>2. CASE v # w /\ writer[v] = "off"
      BY <1>2, <3>2
    <3>3. CASE v # w /\ writer[v] # "off"
      <4>1. disk'[Path(v)] = disk[Path(v)] /\ writer'[v] = writer[v]
        BY <1>1, <1>2, <2>2, <2>3, <3>3
      <4>2. Damaged(Path(v)) => Damaged(Path(v))'
        BY <1>3, <4>1 DEF Damaged
      <4> QED BY <2>1, <4>1, <4>2 DEF Undisturbed
    <3> QED BY <3>1, <3>2, <3>3
<1>5. RacersAttend'
  <2>1. SUFFICES ASSUME NEW v \in Writer, writer'[v] \notin {"off", "ready"}
                 PROVE  Attended(Path(v))'
    BY <1>3 DEF RacersAttend
  <2>2. CASE Path(v) = Path(w)
    BY <1>1, <1>2, <1>3, <2>2 DEF Attended, Damaged
  <2>3. CASE Path(v) # Path(w)
    <3>1. Path(v) \in File
      BY PathIsFile DEF FetchTypes
    <3>2. disk'[Path(v)] = disk[Path(v)] /\ writer'[v] = writer[v]
      BY <1>1, <1>2, <2>3, <3>1
    <3>3. Attended(Path(v))
      BY <2>1, <3>2 DEF RacersAttend
    <3>4. \A u \in Writer : Path(u) = Path(v) => writer'[u] = writer[u]
      BY <1>2, <2>3
    <3>5. QED
      BY <1>3, <3>2, <3>3, <3>4 DEF Attended, Damaged
  <2>4. QED
    BY <2>2, <2>3
<1>6. QED
  BY <1>4, <1>5

LEMMA CreateFileStep ==
  ASSUME FetchInv, NEW w \in Writer, CreateFile(w)
  PROVE  Undisturbed' /\ RacersAttend'
<1> USE DEF FetchInv
<1>1. Path(w) \in File /\ disk \in [File -> Content] /\ cur' = cur
      /\ writer \in [Writer -> {"off", "ready", "checked", "open", "lost", "done", "failed", "refused"}]
  BY PathIsFile DEF FetchTypes, PixelFetchTypeOK, CreateFile
<1>2. /\ writer[w] = "checked"
      /\ \/ /\ disk[Path(w)] = "absent"
            /\ writer' = [writer EXCEPT ![w] = "open"]
            /\ disk' = [disk EXCEPT ![Path(w)] = "partial"]
         \/ /\ disk[Path(w)] # "absent"
            /\ writer' = [writer EXCEPT ![w] = "refused"]
            /\ disk' = disk
         \/ /\ disk[Path(w)] = "absent"
            /\ writer' = [writer EXCEPT ![w] = "failed"]
            /\ disk' = disk
  BY DEF CreateFile
<1>3. \A v \in Writer : Path(v)' = Path(v) /\ Path(v) \in File
  BY <1>1, PathIsFile DEF FetchTypes, Path
<1>4. Undisturbed'
  <2>1. SUFFICES ASSUME NEW v \in Writer, ListedOnce(v[1][1])
                 PROVE  /\ writer'[v] # "lost"
                        /\ writer'[v] = "done" => disk'[Path(v)] = "pixels" \/ Damaged(Path(v))'
    BY <1>3, ListStays, WriterHasTask DEF FetchStep, Undisturbed, Damaged
  <2>2. (v # w /\ writer[v] # "off") => Path(v) # Path(w)
    BY <1>2, <2>1, AloneOnPath
  <2>3. QED
    BY <1>1, <1>2, <1>3, <2>1, <2>2 DEF Undisturbed, Damaged
<1>5. RacersAttend'
  <2>1. SUFFICES ASSUME NEW v \in Writer, writer'[v] \notin {"off", "ready"}
                 PROVE  Attended(Path(v))'
    BY <1>3 DEF RacersAttend
  <2>2. Attended(Path(v))
    BY <1>1, <1>2, <2>1 DEF RacersAttend
  <2>3. CASE Path(v) = Path(w)
    <3>1. CASE disk[Path(w)] = "absent"
      BY <1>1, <1>2, <1>3, <2>1, <2>3, <3>1 DEF Attended, Damaged
    <3>2. CASE disk[Path(w)] # "absent"
      BY <1>1, <1>2, <1>3, <2>1, <2>2, <2>3, <3>2 DEF Attended, Damaged
    <3>3. QED
      BY <3>1, <3>2
  <2>4. CASE Path(v) # Path(w)
    <3>1. disk'[Path(v)] = disk[Path(v)]
      BY <1>1, <1>2, <1>3, <2>4
    <3>2. \A u \in Writer : Path(u) = Path(v) => writer'[u] = writer[u]
      BY <1>1, <1>2, <2>4
    <3>3. QED
      BY <1>3, <2>2, <3>1, <3>2 DEF Attended, Damaged
  <2>5. QED
    BY <2>3, <2>4
<1>6. QED
  BY <1>4, <1>5

LEMMA WritePixelsStep ==
  ASSUME FetchInv, NEW w \in Writer, WritePixels(w)
  PROVE  Undisturbed' /\ RacersAttend'
<1> USE DEF FetchInv
<1>1. Path(w) \in File /\ disk \in [File -> Content] /\ cur' = cur
      /\ writer \in [Writer -> {"off", "ready", "checked", "open", "lost", "done", "failed", "refused"}]
  BY PathIsFile DEF FetchTypes, PixelFetchTypeOK, WritePixels
<1>2. /\ \/ writer[w] = "open" /\ disk' = [disk EXCEPT ![Path(w)] = "pixels"]
         \/ /\ writer[w] = "open" /\ disk' = [disk EXCEPT ![Path(w)] = "damaged"]
            /\ "unseen" \in Faults
         \/ writer[w] = "lost" /\ disk' = disk
      /\ writer' = [writer EXCEPT ![w] = "done"]
  BY DEF WritePixels
<1>3. \A v \in Writer : Path(v)' = Path(v) /\ Path(v) \in File
  BY <1>1, PathIsFile DEF FetchTypes, Path
<1>4. Undisturbed'
  <2>1. SUFFICES ASSUME NEW v \in Writer, ListedOnce(v[1][1])
                 PROVE  /\ writer'[v] # "lost"
                        /\ writer'[v] = "done" => disk'[Path(v)] = "pixels" \/ Damaged(Path(v))'
    BY <1>3, ListStays, WriterHasTask DEF FetchStep, Undisturbed, Damaged
  <2>2. writer[v] # "lost"
    BY <2>1 DEF Undisturbed
  <2>3. QED
    BY <1>1, <1>2, <1>3, <2>1, <2>2 DEF Undisturbed, Damaged
<1>5. RacersAttend'
  <2>1. SUFFICES ASSUME NEW v \in Writer, writer'[v] \notin {"off", "ready"}
                 PROVE  Attended(Path(v))'
    BY <1>3 DEF RacersAttend
  <2>2. Attended(Path(v))
    BY <1>1, <1>2, <2>1 DEF RacersAttend
  <2>3. CASE disk'[Path(v)] = "pixels" \/ Damaged(Path(v))'
    BY <1>3, <2>3 DEF Attended, Damaged
  <2>4. CASE ~ (disk'[Path(v)] = "pixels" \/ Damaged(Path(v))')
    <3>1. disk'[Path(v)] = disk[Path(v)] /\ (Path(v) = Path(w) => writer[w] = "lost")
      BY <1>1, <1>2, <1>3, <2>4 DEF Damaged
    <3>2. \A u \in Writer : (Path(u) = Path(v) /\ writer[u] \in {"open", "checked", "failed"})
                              => writer'[u] = writer[u]
      BY <1>1, <1>2, <3>1
    <3>3. QED
      BY <1>3, <2>2, <3>1, <3>2 DEF Attended, Damaged
  <2>5. QED
    BY <2>3, <2>4
<1>6. QED
  BY <1>4, <1>5

LEMMA WriteFailsStep ==
  ASSUME FetchInv, NEW w \in Writer, WriteFails(w)
  PROVE  Undisturbed' /\ RacersAttend'
<1> USE DEF FetchInv
<1>1. /\ writer' = [writer EXCEPT ![w] = "failed"] /\ writer[w] \in {"open", "lost"}
      /\ UNCHANGED << cur, disk >>
  BY DEF WriteFails
<1>2. writer \in [Writer -> {"off", "ready", "checked", "open", "lost", "done", "failed", "refused"}]
  BY DEF FetchTypes, PixelFetchTypeOK
<1>3. Undisturbed'
  BY <1>1, <1>2, ListStays, WriterHasTask DEF FetchStep, Undisturbed, Damaged, Path
<1>4. RacersAttend'
  <2>1. SUFFICES ASSUME NEW v \in Writer, writer'[v] \notin {"off", "ready"}
                 PROVE  Attended(Path(v))'
    BY <1>1 DEF RacersAttend, Path
  <2>2. Attended(Path(v))
    BY <1>1, <1>2, <2>1 DEF RacersAttend
  <2>3. \A u \in Writer : Path(u)' = Path(u)
    BY <1>1 DEF Path
  <2>4. CASE Path(v) = Path(w)
    BY <1>1, <1>2, <2>3, <2>4 DEF Attended, Damaged
  <2>5. CASE Path(v) # Path(w)
    BY <1>1, <1>2, <2>2, <2>3, <2>5 DEF Attended, Damaged
  <2>6. QED
    BY <2>4, <2>5
<1>5. QED
  BY <1>3, <1>4

LEMMA FetchStepInv == FetchInv /\ [FetchStep]_fetching => FetchInv'
<1> SUFFICES ASSUME FetchInv, [FetchStep]_fetching PROVE FetchInv'
  OBVIOUS
<1>1. CASE FetchStep
  <2>1. FetchTypes'
    BY <1>1, FetchStepTypes DEF FetchInv
  <2>2. CASE \E t \in Task :
               FetchPixels(t) \/ FetchFails(t) \/ Register(t) \/ RegisterFails(t)
    BY <2>1, <2>2, FetchPixelsStep, FetchFailsStep, RegisterStep DEF FetchInv
  <2>3. CASE \E w \in Writer :
               CheckFile(w) \/ CreateFile(w) \/ WritePixels(w) \/ WriteFails(w)
    BY <2>1, <2>3, WriterStepTasks, CheckFileStep, CreateFileStep, WritePixelsStep,
       WriteFailsStep DEF FetchInv
  <2>4. QED
    BY <1>1, <2>2, <2>3 DEF FetchStep
<1>2. CASE UNCHANGED fetching
  <2>1. UNCHANGED << cur, daq, task, pushed, writer, disk, link, target, locs, hdr, ccds >>
    BY <1>2 DEF fetching, workers, board, keys
  <2>2. FetchTypes'
    BY <2>1 DEF FetchInv, FetchTypes, ScoreboardTypeOK, PixelFetchTypeOK, PushedInRange
  <2>3. NothingBeforeFetch' /\ PushedAreDone' /\ RegisteredOncePerTask'
    BY <2>1, OnceStays DEF FetchInv, NothingBeforeFetch, PushedAreDone
  <2>4. Undisturbed' /\ RacersAttend'
    BY <2>1 DEF FetchInv, Undisturbed, ListedOnce, RacersAttend, Attended, Damaged, Path
  <2>5. QED
    BY <2>2, <2>3, <2>4 DEF FetchInv
<1>3. QED
  BY <1>1, <1>2

LEMMA FetchInvHolds == PixelFetchSpec => []FetchInv
BY FetchInitInv, FetchStepInv, PTL DEF PixelFetchSpec

(* A name on the scoreboard was put there by a task whose writer is done.  *)
LEMMA RegisteredWasWritten ==
  ASSUME FetchInv, NEW f \in File, ccds[f] > 0
  PROVE  \E w \in Writer : Path(w) = f /\ writer[w] = "done"
<1> USE DEF FetchInv
<1>1. f[1] = cur /\ Cardinality(Pushers(f)) # 0
  BY DEF RegisteredOncePerTask
<1>2. PICK t \in Task : t[1] = f[2] /\ pushed[t] > f[3]
  BY <1>1, FS_EmptySet DEF Pushers
<1>3. << t, f[3] >> \in Writer /\ f = << f[1], f[2], f[3] >>
  BY <1>2 DEF File, Writer
<1>4. Path(<< t, f[3] >>) = f
  BY <1>1, <1>2, <1>3 DEF Path
<1>5. writer[<< t, f[3] >>] = "done"
  BY <1>2, <1>3 DEF PushedAreDone
<1>6. QED
  BY <1>3, <1>4, <1>5

-----------------------------------------------------------------------------
(* No push of Formatter::write is lost, doubled or made under the name of  *)
(* another CCD, whichever writers and LPUSHes fail.                        *)
THEOREM OnePushPerTask == PixelFetchSpec => []RegisteredOncePerTask
<1>1. FetchInv => RegisteredOncePerTask
  BY DEF FetchInv
<1>2. QED
  BY <1>1, FetchInvHolds, PTL

(* The name of a file of a location listed once is in <id>:ccd only while  *)
(* the file is complete on disk, or its close failed unseen                *)
(* (FitsOpener.cpp:76).                                                    *)
THEOREM RegisteredFilesAreComplete == PixelFetchSpec => []RegisteredAreComplete
<1>1. ASSUME FetchInv, NEW f \in File, ccds[f] > 0, ListedOnce(f[2])
      PROVE  disk[f] = "pixels" \/ Damaged(f)
  <2>1. PICK w \in Writer : Path(w) = f /\ writer[w] = "done"
    BY <1>1, RegisteredWasWritten
  <2>2. w[1][1] = f[2]
    BY <1>1, <2>1, PathIsFile DEF FetchInv, FetchTypes
  <2>3. QED
    BY <1>1, <2>1, <2>2 DEF FetchInv, Undisturbed
<1>2. FetchInv => RegisteredAreComplete
  BY <1>1 DEF RegisteredAreComplete
<1>3. QED
  BY <1>2, FetchInvHolds, PTL

(* The race of the writers of a location listed more than once ends with a *)
(* complete file, in whatever order they remove, create and write, short   *)
(* of a write or a close that failed.                                      *)
THEOREM RacesEndWell == PixelFetchSpec => []RaceLeavesCompleteFile
<1>1. ASSUME FetchInv, Quiet, NEW f \in Ccds(cur)
      PROVE  disk[f] = "pixels" \/ Damaged(f) \/ \E w \in Writer : Path(w) = f /\ writer[w] = "failed"
  <2>1. f \in File /\ ccds[f] > 0
    BY <1>1 DEF Ccds, FilesOf
  <2>2. PICK w \in Writer : Path(w) = f /\ writer[w] = "done"
    BY <1>1, <2>1, RegisteredWasWritten
  <2>3. Attended(f)
    BY <1>1, <2>2 DEF FetchInv, RacersAttend
  <2>4. QED
    BY <1>1, <2>3 DEF Attended, Damaged, Quiet
<1>2. FetchInv => RaceLeavesCompleteFile
  BY <1>1 DEF RaceLeavesCompleteFile
<1>3. QED
  BY <1>2, FetchInvHolds, PTL

-----------------------------------------------------------------------------
(* Why the threads of a readout end.  A fetch starts all writers of its    *)
(* task, and nobody else starts one.                                       *)
WritersFollow ==
    \A w \in Writer :
        /\ task[w[1]] \in {"off", "fetching"} => writer[w] = "off"
        /\ task[w[1]] = "writing" => writer[w] # "off"

LEMMA WritersFollowStep ==
  ASSUME FetchTypes, WritersFollow, FetchStep
  PROVE  WritersFollow'
<1> USE WriterHasTask DEF FetchTypes, PixelFetchTypeOK, WritersFollow
<1>1. ASSUME NEW t \in Task, FetchPixels(t)
      PROVE  WritersFollow'
  BY <1>1 DEF FetchPixels
<1>2. ASSUME NEW t \in Task, FetchFails(t) \/ Register(t) \/ RegisterFails(t)
      PROVE  WritersFollow'
  BY <1>2 DEF FetchFails, Register, RegisterFails
<1>3. ASSUME NEW w \in Writer, CheckFile(w)
      PROVE  WritersFollow'
  BY <1>3 DEF CheckFile
<1>4. ASSUME NEW w \in Writer, CreateFile(w) \/ WritePixels(w) \/ WriteFails(w)
      PROVE  WritersFollow'
  BY <1>4 DEF CreateFile, WritePixels, WriteFails
<1> QED BY <1>1, <1>2, <1>3, <1>4 DEF FetchStep

(* What a step of a task does to what is ahead of the threads.             *)
LEMMA TaskStepAhead ==
  ASSUME FetchTypes, WritersFollow, NEW t \in Task,
         FetchPixels(t) \/ FetchFails(t) \/ Register(t) \/ RegisterFails(t)
  PROVE  /\ JoinsAhead' \subseteq JoinsAhead /\ JoinsAhead' # JoinsAhead
         /\ WritesAhead' \subseteq WritesAhead
<1>1. /\ task \in [Task -> {"off", "fetching", "writing", "failed", "done"}]
      /\ pushed \in [Task -> 0 .. 3] /\ Sensors[t[1]] \in 1 .. 3
  BY ScoreboardConstants DEF FetchTypes, PixelFetchTypeOK, Task
<1>2. \A u \in Task : u # t => task'[u] = task[u] /\ pushed'[u] = pushed[u]
  BY <1>1 DEF FetchPixels, FetchFails, Register, RegisterFails
<1>3. CASE task[t] = "fetching"
  <2>1. task'[t] \in {"writing", "failed"} /\ pushed' = pushed
    BY <1>1, <1>3 DEF FetchPixels, FetchFails, Register, RegisterFails
  <2>2. JoinsAhead' \subseteq JoinsAhead
    BY <1>1, <1>2, <1>3, <2>1 DEF JoinsAhead
  <2>3. << t, 0 >> \in JoinsAhead /\ << t, 0 >> \notin JoinsAhead'
    BY <1>1, <1>3, <2>1 DEF JoinsAhead
  <2>4. \A w \in Writer : w[1] # t => writer'[w] = writer[w]
    BY <1>3 DEF FetchPixels, FetchFails, Register, RegisterFails
  <2>5. WritesAhead' \subseteq WritesAhead
    BY <1>2, <1>3, <2>1, <2>4, WriterHasTask DEF WritesAhead
  <2> QED BY <2>2, <2>3, <2>5
<1>4. CASE task[t] = "writing"
  <2>1. /\ pushed[t] < Sensors[t[1]] /\ UNCHANGED writer
        /\ \/ task'[t] \in {"failed", "done"}
           \/ task'[t] = "writing" /\ pushed'[t] = pushed[t] + 1
    BY <1>1, <1>4 DEF FetchTypes, PushedInRange, FetchPixels, FetchFails, Register,
                      RegisterFails
  <2>2. JoinsAhead' \subseteq JoinsAhead
    BY <1>1, <1>2, <1>4, <2>1 DEF JoinsAhead
  <2>3. << t, pushed[t] + 1 >> \in JoinsAhead /\ << t, pushed[t] + 1 >> \notin JoinsAhead'
    BY <1>1, <1>4, <2>1 DEF JoinsAhead
  <2>4. WritesAhead' \subseteq WritesAhead
    BY <1>2, <1>4, <2>1, WriterHasTask DEF WritesAhead
  <2> QED BY <2>2, <2>3, <2>4
<1> QED BY <1>3, <1>4 DEF FetchPixels, FetchFails, Register, RegisterFails

(* And a step of a writer: its own file step is behind it, and a writer    *)
(* that loses its file has as much ahead as before.                        *)
LEMMA WriterStepAhead ==
  ASSUME FetchTypes, WritersFollow, NEW w \in Writer,
         CheckFile(w) \/ CreateFile(w) \/ WritePixels(w) \/ WriteFails(w)
  PROVE  /\ JoinsAhead' = JoinsAhead
         /\ WritesAhead' \subseteq WritesAhead /\ WritesAhead' # WritesAhead
<1>1. UNCHANGED << task, pushed >> /\ writer[w] # "off" /\ task[w[1]] # "fetching"
  BY WriterHasTask DEF CheckFile, CreateFile, WritePixels, WriteFails, WritersFollow
<1>2. writer \in [Writer -> {"off", "ready", "checked", "open", "lost", "done", "failed",
                             "refused"}]
  BY DEF FetchTypes, PixelFetchTypeOK
<1>3. \A v \in Writer : v # w => FileSteps(writer'[v]) = FileSteps(writer[v])
  BY <1>2 DEF CheckFile, CreateFile, WritePixels, WriteFails, FileSteps
<1>4. \E n \in 1 .. 3 : /\ n \in FileSteps(writer[w]) /\ n \notin FileSteps(writer'[w])
                        /\ FileSteps(writer'[w]) \subseteq FileSteps(writer[w])
  <2>1. CASE CheckFile(w)
    BY <1>2, <2>1 DEF CheckFile, FileSteps
  <2>2. CASE CreateFile(w)
    BY <1>2, <2>2 DEF CreateFile, FileSteps
  <2>3. CASE WritePixels(w) \/ WriteFails(w)
    BY <1>2, <2>3 DEF WritePixels, WriteFails, FileSteps
  <2> QED BY <2>1, <2>2, <2>3
<1>5. PICK n \in 1 .. 3 : /\ n \in FileSteps(writer[w]) /\ n \notin FileSteps(writer'[w])
                         /\ FileSteps(writer'[w]) \subseteq FileSteps(writer[w])
  BY <1>4
<1>6. << w, n >> \in WritesAhead /\ << w, n >> \notin WritesAhead'
  BY <1>1, <1>5 DEF WritesAhead
<1>7. WritesAhead' \subseteq WritesAhead
  BY <1>1, <1>3, <1>5 DEF WritesAhead
<1> QED BY <1>1, <1>6, <1>7 DEF JoinsAhead

(* Every step of the threads leaves less ahead of them.                    *)
LEMMA FetchStepAhead ==
  ASSUME FetchTypes, WritersFollow, FetchStep
  PROVE  /\ JoinsAhead' \subseteq JoinsAhead /\ WritesAhead' \subseteq WritesAhead
         /\ JoinsAhead' # JoinsAhead \/ WritesAhead' # WritesAhead
BY TaskStepAhead, WriterStepAhead DEF FetchStep

(* A future that is not ready belongs to a thread that can go on, or waits *)
(* for one that can.                                                       *)
LEMMA SomeThreadCanGoOn ==
  ASSUME FetchTypes, WritersFollow
  PROVE  NobodyWaitsInVain
<1>1. SUFFICES ASSUME ~ Quiet PROVE ThreadCanGoOn
  BY DEF NobodyWaitsInVain
<1>2. CASE \E t \in Task : task[t] \notin {"off", "failed", "done"}
  <2>1. PICK t \in Task : task[t] \in {"fetching", "writing"}
    BY <1>2 DEF FetchTypes, PixelFetchTypeOK
  <2>2. CASE task[t] = "fetching"
    BY <2>2 DEF ThreadCanGoOn
  <2>3. CASE task[t] = "writing"
    <3>1. Next2Push(t) \in Writer /\ Next2Push(t)[1] = t
      BY <2>3, NextWriter DEF Next2Push
    <3>2. writer[Next2Push(t)] \in {"ready", "checked", "open", "lost", "done", "failed",
                                    "refused"}
      BY <2>3, <3>1 DEF WritersFollow, FetchTypes, PixelFetchTypeOK
    <3> QED BY <2>3, <3>1, <3>2 DEF ThreadCanGoOn
  <2> QED BY <2>1, <2>2, <2>3
<1>3. CASE \E w \in Writer : writer[w] \notin {"off", "done", "failed", "refused"}
  BY <1>3 DEF ThreadCanGoOn, FetchTypes, PixelFetchTypeOK
<1> QED BY <1>1, <1>2, <1>3 DEF Quiet

LEMMA WritersFollowHolds == PixelFetchSpec => [](FetchTypes /\ WritersFollow)
<1>1. PixelFetchInit => WritersFollow
  BY WriterHasTask DEF PixelFetchInit, WritersFollow, Task, Writer
<1>2. FetchInv => FetchTypes
  BY DEF FetchInv
<1>3. FetchTypes /\ WritersFollow /\ [FetchStep]_fetching => WritersFollow'
  BY WritersFollowStep DEF WritersFollow, fetching, workers
<1> QED BY <1>1, <1>2, <1>3, FetchInvHolds, PTL DEF PixelFetchSpec

(* No thread of a readout waits for one that was never started or that     *)
(* waits itself, whatever fails and however often a location is listed:    *)
(* until all futures are ready some thread can go on                       *)
(* (Formatter.cpp:77-108, miniforwarder.cpp:337-360).                    *)
THEOREM NobodyEverWaitsInVain == PixelFetchSpec => []NobodyWaitsInVain
<1>1. FetchTypes /\ WritersFollow => NobodyWaitsInVain
  BY SomeThreadCanGoOn
<1> QED BY <1>1, WritersFollowHolds, PTL
=============================================================================
