# TLA+ models of the DM forwarder

The forwarder takes images of the LSST cameras out of the data acquisition
system (DAQ), writes one FITS file per CCD, adds the header that another service
provides, copies the files to the archive and tells the archive about them. This
directory holds TLA+ models of its control logic, the TLC configurations that
check them, and proofs of the main results. All paths below are relative to
`src/dm_forwarder/`.

## 1. Inventory

| component | state it keeps | operations | interacts through |
|---|---|---|---|
| `miniforwarder` | one message in hand | `xfer_params`, `header_ready`, `end_readout`, `associated`, `scan`, `health_check`, `process_ack`; `assemble`, `format_with_header`, `publish_completed_msgs`, `cleanup` | everything below |
| `Scoreboard` | Redis keys `<id>:target/:session_id/:job_num/:locations/:header/:ccd` | `add_xfer`, `add_header`, `ready`, reads, `remove` | one `RedisConnection` for the process' life |
| `RedisConnection`, `RedisResponse` | `_commands`, the hiredis context | queue a command, `exec` | callers see replies by position, or a `RedisError` |
| `DAQFetcher` | none | `fetch`: look up, decode, declutter, write | a thread per listed location |
| `Formatter`, `FitsOpener` | FITS files on disk, `<id>:ccd` | `write`, `write_pix_file` | a thread per CCD below each fetch |
| `Notification` | the DAQ stream | `start`, `block` | waits for the image of an END_READOUT |
| `YAMLFormatter` | FITS headers | `write_header` | a thread per registered file |
| `HeaderFetcher`, `FileOpener`, `CURLHandle` | header files | `fetch` | HTTP |
| `FileSender` | none | `send`, by `system("bbcp ...")` or `scp` | the archive's disk |
| `ReadoutPattern` | configuration | `sensor`, `data_segment`, `get_xor`, ... | throws into `end_readout` |
| `Consumer`, `SimplePublisher`, `RabbitConnection` | AMQP channels | `run`, `publish_message` | RabbitMQ; messages need no acknowledgement |
| `Beacon`, `Watcher` | a stop flag, a condition variable | `ping`, `start`, `clear`, `check`; the watcher's action is `register_fwd` | detached threads, remote Redis |
| `Scanner` | a time stamp, the names found | `process`, `get_images` | SCAN: the DAQ catalog, a Redis list of the archiver |
| `DAQDecoder`, `Data`, buffers, `Pixel3d` | pixel arrays | `process`, `declutter`, `naxes` | `DAQFetcher` |
| `Board`, `MessageBuilder`, `Info` | none | conversions of names and messages | |
| `IIPBase`, `Credentials`, `main` | configuration | start-up: each step may end the process; then `register_fwd` puts it on the list `forwarder_list` | Redis of the archivers |
| `SimpleLogger` | log sinks | | |
| `FitsComparator`, `fc_exe` | the option and the HDU it is at | comparison of two FITS files by headers, segments or HDUs | a command of its own |
| `FitsFormatter`, `PixelArray`, `StripeArray` | | | not compiled |

What makes it hard:

* **Two messages make an image.** `HEADER_READY` and `END_READOUT` come in any
  order, again, late or never, and whichever finds both halves assembles.
* **Threads below one handler.** A repeated location gives two threads per file;
  the check, removal and creation of a file interleave (`FitsOpener.cpp`).
* **Partial failure.** Each step of fetch, write, register, format, send,
  announce and clean up can fail after some of its files.
* **Failures nobody looks at.** `FitsOpener` closes a file, which flushes it, without
  a look at the status, and `write_key` writes values tagged `!` that way.
* **A connection that does not recover.** `RedisConnection` keeps its queue and
  its unread replies when `exec` throws, and never reconnects.
* **Restart.** systemd restarts the process, which flushes the scoreboard, while
  files stay on disk.
* **Threads that outlive what started them.** `Watcher` and `Beacon` detach their
  threads; one flag and one condition variable serve all generations of them.
* **A walk through something that grows.** SCAN goes through the catalog while
  images come in, some seconds after the time they are stamped with.

What makes each part correct: nothing is announced that was not delivered
(announce, restart); a complete image is delivered, announced and only then
forgotten (assemble, cleanup); a missing or damaged file is reported
(fetch, format); a registered file is complete on disk (writers); the last copy
of a file is never destroyed (cleanup, sender); replies go to the commands they
answer (Redis); a forwarder that serves can be found, and the loss of its archiver
is noticed (start-up, ASSOCIATED, `Watcher`); scans that overlap miss no image
(SCAN); files called equal are equal (`fc_exe`); handlers end.

## 2. Modules

| module | models | composed of |
|---|---|---|
| `Scoreboard` | `Scoreboard.cpp`: one action per method, and what becomes of its connection | |
| `PixelFetch` | the threads of one `END_READOUT`: `DAQFetcher::fetch`, `Formatter::write`, `FitsOpener` | extends `Scoreboard` |
| `Forwarder` | the process: handlers, DAQ stream, header fetch, assemble, restart | extends `PixelFetch` |
| `ImageTransfer` | abstract specification: custody of files until they are delivered | refined by `Forwarder` |
| `RedisConnection` | the command queue, the pipeline, `exec` | refines `Link`, instantiates it |
| `Link` | abstract specification: what callers take a connection to be, their own answers or an exception, and no answer after a failure | justifies `link` in `Scoreboard`, refined by `RedisConnection` |
| `ImageData` | the pixels of one location: `ReadoutPattern::data_segment`, `DAQDecoder`, the buffers, `declutter`, `naxes`, `write_pix_file` | what `PixelFetch` takes as one step |
| `Beacon`, `Watcher` | `Beacon.cpp`, `Watcher.cpp`: detached threads and time | |
| `Association` | start-up, `register_fwd`, ASSOCIATED, the watcher's action | extends `Watcher` |
| `CatalogScan` | SCAN and `Scanner`, the camera and its catalog | |
| `FitsComparator` | `fc_exe` and its three comparisons | |
| `MCPixelFetch`, `MCForwarder`, `MCImageData`, `MCCatalogScan`, `MCFitsComparator` | constants for TLC | |
| `PixelFetchProofs`, `ForwarderProofs`, `RedisProofs`, `BeaconProofs`, `AssociationProofs`, `CatalogScanProofs`, `ImageDataProofs`, `FitsComparatorProofs` | theorems | |

**Scoreboard.** `target`, `locs`, `hdr` and `ccds` are the keys of an image. Redis
lists become multiplicities: they are read whole and every element is treated
alike. `link` is the Scoreboard's connection: after one failed `exec()` it is
dead until the process restarts, which `RedisConnection` shows of the code.
`PushCcd` goes through the `Formatter`'s own connection. `Remove(i)` deletes by
the glob `<id>*`; `Prefixed[i]` is the set of ids it matches.

**PixelFetch.** `task[t]` is a `DAQFetcher::fetch` (one per list element, numbered
per location), `writer[w]` a `write_pix_file` thread. The disk holds for each
file `absent`, `partial` (created, pixels missing), `pixels`, `headed` or `damaged` (by a
failure that nobody looks at). A writer's steps are `CheckFile` (existence check with removal), `CreateFile` and
`WritePixels`, which includes the close by `FitsOpener`'s destructor: its status is
ignored (`FitsOpener.cpp:75-77`), so a writer that is done may leave a `damaged` file; `Register` is one round of the loop that joins a writer and pushes
its name, `RegisterFails` the exception that ends the loop. A writer whose file
was removed under it is `lost`: it goes on writing to a file without a name. One that
finds a file again when it wants to create its own is `refused` (cfitsio's error);
`failed` is the writer whose own writing went wrong. The two are told apart because
only the second may leave an incomplete file.

**Forwarder.** `phase` is where the consumer thread is in its handler. A handler is
cut where another thread, the camera or the death of the process can be told
apart from not having come between: `EndReadout`, `SkipImage`/`MatchImage`/
`BlockTimesOut` (`Notification::block`), `StartTasks`, the steps of `PixelFetch`,
`JoinTasks`, `Format`, `SendFiles`/`SendFails`, `Announce`, `Cleanup`; `Unwound` is the
exception that leaves the task loop and waits in the futures' destructors.
`Crash` is death and restart. `Faults` selects what may fail in a run:
`redis`, `daq`, `write`, `header`, `content` (a bad header file), `format`, `open`,
`send`, `publish` (the announcement, the acknowledgement of ASSOCIATED), `barrier`,
`unseen` and `telemetry`. `unseen` is cfitsio failing where the code does not look: the
close after the pixels or the header, a keyword whose value is tagged `!`
(`YAMLFormatter.cpp:110-114`). The file is then `damaged`, stays so whatever is
written into it, and goes to the archive without a report; this is what the code
does, and the properties that speak of whole files except such a file by name
(`Damaged`). No run has `telemetry`: the properties that speak of a report mean the
attempt to publish it, and a publisher that loses it is beyond the forwarder's repair.

**RedisConnection.** `commands` is the queue, `wire` the commands whose reply is
unread, `got` the replies of the running `exec()`, each named by the command it
answers. `ReadError` is an error reply, `ReadFails` an I/O error. A command in
`Refused` is answered with an error each time, one in `Fickle` now and then: an error
that goes away (a server short of memory, say) is a `lapse`. After one, the kept queue
and the unread replies line up again, `exec` returns, and its replies are out of step.
The code does this, so the properties claim nothing from a lapse on, and say so.
`AsScoreboardSees`
maps it to `Link`, whose link is dead once an `exec` has thrown: `Scoreboard` and
`PixelFetch` know of a connection only that a call returns or throws, and this
refinement is why they may, as long as there is no lapse.

**ImageData.** `data` holds the pieces the decoder read, `pixels` the array of
`declutter`, `fits` the HDUs. A sample is named by its place in what the sources
give, its CCD and its segment, and the XOR is the mark on it, so "the right pixel
in the right place" is an equality of names. A source is read in pieces of at most
`Quanta` samples (`SAMPLES`); that a read goes on where the last one stopped is
taken from the way the code uses it, as the offset it counts is passed to nobody.
`Sorted` is `std::sort` by what it promises, any ascending arrangement of the list it is
given, so that no recursion stands in the way of the proofs. `Equal` is `std::equal` with the reference as the shorter range: what it reads
behind the end is a free choice.

**Beacon, Watcher.** `pc` is where a thread is between two accesses to the flag, the
server or the mutex, so a notification can fall between the look at the flag and
the wait. Time is `Tick`, which counts `timer`, `ttl` and `sleep` down and is not
taken beyond the end of a sleep or of a thread's work. A sleep may end early (a
spurious wake-up). `Watcher` numbers its threads in the order of `start()`; `stop`
is one flag for all of them, not initialised by the constructor.

**Association.** `stage` is the start-up: each step of the constructors is an action
that may end the process, which systemd restarts. The order matters: the forwarder
is on the list (`Register`) before it has a DAQ stream or a consumer (`Open`).
`entries` counts its entries on `forwarder_list`, `asked` the ASSOCIATED messages that
wait for it. `Associated` publishes the acknowledgement and then calls `start()` of
`Watcher`; `LoseArchiver` is the watcher's action. `cut` records that a failure the code
swallows took the forwarder off the list and from its archiver. A dying process
takes its threads along (`NoThreads`).

**CatalogScan.** `Scan` makes a `Scanner`, whose time stamp is the whole second of
`time()` less the minutes asked for; `Process` is its callback for one entry of the
catalog, in any order, with entries that appear during the walk seen or not;
`Push` and `Acknowledge` end the handler, `Abandon` is every way it ends without an
acknowledgement (an empty list, which Redis refuses, among them). `from` and `upto`
keep what the archiver may conclude from the acknowledgements it got.

**FitsComparator.** `stage` and `at` are the comparison and the HDU `main` is at. A file
is a sequence of HDUs, each a name, its cards and an image of samples, so that the
loop over the rows (`GetPixels`) is modelled by the samples it reads.

## 3. Runs

| run | instance | what it shows |
|---|---|---|
| `redis_pipeline` | 2 commands (one refused each time, one now and then), batches of up to 3, 4 calls | up to a lapse, `AnswersInStep`: a returning `exec()` has its caller's replies. `FailedForGood`: after a failure none returns. `ImplementsLink`: callers see a `Link` |
| `pixel_fetch` | a guider (2 CCDs), listed up to twice, and a wavefront board (1), listed once; leftover files; failures of DAQ, Redis, any writer and its close | `RegisteredAreComplete`, `RegisteredOncePerTask`, `RaceLeavesCompleteFile`; `NobodyWaitsInVain` (until all futures are ready a thread can go on); `FetchEnds` (all threads end) |
| `live_clean` | 2 images, 2 boards, 6 messages, no failure | `HeaderKeyHasFile`, `ForgottenOnlyWhenDelivered`, `HandlerRunsOut` (every step of a handler leaves less ahead of it), `HandlerReturns`, `ReadyIsDelivered` |
| `live_faults` | 1 image, 2 boards of one CCD, 6 messages, failures of DAQ, writing, header, format, send, barrier and unseen ones | `TypeOK`, `AnnouncedIntact`, `EveryFileAccountedFor`, `NothingLeftReady`, `RegisteredAreOnDisk`, `LocalCopyOutlivesTransfer`, `HandlerRunsOut` |
| `restart` | catchup mode: 1 image, boards asked for one at a time, a guider, a wavefront whose readout pattern is refused, an unknown board, any list (also empty), 4 messages, 1 crash, failures of Redis, DAQ, writing, opening, transfer and publishers, bad headers | `AnnouncedDelivered`, `ReadyHasTarget`, `EveryFileAccountedFor`, `HandlerReturns`, `ImplementsTransfer` |
| `beacon` | expiry 10, update 3 (the shipped configuration), up to 3 seconds between two sleeps | `KeyKeptAlive`: the key does not expire under a living beacon. `KeyGoesAfterClear`: and is gone in time after `clear()` |
| `association` | one key, 3 calls of `start()` over any number of restarts, Redis slower (3) than the pause (2), failures of start-up, Redis, publisher, broker, death | `Reachable`: a serving forwarder can be found unless a failure cut it off. `LossNoticed`: the loss of the archiver leads to a registration in bounded time. `WokenEnd`: no watcher that `start()` woke outlives it |
| `catalog_scan` | 3 images, one with a damaged name, 2 ticks a second, 4 a minute, 7 ticks, a catalog up to 2 ticks late; failures of catalog, Redis, publisher | `NoImageBetweenScans`: acknowledged scans that overlap miss no image |
| `image_data` | 2 CCDs, 2 segments, pieces of 2, up to 3 sources of 0 to 5 samples, every list up to one longer than a valid one | `WithinArray`; `FilesHoldImage`: HDU `h` of each file holds the whole image of the `h`-th configured segment, and each segment is in one HDU; `AxesFit` |
| `pixel_overwrite` | one board listed twice | **violated** `NoWriterLosesItsFile` |
| `nested_ids` | ids `img1` and `img10` | **violated** `ForgottenOnlyWhenDelivered` |
| `fits_compare` | images of 2 by 2 samples, 2 segments, files that cannot be opened, miss an HDU or a name | **violated** `HduVerdictIsRight` |

*Bounds.* `MaxMessages` 6 allows the full sequence for one image and its repetition
(XFER_PARAMS, HEADER_READY, END_READOUT, twice), or one each for two images; 4 is
one full sequence and a retry. `MaxCopies` 2 is the smallest number of threads
that race on a file, and the third thread of a location takes the same steps as
the second. Two boards of different size tell the loops over locations and over
CCDs apart; `live_faults`, the run with the most kinds of failure in one image, has two
boards of one CCD, and `pixel_fetch` and `restart` have the failures of one CCD of two. `MaxCrashes` 1: a crash resets everything but files, archive and
announcements, so a second one starts from a state of the same kind. For
`redis_pipeline` three commands per call allow an error first, in the middle and
last, and four calls let the kept queue overtake itself twice.

For `association` a third start is the first
with two older threads alive at once, `MaxEntries` 3 lets entries of two dead processes
lie on the list of a third, and time is in quarter seconds only in its
proportions: what matters is which of `Pause`, `Wakeup` and `Latency` is longer. For
`image_data` five samples are two pieces and a rest, and three sources put a piece before, between and after full ones. In `catalog_scan` a second, a minute and the
delay of the catalog differ, so that rounding to seconds is visible, and seven ticks
hold two scans that overlap and an image stamped between them. `fits_compare` has 2
segments for 16: every HDU is treated alike, and 2 by 2 is the smallest image with a
sample that the loop does not reach.

*Deadlock* is not checked: the process stops receiving at `MaxMessages` (or
`MaxExecs`, or the end of one readout), by the bound; so do the watchers and the clock of
`catalog_scan`, and a fetch and `fc_exe` end.

*Findings.* (1) `pixel_overwrite`: `FitsOpener.cpp:51` warns that removing is only
safe without asynchronous access; the writers are asynchronous and a location
may be listed twice. What is registered in the end is complete all the same
(`RaceLeavesCompleteFile`). (2) `nested_ids`: `Scoreboard::remove` is documented to
remove one image but deletes `<id>*`, so an image whose id continues another's
loses its keys before it was delivered. Ids of one length, as the camera uses,
do not meet this. (3) `fits_compare`: the loop over the rows (`FitsComparator.cpp:127`)
increments the column of the first sample to read, not the row, so `fc_exe --hdu`
calls two files equal that differ outside the first samples.

## 4. Fairness

`FairSpec` is `Spec /\ WF_vars(Work)`: a step of a handler, or of its threads, is taken
if one stays possible. The code justifies it: the operating system runs the
threads, the DAQ waits and `curl` have time-outs (`BARRIER_TIMEOUT`, `HF_TIMEOUT`),
`get()` waits for threads that each take finitely many steps, and `system()` for
a transfer program with time-outs of its own. Nothing is assumed about messages,
the camera or crashes. What it leaves out is a Redis server that accepts a
command and never answers (`RedisConnection.cpp:36` sets a time-out for connecting
only). `MCPixelFetchSpec` assumes the same of the threads of one readout; `PixelFetchSpec`,
which the theorems are about, assumes nothing.

## 5. Proofs

The theorems hold for any images, boards, destinations, failures and bounds that
satisfy the named assumptions (`ScoreboardConstants`, `PixelFetchConstants`,
`ForwarderConstants`, `RedisConstants`, `BeaconConstants`, `WatcherConstants`,
`AssociationConstants`, `ScanConstants`, `ImageDataConstants`).

* `PixelFetchProofs`: `OnePushPerTask`, `RegisteredFilesAreComplete`, `RacesEndWell`,
  `NobodyEverWaitsInVain`.
  A task that has not fetched has no writers and has pushed nothing
  (`NothingBeforeFetch`), and what it has pushed is done (`PushedAreDone`), so each
  file is listed once for each task that got past it. Alone on its location a writer
  keeps its file (`Undisturbed`). Both theorems about files except one whose close failed
unseen (`Damaged`), and only that. For the race, `RacersAttend` says what is true
  between the steps: once a writer of a file has begun, the file is complete, or a
  writer is about to make it so (it has the file open, or has checked and will
  create it), or one of them failed. This needs `refused` apart from `failed`: a
  writer is refused only because another one made the file. `NobodyEverWaitsInVain` is
  the half of `FetchEnds` that is not temporal: the writer whose future a task waits
  for was started and can take a step (`WritersFollow`, `SomeThreadCanGoOn`). The other
  half, that each step shrinks what is ahead, is in `TaskStepAhead` and `WriterStepAhead`,
  on which `HandlersRunOut` rests.
* `ForwarderProofs`: `TypeCorrect`, `AnnouncedIsDelivered`, `ReadyImageHasTarget`. The
  inductive invariant `Inv` adds to the type invariant what the three need:
  `PushedInRange` (a task has pushed no more names than its board has CCDs),
  `WorkersJoined` (threads run only in the phases that wait for them), `Asked` (a
  listed location, and a registered file, belong to an image with a target),
  `Assembling` (from `formatting` on there is a destination, and from `announcing` on
  every registered file of the image has arrived there) and `AnnouncedDelivered`.
  `Asked` is what makes `ReadyHasTarget` inductive: `assemble` reads a target that only `XFER_PARAMS` writes, and a file can be
  registered only for a location that the same message listed.
  On top of `Inv` stand further invariants, each with what it has to assume of the
  failures and the mode:
  * `HeaderKeysHaveFiles` (no pull of a header fails: a repeated HEADER_READY removes
    the file before it pulls the new one, and the key of the first stays).
  * `EveryFileIsAccountedFor` (no telemetry is lost), from `Accounts`: a listed location
    has a task for each time it is listed (`EveryListedRuns`), a task that is done has
    pushed all its files (`DoneHasPushedAll`), and what was pushed is on the scoreboard
    (`PushedIsRegistered`).
  * `RegisteredFilesAreOnDisk` and `LocalCopyOutlives`, from `Custody`, whatever fails
    (a file damaged where the code does not look is excepted by the first), but only under `OneReadout`: live mode, and each location listed once. Then an
    image comes off the stream at most once (`ReadOnce`), every writer is alone on its
    file (`WritersKeep`), so a registered file has all its pixels, or is damaged
    unseen, and is registered once (`OnDisk`), and the archive has it as it is when cleanup comes (`SentAsIs`).
    In catchup mode a second END_READOUT starts writers for files that are registered
    already; nothing is claimed there.
  * `AnnouncedAreIntact` (`OneReadout`, no telemetry lost), from `Intact`: a file goes on
    to the transfer with its header, with a report, or damaged unseen (`HeadersIn`), and what was
    announced is never registered again, so that no later transfer overwrites it
    (`ToldOnce`).
  * `NothingIsLeftReady` (`OneReadout` and `NoSilentLoss`), from `Left`: a file of an image
    with both halves is in the hands of the running handler or was reported, or its image
    has a file damaged unseen, which may end `assemble` with an exception (`LeftReported`,
    `SpoiltStays`), and a header whose file is not good was reported
    (`BadHeaderReported`). `NoSilentLoss` names the failures that end a handler with a
    log line only: a fetcher that cannot connect to Redis or a readout pattern that
    is refused (the loop that starts the tasks ends), a header file of bad content,
    a FITS file that does not open, and lost telemetry.
  * `Implements` (every step of the forwarder is a step of `ImageTransfer` or a
    stutter) and `ForgetsOnlyDelivered`. Both need `IdsApart`: no image id is the
    beginning of another. `nested_ids` shows that it cannot be dropped.
  * `HandlersRunOut` and `HandlersCanGoOn`, the two halves of why a handler returns that
    are not temporal, for any number of images, boards and copies, whatever fails. What
    lies `Ahead` of a handler has five parts: its own phases, the images on its DAQ
    stream, the joins of its tasks, the steps of its writers, and the files it has to
    send and announce. Every step of `Work` takes from one of them and adds to none.
    In a phase that waits for threads one of them can go on, because a writer that
    was not joined exists and no writer waits (`ForwarderWritersFollow`,
    `NobodyWaitsInVain`), and every state of a file and its header has an outcome of
    `Format` (`EveryFileHasOutcome`). `WF_vars(Work)` then makes the handler return, as
    the camera can add to the stream only once for each image. That last combination
    is temporal and stays with TLC (`HandlerReturns`).
* `RedisProofs`: `AnswersAlwaysInStep`, `FailedStaysFailed`. After an error the
  pipeline always holds so many answers to refused commands that any stretch as
  long as the queue contains one (`ErrorAhead`); an `exec()` has to read as many
  replies as the queue is long, so it meets an error (`ErrorDue`). This needs a command
  that was refused to be refused again when it is re-sent, as the error replies the
  forwarder itself causes are (an `LPUSH` without a value, a command on a key of the
  wrong type), not those of a server that is out of memory for a while. After such a
  lapse nothing holds, so the invariant is `Steady`: all of it, until a lapse. From the same two states of the pipeline (in step, or
  with an error ahead) follows `ConnectionIsALink`: each step of the connection is a
  step of `Link`, or one that no caller can tell.
* `BeaconProofs`: `BeaconIsSeen`, `ClearedBeaconGoes`, for any periods with `Update + 2 *
  Latency < Expire`. The invariant says at each place of the loop how much longer
  the key lasts than the rest of the way to the next SETEX (`Outlives`), and that
  after `clear()` at most one SETEX is still on its way (`LastSet`). In the shipped
  configuration (10 and 3 seconds) an exchange with Redis may take over 3 seconds.
* `AssociationProofs`: `ServingIsReachable`, `LossIsNoticed`, `NoWokenThreadSurvives`,
  for any number of generations of watchers, any periods and any restarts. A watcher
  ends only for a reason: its key was gone, a failure, or a newer `start()`
  (`EndsForAReason`). What a thread may still need before it asks Redis again, added to
  the time since the key went, stays within the bound of `LossNoticed` (`InBudget`). A
  thread that `start()` woke has less left to wait than the pause lasts (`WokenInTime`).
* `CatalogScanProofs`: `ScansLeaveNoGap`, for any clock, delay and failures. An image
  is in the catalog less than `Delay` after its stamp (`Punctual`); therefore every
  image stamped `Delay` before a walk began, and after the moment it asks back to, is
  in what the walk still has to do or in what it has found (`Brought`). The cut-off in
  whole seconds lies before the moment asked for, which is why rounding down loses
  nothing.
* `ImageDataProofs`: `DeclutterStaysInside`, `AxesAlwaysFit`, `PiecesMakeTheImage`, for any
  sources, piece length, CCDs and segments. The pieces lie end to end (`Contiguous`),
  the samples counted per source are those read and those left (`Counted`), and the
  offset is the end of the last piece placed (`InOrder`), so the array is filled from
  the front (`SetSoFar`). `FilesAlwaysHoldImage` adds the files: a configured list
  that is accepted is a permutation of the segments (`AcceptsPermutations`, whatever
  `std::equal` finds behind the reference), and the HDUs of a file are the arrays in
  the order of that list (`Accepted`, `HdusInOrder`). The theorem states the order: HDU `h`
  is the image of the `h`-th segment of the list, and no other HDU is.
* `FitsComparatorProofs`: what remains true of `fc_exe` beside its finding.
  `VerdictsMean` says for each comparison which reads agreed when it is called equal,
  that one differed when it is called different, and what was missing when it ends
  in an error; `FileEqualsItself` and `EveryQuestionIsAnswered` follow from the same
  invariant. `OnlyTheBeginningIsCompared` measures the finding: two images of `w` by `h`
  samples compare as equal exactly when their first `w + h - 1` samples agree. The
  only assumption is that the number of segments is a natural number.

*Only model-checked*: the properties under fairness, `HandlerReturns`, `ReadyIsDelivered`
and `FetchEnds` (liveness and ENABLED are outside the prover), and the three violations.
Every other property of a run is stated by a theorem.

## 6. What is abstracted or left out

* Pixels, header cards, messages' wording, file names: content classes and names.
* The DAQ library: how it cuts an image into sources, what it decodes out of a
  buffer, that a source keeps its position.
* `Watcher` and `Beacon` assume that the system runs their threads and Redis answers
  within `Latency`; a watcher that meets a Redis failure ends, as in the code.
* `fits_create_file` is one step: cfitsio's own check and creation are not split.
  Two header tasks on one file (repeated END_READOUT in catchup mode) leave
  any content. How a file is damaged by an unseen failure is not told apart, and a
  damaged file may or may not open.
* Nothing read from a dead Redis link is used by the code, so what its re-sent
  commands still do to the keys is not tracked.
* Redis that hangs, what follows a Redis error that goes away (`RedisConnection` shows
  that replies are then out of step; `Scoreboard` supposes it does not happen), messages that lack a
  field (logged and dropped), acknowledgements to the sender.
* Handlers without effect on the state above: HEALTH_CHECK and the file transfer
  acknowledgement.
* `Forwarder`, `Association` and `CatalogScan` are modelled apart, although one
  process runs them: their handlers come one at a time and share no key, file or
  thread. Their composition would multiply the states and add no interaction.
* `FitsComparator`: what is printed of the keywords that differ.
* `Board`, `MessageBuilder`, `Info`, `SimpleLogger`: conversions and text. Their
  inputs and outputs are the names and messages of the other modules.
* The FITS type that `YAMLFormatter::write_key` chooses for a value, and
  `DATA_SEGMENT_NAME`, `sensor_order` and the errors of `get_xor` in `ReadoutPattern`.
* `FitsFormatter`, `PixelArray`, `StripeArray`: not built.

## 7. Plan

1. *(done)* `Scoreboard`, `PixelFetch`, `Forwarder`, `ImageTransfer`, `RedisConnection`;
   their runs; type correctness, announcements, refinement, the Redis pipeline.
2. *(done)* `Beacon`, `Watcher` and `ImageData`, with the proofs of `Beacon` and of the
   array of `ImageData`.
3. *(done)* `CatalogScan` and `Association` with their proofs, `FitsComparator`; the
   proofs of `PixelFetch`; catchup mode and every failure together in `restart`.
4. *(done)* Proofs about the whole forwarder: every invariant its runs check, each
   under the failures and the mode it needs.
5. *(done)* Proofs of the image files (`ImageDataProofs`), of `RedisConnection` as a
   `Link`, of the measures behind the liveness properties, and of `fc_exe`.
6. What can be said of the transfers of catchup mode, where a repeated END_READOUT
   meets registered files and `OneReadout` does not hold; the values of
   `YAMLFormatter::write_key` against a reference definition; `Notification` with
   folders and its time-outs (an `int` of microseconds).
