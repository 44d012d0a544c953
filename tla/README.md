# KGet in TLA+

KGet is KDE's download manager (`src/kget`, C++ on Qt 4). This directory models the part of
it that is hardest to test: the scheduler with the queues and jobs it drives and the plugins
that call it back; the engine that downloads one file from several mirrors over several
connections; and, each by itself, what works beside them - the verification thread, the search
for keys of signatures, the threads of an MMS download, a Metalink and its files, the deletion of
destinations, saving, quitting and starting again. The models are checked with TLC on small
instances, and all the invariants of the passing runs, an action property of the scheduler and the refinement of the download
engine are proved with TLAPS for all values of the constants, some under conditions named with the theorems.

## The system

Everything but three kinds of worker threads (verification, signatures, MMS) runs in the
thread of the event loop. Hard behaviour comes from four sources: *callbacks inside calls*
(an object tells the scheduler about a change before it finished changing), *answers that
come late* (KIO jobs, opening files, fetching torrents), *timers* (failures, saving, the
action after the last download), and *several connections* that write one file.

| Component (sources below `src/kget`) | State | Operations | Talks to | Must hold |
|---|---|---|---|---|
| Scheduler (`core/scheduler.cpp`) | `m_queues`, `m_failedJobs`, failure timer, suspended, connected, timeouts | `updateQueue`, events of queues and jobs, `timerEvent`, suspend, connection, settings | calls `start`/`stop` of jobs; is called back by `Job::setStatus` meanwhile, its static flag drops nested updates | the limit of active jobs; policies and queue statuses obeyed; nothing runs offline; no work left to an update that nobody makes; silent workers replaced |
| Job, JobQueue (`core/job.cpp`, `core/jobqueue.cpp`) | status, policy, error, `m_jobQueue`; list and status of a queue | `setStatus`, `setPolicy`, `setError`; `append`, `prepend`, `insert`, `remove`, `move`, `setStatus` | every one of them calls the scheduler | list and `m_jobQueue` agree; a job is in one list, once |
| TransferGroup, TransferHandler, TransferTreeModel | the groups' transfers, Qt items | start, stop, add, delete, move | JobQueue, Job | as above; moves do not lose a transfer |
| Transfer (`core/transfer.cpp`) | sizes, speeds, limits, share ratio | save, load, limits, checks of the ratio | observer | what is loaded is what was saved |
| KIO transfer (`transfer-plugins/kio`) | `m_copyjob`, `m_movingFile` | start, stop, `slotResult`, move of the `.part` file | KIO | Running means that a job runs; nothing runs while the file moves |
| Multi-segment transfer, DataSourceFactory (`multisegmentkio`, `core/datasourcefactory.cpp`) | open file, `m_startTried`, started and finished chunks, mirrors and their sources, pending write | start, stop, `open`, assign, finished/broken segments, write, repair, move, save, load | sources, KIO file job, FileDeleter | every chunk has at most one owner; finished means written; a download with mirrors left goes on |
| Segments and connections (`multisegmentkio/segment.cpp`, `multisegkiodatasource.cpp`) | per connection: first chunk, number of chunks, buffer, KIO job | data, result, split, merge, error, retry of a refused write | factory | no chunk lost or fetched by two segments |
| BitTorrent (`transfer-plugins/bittorrent`) | torrent (libktorrent), fetched torrent file | start, stop, init, end, error, move | libktorrent | Running means that there is a torrent |
| KGet, GenericObserver (`core/kget.cpp`) | model, scheduler, timers of saving and of the last action, notifications | delete, suspend, network status, save, after-finish action | everything | saved in time; the action happens only when all is finished |
| Speed limits (`core/transfergroupscheduler.cpp`) | visible and invisible limits | recalculation | transfers | the sum stays within the limit of the group |
| Verification (`core/verificationthread.cpp`, `verifier.cpp`) | three lists of requests, abort flag, the verifier's status | verify, find broken pieces, abort, repair | thread to event loop, factory | no request lost or mixed up unless a search meets or replaces it, each answered; nothing counts as verified that is not, unless a repair overlapped |
| Signatures and keys (`signature*.cpp`, `keydownloader.cpp`) | who waits for which key, servers tried | verify, download a key, ask the next server, import | thread, KIO, GpgME | one job per key; nobody who waits is forgotten |
| FileDeleter (`core/filedeleter.cpp`) | running deletions by destination, who waits for them | delete, is-being-deleted | KIO, factory | a new download waits for the deletion of the old file and is told of it |
| UrlChecker, new-transfer dialog (`core/urlchecker.cpp`, `ui/newtransferdialog.cpp`) | what was found about the input | check, replace transfers and files | KGet, FileDeleter | no file of a running download is deleted |
| MMS (`transfer-plugins/mmsthreads`) | threads, map of the segments' ends, saved map | start, stop, threads that read, write, are refused, end; resume | libmms threads | the map agrees with the threads; done is written or lost by a short read; it ends |
| Metalink (`transfer-plugins/metalink`) | factories of its files, how many run | start, stop, selection, combined status, repair | factories, Download | the status of the whole follows from the parts; selected files end |
| BitSet | bits | - | - | pure algorithm |
| Search plugins, history, Nepomuk, progress jobs, user interface | - | - | - | input, output, presentation: not modelled |

`PROJECT.json` lists every component with its status, and under `hazards` what is hard to
test, each at its line, with the properties that would notice.

## The modules

| Module | Role |
|---|---|
| `SchedulerOps` | The synchronous calls, as operators from a state of the objects to the next one. |
| `Scheduler` | The state machine: one action per event of the loop; the properties. |
| `MCScheduler` | Which plugins and queues an instance has; a specification without the timer. |
| `Loops` | The loops of the code, as recursive functions. |
| `Recursion` | Facts about them: such a function exists, and what one iteration preserves, all do. |
| `SchedulerProofs` | The theorems about `Scheduler`: with any plugins; then what an update achieves: limits, policies, connection, and that it leaves nothing to do. |
| `DownloadOps` | The calls of factory, sources and segments, as operators from a state of the download to the next one. |
| `Download` | The state machine of one download: commands and answers; the safety properties; the refinement. |
| `ChunkStore` | What a download promises: the abstract specification `Download` implements. |
| `DownloadLoop` | `Download` under a fair event loop; the liveness properties. |
| `MCDownload` | The two mirrors of an instance. |
| `DownloadLemmas` | The inductive invariant of `Download`; what calls about chunks and connections do to it. |
| `DownloadProofs` | The same for mirrors, start and stop, failures, data, the file, writes, the size and repairs; the theorems about `Download`. |
| `Verification` | Verifier, its thread with the lists of requests, and the repair of the file. |
| `VerificationProofs` | The theorems about `Verification`. |
| `KeyDownload` | Signatures, their thread, and the one key downloader. |
| `MmsDownload` | An MMS transfer, its download and its threads. |
| `MmsProofs` | The theorems about `MmsDownload`. |
| `Session` | The list of transfers between memory and disk: observers, timers, loading, quitting, crashes. |
| `SessionProofs` | The theorems about `Session`. |
| `DownloadRestart` | `Download` across crashes: what is saved of chunks and mirrors, and what the next program makes of it. |
| `MCSession` | `Session` and `DownloadRestart` in one instance; which of them works is chosen in the beginning. |
| `Metalink` | A Metalink and the factories of its files. |
| `Destination` | Transfers that want the same file: duplicates, deletions, late starts. |
| `ComponentProofs` | The theorems about `KeyDownload`, `Metalink` and `Destination`. |
| `MCComponents` | `KeyDownload`, `MmsDownload`, `Metalink`, `Destination` and `DownloadLoop` in one instance; which of them works is chosen in the beginning. |

### The scheduler: how state and actions correspond to the code

`job[j]`, `queue[q]` and `scheduler` are the objects of `Job` and its subclasses, `JobQueue`
and `Scheduler`. `job[j].status`, `.policy`, `.error`, `.queue` are the members of `Job`.
`.worker` is what downloads for the job: `m_copyjob` of `TransferKio`; `m_putJob` of a
`DataSourceFactory`, *pending* until the file is open; `torrent` of a `BTTransfer`, *pending*
while only the torrent file is there. `.startTried` is `m_startTried` of the factory, and a
torrent file being fetched. `.speed` is whether the last speed reported was above zero, all
`Transfer::isStalled` asks. `.moving` and `.beforeMove` are `m_movingFile` and
`m_statusBeforeMove`. `.obstacle` is what the next start will meet: a destination or torrent
file that is missing, a damaged torrent, no free port.

An action is one pass of the event loop: a command of the user, a timer, or an answer from
KIO, a file or libktorrent. What makes this code hard is that calls nest: a loop of
`updateQueue` starts a job, whose `setStatus` calls `Scheduler::jobChangedEvent`, which calls
`updateQueue`, which returns because the static `updatingQueue` is set. The operators keep
that: names that end in `Quiet` are calls made inside an update (the nested update is a
no-op); `Announce` adds the update that the scheduler makes of a status that changed outside
of one. The order of an update and of the assignments around it is the code's, and most of
the findings below are about that order: `setError` writes the type after the update,
`moveTransfer` writes `m_jobQueue` after two of them, `slotResult` clears `m_copyjob` after one.

The call of the abstract `Job::start` is dispatched by `Kind[j]` to the plugin. The
factory's chunks and data are left out in this layer: `MultiFinished` is the write of the last
chunk, `FileOpened` the answer of the file job. `m_failedJobs` is a function on all jobs that
has `NoFailure` where the map has no entry: `QMap::value` returns the same. The key is an
address, so the entry of a deleted job stays for the next one at that address, as in the code.
`TransferHandler::start` and `stop`, `JobQueue::setStatus` and `moveTransfer` make several
updates each; all of them are in the one action.

Deliberate abstractions: seconds of a failure's count above the retries wrap around with
`RetryPeriod` (the code only takes that count modulo 10); several transfers added or deleted
at once are one after the other here; the queues are fixed (`addQueue`, `delQueue` are not
modelled), as are `Scheduler::start` and `stop`, which set every queue's status at once.

### The download: how state and actions correspond to the code

`factory` is the `DataSourceFactory`, `source[m]` the data source of the mirror `m` with its
`Segment` objects in the order of `m_segments`, `disk` the units of the file that hold what
they should. `DownloadOps` names the members each field stands for: `file` is `m_putJob` and
`m_open`, `write` is `m_tempOffset` and `m_tempData` while `m_blocked` is set, `done` is
`m_finished`, `unused` is `m_unusedUrls`; a segment's `cur`, `end`, `curSize`, `left`, `buffer`
are `m_currentSegment`, `m_endSegment`, `m_currentSegSize`, `m_totalBytesLeft`, `m_buffer`, and
`job` is `m_getJob`, suspended or not. `timers` counts the pending single shots of `slotWriteRest`.

Signals are direct calls here as in Qt: data that fills the buffer of a segment makes
`Download!Data` kill its job, hand the data to the factory, mark the chunks that end with it
as finished, drop the segment, and let its source ask for more, which may split a segment of
another mirror and start a new job, all in one action. The operators carry the names of the
methods. Loops over `m_sources` visit the mirrors in `MirrorOrder`, the order of the hash.

Abstractions. Bytes are units, a unit of data *is* its place in the file, so that a wrong
offset shows as a wrong unit on the disk. KIO jobs, the file job and servers are external: a
server sends the units in order from the offset at which the job was made, may fail at any
time, and either resumes at an offset (`Resuming`) or not. Seek and write of the file job are
one answer. The destination is there and is not moved (the scheduler's layer has the moves and
missing files). `repair` and `slotRepair`, with the verifier between them, are one action, and
what was damaged is what the verifier reports. `setMirrors` keeps all mirrors in its argument, as
the dialog does; its calls define `used`, so `maxMirrorsUsed` grows as needed and is not modelled.

### The other parts: how state and actions correspond to the code

**`Verification`.** `m_types`, `m_checksums`, `m_files`, `m_type`, `m_abort` are members of
`VerificationThread`; of the files, which are all the same, only the number. The thread has one
step per critical section: it counts the requests, takes one out, hashes without the lock, answers.
`worker = "off"` is `!isRunning()`, and *leaving* is the time between the end of `run()` and
that. Its signals are queued (`events`), and the main thread takes them one by one:
`changeStatus` of the verifier, `slotVerified` of the transfer, which asks whether to repair,
`slotRepair` of the factory. A repair downloads what was found broken, piece by piece (`missing`), and may bring bad
data again. Nothing in the code keeps verifications, searches for broken pieces and repairs apart, and nothing in the model does:
a repair is accepted, or asked for by D-Bus, whenever the status is NotVerified, while requests wait, are hashed,
or an answer is posted; a search replaces the lists, whatever they hold; a verification is appended behind a search that waits and turns
`m_type`. So `doVerify` may meet the lists of a search. If the list of checksums ends before that of the types, `takeFirst` of
an empty list is undefined: the thread goes on with any checksum (`TakeRequest`), or the program crashes
(`TakeCrashes`). Three variables are history. `owed` is what was asked for, not replaced and not answered;
`mixed`, that a search has met verifications in the lists; `doubtful`, that a repair overlapped the verification the status
comes from.

**`KeyDownload`.** `m_downloading` and `m_triedMirrors` are the maps of `KeyDownloader`;
`asked` is the list of the thread of a signature, `results` what it has posted. A key comes when
GpgME imports it: from then on `keyring` has it. The user asks for any verification again.

**`MmsDownload`.** `transfer`, `download` and `thread` are the three classes; the slots of
`MmsDownload` run in the main thread since the object lives there, its `run()` does not. `signals`
is the queue of the event loop: *read* is emitted before the unit is written, as in the code. A read may be short or
empty (`whole` is false): the unit is announced and booked, nothing is written, and what the thread writes next goes to
where that unit belongs (`behind`; content is not compared, a unit counts as written when something of the stream is there).
`lost` is history: the units at its end that a thread with short reads has never written. `temp`
is the temporary file a resumed download reads. Any connection may be refused, also all of them, which counts
`m_amountThreads` down to 0 and below; a stop may come while the download connects. The loop in `startTransfer` is one step,
though it runs in a thread of its own and a stop may find its list half filled.

**`Session`.** `list` has what of a transfer decides on saving and on the action after the last
download: its status, and the status it was loaded with. `changed` is the batch of
`TransferTreeModel::timerEvent`. Each `GenericObserver` has its two timers, `m_save` (off, a single
shot, or regular) and `m_finishAction`; every list that is loaded makes one more. `stored` is
`transfers.kgt`. A crash loses everything but `stored`.

**`DownloadRestart`.** `saved` is what `Transfer::save` and `DataSourceFactory::save` wrote when the list was
saved last, which may be any time (`Session` has the timers that save it); a quit is a save and a crash.
A crash leaves the file and the list; the write under way may get to the file or not, since KIO's
file slave is a process of its own (`lost` is history: what of it did not). `load` follows the code: the new
factory has its source as a mirror before it knows its chunks, so the mirrors that are loaded are assigned
chunks at once, and the status is assigned last without telling anybody. Hence `transfer`, the status of the
`TransferMultiSegKio`, is a variable here: it follows the factory when that announces a status. `downloaded` is
`m_downloadedSize`, which counts bytes twice that were fetched twice; `Transfer::load` calls a transfer
Finished if it equals the size. Repairs are left out.

**`Metalink`.** `metalink` has the members of `Metalink`, and of each `DataSourceFactory` what tells it
apart here: status, `doDownload`, `m_startTried`, whether its file is open. The status of a factory
changes inside its `start`, so `updateStatus` runs nested in the loop of `startMetalink`, which
goes by `m_currentFiles`: the operators keep that order. `wanted` is the scheduler.

**`Destination`.** `kget` is what one call reads and writes: the list of transfers with their
factories, the files that are there, the jobs of `FileDeleter` and who waits for them. Every call that adds
or removes a transfer is one action, with all it deletes and creates, but for the dialog: what
`checkInput` found is used by `dialogAccepted` much later.

## What is checked

`Tick` and the change of speeds, which only the timer reads, are left out by `UntimedSpec`
(everything else happens) and by `PluginSpec` (the network connection does not change either);
`FairSpec` adds weak fairness of `Tick`. `CHECK_DEADLOCK FALSE` everywhere: with the timer
off and nothing to do the program rests. `scheduler_timers` and `scheduler_groups` take states that
differ by a permutation of transfers as one: all have the same plugin and no definition names
one, and they check no liveness.

`session` and `components` check two and five specifications that share nothing. Each behaviour belongs to one of
them (`part`), the others rest in an initial state, so their state spaces add up and do not
multiply; the properties are those of the modules, and hold of a part
that rests. The fairness of each module is stated for the part that works.

| Run | Instance | What it shows |
|---|---|---|
| `scheduler_timers` | 2 KIO transfers, 1 queue, timer with every failure status | `TypeOK`; `Settled`: after every event, another update would change nothing; `LimitRespected`; `OfflineIsIdle`; `StopPolicyObeyed`; `AddAndRemoveInterruptNobody` |
| `scheduler_groups` | 3 KIO transfers, 2 queues, no timer | `QueuesPartitionJobs`: a transfer that exists is in exactly one list; `LimitRespected` under every reordering and move between groups |
| `scheduler_plugins` | a torrent and a transfer of mirrors, 1 queue, all obstacles, files move, no timer, always connected | `UpdateRestoresLimit`: answers may exceed the limit, one update restores it; `RunningIsExecuted` |
| `scheduler_stalled` | 1 KIO transfer, fair timer, file moves | `MovingIsIdle`; `StalledIsExecutedInTheEnd`: a stalled transfer without a worker gets one |
| `download_safe` | 7 units in chunks of 2 (the last is short), 2 mirrors, 2 connections each, pieces as chunks | `TypeOK`; `ChunksHaveOwners`: started is finished or owned by one segment; `FinishedIsWritten`; `OffsetsAgree`; `WorkIsGiven`: as long as a mirror is used a running download has a connection, and none that was not started; `ImplementsStore` |
| `verification` | 2 types of checksums, 2 pieces, at most 2 verifications, answers and questions at a time | `RequestsAreKept`: the lists stay in step until a search meets verifications in them; `VerifiedIsRight`: what counts as verified is right unless a repair overlapped; `SearchIsAnswered`: a search begun for a repair ends in an answer |
| `session` | 2 transfers, 2 observers, crashes at any time; a download of 2 chunks from 2 mirrors, one crash | `ChangesAreSaved`: what is not on the disk has a timer; `ProgressIsSaved`; `CrashLosesOneWrite`: what counts as finished after a restart is there, but for the write that was under way; `RestartedIsExecuted`: the loaded download has started its connections, and has one as long as there is a mirror |
| `components` | see Bounds | `KeyDownload`: `OneJobPerKey`, `NobodyIsForgotten`. `MmsDownload`: `MmsAccountsAgree`, `MmsDoneIsWritten`, `MmsDownloadEnds`. `Metalink`: `FinishedIsComplete`, `StoppedIsIdle`, `SelectedFileEnds`. `Destination`: `DeletionSparesDownload`, `StartIsRemembered`. `DownloadLoop`: `CompletesInTheEnd`: a download that runs finishes unless it is stopped |
| `find_multi_open`, `find_kio_failed`, `find_repair`, `find_verification` | 1 or 2 transfers, 1 download, 1 file with two checksums | the four findings |

Properties hold for fewer plugins where the code breaks them for others, and each such
restriction is one of the findings or divergences below: nothing is narrowed without a
counterexample that was looked at.

**Bounds.** Two jobs and one place (`Limits = {1}`) are what contention needs: one active, one
waiting, and the limit of `2 * max` active jobs reached when the first stalls. Three jobs in two
groups add an insertion between two others and a job that leaves while another takes its
place. `StallTime = 1`, `ReconnectDelay = 2` and `ReconnectRetries = 1`, `RetryPeriod = 2`
are the smallest values for which every failure status, a timeout before the last retry,
timeouts without an action and one with it are all reached; the code's are 5, at least 10, 5 and 10, and
only comparisons of them matter. Runs without the timer give it the smallest periods. Nothing
else is bounded: the wrapped count makes the state spaces finite.

Four chunks are as many as there can be connections, so every connection can own one, a segment can
be split twice, lose its connection to a neighbour, or pass two chunks with one write. The last chunk
is shorter than the others. `SaveSize = 1` lets the buffer grow past a write that is refused
and past the border of a chunk; `MaxTries = 2` of the code's 100 makes one retry and one failure.
`MaxConnections` bounds what the user gives a mirror. In `components`, where it is about liveness, the file
has three chunks and one mirror cannot resume.

The other parts: two types of checksums (and requests without one), two
pieces, up to two verifications that wait, are hashed or not delivered, with the questions that are open (`MaxRequests`), so that a second one
waits behind the thread or is asked for while an answer is late; repairs and searches come at any time beside them. Two signatures of one key, two servers, two
verifications each at a time (`MaxVerify`); keys do not influence each other. A stream of
three units in two parts, so that one thread has a single unit and the other a first, a last and a resumed one; refused
connections and restarts go down to one thread, to none and below (-1 stands for all numbers below zero). Two transfers and two observers (`MaxObservers`):
one transfer finishes while the other goes on, one list is imported. A download of three units
in two chunks, the last one short, that is interrupted once (`MaxCrashes`) with one connection for each mirror; a refused
write fails at once there (`MaxTries = 1`), `download_safe` has the retries. Two files one at a time, so that the
limit makes one wait for the other, with two failures, two selections and one download of the
Metalink at a time (`MaxFailures`, `MaxSelections`, `MaxDownloads`; see the divergences). Two transfers added once each, two sources, one destination, which is what they compete for, and one
failure to delete, create or open (`MaxFileFailures`).

**Fairness.** For the scheduler only `WF_vars(Tick)`: `startTimer(1000)` fires every second as long as it is not
killed, and a tick is one pass of the loop. Nothing is assumed of users, files, networks or
plugins there. For a download, `FairSpec` of `DownloadLoop` assumes what an event loop does: as long
as there is an answer, a timer or a stalled download to handle, one of them is handled - which
one is not assumed, so no order is. Eventually the user leaves the download alone and the
servers stop failing. The restart of a stalled download is the
scheduler's, shown there by `StalledIsExecutedInTheEnd`. One mirror has to be able to resume:
if none is, two connections of the file fail each other's ranges for ever. `event` tells the loop's
steps from the user's: fairness of the actions themselves would say the same, but at a cost
for TLC that no instance of interest can bear.

In the other modules a thread that runs goes on (`Worker`; `ThreadStep`, one of them), the event
loop delivers what was posted (`EventLoop`, `Slot`), a connection that is tried is made or refused (`Run`), and the
scheduler starts what should run (`Scheduler`, for a Metalink), whose files are opened and, as long as their
download runs, finish or fail (`WF` of `FactoryOpened` and `FactoryFinishes` of each file). Nothing is assumed of the user, and
nothing of servers beyond what is said here. `KeyDownload`, `Session` and `Destination` have no liveness property:
whether a key, a save or a deletion comes depends on servers, crashes and permissions.

## Findings

Each is a run that ends in a counterexample, with the sentence of the repository it
contradicts in `PROJECT.json`.

1. **`find_multi_open`** - a transfer of mirrors that the user stops while its file is being
   opened starts nevertheless (`transfermultisegkio.cpp:97`, `datasourcefactory.cpp:321`).
2. **`find_kio_failed`** - a KIO job that fails is replaced inside `setStatus`, before
   `m_copyjob` is cleared: the transfer is Running without a job (`transferKio.cpp:169-173`),
   and with the last speed kept it is never seen as stalled.
3. **`find_repair`** - a broken piece across the border of two chunks is repaired in the first one
   only (`datasourcefactory.cpp:912`), so the passing runs have pieces as long as chunks.
4. **`find_verification`** - a verification asked for while the thread ends, after its loop or after a search, starts no
   thread and is not taken by the one that ends (`verificationthread.cpp:52`).

Other divergences that shaped the properties, without a run of their own:

- `TransferKio::newDestResult` starts a transfer that was stopped before its file moved
  (`transferKio.cpp:82`), so `StopPolicyObeyed` and `OfflineIsIdle` are checked without moves.
- A pending open starts a transfer of mirrors offline, and two of them exceed the limit
  until the next update; hence `UpdateRestoresLimit` for these plugins.
- While a factory moves its file the scheduler may start it again between `stop` and
  `m_movingFile = true` (`datasourcefactory.cpp:836-840`): it stays Running while it moves.
- A torrent that seeds is counted as waiting when it is started (`scheduler.cpp:304`) and as running
  when it is walked over next (`scheduler.cpp:293`).
- `BTTransfer::newDestResult` says Running whatever the policy and whether the torrent is
  complete (`bttransfer.cpp:174`).
- The count of an aborted job grows by one each second and by two at each timeout
  (`scheduler.cpp:408`, `:413`): it does not count retries.
- Entries of `m_failedJobs` outlive their jobs.
- A transfer that runs is moved to a stopped group and goes on running
  (`transfertreemodel.cpp:418-425`): both updates happen before `m_jobQueue` is written.
- `Job::setError` lets the scheduler restart the job before the type of the error says that this
  cannot help (`job.cpp:67`): a torrent goes on running with an error of type NotSolveable.
- The mirror that fails to tell the size is asked again and again, the others never
  (`datasourcefactory.cpp:591`, `:119-136`); `CompletesInTheEnd` assumes that it answers in the end.
- A segment whose buffer holds all it needs has no job. If it waits for its write when its range grows by
  a merge, and is stopped and started before the write, its buffer is kept (`slotResult`
  clears it only when there is a job, `segment.cpp:146-171`), and the new job's data are appended behind it
  though they start at the old offset: the file gets shifted content. A job that ends early with data in the
  buffer leaves the same behind. `StopsWithData = FALSE` keeps stops out of the first window and
  early ends to empty buffers; `OffsetsAgree` fails otherwise.
- Such a segment that grew also has no job for what it gained, and the download goes on
  only after the next stall. So does a segment whose job ends before all its data came and without an error: nothing is emitted
  (`segment.cpp:160-191`, `JobEnds`). Both stay Running without a job, which is why `WorkIsGiven` says that
  connections were started, and not that they have a job.
- A chunk counts as finished when the factory accepted its data, not when they are written
  (`datasourcefactory.cpp:641`), which is why `FinishedIsWritten` allows the write under way. If the
  program ends then, the hole is never downloaded; and if that was the last write, `m_finished` is lost with the
  memory: the loaded download finds nothing to assign, and `start()`, which does not look for it, leaves it Running at
  100 % without a connection, through all restarts by the scheduler.
- `Transfer::load` calls a transfer Finished if its downloaded size is its size (`transfer.cpp:263`), but
  `m_downloadedSize` counts again what a broken connection had written and another one fetched again: a list saved when the
  two happen to be equal has a Finished transfer with chunks missing. (`DataSourceFactory::save` says "not m_downloadedSize is
  stored, but the bytes that do not have to be redownloaded", `datasourcefactory.cpp:1149`.)
- A file job that fails leaves `m_open` set (`datasourcefactory.cpp:807`), and `m_blocked` too if it was writing,
  after which every write is refused; a file job never fails in the model.
- Mirrors removed for their errors are used again by the next start without sources.
- A download of unknown size whose last buffer was written before its job ended never finishes
  (`segment.cpp:171-182`); such downloads are not modelled.

Divergences met in the other parts:

- *Verification.* Verifications and the search for broken pieces share the lists, and each takes what the other
  put there. A search asked for while the thread is in `doVerify`, or is ending, is taken for verifications of the whole file by checksums of pieces, or
  by nobody, and `brokenPieces` is never emitted, although `verifier.h:164-166` promises a list "in case of any error". It also replaces the
  verifications that wait, which are never answered. The list of checksums may end first (`takeFirst` of an empty list), or
  last, so that a later request is compared with a checksum left over. A repair that is accepted while a
  verification is hashed, or its answer posted, writes a file that is then called Verified (`doubtful`); so does the second of two questions. `slotRepair` does
  not look whether the file was repaired meanwhile. The model begins with a complete file, and does not follow what a
  list holds after an element was taken from it when it was empty. `doBrokenPieces` multiplies in `int`, which overflows beyond 2 GiB.
- *Keys.* When all servers have failed the key stays in `m_downloading`, so that nobody asks for it again
  (`keydownloader.cpp:65`), and a key that cannot be imported is told to nobody; `givenUp` marks both.
  `m_downloading` keeps signatures that were deleted. `SignatureThread` has the same gap as `find_verification`.
- *MMS.* A stop while the download connects ends nothing: the transfer is Stopped, its download goes on. Threads that are all refused count down
  `m_amountThreads` to 0 and below; then `splitTransfer` makes no part (`mmsdownload.cpp:92`), no thread starts, and the download never
  ends (`Hangs`), so that every later start is in vain. `slotConnectionsErrors` starts again a
  download that was stopped. A read shorter than asked for, or empty, counts as full (`mmsthread.cpp:53-69`): the stream is
  Finished with units missing (`lost`) and others shifted. A crash finds the saved map
  ahead of the writes; crashes are not modelled there.
- *Session.* `KGet::load` returns before it creates the observer when there is no list yet (`kget.cpp:523-525`):
  in the first session of all nothing saves the progress, although `requestSave` is to "save regularly if there are
  running jobs" (`:1359`). `FileExists = FALSE` shows it; the run and the theorems begin with a list.
  Each import adds an observer with timers of its own, and the notification of the action stops
  the timer of one (`kget.cpp:1595`). The action is not cancelled by a new download (`kget.cpp:1444`). A
  list that cannot be parsed counts as empty and is overwritten. Removing the last unfinished transfer does not
  trigger the action. Hibernate suspends to RAM and Suspend to disk.
- *Metalink.* While the description is being downloaded the Metalink is Stopped without factories, so each update of the
  queue downloads it again (`metalink.cpp:79-87`), and each answer puts new factories in the place of those
  at work (`:190`), which go on writing the same files. `MaxDownloads = 2` reaches this; the run has 1.
  A failed download of the description is told to nobody. `fileDlgFinished` starts files
  although the scheduler has stopped the transfer, and says Stopped when all selected files are there.
  `filesSelected` while a file is being opened resets `m_currentFiles`, so that more files than
  `simultanousFiles` run; so do repairs and starts that failed. A second description that is not valid makes a
  running Metalink Aborted.
- *Destination.* `handleUrls` looks for transfers of the same source only, not of the same destination. The dialog
  deletes a file or a transfer by what it found earlier. Of two duplicates, by source and by destination,
  `checkInput` replaces one. A file whose deletion fails is deleted again at every start. A file job that
  cannot open is noticed by nobody (`datasourcefactory.cpp:807`). `disputed` and `openFailed` mark these.
  `KGet::addTransfer` of a list with one valid URL takes the first URL of the list instead of the valid
  one (`kget.cpp:303`), and adds it after all when the user cancels (`:300-309`).

## What is proved

`SchedulerProofs` proves, for every finite or infinite set of jobs and queues, every
assignment of plugins, all limits and all periods:

- **`TypesAreKept`**: `Spec => []TypeOK`.
- **`GroupsPartitionTransfers`**: `Spec => []QueuesPartitionJobs`: each transfer that exists is in the list
  of exactly one group, once, and `m_jobQueue` names that group; no list names another.
- **`RunningIsExecutedAlways`**: `Spec => []RunningIsExecuted`: a download from mirrors or a torrent
  that says Running has its file or its torrent, unless a move is under way.
- **`MovingIsIdleAlways`**: `Spec => []MovingIsIdle`: nothing starts a KIO download under the move of its file.

Assumptions are those the modules declare: `KindAssumption`, `TimesAssumption` (delays and period
positive), `LimitsAssumption`, `QueueOrderAssumption` (`m_queues` has every queue),
`SwitchesAssumption`. TLC evaluates them in every run.

*The argument.* They are inductive together, `Inv == TypeOK /\ GroupsAgree /\ JobsInOrder`, where `GroupsAgree` says of
the transfers that are listed what `QueuesPartitionJobs` says of all. That none is missing, `Complete == transfers = Listed`, is inductive
relative to `Inv`: the variable `transfers` is written by construction and deletion alone, and every handler but those two leaves the
lists with the transfers they had, taken together (`NextComplete`).
`remove` takes out *one* occurrence, so that it empties a list of the job only if the job is
there once, and a move finds the old list through `m_jobQueue`. `JobsInOrder` relates status, worker and
move of each job (`Consistent`) and says more than the two properties. A KIO job that is Stopped has no
worker: its move stops it first, so there is none beside the copy. A torrent is not lost while its files move,
for it is Running after that without a start (`bttransfer.cpp`).

Nearly all of the code touches neither the lists nor the memberships, however calls nest.
`SameLists(base)` is the set of well-typed states with all jobs in order and the
lists and memberships of `base`; lemmas climb the calls bottom up (writes to a field, the
plugins' `start` and `stop`, one iteration of the loop, the walk, `updateQueue`, `setStatus`,
... `timerEvent`) and show that each stays inside it. A plugin writes several fields before it tells the
scheduler: `Writing(base, j)` lets the one job `j` be out of order meanwhile, and every call that the
scheduler makes back must find it mended. The one exception is in the code: after a move a download from mirrors
gets its old status Running before its file is open, and the `start` that follows mends it.
Loops are recursive functions of the
number of iterations; `Recursion` shows once that they exist and stay in a set that an
iteration preserves. The operations on lists (`Appended`, `InsertedAt`, `Removed`) keep a list
without duplicates and say what it contains. `Sound` is the set of states in which `Inv` holds; each
action takes `Now` from `Sound` to `Sound`, and between the halves of a move a transfer is in no list.

From `Counts` on, `SchedulerProofs` proves what the updates are for:

- **`UpdateRestoresLimitAlways`**: `Spec => []UpdateRestoresLimit`, for all plugins.
- **`LimitRespectedAlways`**, **`StopPolicyObeyedAlways`**, **`OfflineIsIdleAlways`**: `Spec => []LimitRespected`,
  `Spec => []StopPolicyObeyed` and `Spec => []OfflineIsIdle`, for any number of transfers of `TransferKio`
  (`OnlyKio`) that nobody moves to another directory (`~FilesMove`).
- **`SettledInTheirGroups`**: under the same conditions `Init /\ [][Next /\ SameGroups]_vars => []Settled`: as long as
  no transfer moves to another group, no event leaves work to an update that nobody makes.
- **`SettledAlways`**: with one group `SameGroups` holds by itself, and `Spec => []Settled`.
- **`AddAndRemoveInterruptNobodyInTheirGroups`**, **`AddAndRemoveInterruptNobodyAlways`**: the action property, under the
  same two sets of conditions: a transfer that is added or deleted changes the status of no active one.

The first two conditions are those under which the properties hold, and under which the runs check them: a download from
mirrors or a torrent starts when its file is open or its torrent fetched, and a moved transfer when its file has arrived
(`newDestResult` calls `start`), whatever the scheduler has decided meanwhile and without an update after it.

*The argument.* A walk of `updateQueue` counts what it lets run, and its counters bound the jobs it has passed
(`Counts`): one that is beyond the limit is stopped, and a job that stalls is counted as waiting. No later step of the walk
touches a job that was passed. For `UpdateRestoresLimit` that is enough, from every state. The other three need what
happens *between* two updates. `Neat(X)` are the states where every queue but those in `X` is `Tidy`: within its limits,
and without a running job that its user stopped. A call that writes a job makes its queue untidy, unless the job is
`NoBusier` than before; an update of the queue makes it tidy again, and the handlers have to end with `X` empty. This
shows that each handler updates what it changed, with the nested updates dropped where the static flag is set. What
needed a case of its own: the timer, which writes `m_failedJobs` of a job of any queue and stops or starts it before the
update; `stop` of the actives of a queue that is being stopped, one update for each; the loss of the connection, which walks all queues
with updates disabled, and after which `shouldUpdate` is false until the connection is back and every queue is updated.

`Settled` needs more than bounds: a walk must find each job as it would leave it. A queue `Rests` if there are counts,
one after each job of its list, that obey the recursion of the walk, such that no job on the way would be started or stopped. Two facts
carry the proof. A resting queue is left alone by `updateQueue`, by the induction of `Recursion`. And after `updateQueue` the queue
rests (`UpdateRests`), whatever it was before: a job that was stopped or started is counted by the next walk as it was counted by this one.
`Calm(X)` is to `Rests` what `Neat(X)` is to `Tidy`: every queue but those in `X` rests, and each handler takes `Calm({})` to
`Calm({})`. `SameGroups` is necessary. `TransferTreeModel::moveTransfer` updates the queues before it writes `m_jobQueue`
(`transfertreemodel.cpp:418`), so that a transfer that runs and moves into a stopped group is judged by the group it left and goes on
until something else updates the queue; TLC finds it after three events.

`AddAndRemoveInterruptNobody` follows from that: before the event every queue rests, so there are the counts of a walk
that lets everybody be. A job that is taken out leaves the counts of those before it as they were, and those behind it find
no fuller ones (`NoFuller`), with which they are let be too (`LetBe`); a job that is appended comes last, and if there is no
room left for it, it is not active anyway (`RemoveSpares`, `AppendSpares`). That no event but these two changes the number
of transfers listed is itself part of the invariant proofs (`ListsStay`, `ListsChange`). Without `SameGroups` an addition can stop
the transfer that went on in a stopped group.

`DownloadProofs`, on `DownloadLemmas`, proves of the download engine, for any number of
mirrors, connections, chunks and units, any sizes of chunks, pieces and buffers:

- **`ChunksHaveOwnersAlways`**: `Spec => []ChunksHaveOwners`, without a condition: no chunk is fetched by two
  segments and none is left out, whatever is split, merged, broken, removed, stopped or repaired.
- **`WorkIsGivenAlways`**: `Spec => []WorkIsGiven`, without a condition: a running download that misses something has
  at least one connection while it has a mirror, and only such that were started and whose job nobody left suspended, whatever failed,
  was removed or was changed. It does not say that each has a job: see the divergences.
- **`OffsetsAgreeAlways`**, **`DownloadTypes`**: `Spec => []OffsetsAgree` and `Spec => []TypeOK`, if no download is
  stopped while a segment waits with its last data, and no job ends early with data in the buffer (`~StopsWithData`). The condition is one of the divergences
  above: the code appends the data of a new job to a buffer it kept, and no range holds after that.
- **`FinishedIsWrittenAlways`**: `Spec => []FinishedIsWritten`, if besides the chunks a repair fetches again cover what
  was damaged (`RepairCovers`), which the third finding refutes in general. `PiecesAreChunks` proves it for pieces
  as long as chunks.
- **`EngineImplementsStore`**: `Spec => ImplementsStore` under the same two conditions: the engine implements `ChunkStore`.
- **`CrashesLoseOneWrite`**, **`RestartedGoesOn`**: `RestartSpec => []CrashLosesOneWrite` and
  `RestartSpec => []RestartedIsExecuted` of `DownloadRestart`, whatever was saved when and however often the program
  ends, if `~StopsWithData`, and if the transfer was given a source (`MirrorOrder # <<>>`), as `init` gives it
  one at `transfermultisegkio.cpp:55`.

*The argument.* `Inv` says that `Now` is `Orderly`, if Finished `Complete`, and if it goes on `Lively`. A call of the engine takes back chunks
first and gives them out later, and is in between in states that are not in order; so the state is `Good` up to four
things: `X`, the chunks that nobody has at the moment; `e`, the connection whose sums are being changed; `early`, whether
segments rest without having been stopped; `D`, the mirrors that are in neither list. `Orderly` is `Good` with none of
these. Its parts: `Recorded` (finished chunks were started; what is finished is on the disk or being written), `Mirrored`
(every mirror is used or in `m_unusedUrls`; those unused have no segments), `Fitting` (each
segment fits into the file and into the chunks taken, and its sums agree), `Apart` (no chunk has two segments; while the size is searched
there is one segment) and `Covered` (every chunk taken has a segment). Each lemma says of one call from which
`Good` to which it leads and what it leaves alone (`Frame`); `assignSegments`, `removeMirror` and the loops over mirrors and
connections follow by induction over their iterations. Two places needed more than the properties say: a split gives away half of the
chunks *behind* the current one, so that the segment keeps its buffer, and the chunks that one write finishes are the first ones of the
segment (`SizeAfter` is monotonic), the last being shorter. What depends on `~StopsWithData` and `RepairCovers` is conditional
inside the invariant (`Exact`, `Excused`), so that one induction serves all these theorems.

`WorkIsGiven` says what is *missing*, so it needs to know where the code may have left it. A `Lively` download, one that is
Running with no start left to retry (`Going`), knows its chunks, has its file open, runs all mirrors it uses, and, if it uses one, has a connection or
nothing left to do (`Manned`, `Attended`). Segments of a running mirror were started (`Wakes`, a part of `Fits`), and those of the others are stopped without a job (`Rests`), so that the next start
gives them one. Who takes a connection away has to
give its chunks to another mirror or leave a mirror with connections behind: `removeMirror` and `brokenSegments` do so by the
`assignSegments` that follow, which reach a mirror as long as one is used and chunks are free (`FrameLively` says once what a call
that changes mirrors and chunks only has to show). When the last mirror is gone nothing is claimed.

*The refinement* rests on the same invariant. `Owners` and `Stored` are the abstract state; `OwnersFit` says that they have their
types and that the owner of a chunk is the mirror whose connection holds it. Most of what the engine does is `Assign`,
however much changes hands: no chunk is finished or stops to be. `Finish(m)` is the data of one connection, and only its own chunks may
become *done*, because `Held` are disjoint; `Complete` and `Reopen` are the end and the repair. `StoreStep` says from what
little has to be known of a step (which finished chunks and which units on the disk it leaves) it maps to a step
of the store or a stutter, and each action of `Next` supplies that.

*Restarts.* The lemmas about the calls of the engine serve crashes too, since what they say of units leaves out a set `L`: in
`Download` the units repairs may leave damaged (`Excused`), in `DownloadRestart` those a crash took with it (`lost`). `RestartInv`
says that `Now` is `Orderly` and `Complete` but for `lost`, and two things more. What was saved is `Sound`: the chunks it counts as
finished were kept when it was written, and what is kept only grows while the program runs (`Grows`), so that an old save is as good as a new one; a
crash moves the write under way into `lost`, where it did not get to the file. And the factory is `Led`: `load` assigns the status of the
saved factory last and tells nobody (`datasourcefactory.cpp:1054`), so that a factory may say Running with nothing running, while its transfer is
stopped. Such a download is `Resting`, with no file open and no job, so that no answer comes for it (`RestingHasNoJobs`), and the
`start` of the transfer makes it `Lively` although its status does not change (`StartedAgain`, `ToldStatus`). A Running transfer has a
`Lively` download, which is what `RestartedIsExecuted` needs.

More modules prove the safety of components, each for all values of its constants, under the
assumption its module states (`VerificationAssumption`, `KeysAssumption`, `MmsAssumption`, `MetalinkAssumption`,
`DestinationAssumption`), which TLC evaluates in the runs:

- **`RequestsAreKeptAlways`**, **`VerifiedIsRightAlways`** (`VerificationProofs`), for every order in which verifications,
  searches and repairs overlap. What the lists hold depends on what was asked for last: verifications
  `InStep` with `owed`, until the destructor aborts the thread, or a `SearchAlone`; once a search has met verifications (`mixed`) only
  `SameLength` is left, and that the thread finds a request when it comes for one (`WorkerFindsRequest`). The next search that finds
  the thread elsewhere replaces the lists and mends everything. A file is right when it *counts* as verified since it
  was right when it was hashed and nothing has written it since: what no repair has overlapped is `Trusted` - no repair is under way, and what
  was found right is right - in the hands of the worker, in each posted answer and in the status. A repair marks all that is under
  way, and needs a status that is NotVerified, so it finds no trusted status to spoil.
- **`OneJobPerKeyAlways`**, **`NobodyIsForgottenAlways`** (`ComponentProofs`). `JobsFollow`: a key has
  one job if somebody waits for it and there was a server left, none otherwise. `WaitsOrKnows`: who was tried
  waits, or the key is there and a verification is to come, has been posted, or was seen. The job and the waiting
  list are written at three places, each of which keeps both; the last result of a thread is the good one since a
  key is never removed.
- **`ChangesAreSavedAlways`**, **`ProgressIsSavedAlways`** (`SessionProofs`), assuming `FileExists`: the case
  without it is the first of the divergences of the session. The first observer alone is enough (`FirstSaves`), whatever lists are
  imported later and whatever timers of others are stopped; and a run that ended leaves nothing (`NothingIsLeft`).
- **`MmsAccountsAgreeAlways`**, **`MmsDoneIsWrittenAlways`** (`MmsProofs`), for streams of any length and any number of
  threads. The main thread keeps a map of what is left, from signals that come late, of threads that go on reading. So the
  invariant speaks of the queue of signals (`InOrder`: a thread answers once, announces its units one after the other, and
  says nothing after its end) and of each thread (`Follows`): it is ahead of its place in the map by exactly what it has
  announced, and all it went past is written, or `Pending`: in its hands, or left out by its short reads, and then in `lost` when it ends (`Done`). `Parted` maps are disjoint
  ranges, so that a *read* of one thread shrinks the parts by one unit and leaves those of the others. Between downloads
  nothing is in the queue and no thread lives (`Quiet`), and what was saved (`Resumable`) is such a map again. A download with less than no connections (`Hangs`) has no part, no thread and
  no signal, and is left out of the accounts.

- **`FinishedIsCompleteAlways`**, **`StoppedIsIdleAlways`** (`ComponentProofs`), for any list of files, if one job at most
  downloads the Metalink at a time (`MaxDownloads <= 1`): a second one replaces factories at work, which are not modelled
  then, see the divergences. The status of the whole is written at four places, each of which looks at the files in its own way.
  What they have in common is `MetalinkReady`: a file that runs is wanted and makes the whole Running. Under it `updateStatus`
  of a stopped or failed file never leaves Finished behind, and sets the status to it only where nothing is left. A file that
  is being started or reopened is an exception to completeness until its `start` returns (`CompleteBut`), so that the
  loops of `startMetalink`, `stop`, `filesSelected` and `repair` preserve it file by file. While the user's choice is told to the
  files one by one, Finished may be wrong; `filesSelected` mends it with the `updateStatus` at its end, which it omits only when nothing is
  selected, and then nothing runs any more (`ChoiceTold`).
- **`DeletionSparesDownloadAlways`**, **`StartIsRememberedAlways`** (`ComponentProofs`), without a condition, for any transfers,
  sources and destinations. A transfer that waits for a deletion is in the list, wants that file, and the file's job is under
  way (`KgetTyped`); two transfers of a file are a dispute (`SharedIsDisputed`), and nothing is deleted that neither
  is there nor disputed (`DeletedIsThere`). So whoever finds no file in its way begins to write with no deletion under way, and
  whoever has one deleted deletes nobody's, for else they would share it. While those that wait for a deletion are told of it one after
  the other, the invariant holds but for those that were not told yet (`RememberedBut`).

What loops do is proved with `Recursion` (`IterationsRun`, `IterationsAdvance`): a step that takes the states of each iteration to
those of the next runs through all of them.

Every safety property of a run is proved, some under the conditions named above. Only model-checked: liveness, which is
out of the prover's reach.

## Plan

Done: A, scheduling (`SchedulerOps`, `Scheduler`, proofs of types, lists, jobs in order, limits, policies, the connection and settled queues); B, the download engine
(`DownloadOps`, `Download`, `DownloadLoop`, `ChunkStore`, proofs of owners, offsets, types, of what is written, of who is idle and of the refinement); C, saving, crash and restart of the list of transfers
(`Session`, proved) and of a download (`DownloadRestart`, proved); D, threads and services (`Verification`, `KeyDownload`, `MmsDownload`, proved); E, `Metalink`, proved;
F, `Destination`, proved.

What would add most next:

1. Moves of the file while a write is under way (`datasourcefactory.cpp:807`, `:855`).
2. Composition of `Metalink` with `Scheduler`, whose nested reaction is a step of its own now.

## Not modelled, and why

Sizes, percentages, texts, icons, D-Bus, Qt models, history, Nepomuk, the settings, Plasma, the web
interface and browser extensions: presentation or pure output. Most of the lines of the program are such code: the
interface (main window, dialogs, the Metalink creator, the panels of BitTorrent), which keeps no state but its
widgets. Search plugins fetch and parse pages and keep no state of consequence. libktorrent, libmms, GpgME, KIO and
Solid are external: what they may answer is an input.

Parts with state of their own that are not modelled:

- *Speed limits* (`transfergroupscheduler.cpp`, `transfer.cpp:144-199`): shares of what the network reported a second ago.
  What their code does at the boundaries: the integer division of a small limit gives 0, which means no limit
  (`:47`); a transfer that uses little keeps its share and 10 KiB more, so that the sum exceeds the limit of the group.
- *Progress jobs* (`kuiserverjobs.cpp`): which jobs are shown by the desktop.
- *`BitSet`*: a set of chunks in the models; words and masks are left out.
- *Dynamic Metalinks*, *renaming*, *web seeds*.
