------------------------------ MODULE Scheduler ------------------------------
(***************************************************************************)
(* KGet's scheduler: queues (transfer groups) of jobs (transfers), the     *)
(* policies users give them, and the events that make the scheduler start  *)
(* and stop them.  Every action is one pass of the event loop: a command   *)
(* of the user, a timer, or the answer of a KIO job, a file or a torrent.  *)
(* What the call does, callbacks included, is an operator of SchedulerOps. *)
(***************************************************************************)
EXTENDS SchedulerOps, FiniteSets

CONSTANTS
    QueueOrder,   \* Scheduler::m_queues: the queues, in the order of addQueue
    Limits,       \* the values the user may give Settings::maxConnections
    FilesMove,    \* whether the user moves the files of transfers
    Obstacles     \* what the starts of downloads may meet

ASSUME LimitsAssumption == Limits \subseteq Nat /\ Limits # {}
ASSUME QueueOrderAssumption ==
    /\ QueueOrder \in Seq(Queues)
    /\ \A q \in Queues : \E i \in 1 .. Len(QueueOrder) : QueueOrder[i] = q
ASSUME SwitchesAssumption == FilesMove \in BOOLEAN /\ Obstacles \subseteq Obstacle

VARIABLES
    job,        \* the Job objects
    queue,      \* the JobQueue objects
    scheduler,  \* the Scheduler object
    transfers   \* the transfers that exist: constructed, and not deleted

vars == <<job, queue, scheduler, transfers>>

Now == [job |-> job, queue |-> queue, scheduler |-> scheduler]
Becomes(s) == job' = s.job /\ queue' = s.queue /\ scheduler' = s.scheduler
Handles(s) == Becomes(s) /\ UNCHANGED transfers

JobsOf(q) == {queue[q].jobs[i] : i \in 1 .. Len(queue[q].jobs)}
Listed == UNION {JobsOf(q) : q \in Queues}

Init ==
    /\ job \in [Jobs -> {NewJob(q) : q \in Queues}]
    /\ queue = [q \in Queues |-> [jobs |-> <<>>, status |-> "Running"]]
    /\ scheduler \in [queues : {QueueOrder}, suspended : {FALSE},
                      connected : {TRUE}, timer : {FALSE},
                      maxConnections : Limits, failed : {[j \in Jobs |-> NoFailure]}]
    /\ transfers = {}

-----------------------------------------------------------------------------
(* What the user does *)

(* KGet::createTransfer: the Transfer is constructed in its group, maybe at the
   address of one that was deleted, and appended. *)
AddTransfer(j, q) ==
    /\ j \notin Listed
    /\ transfers' = transfers \cup {j}
    /\ Becomes(append([Now EXCEPT !.job[j] = NewJob(q)], q, j))

(* KGet::delTransfers: the group forgets the transfer, and it is deleted.
   Nothing removes its entry of m_failedJobs. *)
DeleteTransfer(j) ==
    /\ j \in Listed
    /\ transfers' = transfers \ {j}
    /\ Becomes([remove(Now, job[j].queue, j) EXCEPT !.job[j] = NewJob(job[j].queue)])

StartTransfer(j) == j \in Listed /\ Handles(handlerStart(Now, j))
StopTransfer(j) == j \in Listed /\ Handles(handlerStop(Now, j))

MoveTransfer(j, dest, after) ==
    /\ j \in Listed
    /\ after # "front" => after \in JobsOf(dest)
    /\ Handles(moveTransfer(Now, j, dest, after))

SetQueueStatus(q, status) == Handles(setQueueStatus(Now, q, status))

(* Scheduler::setIsSuspended *)
SetIsSuspended(suspended) ==
    LET s == [Now EXCEPT !.scheduler.suspended = suspended]
    IN  Handles(IF suspended # scheduler.suspended /\ shouldUpdate(s)
                THEN updateAllQueues(s) ELSE s)

(* Scheduler::settingsChanged *)
SettingsChanged(limit) ==
    Handles(updateAllQueues([Now EXCEPT !.scheduler.maxConnections = limit]))

(* Scheduler::setHasNetworkConnection: m_hasConnection is written first, so
   the stops of a lost connection update nothing. *)
StopQueue(s, q) == ForEach(stop, s, s.queue[q].jobs)

LoseConnection ==
    /\ scheduler.connected
    /\ Handles(ForEach(StopQueue,
                       [Now EXCEPT !.scheduler.connected = FALSE,
                                   !.scheduler.timer = FALSE],
                       scheduler.queues))

GainConnection ==
    /\ ~scheduler.connected
    /\ Handles(updateAllQueues([Now EXCEPT !.scheduler.connected = TRUE,
                                           !.scheduler.timer = TRUE]))

(* Scheduler::timerEvent, once a second while the timer runs *)
Tick == scheduler.timer /\ Handles(timerEvent(Now))

-----------------------------------------------------------------------------
(* What the transfers report *)

(* slotSpeed, speedChanged, updateTorrent: data flows, or it does not. *)
SpeedChanges(j) ==
    /\ j \in Listed /\ job[j].worker = "ready" /\ job[j].status = "Running"
    /\ Handles([Now EXCEPT !.job[j].speed = ~@])

(* TransferKio::slotResult.  setStatus is called, and with it the scheduler,
   before m_copyjob is cleared. *)
KioFinished(j) ==
    /\ j \in Listed /\ Kind[j] = "kio" /\ job[j].worker = "ready"
    /\ Handles([setStatus(Now, j, "Finished") EXCEPT !.job[j].speed = FALSE,
                                                     !.job[j].worker = "none"])

KioFailed(j) ==
    /\ j \in Listed /\ Kind[j] = "kio" /\ job[j].worker = "ready"
    /\ Handles([setStatus(Now, j, "Aborted") EXCEPT !.job[j].worker = "none"])

(* TransferKio::setNewDestination and newDestResult: a download that has a
   .part file moves, and is started when it arrived. *)
KioMoves(j) ==
    /\ j \in Listed /\ Kind[j] = "kio" /\ FilesMove
    /\ ~job[j].moving /\ job[j].status # "Finished"
    /\ Handles(setStatus(stop([Now EXCEPT !.job[j].moving = TRUE], j), j, "Moving"))

KioMoved(j) ==
    /\ j \in Listed /\ Kind[j] = "kio" /\ job[j].moving
    /\ Handles(start([Now EXCEPT !.job[j].moving = FALSE], j))

(* DataSourceFactory::open: the file is open, a start that waits goes on. *)
FileOpened(j) ==
    /\ j \in Listed /\ Kind[j] = "multiseg" /\ job[j].worker = "pending"
    /\ LET s == [Now EXCEPT !.job[j].worker = "ready"]
       IN  Handles(IF job[j].startTried THEN Announce(s, FactoryStart(s, j), j) ELSE s)

(* The device of a destination goes and comes while no file is open; what the
   initialisation of a torrent will meet changes until there is one. *)
ObstacleChanges(j, obstacle) ==
    /\ j \in Listed
    /\ \/ Kind[j] = "multiseg" /\ job[j].worker = "none"
                              /\ obstacle \in {"none", "missing"}
       \/ Kind[j] = "bt" /\ job[j].worker # "ready"
    /\ Handles([Now EXCEPT !.job[j].obstacle = obstacle])

(* DataSourceFactory::slotDataWritten of the last chunk: killPutJob, then
   changeStatus. *)
MultiFinished(j) ==
    /\ j \in Listed /\ Kind[j] = "multiseg"
    /\ job[j].worker = "ready" /\ ~job[j].moving /\ job[j].status = "Running"
    /\ Handles(setStatus([Now EXCEPT !.job[j].worker = "none", !.job[j].speed = FALSE],
                         j, "Finished"))

(* TransferMultiSegKio::setNewDestination: it stops the transfer, then
   DataSourceFactory::setNewDestination stops it again, says Moving, and only
   then sets m_movingFile.  The scheduler hears of every one of these. *)
MultiMoves(j) ==
    /\ j \in Listed /\ Kind[j] = "multiseg" /\ FilesMove
    /\ ~job[j].moving /\ job[j].worker # "none"
    /\ LET stopped == stop(Now, j)
           again == Announce(stopped, FactoryStop(stopped, j), j)
           moving == setStatus(again, j, "Moving")
       IN  Handles([moving EXCEPT !.job[j].moving = TRUE,
                                  !.job[j].beforeMove = stopped.job[j].status,
                                  !.job[j].worker = "none",
                                  !.job[j].speed = FALSE])

(* DataSourceFactory::newDestResult *)
MultiMoved(j) ==
    /\ j \in Listed /\ Kind[j] = "multiseg" /\ job[j].moving
    /\ LET s == setStatus([Now EXCEPT !.job[j].moving = FALSE], j, job[j].beforeMove)
       IN  Handles(IF job[j].beforeMove = "Running"
                   THEN Announce(s, FactoryStart(s, j), j) ELSE s)

(* The torrent file was fetched and BTTransfer::btTransferInit called; updates
   that happened meanwhile may have asked for the file again. *)
TorrentFetched(j, again) ==
    /\ j \in Listed /\ Kind[j] = "bt" /\ job[j].startTried
    /\ LET obstacle == job[j].obstacle
           s == [Now EXCEPT !.job[j].startTried = again,
                            !.job[j].worker = IF @ = "ready" THEN @ ELSE "pending"]
           stopped == setStatus(s, j, "Stopped")
           ready == [stopped EXCEPT !.job[j].worker = "ready"]
       IN  Handles(CASE obstacle = "missing" -> setError(s, j, "NotSolveable")
                     [] obstacle = "port" -> setError(stopped, j, "AutomaticRetry")
                     [] obstacle = "damaged" ->
                            setError([stopped EXCEPT !.job[j].worker = "pending"],
                                     j, "NotSolveable")
                     [] obstacle = "none" ->
                            Announce(ready, StartTorrent(ready, j), j))

(* BTTransfer::slotDownloadFinished *)
TorrentFinished(j) ==
    /\ j \in Listed /\ Kind[j] = "bt" /\ job[j].worker = "ready"
    /\ job[j].status = "Running" /\ ~job[j].moving
    /\ Handles(setStatus([Now EXCEPT !.job[j].complete = TRUE], j, "FinishedKeepAlive"))

(* BTTransfer::slotStoppedByError *)
TorrentError(j) ==
    /\ j \in Listed /\ Kind[j] = "bt" /\ job[j].worker = "ready"
    /\ Active(Now, j)
    /\ Handles(setError(stop(Now, j), j, "NotSolveable"))

(* BTTransfer::setDirectory.  The torrent library stops the torrent, moves its
   files, and starts again what it had stopped: BTTransfer::newDestResult. *)
TorrentMoves(j) ==
    /\ j \in Listed /\ Kind[j] = "bt" /\ FilesMove
    /\ job[j].worker = "ready" /\ ~job[j].moving
    /\ Handles(setStatus([Now EXCEPT !.job[j].moving = TRUE,
                                     !.job[j].beforeMove = job[j].status],
                         j, "Stopped"))

TorrentMoved(j) ==
    /\ j \in Listed /\ Kind[j] = "bt" /\ job[j].moving
    /\ job[j].beforeMove \in {"Running", "FinishedKeepAlive"}
    /\ Handles(setStatus([Now EXCEPT !.job[j].moving = FALSE], j, "Running"))

-----------------------------------------------------------------------------
UserActs ==
    \/ \E j \in Jobs, q \in Queues : AddTransfer(j, q)
    \/ \E j \in Jobs : DeleteTransfer(j) \/ StartTransfer(j) \/ StopTransfer(j)
    \/ \E j \in Jobs, q \in Queues, after \in Jobs \cup {"front"} :
           MoveTransfer(j, q, after)
    \/ \E q \in Queues, status \in JobQueueStatus : SetQueueStatus(q, status)
    \/ \E suspended \in BOOLEAN : SetIsSuspended(suspended)
    \/ \E limit \in Limits : SettingsChanged(limit)

NetworkActs == LoseConnection \/ GainConnection

KioActs == \E j \in Jobs : \/ KioFinished(j) \/ KioFailed(j)
                           \/ KioMoves(j) \/ KioMoved(j)

MultiActs == \E j \in Jobs : \/ FileOpened(j) \/ MultiFinished(j)
                             \/ MultiMoves(j) \/ MultiMoved(j)

BtActs == \E j \in Jobs : \/ \E again \in BOOLEAN : TorrentFetched(j, again)
                          \/ TorrentFinished(j) \/ TorrentError(j)
                          \/ TorrentMoves(j) \/ TorrentMoved(j)

(* Everything but the passing of time *)
Events == \/ UserActs \/ NetworkActs
          \/ KioActs \/ MultiActs \/ BtActs
          \/ \E j \in Jobs, obstacle \in Obstacles : ObstacleChanges(j, obstacle)

Next == \/ Events
        \/ Tick
        \/ \E j \in Jobs : SpeedChanges(j)

Spec == Init /\ [][Next]_vars

-----------------------------------------------------------------------------
(* The objects are of their classes: an event never leaves a field of a job, a
   list or the scheduler without a value its type has. *)
TypeOK ==
    /\ job \in [Jobs -> Job]
    /\ queue \in [Queues -> JobQueue]
    /\ scheduler \in SchedulerObject

(* Every transfer that exists is in the list of exactly one group, once, and it is
   the group the transfer believes it is in (Job::m_jobQueue and JobQueue::m_jobs
   agree).  No list names a transfer that was deleted, and no reordering or move
   leaves one out: JobQueue::move takes the job out before it looks where to put
   it, TransferTreeModel::moveTransfer before it inserts. *)
QueuesPartitionJobs ==
    \A q \in Queues :
        /\ IsInjective(queue[q].jobs)
        /\ JobsOf(q) = {j \in transfers : job[j].queue = q}

(* Whatever happened last, updating a queue once more would change nothing: no
   handler leaves a transfer waiting for an update that nobody makes. *)
Settled ==
    shouldUpdate(Now) => \A q \in Queues : updateQueue(Now, q) = Now

(* At most maxSimultaneousJobs jobs of a queue run without stalling, and at most
   twice as many are active, those that stall and the torrents that seed
   included. *)
ActiveJobs(s, q) == {j \in ToSet(s.queue[q].jobs) : Active(s, j)}
WithinLimit(s, active) ==
    /\ Cardinality({j \in active : s.job[j].status = "Running" /\ ~Failing(s, j)})
           <= maxSimultaneousJobs(s)
    /\ Cardinality(active) <= 2 * maxSimultaneousJobs(s)

(* Between two events no queue has more active transfers than the user allows,
   whatever was reordered, resumed, stalled, or moved to another limit. *)
LimitRespected ==
    shouldUpdate(Now) => \A q \in Queues : WithinLimit(Now, ActiveJobs(Now, q))

(* Whatever was active before, one update of a queue brings it back to the limit
   (Scheduler::updateQueue stops every job beyond it), save the jobs whose stop
   refuses because their files are being moved. *)
UpdateRestoresLimit ==
    shouldUpdate(Now) =>
        \A q \in Queues :
            LET s == updateQueue(Now, q)
            IN  WithinLimit(s, {j \in ActiveJobs(s, q) : ~s.job[j].moving})

(* Without a network connection no transfer runs. *)
OfflineIsIdle ==
    ~scheduler.connected => \A j \in Listed : job[j].status # "Running"

(* A transfer of mirrors or a torrent that is said to run has a file or a torrent
   behind it, however its start, its errors and its moves interleave.  While its
   files move there is none (findings: neither does a failed TransferKio). *)
RunningIsExecuted ==
    \A j \in Listed : Kind[j] # "kio" /\ job[j].status = "Running" /\ ~job[j].moving
                      => job[j].worker # "none"

(* While the scheduler may act, nothing but the user makes a job run that the
   user stopped: Job::Stop, "shouldn't never start this job". *)
StopPolicyObeyed ==
    shouldUpdate(Now) =>
        \A j \in Listed : job[j].policy = "Stop" => job[j].status # "Running"

(* The .part file of a TransferKio is moved under a transfer that does not run,
   whatever the scheduler is asked meanwhile. *)
MovingIsIdle ==
    \A j \in Listed : Kind[j] = "kio" /\ job[j].moving
                      => job[j].status # "Running" /\ job[j].worker = "none"

(* A transfer that is added or removed interrupts no other that downloads. *)
AddAndRemoveInterruptNobody ==
    [][Cardinality(Listed') # Cardinality(Listed) /\ shouldUpdate(Now)
       => \A j \in Listed \cap Listed' :
              Active(Now, j) => job'[j].status = job[j].status]_vars

(* The timer fires every second (startTimer(1000)) as long as it runs. *)
FairSpec == Spec /\ WF_vars(Tick)

(* A job that is said to run while nobody downloads for it does not stay so: the
   stall timeout gives it a new worker, unless it stops running or the scheduler
   is suspended or offline. *)
Unexecuted(j) == /\ j \in Listed /\ shouldUpdate(Now)
                 /\ job[j].status = "Running" /\ job[j].worker = "none"
RunningIsExecutedInTheEnd == \A j \in Jobs : Unexecuted(j) ~> ~Unexecuted(j)

(* The same of a job whose last speed was zero: only such a job is stalled. *)
StalledIsExecutedInTheEnd ==
    \A j \in Jobs : (Unexecuted(j) /\ ~job[j].speed) ~> ~Unexecuted(j)
=============================================================================
