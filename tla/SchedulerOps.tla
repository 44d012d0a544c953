---------------------------- MODULE SchedulerOps ----------------------------
(***************************************************************************)
(* The synchronous part of KGet's scheduling: what one call of Scheduler,  *)
(* JobQueue, Job and the transfer plugins does to the objects, nested      *)
(* callbacks included.  Everything runs in the thread of the event loop,   *)
(* so a call is a function from a state of the objects to the next one:    *)
(* an operator below takes a state s and returns the state the call leaves *)
(* behind.                                                                 *)
(*                                                                         *)
(* s.job[j], s.queue[q] and s.scheduler are the C++ objects.  A name that  *)
(* ends in Quiet is a call made inside Scheduler::updateQueue, whose       *)
(* static flag updatingQueue turns every nested updateQueue into a no-op.  *)
(***************************************************************************)
EXTENDS Loops, SequencesExt

CONSTANTS
    Jobs,              \* the Job objects (their addresses)
    Queues,            \* the JobQueue objects
    Kind,              \* [Jobs -> PluginKind]: the plugin a job belongs to
    StallTime,         \* Scheduler::m_stallTime, 5 in the code
    ReconnectDelay,    \* Settings::reconnectDelay, at least 10 in the dialog
    ReconnectRetries,  \* Settings::reconnectRetries
    RetryPeriod        \* the 10 of Scheduler::jobChangedEvent(JobFailure)

PluginKind == {"kio", "multiseg", "bt"}

ASSUME KindAssumption == Kind \in [Jobs -> PluginKind]
ASSUME TimesAssumption == /\ StallTime \in Nat \ {0}
                          /\ ReconnectDelay \in Nat \ {0}
                          /\ ReconnectRetries \in Nat
                          /\ RetryPeriod \in Nat \ {0}

JobStatus == {"Running", "Stopped", "Aborted", "Finished",
              "FinishedKeepAlive", "Moving"}
JobQueueStatus == {"Running", "Stopped"}
Policy == {"Start", "Stop", "None"}
ErrorType == {"AutomaticRetry", "ManualSolve", "NotSolveable"}
FailureStatus == {"None", "AboutToStall", "Stall", "StallTimeout",
                  "Abort", "AbortTimeout", "Error"}

Failure == [status : FailureStatus, time : Int, count : Nat]
NoFailure == [status |-> "None", time |-> -1, count |-> 0]

(* worker: the m_copyjob of a TransferKio; the m_putJob of a DataSourceFactory,
   pending until the file is open and its size known; the torrent, pending while
   there is only its local file.  startTried: the m_startTried of a
   DataSourceFactory, a torrent file being fetched.  obstacle: what a start will
   meet, a destination or a torrent file that is missing, a damaged torrent, no
   port.  complete: all chunks of a torrent are there.  speed: data flows. *)
Worker == {"none", "pending", "ready"}
Obstacle == {"none", "missing", "damaged", "port"}

Job == [status : JobStatus, policy : Policy, error : ErrorType, queue : Queues,
        worker : Worker, startTried : BOOLEAN, obstacle : Obstacle,
        moving : BOOLEAN, beforeMove : JobStatus, complete : BOOLEAN,
        speed : BOOLEAN]

NewJob(q) == [status |-> "Stopped", policy |-> "None",
              error |-> "AutomaticRetry", queue |-> q,
              worker |-> "none", startTried |-> FALSE, obstacle |-> "none",
              moving |-> FALSE, beforeMove |-> "Stopped", complete |-> FALSE,
              speed |-> FALSE]

JobQueue == [jobs : Seq(Jobs), status : JobQueueStatus]

(* maxConnections is Settings::maxConnections, timer is m_failureCheckTimer. *)
SchedulerObject == [queues : Seq(Queues), suspended : BOOLEAN,
                    connected : BOOLEAN, timer : BOOLEAN,
                    maxConnections : Nat, failed : [Jobs -> Failure]]

State == [job : [Jobs -> Job], queue : [Queues -> JobQueue],
          scheduler : SchedulerObject]

-----------------------------------------------------------------------------
(* Job::setStatus without the call of the scheduler: leaving Aborted forgets
   the error; jobChangedEvent restarts the failure timer whatever it updates. *)
SetStatusQuiet(s, j, status) ==
    IF s.job[j].status = status THEN s
    ELSE [s EXCEPT !.job[j].status = status,
                   !.job[j].error =
                        IF s.job[j].status = "Aborted" THEN "AutomaticRetry" ELSE @,
                   !.scheduler.timer = TRUE]

(* Mutant: start forgets m_movingFile. *)
KioStartWhileMoving(s, j) ==
    IF s.job[j].status = "Finished" THEN s
    ELSE SetStatusQuiet([s EXCEPT !.job[j].worker = "ready"], j, "Running")

(* TransferKio::start, TransferKio::stop *)
KioStart(s, j) ==
    IF s.job[j].moving \/ s.job[j].status = "Finished" THEN s
    ELSE SetStatusQuiet([s EXCEPT !.job[j].worker = "ready"], j, "Running")

KioStop(s, j) ==
    IF s.job[j].status \in {"Stopped", "Finished"} THEN s
    ELSE SetStatusQuiet([s EXCEPT !.job[j].worker = "none", !.job[j].speed = FALSE],
                        j, "Stopped")

(* DataSourceFactory::start.  A file that is not open yet makes the start
   asynchronous: m_startTried records it. *)
FactoryStart(s, j) ==
    IF s.job[j].moving \/ s.job[j].status = "Finished" THEN s
    ELSE IF s.job[j].worker = "ready"
    THEN SetStatusQuiet([s EXCEPT !.job[j].startTried = FALSE], j, "Running")
    ELSE IF s.job[j].obstacle = "none"
    THEN [s EXCEPT !.job[j].startTried = TRUE, !.job[j].worker = "pending"]
    ELSE SetStatusQuiet([s EXCEPT !.job[j].startTried = TRUE,
                                  !.job[j].speed = FALSE], j, "Aborted")

(* DataSourceFactory::stop *)
FactoryStop(s, j) ==
    IF s.job[j].moving \/ s.job[j].status = "Finished" THEN s
    ELSE SetStatusQuiet([s EXCEPT !.job[j].startTried = FALSE,
                                  !.job[j].speed = FALSE], j, "Stopped")

(* TransferMultiSegKio::start, TransferMultiSegKio::stop: a job whose start is
   still pending is Stopped, so that stop leaves its m_startTried alone. *)
MultiStart(s, j) == IF s.job[j].status = "Running" THEN s ELSE FactoryStart(s, j)
MultiStop(s, j) == IF s.job[j].status = "Stopped" THEN s ELSE FactoryStop(s, j)

(* BTTransfer::startTorrent *)
StartTorrent(s, j) ==
    SetStatusQuiet(s, j, IF s.job[j].complete THEN "FinishedKeepAlive" ELSE "Running")

(* BTTransfer::btTransferInit, of a torrent file that is on the disk *)
TorrentInit(s, j) ==
    LET stopped == SetStatusQuiet(s, j, "Stopped")
        Fails(t, type) == [SetStatusQuiet(t, j, "Aborted") EXCEPT !.job[j].error = type]
    IN  CASE s.job[j].obstacle = "missing" -> Fails(s, "NotSolveable")
          [] s.job[j].obstacle = "port" -> Fails(stopped, "AutomaticRetry")
          [] s.job[j].obstacle = "damaged" -> Fails(stopped, "NotSolveable")
          [] s.job[j].obstacle = "none" ->
                 StartTorrent([stopped EXCEPT !.job[j].worker = "ready"], j)

(* Mutant: start reports Running while the torrent file is still fetched. *)
BtStartAtOnce(s, j) ==
    IF s.job[j].moving THEN s
    ELSE CASE s.job[j].worker = "ready" -> StartTorrent(s, j)
           [] s.job[j].worker = "pending" -> TorrentInit(s, j)
           [] s.job[j].worker = "none" ->
                  SetStatusQuiet([s EXCEPT !.job[j].startTried = TRUE], j, "Running")

(* BTTransfer::start, BTTransfer::stop with stopTorrent *)
BtStart(s, j) ==
    IF s.job[j].moving THEN s
    ELSE CASE s.job[j].worker = "ready" -> StartTorrent(s, j)
           [] s.job[j].worker = "pending" -> TorrentInit(s, j)
           [] s.job[j].worker = "none" ->
                  SetStatusQuiet([s EXCEPT !.job[j].startTried = TRUE], j, "Stopped")

BtStop(s, j) ==
    IF s.job[j].moving \/ s.job[j].worker # "ready" THEN s
    ELSE SetStatusQuiet([s EXCEPT !.job[j].speed = FALSE], j, "Stopped")

(* The virtual functions Job::start and Job::stop *)
StartQuiet(s, j) == CASE Kind[j] = "kio" -> KioStart(s, j)
                      [] Kind[j] = "multiseg" -> MultiStart(s, j)
                      [] Kind[j] = "bt" -> BtStart(s, j)

StopQuiet(s, j) == CASE Kind[j] = "kio" -> KioStop(s, j)
                     [] Kind[j] = "multiseg" -> MultiStop(s, j)
                     [] Kind[j] = "bt" -> BtStop(s, j)

-----------------------------------------------------------------------------
(* Mutant: the network connection is not looked at. *)
ShouldUpdateOffline(s) == ~s.scheduler.suspended

shouldUpdate(s) == ~s.scheduler.suspended /\ s.scheduler.connected

(* JobQueue::maxSimultaneousJobs: zero means no limit, for which 1000 stands. *)
maxSimultaneousJobs(s) ==
    IF s.scheduler.maxConnections = 0 THEN 1000 ELSE s.scheduler.maxConnections

(* Mutant: the policy Stop is overlooked in a running queue. *)
ShouldBeRunningStopped(s, j) ==
    LET job == s.job[j]
    IN  /\ s.queue[job.queue].status = "Stopped" => job.policy = "Start"
        /\ job.status # "Finished"
        /\ job.status = "Aborted" => job.error = "AutomaticRetry"

shouldBeRunning(s, j) ==
    LET job == s.job[j]
    IN  /\ IF s.queue[job.queue].status = "Stopped"
           THEN job.policy = "Start" ELSE job.policy # "Stop"
        /\ job.status # "Finished"
        /\ job.status = "Aborted" => job.error = "AutomaticRetry"

Active(s, j) == s.job[j].status \in {"Running", "FinishedKeepAlive"}
Failing(s, j) == s.scheduler.failed[j].status \notin {"None", "AboutToStall"}

(* One iteration of the loop of updateQueue.  w is the state of the loop: the
   objects, runningJobs and waitingJobs. *)
Counted(w, waits) == IF waits THEN [w EXCEPT !.waiting = @ + 1]
                     ELSE [w EXCEPT !.running = @ + 1]

(* Mutant: off by one. *)
HasRoomOffByOne(w) == LET max == maxSimultaneousJobs(w.s)
                      IN  w.running <= max /\ w.running + w.waiting < 2 * max

HasRoom(w) == LET max == maxSimultaneousJobs(w.s)
              IN  w.running < max /\ w.running + w.waiting < 2 * max

Evaluate(w, j) ==
    IF ~HasRoom(w) \/ (Active(w.s, j) /\ ~shouldBeRunning(w.s, j))
    THEN [w EXCEPT !.s = StopQuiet(w.s, j)]
    ELSE IF ~shouldBeRunning(w.s, j) THEN w
    ELSE IF Active(w.s, j) THEN Counted(w, Failing(w.s, j))
    ELSE LET t == StartQuiet(w.s, j)
         IN  Counted([w EXCEPT !.s = t],
                     Failing(w.s, j) \/ t.job[j].status = "FinishedKeepAlive")

WalkStart(s) == [s |-> s, running |-> 0, waiting |-> 0]

Walk(s, jobs) ==
    LET walk[n \in 0 .. Len(jobs)] ==
            IF n = 0 THEN WalkStart(s) ELSE Evaluate(walk[n - 1], jobs[n])
    IN  walk[Len(jobs)]

updateQueue(s, q) ==
    IF shouldUpdate(s) THEN Walk(s, s.queue[q].jobs).s ELSE s

updateAllQueues(s) == ForEach(updateQueue, s, s.scheduler.queues)

-----------------------------------------------------------------------------
(* Scheduler::jobChangedEvent(Job*, Status), for a call that took the objects
   from s to t: it hears of changes only, and updates for every status but
   Running. *)
Announce(s, t, j) ==
    IF t.job[j].status \in {s.job[j].status, "Running"} THEN t
    ELSE updateQueue(t, t.job[j].queue)

setStatus(s, j, status) == Announce(s, SetStatusQuiet(s, j, status), j)
start(s, j) == Announce(s, StartQuiet(s, j), j)
stop(s, j) == Announce(s, StopQuiet(s, j), j)

(* Mutant: the scheduler does not hear of the policy. *)
SetPolicySilently(s, j, policy) == [s EXCEPT !.job[j].policy = policy]

(* Job::setPolicy with Scheduler::jobChangedEvent(Job*, Policy) *)
setPolicy(s, j, policy) ==
    IF s.job[j].policy = policy THEN s
    ELSE updateQueue([s EXCEPT !.job[j].policy = policy], s.job[j].queue)

(* Job::setError: the status first, and with it the scheduler's reaction; the
   type of the error afterwards. *)
setError(s, j, type) ==
    [setStatus(s, j, "Aborted") EXCEPT !.job[j].error = type]

-----------------------------------------------------------------------------
(* The lists of JobQueue.  removeAll removes one: a list has a job once. *)
PositionOf(list, j) == CHOOSE i \in DOMAIN list : list[i] = j
Without(list, j) == IF j \in ToSet(list) THEN RemoveAt(list, PositionOf(list, j))
                    ELSE list
InsertedAfter(list, j, after) == InsertAt(list, PositionOf(list, after) + 1, j)

(* Mutants: a new job comes first; an insertion updates nothing. *)
AppendInFront(s, q, j) == updateQueue([s EXCEPT !.queue[q].jobs = <<j>> \o @], q)
InsertSilently(s, q, j, after) ==
    [s EXCEPT !.queue[q].jobs = IF after = "front" THEN <<j>> \o @
                                ELSE InsertedAfter(@, j, after)]

(* JobQueue::append, prepend, insert, remove and move, each with the event it
   sends; "front" is the null pointer for the job to insert after. *)
append(s, q, j) == updateQueue([s EXCEPT !.queue[q].jobs = Append(@, j)], q)

remove(s, q, j) == updateQueue([s EXCEPT !.queue[q].jobs = Without(@, j)], q)

insert(s, q, j, after) ==
    updateQueue([s EXCEPT !.queue[q].jobs =
                    IF after = "front" THEN <<j>> \o @
                    ELSE InsertedAfter(@, j, after)], q)

move(s, q, j, after) ==
    updateQueue([s EXCEPT !.queue[q].jobs =
                    IF after = "front" THEN <<j>> \o Without(@, j)
                    ELSE InsertedAfter(Without(@, j), j, after)], q)

(* Mutant: TransferGroup::move lets a transfer be put behind itself, and
   JobQueue::move returns when it has taken it out. *)
MoveBehindItself(s, j, dest, after) ==
    LET old == s.job[j].queue
    IN  IF dest # old
        THEN [insert(remove(s, old, j), dest, j, after) EXCEPT !.job[j].queue = dest]
        ELSE IF j = after THEN [s EXCEPT !.queue[dest].jobs = Without(@, j)]
        ELSE move(s, dest, j, after)

(* TransferTreeModel::moveTransfer: between two groups m_jobQueue is written
   after both lists were changed and updated. *)
moveTransfer(s, j, dest, after) ==
    LET old == s.job[j].queue
    IN  IF dest = old
        THEN IF j = after THEN s ELSE move(s, dest, j, after)
        ELSE [insert(remove(s, old, j), dest, j, after) EXCEPT !.job[j].queue = dest]

(* TransferHandler::start, TransferHandler::stop *)
handlerStart(s, j) ==
    LET q == s.job[j].queue
    IN  IF s.queue[q].status = "Running"
        THEN moveTransfer(setPolicy(s, j, "None"), j, q, "front")
        ELSE setPolicy(s, j, "Start")

handlerStop(s, j) ==
    setPolicy(s, j, IF s.queue[s.job[j].queue].status = "Stopped"
                    THEN "None" ELSE "Stop")

(* JobQueue::setStatus, then Scheduler::jobQueueChangedEvent *)
setQueueStatus(s, q, status) ==
    LET Reset(t, j) == IF t.job[j].status = status THEN setPolicy(t, j, "None")
                       ELSE t
        Stop(t, j) == IF t.job[j].status # "Stopped" THEN stop(t, j) ELSE t
        jobs == s.queue[q].jobs
        t == ForEach(Reset, [s EXCEPT !.queue[q].status = status], jobs)
    IN  IF status = "Stopped" THEN ForEach(Stop, t, jobs) ELSE updateQueue(t, q)

-----------------------------------------------------------------------------
(* Mutant: the retries that are left are counted. *)
CountRetriesLeft(n) == ReconnectRetries - n

(* The failure machine of Scheduler::timerEvent.  A count above the retries
   matters only modulo the period, so it wraps around there. *)
Count(n) == IF n <= ReconnectRetries THEN n
            ELSE ReconnectRetries + 1 + ((n - ReconnectRetries - 1) % RetryPeriod)

(* isStalled, isWorking; a torrent without data is reported STALLED. *)
isStalled(job) == job.status = "Running" /\ ~job.speed
isWorking(s, j) == IF Kind[j] = "bt" THEN s.job[j].worker = "ready" /\ ~isStalled(s.job[j])
                   ELSE s.job[j].speed

Stalled(f) ==
    IF f.status \notin {"AboutToStall", "Stall", "StallTimeout"}
    THEN [status |-> "AboutToStall", time |-> 0, count |-> 0]
    ELSE LET time == f.time + 1
         IN  IF time >= StallTime + ReconnectDelay
             THEN [status |-> "StallTimeout", time |-> StallTime,
                   count |-> Count(f.count + 1)]
             ELSE [f EXCEPT !.time = time,
                            !.status = IF time >= StallTime THEN "Stall"
                                       ELSE "AboutToStall"]

Aborted(f, error) ==
    IF error # "AutomaticRetry" THEN [f EXCEPT !.status = "Error"]
    ELSE IF f.status # "Abort" THEN [status |-> "Abort", time |-> 0, count |-> 0]
    ELSE IF f.time + 1 >= ReconnectDelay
    THEN [status |-> "AbortTimeout", time |-> 0, count |-> Count(f.count + 2)]
    ELSE [f EXCEPT !.time = @ + 1, !.count = Count(@ + 1)]

NextFailure(s, j) ==
    LET f == s.scheduler.failed[j]
    IN  IF isStalled(s.job[j]) THEN Stalled(f)
        ELSE IF s.job[j].status = "Aborted" THEN Aborted(f, s.job[j].error)
        ELSE IF isWorking(s, j) THEN NoFailure
        ELSE f

IsValid(f) == f.status # "None" /\ f.time # -1

(* Mutant: after the last retry nothing is tried any more. *)
RetriesAndGivesUp(f) ==
    f.status \in {"StallTimeout", "AbortTimeout"} /\ f.count <= ReconnectRetries

(* Scheduler::jobChangedEvent(Job*, JobFailure) *)
Retries(f) ==
    /\ f.status \in {"StallTimeout", "AbortTimeout"}
    /\ f.count > ReconnectRetries => (f.count - ReconnectRetries) % RetryPeriod = 0

failureEvent(s, j, f) ==
    IF f.status = "Error" THEN handlerStop(s, j)
    ELSE IF Retries(f) THEN stop(s, j)
    ELSE updateQueue(s, s.job[j].queue)

CheckJob(s, j) ==
    LET f == NextFailure(s, j)
        t == [s EXCEPT !.scheduler.failed[j] = IF IsValid(f) THEN f ELSE NoFailure]
    IN  IF f.status # s.scheduler.failed[j].status THEN failureEvent(t, j, f) ELSE t

CheckQueue(s, q) == ForEach(CheckJob, s, s.queue[q].jobs)

timerEvent(s) ==
    IF shouldUpdate(s) THEN ForEach(CheckQueue, s, s.scheduler.queues) ELSE s
=============================================================================
