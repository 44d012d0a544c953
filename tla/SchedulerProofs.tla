-------------------------- MODULE SchedulerProofs --------------------------
(***************************************************************************)
(* Theorems of Scheduler, for every set of jobs and queues, every plugin,  *)
(* every limit and every period of the timers.                             *)
(*                                                                         *)
(* The calls of SchedulerOps nest: updateQueue walks over the jobs, starts *)
(* and stops them, and they change their statuses.  None of this touches a *)
(* list of a queue or the queue a job belongs to, and every job is in      *)
(* order when a call is made or has returned: its status, its worker and   *)
(* its move agree.  So the proof goes up the calls with one set,           *)
(* SameLists(base): the states of the right type whose jobs are in order   *)
(* and whose lists and memberships are those of base.                      *)
(*                                                                         *)
(* From Counts on it is about what updateQueue achieves: the limits of     *)
(* active transfers, the policies of users, the connection, and that an    *)
(* event leaves nothing to do.                                             *)
(***************************************************************************)
EXTENDS Scheduler, Recursion, SequenceTheorems, FiniteSetTheorems

(* What status, worker and move of a job have to do with one another.  A kio job
   that is stopped has no worker, with which its move begins; a torrent that is
   active is there, so that it can be stopped, and is not lost while its files
   move, after which it runs; what keeps a torrent from being initialised is gone
   once it is. *)
Consistent(j, r) ==
    /\ Kind[j] = "kio" => /\ r.status = "Stopped" => r.worker = "none"
                          /\ r.moving => r.status # "Running" /\ r.worker = "none"
    /\ Kind[j] = "multiseg" => (r.status = "Running" /\ ~r.moving => r.worker # "none")
    /\ Kind[j] = "bt" => /\ r.status \in {"Running", "FinishedKeepAlive"} \/ r.moving
                                => r.worker = "ready"
                         /\ r.worker = "ready" => r.obstacle = "none"

InOrder == {s \in State : \A j \in Jobs : Consistent(j, s.job[j])}

SameLists(base) ==
    {s \in InOrder : /\ s.queue = base.queue
                     /\ \A j \in Jobs : s.job[j].queue = base.job[j].queue}

(* While a call writes the fields of job j, only j may be out of order. *)
Writing(base, j) ==
    {s \in State : /\ s.queue = base.queue
                   /\ \A k \in Jobs : s.job[k].queue = base.job[k].queue
                   /\ \A k \in Jobs : k # j => Consistent(k, s.job[k])}

-----------------------------------------------------------------------------
(* Writes to one object *)

LEMMA InOrderWhileWriting ==
  ASSUME NEW base, NEW j \in Jobs
  PROVE  /\ SameLists(base) \subseteq Writing(base, j)
         /\ \A s \in Writing(base, j) : Consistent(j, s.job[j]) => s \in SameLists(base)
BY DEF SameLists, InOrder, Writing

LEMMA Objects ==
  ASSUME NEW base, NEW s \in SameLists(base), NEW j \in Jobs
  PROVE  /\ s.job[j] \in Job /\ s.scheduler \in SchedulerObject
         /\ Consistent(j, s.job[j])
BY DEF SameLists, InOrder, State

LEMMA ObjectsWhileWriting ==
  ASSUME NEW base, NEW j \in Jobs, NEW s \in Writing(base, j)
  PROVE  /\ s.job[j] \in Job /\ s.scheduler \in SchedulerObject
         /\ s.job \in [Jobs -> Job] /\ DOMAIN s = {"job", "queue", "scheduler"}
BY DEF Writing, State

LEMMA JobWritten ==
  ASSUME NEW base, NEW j \in Jobs, NEW s \in Writing(base, j),
         NEW r \in Job, r.queue = s.job[j].queue
  PROVE  /\ [s EXCEPT !.job[j] = r] \in Writing(base, j)
         /\ [s EXCEPT !.job[j] = r].job[j] = r
         /\ Consistent(j, r) => [s EXCEPT !.job[j] = r] \in SameLists(base)
<1> DEFINE t == [s EXCEPT !.job[j] = r]
<1>1. s.job \in [Jobs -> Job] /\ s.queue \in [Queues -> JobQueue]
      /\ s.scheduler \in SchedulerObject
  BY DEF Writing, State
<1>2. t = [s EXCEPT !.job = [s.job EXCEPT ![j] = r]] OBVIOUS
<1>3. t \in State BY <1>1, <1>2 DEF Writing, State
<1>4. t.queue = base.queue BY DEF Writing, State
<1>5. \A k \in Jobs : t.job[k] = IF k = j THEN r ELSE s.job[k]
  BY <1>1 DEF Writing, State
<1> HIDE DEF t
<1>6. \A k \in Jobs : t.job[k].queue = base.job[k].queue BY <1>5 DEF Writing
<1>7. \A k \in Jobs : k # j => Consistent(k, t.job[k]) BY <1>5 DEF Writing
<1>8. t \in Writing(base, j) BY <1>3, <1>4, <1>6, <1>7 DEF Writing
<1>9. t.job[j] = r BY <1>5
<1> QED BY <1>8, <1>9, InOrderWhileWriting DEF t

LEMMA SchedulerWritten ==
  ASSUME NEW base, NEW s \in SameLists(base), NEW c \in SchedulerObject
  PROVE  [s EXCEPT !.scheduler = c] \in SameLists(base)
BY DEF SameLists, InOrder, State

(* Job::setStatus; the error and the timer have no part in the order. *)
LEMMA SetStatusQuietStays ==
  ASSUME NEW base, NEW j \in Jobs, NEW s \in Writing(base, j), NEW status \in JobStatus
  PROVE  /\ SetStatusQuiet(s, j, status) \in Writing(base, j)
         /\ SetStatusQuiet(s, j, status).job[j].status = status
         /\ SetStatusQuiet(s, j, status).job[j].worker = s.job[j].worker
         /\ SetStatusQuiet(s, j, status).job[j].moving = s.job[j].moving
         /\ SetStatusQuiet(s, j, status).job[j].obstacle = s.job[j].obstacle
         /\ Consistent(j, [s.job[j] EXCEPT !.status = status])
                => SetStatusQuiet(s, j, status) \in SameLists(base)
<1> DEFINE r == [s.job[j] EXCEPT !.status = status,
                                 !.error = IF s.job[j].status = "Aborted"
                                           THEN "AutomaticRetry" ELSE @]
           u == [s EXCEPT !.job[j] = r]
           c == [s.scheduler EXCEPT !.timer = TRUE]
           v == [u EXCEPT !.scheduler = c]
           p == [s.job[j] EXCEPT !.status = status]
<1>1. s.job[j] \in Job BY ObjectsWhileWriting
<1>2. /\ r \in Job /\ r.queue = s.job[j].queue
      /\ r.status = status /\ r.worker = s.job[j].worker /\ r.moving = s.job[j].moving
      /\ r.obstacle = s.job[j].obstacle
  <2> HIDE DEF u, p
  <2> QED BY <1>1 DEF Job, ErrorType
<1>3. /\ p.status = status /\ p.worker = s.job[j].worker /\ p.moving = s.job[j].moving
      /\ p.obstacle = s.job[j].obstacle
  <2> HIDE DEF u, r
  <2> QED BY <1>1 DEF Job
<1>4. SetStatusQuiet(s, j, status) = IF s.job[j].status = status THEN s ELSE v
  BY DEF SetStatusQuiet, Writing, State
<1> HIDE DEF r, p
<1>5. u \in Writing(base, j) /\ u.job[j] = r BY <1>2, JobWritten
<1> HIDE DEF u
<1>6. c \in SchedulerObject
  <2>1. s.scheduler \in SchedulerObject BY ObjectsWhileWriting
  <2> QED BY <2>1 DEF SchedulerObject
<1> HIDE DEF c
<1>7. v \in Writing(base, j) /\ v.job = u.job BY <1>5, <1>6 DEF Writing, State
<1> HIDE DEF v
<1>8. CASE s.job[j].status = status
  <2>1. Consistent(j, p) <=> Consistent(j, s.job[j]) BY <1>3, <1>8 DEF Consistent
  <2> QED BY <1>4, <1>8, <2>1, InOrderWhileWriting DEF p
<1>9. CASE s.job[j].status # status
  <2>1. Consistent(j, p) <=> Consistent(j, r) BY <1>2, <1>3 DEF Consistent
  <2>2. v.job[j] = r BY <1>5, <1>7
  <2> QED BY <1>2, <1>4, <1>7, <1>9, <2>1, <2>2, InOrderWhileWriting DEF p
<1> QED BY <1>8, <1>9

LEMMA StatusWritten ==
  ASSUME NEW base, NEW j \in Jobs, NEW s \in Writing(base, j), NEW status \in JobStatus
  PROVE  LET t == SetStatusQuiet(s, j, status)
         IN  /\ t.job[j].status = status
             /\ t.job[j].worker = s.job[j].worker /\ t.job[j].moving = s.job[j].moving
             /\ t.job[j].obstacle = s.job[j].obstacle
BY SetStatusQuietStays, ZenonT(60)

(* The plugins write fields of their own before they say the status of a job. *)
OwnFields(r, w, m, speed) ==
    [r EXCEPT !.worker = w, !.startTried = m, !.speed = speed]

LEMMA OwnFieldsWritten ==
  ASSUME NEW base, NEW j \in Jobs, NEW s \in Writing(base, j),
         NEW w \in Worker, NEW m \in BOOLEAN, NEW speed \in BOOLEAN
  PROVE  LET t == [s EXCEPT !.job[j] = OwnFields(s.job[j], w, m, speed)]
         IN  /\ t \in Writing(base, j)
             /\ t.job[j].worker = w
             /\ t.job[j].status = s.job[j].status /\ t.job[j].moving = s.job[j].moving
             /\ t.job[j].obstacle = s.job[j].obstacle
<1> DEFINE r == OwnFields(s.job[j], w, m, speed)
<1>1. s.job[j] \in Job BY ObjectsWhileWriting
<1>2. /\ r \in Job /\ r.queue = s.job[j].queue
      /\ r.worker = w /\ r.status = s.job[j].status /\ r.moving = s.job[j].moving
      /\ r.obstacle = s.job[j].obstacle
  BY <1>1 DEF Job, OwnFields
<1> HIDE DEF r
<1>3. [s EXCEPT !.job[j] = r] \in Writing(base, j) /\ [s EXCEPT !.job[j] = r].job[j] = r
  BY <1>2, JobWritten
<1> QED BY <1>2, <1>3 DEF r

(* Both together *)
LEMMA OwnFieldsAndStatus ==
  ASSUME NEW base, NEW j \in Jobs, NEW s \in Writing(base, j),
         NEW w \in Worker, NEW m \in BOOLEAN, NEW speed \in BOOLEAN,
         NEW status \in JobStatus,
         \A r \in Job : /\ r.status = status /\ r.worker = w
                        /\ r.moving = s.job[j].moving /\ r.obstacle = s.job[j].obstacle
                        => Consistent(j, r)
  PROVE  SetStatusQuiet([s EXCEPT !.job[j] = OwnFields(s.job[j], w, m, speed)], j, status)
             \in SameLists(base)
<1> DEFINE t == [s EXCEPT !.job[j] = OwnFields(s.job[j], w, m, speed)]
           u == SetStatusQuiet(t, j, status)
<1>1. /\ t \in Writing(base, j)
      /\ t.job[j].worker = w /\ t.job[j].moving = s.job[j].moving
      /\ t.job[j].obstacle = s.job[j].obstacle
  BY OwnFieldsWritten
<1> HIDE DEF t
<1>2. u \in Writing(base, j)
      /\ u.job[j].status = status /\ u.job[j].worker = w
      /\ u.job[j].moving = s.job[j].moving /\ u.job[j].obstacle = s.job[j].obstacle
  BY <1>1, SetStatusQuietStays, ZenonT(60)
<1> HIDE DEF u
<1>3. Consistent(j, u.job[j]) BY <1>2, ObjectsWhileWriting
<1>4. u \in SameLists(base) BY <1>2, <1>3, InOrderWhileWriting
<1> QED BY <1>4 DEF u, t

-----------------------------------------------------------------------------
(* Starts and stops of the plugins *)

LEMMA FieldTypes ==
  ASSUME NEW r \in Job
  PROVE  /\ r.status \in JobStatus /\ r.worker \in Worker /\ r.queue \in Queues
         /\ r.startTried \in BOOLEAN /\ r.speed \in BOOLEAN /\ r.moving \in BOOLEAN
         /\ r.obstacle \in Obstacle /\ r.beforeMove \in JobStatus
BY DEF Job

LEMMA StateWhileWriting ==
  ASSUME NEW base, NEW j \in Jobs, NEW s \in Writing(base, j)
  PROVE  s \in State
BY DEF Writing

LEMMA KioStartStays ==
  ASSUME NEW base, NEW s \in SameLists(base), NEW j \in Jobs, Kind[j] = "kio"
  PROVE  KioStart(s, j) \in SameLists(base)
<1> DEFINE u == [s EXCEPT !.job[j] = OwnFields(s.job[j], "ready", s.job[j].startTried,
                                               s.job[j].speed)]
<1>1. s \in Writing(base, j) /\ s.job[j] \in Job BY InOrderWhileWriting, Objects
<1>2. s.job[j].startTried \in BOOLEAN /\ s.job[j].speed \in BOOLEAN /\ "ready" \in Worker
  BY <1>1, FieldTypes DEF Worker
<1>3. [s EXCEPT !.job[j].worker = "ready"] = u
  BY <1>1, StateWhileWriting DEF State, OwnFields, Job
<1>4. ASSUME ~s.job[j].moving PROVE SetStatusQuiet(u, j, "Running") \in SameLists(base)
  <2>1. \A r \in Job : r.status = "Running" /\ r.moving = s.job[j].moving => Consistent(j, r)
    BY <1>4 DEF Consistent
  <2> QED BY <1>1, <1>2, <2>1, OwnFieldsAndStatus DEF JobStatus
<1> QED BY <1>3, <1>4 DEF KioStart

LEMMA KioStopStays ==
  ASSUME NEW base, NEW j \in Jobs, NEW s \in Writing(base, j), Kind[j] = "kio",
         s.job[j].status \in {"Stopped", "Finished"} => Consistent(j, s.job[j])
  PROVE  KioStop(s, j) \in SameLists(base)
<1> DEFINE u == [s EXCEPT !.job[j] = OwnFields(s.job[j], "none", s.job[j].startTried,
                                               FALSE)]
<1>1. s.job[j] \in Job BY ObjectsWhileWriting
<1>2. s.job[j].startTried \in BOOLEAN /\ "none" \in Worker BY <1>1, FieldTypes DEF Worker
<1>3. [s EXCEPT !.job[j].worker = "none", !.job[j].speed = FALSE] = u
  BY <1>1, StateWhileWriting, ZenonT(60) DEF State, OwnFields, Job
<1>4. \A r \in Job : r.status = "Stopped" /\ r.worker = "none" => Consistent(j, r)
  BY DEF Consistent
<1>5. SetStatusQuiet(u, j, "Stopped") \in SameLists(base)
  BY <1>2, <1>4, OwnFieldsAndStatus DEF JobStatus
<1> QED BY <1>3, <1>5, InOrderWhileWriting DEF KioStop

(* Whatever was written before, DataSourceFactory::start puts a job in order: it
   runs with its file, waits for it, or is aborted. *)
LEMMA FactoryStartStays ==
  ASSUME NEW base, NEW j \in Jobs, NEW s \in Writing(base, j), Kind[j] = "multiseg"
  PROVE  FactoryStart(s, j) \in SameLists(base)
<1> DEFINE goes == [s EXCEPT !.job[j] = OwnFields(s.job[j], s.job[j].worker, FALSE,
                                                  s.job[j].speed)]
           waits == [s EXCEPT !.job[j] = OwnFields(s.job[j], "pending", TRUE,
                                                   s.job[j].speed)]
           fails == [s EXCEPT !.job[j] = OwnFields(s.job[j], s.job[j].worker, TRUE, FALSE)]
<1>1. s.job[j] \in Job BY ObjectsWhileWriting
<1>2. /\ s.job[j].worker \in Worker /\ "pending" \in Worker
      /\ s.job[j].speed \in BOOLEAN
  BY <1>1, FieldTypes DEF Worker
<1>3. ASSUME s.job[j].worker = "ready"
      PROVE  SetStatusQuiet(goes, j, "Running") \in SameLists(base)
  <2>1. \A r \in Job : r.worker = s.job[j].worker => Consistent(j, r)
    BY <1>3 DEF Consistent
  <2> QED BY <1>2, <2>1, OwnFieldsAndStatus DEF JobStatus
<1>4. waits \in SameLists(base)
  <2> DEFINE r == OwnFields(s.job[j], "pending", TRUE, s.job[j].speed)
  <2>1. r \in Job /\ r.queue = s.job[j].queue /\ r.worker = "pending"
    <3> HIDE DEF goes, waits, fails
    <3> QED BY <1>1, <1>2 DEF OwnFields, Job
  <2>2. Consistent(j, r) BY <2>1 DEF Consistent
  <2> HIDE DEF r
  <2>3. [s EXCEPT !.job[j] = r] \in SameLists(base) BY <2>1, <2>2, JobWritten
  <2> QED BY <2>3 DEF r
<1>5. SetStatusQuiet(fails, j, "Aborted") \in SameLists(base)
  <2>1. \A r \in Job : r.status = "Aborted" => Consistent(j, r) BY DEF Consistent
  <2> QED BY <1>2, <2>1, OwnFieldsAndStatus DEF JobStatus
<1>6. [s EXCEPT !.job[j].startTried = FALSE] = goes
  BY <1>1, StateWhileWriting DEF State, OwnFields, Job
<1>7. [s EXCEPT !.job[j].startTried = TRUE, !.job[j].worker = "pending"] = waits
  BY <1>1, StateWhileWriting, ZenonT(60) DEF State, OwnFields, Job
<1>8. [s EXCEPT !.job[j].startTried = TRUE, !.job[j].speed = FALSE] = fails
  BY <1>1, StateWhileWriting, ZenonT(60) DEF State, OwnFields, Job
<1>9. s.job[j].moving \/ s.job[j].status = "Finished" => s \in SameLists(base)
  <2>1. s.job[j].moving \/ s.job[j].status = "Finished" => Consistent(j, s.job[j])
    BY DEF Consistent
  <2> QED BY <2>1, InOrderWhileWriting
<1> HIDE DEF goes, waits, fails
<1> QED BY <1>3, <1>4, <1>5, <1>6, <1>7, <1>8, <1>9 DEF FactoryStart

LEMMA FactoryStopStays ==
  ASSUME NEW base, NEW j \in Jobs, NEW s \in Writing(base, j), Kind[j] = "multiseg"
  PROVE  FactoryStop(s, j) \in SameLists(base)
<1> DEFINE u == [s EXCEPT !.job[j] = OwnFields(s.job[j], s.job[j].worker, FALSE, FALSE)]
<1>1. s.job[j] \in Job BY ObjectsWhileWriting
<1>2. s.job[j].worker \in Worker BY <1>1, FieldTypes
<1>3. [s EXCEPT !.job[j].startTried = FALSE, !.job[j].speed = FALSE] = u
  BY <1>1, StateWhileWriting, ZenonT(60) DEF State, OwnFields, Job
<1>4. \A r \in Job : r.status = "Stopped" => Consistent(j, r) BY DEF Consistent
<1>5. SetStatusQuiet(u, j, "Stopped") \in SameLists(base)
  BY <1>2, <1>4, OwnFieldsAndStatus DEF JobStatus
<1>6. s.job[j].moving \/ s.job[j].status = "Finished" => s \in SameLists(base)
  <2>1. s.job[j].moving \/ s.job[j].status = "Finished" => Consistent(j, s.job[j])
    BY DEF Consistent
  <2> QED BY <2>1, InOrderWhileWriting
<1> QED BY <1>3, <1>5, <1>6 DEF FactoryStop

(* A status that is written alone *)
LEMMA StatusStays ==
  ASSUME NEW base, NEW j \in Jobs, NEW s \in Writing(base, j), NEW status \in JobStatus,
         \A r \in Job : /\ r.status = status /\ r.worker = s.job[j].worker
                        /\ r.moving = s.job[j].moving /\ r.obstacle = s.job[j].obstacle
                        => Consistent(j, r)
  PROVE  SetStatusQuiet(s, j, status) \in SameLists(base)
<1> DEFINE u == SetStatusQuiet(s, j, status)
<1>1. /\ u \in Writing(base, j) /\ u.job[j].status = status
      /\ u.job[j].worker = s.job[j].worker /\ u.job[j].moving = s.job[j].moving
      /\ u.job[j].obstacle = s.job[j].obstacle
  BY SetStatusQuietStays, ZenonT(60)
<1> HIDE DEF u
<1>2. u.job[j] \in Job BY <1>1, ObjectsWhileWriting
<1>3. u \in SameLists(base) BY <1>1, <1>2, InOrderWhileWriting
<1> QED BY <1>3 DEF u

LEMMA StartTorrentStays ==
  ASSUME NEW base, NEW j \in Jobs, NEW s \in Writing(base, j),
         Kind[j] = "bt", s.job[j].worker = "ready", s.job[j].obstacle = "none"
  PROVE  StartTorrent(s, j) \in SameLists(base)
<1>1. \A r \in Job : r.worker = s.job[j].worker /\ r.obstacle = s.job[j].obstacle
                     => Consistent(j, r)
  BY DEF Consistent
<1> QED BY <1>1, StatusStays DEF StartTorrent, JobStatus

(* setError's second write *)
LEMMA ErrorWritten ==
  ASSUME NEW base, NEW s \in SameLists(base), NEW j \in Jobs, NEW type \in ErrorType
  PROVE  [s EXCEPT !.job[j].error = type] \in SameLists(base)
<1> DEFINE r == [s.job[j] EXCEPT !.error = type]
<1>1. s.job[j] \in Job /\ Consistent(j, s.job[j]) /\ s \in Writing(base, j)
  BY Objects, InOrderWhileWriting
<1>2. /\ r \in Job /\ r.queue = s.job[j].queue
      /\ r.status = s.job[j].status /\ r.worker = s.job[j].worker
      /\ r.moving = s.job[j].moving /\ r.obstacle = s.job[j].obstacle
  BY <1>1 DEF Job
<1> HIDE DEF r
<1>3. Consistent(j, r) BY <1>1, <1>2 DEF Consistent
<1>4. [s EXCEPT !.job[j] = r] \in SameLists(base) BY <1>1, <1>2, <1>3, JobWritten
<1>5. [s EXCEPT !.job[j].error = type] = [s EXCEPT !.job[j] = r]
  BY DEF SameLists, InOrder, State, r
<1> QED BY <1>4, <1>5

LEMMA TorrentInitStays ==
  ASSUME NEW base, NEW s \in SameLists(base), NEW j \in Jobs,
         Kind[j] = "bt", s.job[j].worker = "pending"
  PROVE  TorrentInit(s, j) \in SameLists(base)
<1> DEFINE stopped == SetStatusQuiet(s, j, "Stopped")
           ready == [stopped EXCEPT !.job[j] =
                        OwnFields(stopped.job[j], "ready", stopped.job[j].startTried,
                                  stopped.job[j].speed)]
           Fails(t, type) == [SetStatusQuiet(t, j, "Aborted") EXCEPT !.job[j].error = type]
<1>1. s \in Writing(base, j) /\ s.job[j].obstacle \in Obstacle /\ ~s.job[j].moving
  BY InOrderWhileWriting, Objects, FieldTypes DEF Consistent
<1>2. \A r \in Job : /\ r.status \in {"Stopped", "Aborted"}
                     /\ r.worker = "pending" /\ ~r.moving
                     => Consistent(j, r)
  BY DEF Consistent
<1>3. /\ stopped \in SameLists(base) /\ stopped.job[j].worker = "pending"
      /\ ~stopped.job[j].moving /\ stopped.job[j].obstacle = s.job[j].obstacle
  <2>1. /\ stopped.job[j].worker = s.job[j].worker
        /\ stopped.job[j].moving = s.job[j].moving
        /\ stopped.job[j].obstacle = s.job[j].obstacle
    BY <1>1, StatusWritten DEF JobStatus
  <2>2. stopped \in SameLists(base) BY <1>1, <1>2, StatusStays DEF JobStatus
  <2> QED BY <1>1, <2>1, <2>2
<1> HIDE DEF stopped
<1>4. stopped \in Writing(base, j) /\ stopped.job[j] \in Job
  BY <1>3, InOrderWhileWriting, Objects
<1>5. /\ stopped.job[j].startTried \in BOOLEAN /\ stopped.job[j].speed \in BOOLEAN
      /\ "ready" \in Worker
  BY <1>4, FieldTypes DEF Worker
<1>6. /\ ready \in Writing(base, j) /\ ready.job[j].worker = "ready"
      /\ ready.job[j].obstacle = stopped.job[j].obstacle
  BY <1>4, <1>5, OwnFieldsWritten
<1>7. [stopped EXCEPT !.job[j].worker = "ready"] = ready
  BY <1>4 DEF Writing, State, OwnFields, Job
<1> HIDE DEF ready
<1>8. s.job[j].obstacle = "none" => StartTorrent(ready, j) \in SameLists(base)
  BY <1>3, <1>6, StartTorrentStays
<1>9. ASSUME NEW t \in SameLists(base), t.job[j].worker = "pending", ~t.job[j].moving,
             NEW type \in ErrorType
      PROVE  Fails(t, type) \in SameLists(base)
  <2>1. t \in Writing(base, j) BY InOrderWhileWriting
  <2>2. SetStatusQuiet(t, j, "Aborted") \in SameLists(base)
    BY <1>2, <1>9, <2>1, StatusStays DEF JobStatus
  <2> QED BY <2>2, ErrorWritten
<1>10. /\ Fails(s, "NotSolveable") \in SameLists(base)
       /\ Fails(stopped, "NotSolveable") \in SameLists(base)
       /\ Fails(stopped, "AutomaticRetry") \in SameLists(base)
  BY <1>1, <1>3, <1>9 DEF ErrorType
<1> HIDE DEF Fails
<1> USE DEF stopped, Fails
<1>11. s.job[j].obstacle = "none" => TorrentInit(s, j) = StartTorrent(ready, j)
  BY <1>7 DEF TorrentInit
<1>12. s.job[j].obstacle # "none" =>
           TorrentInit(s, j) \in {Fails(s, "NotSolveable"), Fails(stopped, "NotSolveable"),
                                 Fails(stopped, "AutomaticRetry")}
  BY <1>1 DEF TorrentInit, Obstacle
<1> QED BY <1>8, <1>10, <1>11, <1>12

LEMMA BtStartStays ==
  ASSUME NEW base, NEW s \in SameLists(base), NEW j \in Jobs, Kind[j] = "bt"
  PROVE  BtStart(s, j) \in SameLists(base)
<1> DEFINE u == [s EXCEPT !.job[j] = OwnFields(s.job[j], s.job[j].worker, TRUE,
                                               s.job[j].speed)]
<1>1. s \in Writing(base, j) /\ s.job[j] \in Job BY InOrderWhileWriting, Objects
<1>2. s.job[j].worker \in Worker /\ s.job[j].speed \in BOOLEAN BY <1>1, FieldTypes
<1>3. [s EXCEPT !.job[j].startTried = TRUE] = u
  BY <1>1, StateWhileWriting DEF State, OwnFields, Job
<1>4. ASSUME ~s.job[j].moving PROVE SetStatusQuiet(u, j, "Stopped") \in SameLists(base)
  <2>1. \A r \in Job : /\ r.status = "Stopped" /\ r.worker = s.job[j].worker
                       /\ r.moving = s.job[j].moving /\ r.obstacle = s.job[j].obstacle
                       => Consistent(j, r)
    BY <1>4, Objects DEF Consistent
  <2> QED BY <1>1, <1>2, <2>1, OwnFieldsAndStatus DEF JobStatus
<1> HIDE DEF u
<1>5. /\ s.job[j].worker = "ready" => StartTorrent(s, j) \in SameLists(base)
      /\ s.job[j].worker = "pending" => TorrentInit(s, j) \in SameLists(base)
  <2>1. s.job[j].worker = "ready" => s.job[j].obstacle = "none" BY Objects DEF Consistent
  <2> QED BY <1>1, <2>1, StartTorrentStays, TorrentInitStays
<1> QED BY <1>2, <1>3, <1>4, <1>5 DEF BtStart, Worker

LEMMA BtStopStays ==
  ASSUME NEW base, NEW s \in SameLists(base), NEW j \in Jobs, Kind[j] = "bt"
  PROVE  BtStop(s, j) \in SameLists(base)
<1> DEFINE u == [s EXCEPT !.job[j] = OwnFields(s.job[j], s.job[j].worker,
                                               s.job[j].startTried, FALSE)]
<1>1. s \in Writing(base, j) /\ s.job[j] \in Job BY InOrderWhileWriting, Objects
<1>2. s.job[j].worker \in Worker /\ s.job[j].startTried \in BOOLEAN BY <1>1, FieldTypes
<1>3. [s EXCEPT !.job[j].speed = FALSE] = u
  BY <1>1, StateWhileWriting DEF State, OwnFields, Job
<1>4. ASSUME s.job[j].worker = "ready"
      PROVE  SetStatusQuiet(u, j, "Stopped") \in SameLists(base)
  <2>1. \A r \in Job : r.worker = s.job[j].worker /\ r.obstacle = s.job[j].obstacle
                       => Consistent(j, r)
    BY <1>4, Objects DEF Consistent
  <2> QED BY <1>1, <1>2, <2>1, OwnFieldsAndStatus DEF JobStatus
<1> QED BY <1>3, <1>4 DEF BtStop

LEMMA StartAndStopStay ==
  ASSUME NEW base, NEW s \in SameLists(base), NEW j \in Jobs
  PROVE  StartQuiet(s, j) \in SameLists(base) /\ StopQuiet(s, j) \in SameLists(base)
<1>1. Kind[j] \in PluginKind BY KindAssumption
<1>2. s \in Writing(base, j) /\ Consistent(j, s.job[j]) BY InOrderWhileWriting, Objects
<1> QED BY <1>1, <1>2, KioStartStays, KioStopStays, FactoryStartStays, FactoryStopStays,
           BtStartStays, BtStopStays
        DEF StartQuiet, StopQuiet, MultiStart, MultiStop, PluginKind

-----------------------------------------------------------------------------
(* What starts and stops leave alone: the other jobs, what users and queues say of
   the jobs themselves, and of the scheduler everything but its timer. *)

SameDuties(r, t) == /\ r.queue = t.queue /\ r.policy = t.policy
                    /\ r.obstacle = t.obstacle /\ r.moving = t.moving

SameScheduling(c, d) ==
    /\ c.queues = d.queues /\ c.suspended = d.suspended /\ c.connected = d.connected
    /\ c.maxConnections = d.maxConnections /\ c.failed = d.failed

(* The states a call may lead to from s that touches the jobs J *)
Touching(s, J) ==
    {t \in State : /\ t.queue = s.queue
                   /\ \A k \in Jobs : k \notin J => t.job[k] = s.job[k]
                   /\ \A k \in Jobs : SameDuties(t.job[k], s.job[k])
                   /\ SameScheduling(t.scheduler, s.scheduler)}

LEMMA TouchedTwice ==
  ASSUME NEW s, NEW J, NEW u \in Touching(s, J), NEW K \in SUBSET J, NEW t \in Touching(u, K)
  PROVE  t \in Touching(s, J)
BY DEF Touching, SameDuties, SameScheduling

LEMMA NotTouched ==
  ASSUME NEW s \in State, NEW J
  PROVE  s \in Touching(s, J)
BY DEF Touching, SameDuties, SameScheduling

LEMMA JobTouched ==
  ASSUME NEW s \in State, NEW j \in Jobs, NEW r \in Job, SameDuties(r, s.job[j])
  PROVE  [s EXCEPT !.job[j] = r] \in Touching(s, {j})
<1> DEFINE t == [s EXCEPT !.job[j] = r]
<1>1. s.job \in [Jobs -> Job] /\ s.queue \in [Queues -> JobQueue]
      /\ s.scheduler \in SchedulerObject
  BY DEF State
<1>2. t = [s EXCEPT !.job = [s.job EXCEPT ![j] = r]] OBVIOUS
<1> HIDE DEF t
<1>3. t \in State /\ t.queue = s.queue /\ t.scheduler = s.scheduler
      /\ t.job = [s.job EXCEPT ![j] = r]
  BY <1>1, <1>2 DEF State
<1>4. \A k \in Jobs : t.job[k] = IF k = j THEN r ELSE s.job[k] BY <1>1, <1>3
<1>5. t \in Touching(s, {j}) BY <1>3, <1>4 DEF Touching, SameScheduling, SameDuties
<1> QED BY <1>5 DEF t

LEMMA OwnFieldsTouched ==
  ASSUME NEW s \in State, NEW j \in Jobs,
         NEW w \in Worker, NEW m \in BOOLEAN, NEW speed \in BOOLEAN
  PROVE  [s EXCEPT !.job[j] = OwnFields(s.job[j], w, m, speed)] \in Touching(s, {j})
<1> DEFINE r == OwnFields(s.job[j], w, m, speed)
<1>1. s.job[j] \in Job BY DEF State
<1>2. r \in Job /\ SameDuties(r, s.job[j]) BY <1>1 DEF Job, OwnFields, SameDuties
<1> HIDE DEF r
<1>3. [s EXCEPT !.job[j] = r] \in Touching(s, {j}) BY <1>2, JobTouched
<1> QED BY <1>3 DEF r

LEMMA SetStatusTouches ==
  ASSUME NEW s \in State, NEW j \in Jobs, NEW status \in JobStatus
  PROVE  /\ SetStatusQuiet(s, j, status) \in Touching(s, {j})
         /\ SetStatusQuiet(s, j, status).job[j].status = status
<1> DEFINE r == [s.job[j] EXCEPT !.status = status,
                                 !.error = IF s.job[j].status = "Aborted"
                                           THEN "AutomaticRetry" ELSE @]
           u == [s EXCEPT !.job[j] = r]
           c == [u.scheduler EXCEPT !.timer = TRUE]
           v == [u EXCEPT !.scheduler = c]
<1>1. s.job[j] \in Job BY DEF State
<1>2. r \in Job /\ SameDuties(r, s.job[j]) /\ r.status = status
  <2> HIDE DEF u
  <2> QED BY <1>1 DEF Job, ErrorType, SameDuties
<1>3. SetStatusQuiet(s, j, status) = IF s.job[j].status = status THEN s ELSE v
  BY DEF SetStatusQuiet, State
<1> HIDE DEF r
<1>4. u \in Touching(s, {j}) BY <1>2, JobTouched
<1>5. u.job[j] = r BY DEF State
<1> HIDE DEF u
<1>6. u \in State /\ u.scheduler \in SchedulerObject BY <1>4 DEF Touching, State
<1>7. c \in SchedulerObject /\ SameScheduling(c, u.scheduler)
  BY <1>6 DEF SchedulerObject, SameScheduling
<1> HIDE DEF c
<1>8. v \in State /\ v.job = u.job /\ v.queue = u.queue /\ v.scheduler = c
  BY <1>6, <1>7 DEF State
<1>9. v \in Touching(u, {j}) BY <1>7, <1>8 DEF Touching, SameDuties
<1> HIDE DEF v
<1> QED BY <1>2, <1>3, <1>4, <1>5, <1>8, <1>9, TouchedTwice, NotTouched

LEMMA StatusAfter ==
  ASSUME NEW s, NEW j \in Jobs, NEW status \in JobStatus, NEW u \in Touching(s, {j})
  PROVE  /\ SetStatusQuiet(u, j, status) \in Touching(s, {j})
         /\ SetStatusQuiet(u, j, status).job[j].status = status
<1>1. u \in State BY DEF Touching
<1>2. /\ SetStatusQuiet(u, j, status) \in Touching(u, {j})
      /\ SetStatusQuiet(u, j, status).job[j].status = status
  BY <1>1, SetStatusTouches
<1> QED BY <1>2, TouchedTwice

LEMMA KioTouches ==
  ASSUME NEW s \in State, NEW j \in Jobs
  PROVE  /\ KioStart(s, j) \in Touching(s, {j})
         /\ KioStop(s, j) \in Touching(s, {j})
         /\ ~s.job[j].moving /\ s.job[j].status # "Finished"
                => KioStart(s, j).job[j].status = "Running"
         /\ KioStop(s, j).job[j].status =
                IF s.job[j].status = "Finished" THEN "Finished" ELSE "Stopped"
<1> DEFINE r == s.job[j]
           goes == [s EXCEPT !.job[j] = OwnFields(r, "ready", r.startTried, r.speed)]
           ends == [s EXCEPT !.job[j] = OwnFields(r, "none", r.startTried, FALSE)]
<1>1. /\ r \in Job /\ r.startTried \in BOOLEAN /\ r.speed \in BOOLEAN
      /\ {"none", "ready"} \subseteq Worker
  BY FieldTypes DEF State, Worker
<1>2. [s EXCEPT !.job[j].worker = "ready"] = goes BY <1>1, ZenonT(60) DEF State, OwnFields, Job
<1>3. [s EXCEPT !.job[j].worker = "none", !.job[j].speed = FALSE] = ends
  BY <1>1, ZenonT(60) DEF State, OwnFields, Job
<1>4. goes \in Touching(s, {j}) BY <1>1, OwnFieldsTouched
<1>5. ends \in Touching(s, {j}) BY <1>1, OwnFieldsTouched
<1> HIDE DEF goes, ends
<1>6. /\ SetStatusQuiet(goes, j, "Running") \in Touching(s, {j})
      /\ SetStatusQuiet(goes, j, "Running").job[j].status = "Running"
  BY <1>4, StatusAfter DEF JobStatus
<1>7. /\ SetStatusQuiet(ends, j, "Stopped") \in Touching(s, {j})
      /\ SetStatusQuiet(ends, j, "Stopped").job[j].status = "Stopped"
  BY <1>5, StatusAfter DEF JobStatus
<1> QED BY <1>2, <1>3, <1>6, <1>7, NotTouched DEF KioStart, KioStop, r

LEMMA MultiTouches ==
  ASSUME NEW s \in State, NEW j \in Jobs
  PROVE  /\ MultiStart(s, j) \in Touching(s, {j})
         /\ MultiStop(s, j) \in Touching(s, {j})
         /\ MultiStop(s, j).job[j].status \in {"Stopped", "Finished"} \/ s.job[j].moving
<1> DEFINE r == s.job[j]
           goes == [s EXCEPT !.job[j] = OwnFields(r, r.worker, FALSE, r.speed)]
           waits == [s EXCEPT !.job[j] = OwnFields(r, "pending", TRUE, r.speed)]
           fails == [s EXCEPT !.job[j] = OwnFields(r, r.worker, TRUE, FALSE)]
           ends == [s EXCEPT !.job[j] = OwnFields(r, r.worker, FALSE, FALSE)]
<1>1. /\ r \in Job /\ r.worker \in Worker /\ r.speed \in BOOLEAN /\ "pending" \in Worker
  BY FieldTypes DEF State, Worker
<1>2. [s EXCEPT !.job[j].startTried = FALSE] = goes
  BY <1>1, ZenonT(60) DEF State, OwnFields, Job
<1>3. [s EXCEPT !.job[j].startTried = TRUE, !.job[j].worker = "pending"] = waits
  BY <1>1, ZenonT(60) DEF State, OwnFields, Job
<1>4. [s EXCEPT !.job[j].startTried = TRUE, !.job[j].speed = FALSE] = fails
  BY <1>1, ZenonT(60) DEF State, OwnFields, Job
<1>5. [s EXCEPT !.job[j].startTried = FALSE, !.job[j].speed = FALSE] = ends
  BY <1>1, ZenonT(60) DEF State, OwnFields, Job
<1>6. goes \in Touching(s, {j}) BY <1>1, OwnFieldsTouched
<1>7. waits \in Touching(s, {j}) BY <1>1, OwnFieldsTouched
<1>8. fails \in Touching(s, {j}) BY <1>1, OwnFieldsTouched
<1>9. ends \in Touching(s, {j}) BY <1>1, OwnFieldsTouched
<1> HIDE DEF goes, waits, fails, ends
<1>10. SetStatusQuiet(goes, j, "Running") \in Touching(s, {j})
  BY <1>6, StatusAfter DEF JobStatus
<1>11. SetStatusQuiet(fails, j, "Aborted") \in Touching(s, {j})
  BY <1>8, StatusAfter DEF JobStatus
<1>12. /\ SetStatusQuiet(ends, j, "Stopped") \in Touching(s, {j})
       /\ SetStatusQuiet(ends, j, "Stopped").job[j].status = "Stopped"
  BY <1>9, StatusAfter DEF JobStatus
<1> QED BY <1>2, <1>3, <1>4, <1>5, <1>7, <1>10, <1>11, <1>12, NotTouched
        DEF MultiStart, MultiStop, FactoryStart, FactoryStop, r

LEMMA BtTouches ==
  ASSUME NEW s \in State, NEW j \in Jobs
  PROVE  /\ BtStart(s, j) \in Touching(s, {j})
         /\ BtStop(s, j) \in Touching(s, {j})
         /\ \/ BtStop(s, j).job[j].status = "Stopped"
            \/ s.job[j].moving \/ s.job[j].worker # "ready"
<1> DEFINE Initialised(t) == [t EXCEPT !.job[j] = OwnFields(t.job[j], "ready", t.job[j].startTried,
                                                            t.job[j].speed)]
           Fails(t, type) == [SetStatusQuiet(t, j, "Aborted") EXCEPT !.job[j].error = type]
           stopped == SetStatusQuiet(s, j, "Stopped")
<1>1. ASSUME NEW t \in State
      PROVE  /\ t.job[j] \in Job /\ t.job[j].worker \in Worker
             /\ t.job[j].startTried \in BOOLEAN /\ t.job[j].speed \in BOOLEAN
             /\ t.job[j].obstacle \in Obstacle
  BY FieldTypes DEF State
<1>2. ASSUME NEW t \in State PROVE StartTorrent(t, j) \in Touching(t, {j})
  BY SetStatusTouches DEF StartTorrent, JobStatus
<1>3. ASSUME NEW t \in State, NEW type \in ErrorType PROVE Fails(t, type) \in Touching(t, {j})
  <2> DEFINE u == SetStatusQuiet(t, j, "Aborted")
             r == [u.job[j] EXCEPT !.error = type]
  <2>1. u \in Touching(t, {j}) BY SetStatusTouches DEF JobStatus
  <2> HIDE DEF u
  <2>2. u \in State /\ u.job[j] \in Job BY <2>1 DEF Touching, State
  <2>3. r \in Job /\ SameDuties(r, u.job[j]) BY <2>2 DEF Job, SameDuties
  <2>4. [u EXCEPT !.job[j].error = type] = [u EXCEPT !.job[j] = r] BY <2>2 DEF State
  <2> HIDE DEF r
  <2>5. [u EXCEPT !.job[j].error = type] \in Touching(u, {j})
    BY <2>2, <2>3, <2>4, JobTouched
  <2>6. [u EXCEPT !.job[j].error = type] \in Touching(t, {j}) BY <2>1, <2>5, TouchedTwice
  <2> QED BY <2>6 DEF u
<1>4. stopped \in Touching(s, {j}) /\ stopped \in State
  BY SetStatusTouches DEF JobStatus, Touching
<1> HIDE DEF stopped, Fails
<1>5. Initialised(stopped) \in Touching(stopped, {j}) /\ Initialised(stopped) \in State
  <2>1. Initialised(stopped) \in Touching(stopped, {j})
    BY <1>1, <1>4, OwnFieldsTouched DEF Worker
  <2> QED BY <2>1 DEF Touching
<1>6. [stopped EXCEPT !.job[j].worker = "ready"] = Initialised(stopped)
  <2>1. stopped.job[j] \in Job BY <1>1, <1>4
  <2> QED BY <1>4, <2>1, ZenonT(60) DEF State, OwnFields, Job
<1> HIDE DEF Init
<1>7. TorrentInit(s, j) \in Touching(s, {j})
  <2>1. /\ Fails(s, "NotSolveable") \in Touching(s, {j})
        /\ Fails(stopped, "NotSolveable") \in Touching(s, {j})
        /\ Fails(stopped, "AutomaticRetry") \in Touching(s, {j})
    BY <1>3, <1>4, TouchedTwice DEF ErrorType
  <2>2. StartTorrent(Initialised(stopped), j) \in Touching(s, {j})
    BY <1>2, <1>4, <1>5, TouchedTwice
  <2>3. TorrentInit(s, j) \in {Fails(s, "NotSolveable"), Fails(stopped, "NotSolveable"),
                               Fails(stopped, "AutomaticRetry"),
                               StartTorrent(Initialised(stopped), j)}
    BY <1>1, <1>6 DEF TorrentInit, Obstacle, Fails, stopped
  <2> QED BY <2>1, <2>2, <2>3
<1> DEFINE r == s.job[j]
           asks == [s EXCEPT !.job[j] = OwnFields(r, r.worker, TRUE, r.speed)]
           ends == [s EXCEPT !.job[j] = OwnFields(r, r.worker, r.startTried, FALSE)]
<1>8. /\ [s EXCEPT !.job[j].startTried = TRUE] = asks
      /\ [s EXCEPT !.job[j].speed = FALSE] = ends
  <2>1. r \in Job BY <1>1
  <2>2. [s EXCEPT !.job[j].startTried = TRUE] = asks
    BY <2>1, ZenonT(60) DEF State, OwnFields, Job
  <2>3. [s EXCEPT !.job[j].speed = FALSE] = ends
    BY <2>1, ZenonT(60) DEF State, OwnFields, Job
  <2> QED BY <2>2, <2>3
<1>9. asks \in Touching(s, {j}) /\ ends \in Touching(s, {j})
  <2>1. r.worker \in Worker /\ r.speed \in BOOLEAN /\ r.startTried \in BOOLEAN BY <1>1
  <2>2. asks \in Touching(s, {j}) BY <2>1, OwnFieldsTouched
  <2>3. ends \in Touching(s, {j}) BY <2>1, OwnFieldsTouched
  <2> QED BY <2>2, <2>3
<1> HIDE DEF asks, ends
<1>10. SetStatusQuiet(asks, j, "Stopped") \in Touching(s, {j})
  BY <1>9, StatusAfter DEF JobStatus
<1>11. /\ SetStatusQuiet(ends, j, "Stopped") \in Touching(s, {j})
       /\ SetStatusQuiet(ends, j, "Stopped").job[j].status = "Stopped"
  BY <1>9, StatusAfter DEF JobStatus
<1>12. BtStart(s, j) \in {s, StartTorrent(s, j), TorrentInit(s, j),
                          SetStatusQuiet(asks, j, "Stopped")}
  BY <1>1, <1>8 DEF BtStart, Worker
<1>13. BtStart(s, j) \in Touching(s, {j}) BY <1>2, <1>7, <1>10, <1>12, NotTouched
<1> QED BY <1>8, <1>11, <1>13, NotTouched DEF BtStop

(* A job that is stopped is not active any more, unless its file moves. *)
LEMMA StartsAndStopsTouch ==
  ASSUME NEW s \in InOrder, NEW j \in Jobs
  PROVE  /\ StartQuiet(s, j) \in Touching(s, {j})
         /\ StopQuiet(s, j) \in Touching(s, {j})
         /\ ~Active(StopQuiet(s, j), j) \/ StopQuiet(s, j).job[j].moving
<1>1. s \in State /\ Kind[j] \in PluginKind /\ Consistent(j, s.job[j])
  BY KindAssumption DEF InOrder
<1>2. CASE Kind[j] = "kio"
  BY <1>1, <1>2, KioTouches DEF StartQuiet, StopQuiet, Active
<1>3. CASE Kind[j] = "multiseg"
  <2>1. MultiStop(s, j).job[j].moving = s.job[j].moving
    BY <1>1, MultiTouches DEF Touching, SameDuties
  <2> QED BY <1>1, <1>3, <2>1, MultiTouches DEF StartQuiet, StopQuiet, Active
<1>4. CASE Kind[j] = "bt"
  <2>1. BtStop(s, j).job[j].moving = s.job[j].moving
    BY <1>1, BtTouches DEF Touching, SameDuties
  <2>2. s.job[j].worker # "ready" => BtStop(s, j) = s /\ ~Active(s, j)
    BY <1>1, <1>4 DEF BtStop, Consistent, Active
  <2> QED BY <1>1, <1>4, <2>1, <2>2, BtTouches DEF StartQuiet, StopQuiet, Active
<1> QED BY <1>1, <1>2, <1>3, <1>4 DEF PluginKind

-----------------------------------------------------------------------------
(* The walk of updateQueue over the jobs of a queue *)

WalkState(base) == [s : SameLists(base), running : Nat, waiting : Nat]

LEMMA EvaluateStays ==
  ASSUME NEW base, NEW w \in WalkState(base), NEW j \in Jobs
  PROVE  Evaluate(w, j) \in WalkState(base)
<1>1. w.s \in SameLists(base) /\ w.running \in Nat /\ w.waiting \in Nat
  BY DEF WalkState
<1>2. StartQuiet(w.s, j) \in SameLists(base) /\ StopQuiet(w.s, j) \in SameLists(base)
  BY <1>1, StartAndStopStay
<1>3. ASSUME NEW v \in WalkState(base), NEW waits \in BOOLEAN
      PROVE  Counted(v, waits) \in WalkState(base)
  BY DEF WalkState, Counted
<1>4. ASSUME NEW t \in SameLists(base) PROVE [w EXCEPT !.s = t] \in WalkState(base)
  BY DEF WalkState
<1>5. [w EXCEPT !.s = StopQuiet(w.s, j)] \in WalkState(base) BY <1>2, <1>4
<1>6. Failing(w.s, j) \in BOOLEAN BY DEF Failing
<1>7. Counted(w, Failing(w.s, j)) \in WalkState(base) BY <1>3, <1>6
<1>8. Counted([w EXCEPT !.s = StartQuiet(w.s, j)],
              \/ Failing(w.s, j)
              \/ StartQuiet(w.s, j).job[j].status = "FinishedKeepAlive")
          \in WalkState(base)
  BY <1>2, <1>3, <1>4, <1>6
<1> QED BY <1>5, <1>7, <1>8 DEF Evaluate

(* The walk, one job after the other *)
LEMMA WalkLoop ==
  ASSUME NEW base, NEW s \in SameLists(base), NEW jobs \in Seq(Jobs)
  PROVE  \E walk : /\ walk[0] = WalkStart(s) /\ Walk(s, jobs) = walk[Len(jobs)]
                   /\ \A n \in 1 .. Len(jobs) : walk[n] = Evaluate(walk[n - 1], jobs[n])
                   /\ \A n \in 0 .. Len(jobs) : walk[n] \in WalkState(base)
<1> DEFINE N == Len(jobs)
           S == WalkState(base)
           Loop(f) == f = [n \in 0 .. N |-> IF n = 0 THEN WalkStart(s)
                                            ELSE Evaluate(f[n - 1], jobs[n])]
           walk == CHOOSE f : Loop(f)
           step == [p \in S \X (1 .. N) |-> Evaluate(p[1], jobs[p[2]])]
<1>1. N \in Nat /\ WalkStart(s) \in S BY DEF WalkState, WalkStart
<1>2. \A w \in S, n \in 1 .. N : Evaluate(w, jobs[n]) \in S BY EvaluateStays
<1>3. Walk(s, jobs) = walk[N] BY DEF Walk
<1> HIDE DEF N, S
<1>4. step \in [S \X (1 .. N) -> S] BY <1>2
<1>5. \A w \in S, n \in 1 .. N : step[<<w, n>>] = Evaluate(w, jobs[n]) OBVIOUS
<1> HIDE DEF step
<1>6. Iterations(S, WalkStart(s), N, step) # {} BY <1>1, <1>4, IterationsExist
<1>7. PICK g : Loop(g)
  <2>1. PICK g \in Iterations(S, WalkStart(s), N, step) : TRUE BY <1>6
  <2>2. \A n \in 1 .. N : n - 1 \in 0 .. N BY <1>1
  <2>3. \A n \in 1 .. N : g[n] = Evaluate(g[n - 1], jobs[n])
    BY <1>5, <2>2 DEF Iterations
  <2>4. Loop(g) BY <1>1, <2>3 DEF Iterations
  <2> QED BY <2>4
<1>8. Loop(walk) BY <1>7
<1> HIDE DEF walk
<1>9. walk[0] = WalkStart(s) BY <1>1, <1>8
<1>10. \A n \in 1 .. N : walk[n] = Evaluate(walk[n - 1], jobs[n]) BY <1>1, <1>8
<1>11. \A n \in 0 .. N : walk[n] \in S BY <1>1, <1>2, <1>9, <1>10, IterationsStay
<1> QED BY <1>3, <1>9, <1>10, <1>11 DEF S, N

LEMMA WalkStays ==
  ASSUME NEW base, NEW s \in SameLists(base), NEW jobs \in Seq(Jobs)
  PROVE  Walk(s, jobs) \in WalkState(base)
<1>1. Len(jobs) \in Nat /\ Len(jobs) \in 0 .. Len(jobs) OBVIOUS
<1> QED BY <1>1, WalkLoop

LEMMA Lists ==
  ASSUME NEW base, NEW s \in SameLists(base), NEW q \in Queues
  PROVE  s.queue[q].jobs \in Seq(Jobs)
BY DEF SameLists, InOrder, State, JobQueue

LEMMA UpdateQueueStays ==
  ASSUME NEW base, NEW s \in SameLists(base), NEW q \in Queues
  PROVE  updateQueue(s, q) \in SameLists(base)
<1>1. Walk(s, s.queue[q].jobs) \in WalkState(base) BY Lists, WalkStays
<1> QED BY <1>1 DEF updateQueue, WalkState

LEMMA Distinct ==
  ASSUME NEW list \in Seq(Jobs)
  PROVE  /\ ToSet(list) = {list[i] : i \in 1 .. Len(list)}
         /\ IsInjective(list) <=> \A m, n \in 1 .. Len(list) : list[m] = list[n] => m = n
BY LenProperties DEF ToSet, IsInjective

LEMMA EvaluateTouches ==
  ASSUME NEW base, NEW w \in WalkState(base), NEW j \in Jobs
  PROVE  Evaluate(w, j).s \in Touching(w.s, {j})
<1>1. w.s \in InOrder /\ w.s \in State BY DEF WalkState, SameLists, InOrder
<1>2. ASSUME NEW t, NEW waits PROVE Counted([w EXCEPT !.s = t], waits).s = t
  BY DEF Counted, WalkState
<1>3. ASSUME NEW waits PROVE Counted(w, waits).s = w.s BY DEF Counted, WalkState
<1>4. [w EXCEPT !.s = StopQuiet(w.s, j)].s = StopQuiet(w.s, j) BY DEF WalkState
<1>5. Evaluate(w, j).s \in {w.s, StartQuiet(w.s, j), StopQuiet(w.s, j)}
  BY <1>2, <1>3, <1>4 DEF Evaluate
<1> QED BY <1>1, <1>5, StartsAndStopsTouch, NotTouched

LEMMA SameListsOfItself ==
  ASSUME NEW s \in InOrder
  PROVE  s \in SameLists(s)
BY DEF SameLists

LEMMA UpdateTouches ==
  ASSUME NEW s \in InOrder, NEW q \in Queues
  PROVE  updateQueue(s, q) \in Touching(s, ToSet(s.queue[q].jobs))
<1> DEFINE jobs == s.queue[q].jobs
           N == Len(jobs)
           T == {w \in WalkState(s) : w.s \in Touching(s, ToSet(jobs))}
<1>1. s \in SameLists(s) /\ s \in State BY SameListsOfItself DEF InOrder
<1>2. jobs \in Seq(Jobs) /\ ToSet(jobs) = {jobs[i] : i \in 1 .. N} BY <1>1, Lists, Distinct
<1>3. PICK walk : /\ walk[0] = WalkStart(s) /\ Walk(s, jobs) = walk[N]
                  /\ \A n \in 1 .. N : walk[n] = Evaluate(walk[n - 1], jobs[n])
                  /\ \A n \in 0 .. N : walk[n] \in WalkState(s)
  BY <1>1, <1>2, WalkLoop
<1>4. N \in Nat /\ \A n \in 1 .. N : jobs[n] \in Jobs BY <1>2
<1> HIDE DEF jobs, N
<1>5. walk[0] \in T
  <2>1. walk[0] \in WalkState(s) BY <1>3, <1>4
  <2>2. walk[0].s = s BY <1>3 DEF WalkStart
  <2> QED BY <1>1, <2>1, <2>2, NotTouched
<1>6. ASSUME NEW n \in 1 .. N, walk[n - 1] \in T PROVE walk[n] \in T
  <2>1. walk[n].s \in Touching(walk[n - 1].s, {jobs[n]})
    BY <1>3, <1>4, <1>6, EvaluateTouches
  <2>2. {jobs[n]} \subseteq ToSet(jobs) BY <1>2
  <2>3. walk[n].s \in Touching(s, ToSet(jobs)) BY <1>6, <2>1, <2>2, TouchedTwice
  <2>4. walk[n] \in WalkState(s) BY <1>3, <1>4
  <2> QED BY <2>3, <2>4
<1> HIDE DEF T
<1>7. walk[N] \in T BY <1>4, <1>5, <1>6, IterationsStay
<1>8. Walk(s, jobs).s \in Touching(s, ToSet(jobs)) BY <1>3, <1>7 DEF T
<1> QED BY <1>1, <1>8, NotTouched DEF updateQueue, jobs

(* The loops over lists, and what they go through *)
UpdatedQueues(s, list) == ForEach(updateQueue, s, list)

LEMMA UpdateAllLoop ==
  ASSUME NEW base, NEW s \in SameLists(base), NEW list \in Seq(Queues)
  PROVE  \E after : /\ after[0] = s /\ UpdatedQueues(s, list) = after[Len(list)]
                    /\ \A n \in 1 .. Len(list) : after[n] = updateQueue(after[n - 1], list[n])
                    /\ \A n \in 0 .. Len(list) : after[n] \in SameLists(base)
<1> DEFINE N == Len(list)
           S == SameLists(base)
           Loop(f) == f = [n \in 0 .. N |-> IF n = 0 THEN s ELSE updateQueue(f[n - 1], list[n])]
           after == CHOOSE f : Loop(f)
           step == [p \in S \X (1 .. N) |-> updateQueue(p[1], list[p[2]])]
<1>1. N \in Nat /\ s \in S OBVIOUS
<1>2. \A t \in S, n \in 1 .. N : updateQueue(t, list[n]) \in S BY UpdateQueueStays
<1>3. UpdatedQueues(s, list) = after[N] BY DEF UpdatedQueues, ForEach
<1> HIDE DEF N, S
<1>4. step \in [S \X (1 .. N) -> S] BY <1>2
<1>5. \A t \in S, n \in 1 .. N : step[<<t, n>>] = updateQueue(t, list[n]) OBVIOUS
<1> HIDE DEF step
<1>6. Iterations(S, s, N, step) # {} BY <1>1, <1>4, IterationsExist
<1>7. PICK g : Loop(g)
  <2>1. PICK g \in Iterations(S, s, N, step) : TRUE BY <1>6
  <2>2. \A n \in 1 .. N : n - 1 \in 0 .. N BY <1>1
  <2>3. \A n \in 1 .. N : g[n] = updateQueue(g[n - 1], list[n]) BY <1>5, <2>2 DEF Iterations
  <2>4. Loop(g) BY <1>1, <2>3 DEF Iterations
  <2> QED BY <2>4
<1>8. Loop(after) BY <1>7
<1> HIDE DEF after
<1>9. after[0] = s BY <1>1, <1>8
<1>10. \A n \in 1 .. N : after[n] = updateQueue(after[n - 1], list[n]) BY <1>1, <1>8
<1>11. \A n \in 0 .. N : after[n] \in S BY <1>1, <1>2, <1>9, <1>10, IterationsStay
<1> QED BY <1>3, <1>9, <1>10, <1>11 DEF S, N

LEMMA UpdateAllStays ==
  ASSUME NEW base, NEW s \in SameLists(base), NEW list \in Seq(Queues)
  PROVE  UpdatedQueues(s, list) \in SameLists(base)
<1>1. Len(list) \in Nat /\ Len(list) \in 0 .. Len(list) OBVIOUS
<1> QED BY <1>1, UpdateAllLoop

-----------------------------------------------------------------------------
(* The events the scheduler hears of *)

LEMMA AnnounceStays ==
  ASSUME NEW base, NEW s, NEW t \in SameLists(base), NEW j \in Jobs
  PROVE  Announce(s, t, j) \in SameLists(base)
<1>1. t.job[j].queue \in Queues BY Objects DEF Job
<1> QED BY <1>1, UpdateQueueStays DEF Announce

LEMMA StartsAndStopsStay ==
  ASSUME NEW base, NEW s \in SameLists(base), NEW j \in Jobs
  PROVE  start(s, j) \in SameLists(base) /\ stop(s, j) \in SameLists(base)
BY StartAndStopStay, AnnounceStays DEF start, stop

(* A status by which the job is in order *)
LEMMA SetStatusStays ==
  ASSUME NEW base, NEW j \in Jobs, NEW s \in Writing(base, j), NEW status \in JobStatus,
         \A r \in Job : /\ r.status = status /\ r.worker = s.job[j].worker
                        /\ r.moving = s.job[j].moving /\ r.obstacle = s.job[j].obstacle
                        => Consistent(j, r)
  PROVE  setStatus(s, j, status) \in SameLists(base)
<1>1. SetStatusQuiet(s, j, status) \in SameLists(base) BY StatusStays
<1> QED BY <1>1, AnnounceStays DEF setStatus

LEMMA SetStatusSpares ==
  ASSUME NEW s \in State, NEW j \in Jobs, NEW status \in JobStatus,
         SetStatusQuiet(s, j, status) \in InOrder
  PROVE  setStatus(s, j, status) \in Touching(s, Jobs)
<1> DEFINE t == SetStatusQuiet(s, j, status)
<1>1. t \in Touching(s, {j}) BY SetStatusTouches
<1> HIDE DEF t
<1>2. t \in Touching(s, Jobs) BY <1>1 DEF Touching
<1>3. t \in InOrder /\ t.job[j].queue \in Queues
  <2>1. t.job[j] \in Job BY <1>1 DEF Touching, State
  <2> QED BY <2>1, FieldTypes DEF t
<1>4. updateQueue(t, t.job[j].queue) \in Touching(s, Jobs)
  <2> DEFINE q == t.job[j].queue
  <2>1. ToSet(t.queue[q].jobs) \subseteq Jobs
    <3>1. t.queue[q].jobs \in Seq(Jobs) BY <1>3, Lists, SameListsOfItself
    <3> QED BY <3>1, Distinct
  <2> QED BY <1>2, <1>3, <2>1, UpdateTouches, TouchedTwice
<1> QED BY <1>2, <1>4 DEF setStatus, Announce, t

(* The errors of torrents *)
LEMMA SetErrorStays ==
  ASSUME NEW base, NEW j \in Jobs, NEW s \in SameLists(base), NEW type \in ErrorType,
         Kind[j] = "bt"
  PROVE  setError(s, j, type) \in SameLists(base)
<1>1. s \in Writing(base, j) /\ s.job[j] \in Job /\ Consistent(j, s.job[j])
  BY Objects, InOrderWhileWriting
<1>2. \A r \in Job : /\ r.status = "Aborted" /\ r.worker = s.job[j].worker
                     /\ r.moving = s.job[j].moving /\ r.obstacle = s.job[j].obstacle
                     => Consistent(j, r)
  BY <1>1 DEF Consistent
<1>3. setStatus(s, j, "Aborted") \in SameLists(base)
  BY <1>1, <1>2, SetStatusStays DEF JobStatus
<1> QED BY <1>3, ErrorWritten DEF setError

LEMMA SetPolicyStays ==
  ASSUME NEW base, NEW s \in SameLists(base), NEW j \in Jobs, NEW policy \in Policy
  PROVE  setPolicy(s, j, policy) \in SameLists(base)
<1> DEFINE r == [s.job[j] EXCEPT !.policy = policy]
           u == [s EXCEPT !.job[j] = r]
<1>1. /\ s.job[j] \in Job /\ s.job[j].queue \in Queues /\ Consistent(j, s.job[j])
      /\ s \in Writing(base, j)
  BY Objects, FieldTypes, InOrderWhileWriting
<1>2. /\ r \in Job /\ r.queue = s.job[j].queue
      /\ r.status = s.job[j].status /\ r.worker = s.job[j].worker
      /\ r.moving = s.job[j].moving /\ r.obstacle = s.job[j].obstacle
  <2> HIDE DEF u
  <2> QED BY <1>1 DEF Job
<1>3. u \in SameLists(base)
  <2> HIDE DEF r
  <2>1. Consistent(j, r) BY <1>1, <1>2 DEF Consistent
  <2> QED BY <1>1, <1>2, <2>1, JobWritten
<1>4. [s EXCEPT !.job[j].policy = policy] = u BY DEF SameLists, InOrder, State
<1> HIDE DEF u
<1>5. updateQueue(u, s.job[j].queue) \in SameLists(base) BY <1>1, <1>3, UpdateQueueStays
<1> QED BY <1>4, <1>5 DEF setPolicy

LEMMA HandlerStopStays ==
  ASSUME NEW base, NEW s \in SameLists(base), NEW j \in Jobs
  PROVE  handlerStop(s, j) \in SameLists(base)
BY SetPolicyStays DEF handlerStop, Policy

-----------------------------------------------------------------------------
(* The failure timer *)

LEMMA CountIsNatural ==
  ASSUME NEW n \in Nat
  PROVE  Count(n) \in Nat
<1>1. RetryPeriod \in Nat \ {0} /\ ReconnectRetries \in Nat BY TimesAssumption
<1>2. CASE n <= ReconnectRetries BY <1>2 DEF Count
<1>3. CASE ~(n <= ReconnectRetries)
  <2>1. n - ReconnectRetries - 1 \in Int BY <1>1
  <2>2. (n - ReconnectRetries - 1) % RetryPeriod \in Nat BY <1>1, <2>1
  <2> QED BY <1>1, <1>3, <2>2 DEF Count
<1> QED BY <1>2, <1>3

LEMMA NextFailureTyped ==
  ASSUME NEW base, NEW s \in SameLists(base), NEW j \in Jobs
  PROVE  NextFailure(s, j) \in Failure
<1> DEFINE f == s.scheduler.failed[j]
<1>1. f \in Failure BY Objects DEF SchedulerObject
<1> HIDE DEF f
<1>2. f.status \in FailureStatus /\ f.time \in Int /\ f.count \in Nat BY <1>1 DEF Failure
<1>3. StallTime \in Nat /\ ReconnectDelay \in Nat BY TimesAssumption
<1>4. /\ Count(f.count + 1) \in Nat
      /\ Count(f.count + 2) \in Nat
  BY <1>2, CountIsNatural
<1>5. Stalled(f) \in Failure
  <2>1. [status |-> "AboutToStall", time |-> 0, count |-> 0] \in Failure
    BY DEF Failure, FailureStatus
  <2>2. [status |-> "StallTimeout", time |-> StallTime, count |-> Count(f.count + 1)]
            \in Failure
    BY <1>3, <1>4 DEF Failure, FailureStatus
  <2>3. ASSUME NEW time \in Int, NEW status \in FailureStatus
        PROVE  [f EXCEPT !.time = time, !.status = status] \in Failure
    BY <1>1 DEF Failure
  <2>4. f.time + 1 \in Int /\ {"Stall", "AboutToStall"} \subseteq FailureStatus
    BY <1>2 DEF FailureStatus
  <2>5. [f EXCEPT !.time = f.time + 1,
                  !.status = IF f.time + 1 >= StallTime THEN "Stall" ELSE "AboutToStall"]
            \in Failure
    BY <2>3, <2>4
  <2> QED BY <2>1, <2>2, <2>5 DEF Stalled
<1>6. \A error : Aborted(f, error) \in Failure
  <2>1. [f EXCEPT !.status = "Error"] \in Failure BY <1>1 DEF Failure, FailureStatus
  <2>2. [status |-> "Abort", time |-> 0, count |-> 0] \in Failure
    BY DEF Failure, FailureStatus
  <2>3. [status |-> "AbortTimeout", time |-> 0, count |-> Count(f.count + 2)] \in Failure
    BY <1>4 DEF Failure, FailureStatus
  <2>4. ASSUME NEW time \in Int, NEW count \in Nat
        PROVE  [f EXCEPT !.time = time, !.count = count] \in Failure
    BY <1>1 DEF Failure
  <2>5. [f EXCEPT !.time = f.time + 1, !.count = Count(f.count + 1)] \in Failure
    <3>1. f.time + 1 \in Int BY <1>2
    <3> QED BY <1>4, <2>4, <3>1
  <2> QED BY <2>1, <2>2, <2>3, <2>5 DEF Aborted
<1>7. NoFailure \in Failure BY DEF NoFailure, Failure, FailureStatus
<1> QED BY <1>1, <1>5, <1>6, <1>7 DEF NextFailure, f

LEMMA CheckJobStays ==
  ASSUME NEW base, NEW s \in SameLists(base), NEW j \in Jobs
  PROVE  CheckJob(s, j) \in SameLists(base)
<1> DEFINE f == NextFailure(s, j)
           entry == IF IsValid(f) THEN f ELSE NoFailure
           c == [s.scheduler EXCEPT !.failed[j] = entry]
           t == [s EXCEPT !.scheduler.failed[j] = entry]
<1>1. f \in Failure BY NextFailureTyped
<1> HIDE DEF f
<1>2. entry \in Failure BY <1>1 DEF NoFailure, Failure, FailureStatus
<1> HIDE DEF entry
<1>3. c \in SchedulerObject BY <1>2, Objects DEF SchedulerObject
<1>4. t = [s EXCEPT !.scheduler = c] BY DEF SameLists, InOrder, State
<1>5. t \in SameLists(base) BY <1>3, <1>4, SchedulerWritten
<1> HIDE DEF t
<1>6. t.job[j].queue \in Queues BY <1>5, Objects DEF Job
<1>7. /\ handlerStop(t, j) \in SameLists(base)
      /\ stop(t, j) \in SameLists(base)
      /\ updateQueue(t, t.job[j].queue) \in SameLists(base)
  BY <1>5, <1>6, HandlerStopStays, StartsAndStopsStay, UpdateQueueStays
<1>8. failureEvent(t, j, f) \in SameLists(base) BY <1>7 DEF failureEvent
<1> QED BY <1>5, <1>8 DEF CheckJob, t, entry, f

CheckedJobs(s, list) == ForEach(CheckJob, s, list)

LEMMA CheckJobsLoop ==
  ASSUME NEW base, NEW s \in SameLists(base), NEW list \in Seq(Jobs)
  PROVE  \E after : /\ after[0] = s /\ CheckedJobs(s, list) = after[Len(list)]
                    /\ \A n \in 1 .. Len(list) : after[n] = CheckJob(after[n - 1], list[n])
                    /\ \A n \in 0 .. Len(list) : after[n] \in SameLists(base)
<1> DEFINE N == Len(list)
           S == SameLists(base)
           Loop(f) == f = [n \in 0 .. N |-> IF n = 0 THEN s ELSE CheckJob(f[n - 1], list[n])]
           after == CHOOSE f : Loop(f)
           step == [p \in S \X (1 .. N) |-> CheckJob(p[1], list[p[2]])]
<1>1. N \in Nat /\ s \in S OBVIOUS
<1>2. \A t \in S, n \in 1 .. N : CheckJob(t, list[n]) \in S BY CheckJobStays
<1>3. CheckedJobs(s, list) = after[N] BY DEF CheckedJobs, ForEach
<1> HIDE DEF N, S
<1>4. step \in [S \X (1 .. N) -> S] BY <1>2
<1>5. \A t \in S, n \in 1 .. N : step[<<t, n>>] = CheckJob(t, list[n]) OBVIOUS
<1> HIDE DEF step
<1>6. Iterations(S, s, N, step) # {} BY <1>1, <1>4, IterationsExist
<1>7. PICK g : Loop(g)
  <2>1. PICK g \in Iterations(S, s, N, step) : TRUE BY <1>6
  <2>2. \A n \in 1 .. N : n - 1 \in 0 .. N BY <1>1
  <2>3. \A n \in 1 .. N : g[n] = CheckJob(g[n - 1], list[n]) BY <1>5, <2>2 DEF Iterations
  <2>4. Loop(g) BY <1>1, <2>3 DEF Iterations
  <2> QED BY <2>4
<1>8. Loop(after) BY <1>7
<1> HIDE DEF after
<1>9. after[0] = s BY <1>1, <1>8
<1>10. \A n \in 1 .. N : after[n] = CheckJob(after[n - 1], list[n]) BY <1>1, <1>8
<1>11. \A n \in 0 .. N : after[n] \in S BY <1>1, <1>2, <1>9, <1>10, IterationsStay
<1> QED BY <1>3, <1>9, <1>10, <1>11 DEF S, N

LEMMA CheckJobsStay ==
  ASSUME NEW base, NEW s \in SameLists(base), NEW list \in Seq(Jobs)
  PROVE  CheckedJobs(s, list) \in SameLists(base)
<1>1. Len(list) \in Nat /\ Len(list) \in 0 .. Len(list) OBVIOUS
<1> QED BY <1>1, CheckJobsLoop

LEMMA CheckQueueStays ==
  ASSUME NEW base, NEW s \in SameLists(base), NEW q \in Queues
  PROVE  CheckQueue(s, q) \in SameLists(base)
BY Lists, CheckJobsStay DEF CheckQueue, CheckedJobs

CheckedQueues(s, list) == ForEach(CheckQueue, s, list)

LEMMA CheckQueuesLoop ==
  ASSUME NEW base, NEW s \in SameLists(base), NEW list \in Seq(Queues)
  PROVE  \E after : /\ after[0] = s /\ CheckedQueues(s, list) = after[Len(list)]
                    /\ \A n \in 1 .. Len(list) : after[n] = CheckQueue(after[n - 1], list[n])
                    /\ \A n \in 0 .. Len(list) : after[n] \in SameLists(base)
<1> DEFINE N == Len(list)
           S == SameLists(base)
           Loop(f) == f = [n \in 0 .. N |-> IF n = 0 THEN s ELSE CheckQueue(f[n - 1], list[n])]
           after == CHOOSE f : Loop(f)
           step == [p \in S \X (1 .. N) |-> CheckQueue(p[1], list[p[2]])]
<1>1. N \in Nat /\ s \in S OBVIOUS
<1>2. \A t \in S, n \in 1 .. N : CheckQueue(t, list[n]) \in S BY CheckQueueStays
<1>3. CheckedQueues(s, list) = after[N] BY DEF CheckedQueues, ForEach
<1> HIDE DEF N, S
<1>4. step \in [S \X (1 .. N) -> S] BY <1>2
<1>5. \A t \in S, n \in 1 .. N : step[<<t, n>>] = CheckQueue(t, list[n]) OBVIOUS
<1> HIDE DEF step
<1>6. Iterations(S, s, N, step) # {} BY <1>1, <1>4, IterationsExist
<1>7. PICK g : Loop(g)
  <2>1. PICK g \in Iterations(S, s, N, step) : TRUE BY <1>6
  <2>2. \A n \in 1 .. N : n - 1 \in 0 .. N BY <1>1
  <2>3. \A n \in 1 .. N : g[n] = CheckQueue(g[n - 1], list[n]) BY <1>5, <2>2 DEF Iterations
  <2>4. Loop(g) BY <1>1, <2>3 DEF Iterations
  <2> QED BY <2>4
<1>8. Loop(after) BY <1>7
<1> HIDE DEF after
<1>9. after[0] = s BY <1>1, <1>8
<1>10. \A n \in 1 .. N : after[n] = CheckQueue(after[n - 1], list[n]) BY <1>1, <1>8
<1>11. \A n \in 0 .. N : after[n] \in S BY <1>1, <1>2, <1>9, <1>10, IterationsStay
<1> QED BY <1>3, <1>9, <1>10, <1>11 DEF S, N

LEMMA CheckQueuesStay ==
  ASSUME NEW base, NEW s \in SameLists(base), NEW list \in Seq(Queues)
  PROVE  CheckedQueues(s, list) \in SameLists(base)
<1>1. Len(list) \in Nat /\ Len(list) \in 0 .. Len(list) OBVIOUS
<1> QED BY <1>1, CheckQueuesLoop

LEMMA TimerStays ==
  ASSUME NEW base, NEW s \in SameLists(base)
  PROVE  timerEvent(s) \in SameLists(base)
<1>1. s.scheduler.queues \in Seq(Queues) BY DEF SameLists, InOrder, State, SchedulerObject
<1> QED BY <1>1, CheckQueuesStay DEF timerEvent, CheckedQueues

-----------------------------------------------------------------------------
(* A lost connection stops every job. *)

StoppedJobs(s, list) == ForEach(stop, s, list)

LEMMA StopsLoop ==
  ASSUME NEW base, NEW s \in SameLists(base), NEW list \in Seq(Jobs)
  PROVE  \E after : /\ after[0] = s /\ StoppedJobs(s, list) = after[Len(list)]
                    /\ \A n \in 1 .. Len(list) : after[n] = stop(after[n - 1], list[n])
                    /\ \A n \in 0 .. Len(list) : after[n] \in SameLists(base)
<1> DEFINE N == Len(list)
           S == SameLists(base)
           Loop(f) == f = [n \in 0 .. N |-> IF n = 0 THEN s ELSE stop(f[n - 1], list[n])]
           after == CHOOSE f : Loop(f)
           step == [p \in S \X (1 .. N) |-> stop(p[1], list[p[2]])]
<1>1. N \in Nat /\ s \in S OBVIOUS
<1>2. \A t \in S, n \in 1 .. N : stop(t, list[n]) \in S BY StartsAndStopsStay
<1>3. StoppedJobs(s, list) = after[N] BY DEF StoppedJobs, ForEach
<1> HIDE DEF N, S
<1>4. step \in [S \X (1 .. N) -> S] BY <1>2
<1>5. \A t \in S, n \in 1 .. N : step[<<t, n>>] = stop(t, list[n]) OBVIOUS
<1> HIDE DEF step
<1>6. Iterations(S, s, N, step) # {} BY <1>1, <1>4, IterationsExist
<1>7. PICK g : Loop(g)
  <2>1. PICK g \in Iterations(S, s, N, step) : TRUE BY <1>6
  <2>2. \A n \in 1 .. N : n - 1 \in 0 .. N BY <1>1
  <2>3. \A n \in 1 .. N : g[n] = stop(g[n - 1], list[n]) BY <1>5, <2>2 DEF Iterations
  <2>4. Loop(g) BY <1>1, <2>3 DEF Iterations
  <2> QED BY <2>4
<1>8. Loop(after) BY <1>7
<1> HIDE DEF after
<1>9. after[0] = s BY <1>1, <1>8
<1>10. \A n \in 1 .. N : after[n] = stop(after[n - 1], list[n]) BY <1>1, <1>8
<1>11. \A n \in 0 .. N : after[n] \in S BY <1>1, <1>2, <1>9, <1>10, IterationsStay
<1> QED BY <1>3, <1>9, <1>10, <1>11 DEF S, N

LEMMA StopsStay ==
  ASSUME NEW base, NEW s \in SameLists(base), NEW list \in Seq(Jobs)
  PROVE  StoppedJobs(s, list) \in SameLists(base)
<1>1. Len(list) \in Nat /\ Len(list) \in 0 .. Len(list) OBVIOUS
<1> QED BY <1>1, StopsLoop

LEMMA StopQueueStays ==
  ASSUME NEW base, NEW s \in SameLists(base), NEW q \in Queues
  PROVE  StopQueue(s, q) \in SameLists(base)
BY Lists, StopsStay DEF StopQueue, StoppedJobs

StoppedQueues(s, list) == ForEach(StopQueue, s, list)

LEMMA StopQueuesLoop ==
  ASSUME NEW base, NEW s \in SameLists(base), NEW list \in Seq(Queues)
  PROVE  \E after : /\ after[0] = s /\ StoppedQueues(s, list) = after[Len(list)]
                    /\ \A n \in 1 .. Len(list) : after[n] = StopQueue(after[n - 1], list[n])
                    /\ \A n \in 0 .. Len(list) : after[n] \in SameLists(base)
<1> DEFINE N == Len(list)
           S == SameLists(base)
           Loop(f) == f = [n \in 0 .. N |-> IF n = 0 THEN s ELSE StopQueue(f[n - 1], list[n])]
           after == CHOOSE f : Loop(f)
           step == [p \in S \X (1 .. N) |-> StopQueue(p[1], list[p[2]])]
<1>1. N \in Nat /\ s \in S OBVIOUS
<1>2. \A t \in S, n \in 1 .. N : StopQueue(t, list[n]) \in S BY StopQueueStays
<1>3. StoppedQueues(s, list) = after[N] BY DEF StoppedQueues, ForEach
<1> HIDE DEF N, S
<1>4. step \in [S \X (1 .. N) -> S] BY <1>2
<1>5. \A t \in S, n \in 1 .. N : step[<<t, n>>] = StopQueue(t, list[n]) OBVIOUS
<1> HIDE DEF step
<1>6. Iterations(S, s, N, step) # {} BY <1>1, <1>4, IterationsExist
<1>7. PICK g : Loop(g)
  <2>1. PICK g \in Iterations(S, s, N, step) : TRUE BY <1>6
  <2>2. \A n \in 1 .. N : n - 1 \in 0 .. N BY <1>1
  <2>3. \A n \in 1 .. N : g[n] = StopQueue(g[n - 1], list[n]) BY <1>5, <2>2 DEF Iterations
  <2>4. Loop(g) BY <1>1, <2>3 DEF Iterations
  <2> QED BY <2>4
<1>8. Loop(after) BY <1>7
<1> HIDE DEF after
<1>9. after[0] = s BY <1>1, <1>8
<1>10. \A n \in 1 .. N : after[n] = StopQueue(after[n - 1], list[n]) BY <1>1, <1>8
<1>11. \A n \in 0 .. N : after[n] \in S BY <1>1, <1>2, <1>9, <1>10, IterationsStay
<1> QED BY <1>3, <1>9, <1>10, <1>11 DEF S, N

LEMMA StopQueuesStay ==
  ASSUME NEW base, NEW s \in SameLists(base), NEW list \in Seq(Queues)
  PROVE  StoppedQueues(s, list) \in SameLists(base)
<1>1. Len(list) \in Nat /\ Len(list) \in 0 .. Len(list) OBVIOUS
<1> QED BY <1>1, StopQueuesLoop
-----------------------------------------------------------------------------
(* The lists of the queues: a list has a job once, and what a call adds to it or
   takes from it. *)

Once(list) == list \in Seq(Jobs) /\ IsInjective(list)

LEMMA Appended ==
  ASSUME NEW list, Once(list), NEW j \in Jobs, j \notin ToSet(list)
  PROVE  Once(Append(list, j)) /\ ToSet(Append(list, j)) = ToSet(list) \cup {j}
<1> DEFINE new == Append(list, j)
<1>1. /\ list \in Seq(Jobs) /\ new \in Seq(Jobs) /\ Len(list) \in Nat
      /\ Len(new) = Len(list) + 1
      /\ \A i \in 1 .. Len(list) : new[i] = list[i]
      /\ new[Len(list) + 1] = j
  BY DEF Once
<1> HIDE DEF new
<1>2. \A i \in 1 .. Len(list) : list[i] # j BY <1>1, Distinct
<1>3. \A m, n \in 1 .. Len(list) : list[m] = list[n] => m = n BY <1>1, Distinct DEF Once
<1>4. \A m, n \in 1 .. Len(new) : new[m] = new[n] => m = n BY <1>1, <1>2, <1>3
<1>5. {new[i] : i \in 1 .. Len(new)} = {list[i] : i \in 1 .. Len(list)} \cup {j} BY <1>1
<1>6. Once(new) BY <1>1, <1>4, Distinct DEF Once
<1>7. ToSet(new) = ToSet(list) \cup {j} BY <1>1, <1>5, Distinct
<1> QED BY <1>6, <1>7 DEF new

LEMMA InsertedAt ==
  ASSUME NEW list, Once(list), NEW j \in Jobs, j \notin ToSet(list),
         NEW k \in 1 .. Len(list) + 1
  PROVE  Once(InsertAt(list, k, j)) /\ ToSet(InsertAt(list, k, j)) = ToSet(list) \cup {j}
<1> DEFINE new == InsertAt(list, k, j)
           N == Len(list)
           before == SubSeq(list, 1, k - 1)
           behind == SubSeq(list, k, N)
           head == before \o <<j>>
<1>1. list \in Seq(Jobs) /\ N \in Nat /\ k \in 1 .. N + 1 /\ \A i \in 1 .. N : list[i] \in Jobs
  BY DEF Once
<1>2. /\ before \in Seq(Jobs) /\ Len(before) = k - 1
      /\ \A i \in 1 .. k - 1 : before[i] = list[i]
  BY <1>1, SubSeqProperties
<1>3. /\ behind \in Seq(Jobs) /\ Len(behind) = N - k + 1
      /\ \A i \in 1 .. N - k + 1 : behind[i] = list[k + i - 1]
  BY <1>1, SubSeqProperties
<1>4. <<j>> \in Seq(Jobs) /\ Len(<<j>>) = 1 /\ <<j>>[1] = j OBVIOUS
<1> HIDE DEF before, behind, N
<1>5. /\ head \in Seq(Jobs) /\ Len(head) = k
      /\ \A i \in 1 .. k : head[i] = IF i < k THEN list[i] ELSE j
  BY <1>1, <1>2, <1>4, ConcatProperties
<1>6. /\ new \in Seq(Jobs) /\ Len(new) = N + 1
      /\ \A i \in 1 .. N + 1 : new[i] = IF i < k THEN list[i] ELSE
                                        IF i = k THEN j ELSE list[i - 1]
  <2>1. new = head \o behind BY DEF InsertAt, before, behind, N
  <2> HIDE DEF head, new
  <2>2. /\ new \in Seq(Jobs) /\ Len(new) = N + 1
        /\ \A i \in 1 .. N + 1 : new[i] = IF i <= k THEN head[i] ELSE behind[i - k]
    <3>1. k + (N - k + 1) = N + 1 BY <1>1
    <3>2. Len(head) + Len(behind) = N + 1 BY <1>3, <1>5, <3>1
    <3>3. /\ new \in Seq(Jobs) /\ Len(new) = Len(head) + Len(behind)
          /\ \A i \in 1 .. Len(head) + Len(behind) :
                 new[i] = IF i <= Len(head) THEN head[i] ELSE behind[i - Len(head)]
      BY <1>3, <1>5, <2>1, ConcatProperties
    <3> QED BY <1>5, <3>2, <3>3
  <2>3. ASSUME NEW i \in 1 .. N + 1, i > k PROVE behind[i - k] = list[i - 1]
    <3>1. i - k \in 1 .. N - k + 1 /\ k + (i - k) - 1 = i - 1 BY <1>1, <2>3
    <3> QED BY <1>3, <3>1
  <2> QED BY <1>1, <1>5, <2>2, <2>3, SMTT(60)
<1> HIDE DEF new, head
<1>7. \A i \in 1 .. N : list[i] # j BY <1>1, Distinct DEF N
<1>8. \A m, n \in 1 .. N : list[m] = list[n] => m = n BY <1>1, Distinct DEF Once, N
<1>9. \A m, n \in 1 .. N + 1 : new[m] = new[n] => m = n
  <2> DEFINE old(i) == IF i < k THEN i ELSE i - 1
  <2>1. ASSUME NEW i \in 1 .. N + 1, i # k
        PROVE  old(i) \in 1 .. N /\ new[i] = list[old(i)]
    BY <1>1, <1>6, <2>1
  <2>2. \A m, n \in 1 .. N + 1 : m # k /\ n # k /\ old(m) = old(n) => m = n BY <1>1
  <2>3. new[k] = j BY <1>1, <1>6
  <2> HIDE DEF old
  <2> QED BY <1>7, <1>8, <2>1, <2>2, <2>3
<1>10. {new[i] : i \in 1 .. N + 1} = {list[i] : i \in 1 .. N} \cup {j}
  <2>1. ASSUME NEW i \in 1 .. N
        PROVE  \E m \in 1 .. N + 1 : new[m] = list[i]
    <3>1. CASE i < k BY <1>1, <1>6, <3>1
    <3>2. CASE i >= k
      <4>1. i + 1 \in 1 .. N + 1 /\ i + 1 > k /\ (i + 1) - 1 = i BY <1>1, <3>2
      <4>2. new[i + 1] = list[i] BY <1>1, <1>6, <4>1
      <4> QED BY <4>1, <4>2
    <3> QED BY <1>1, <3>1, <3>2
  <2>2. ASSUME NEW m \in 1 .. N + 1
        PROVE  new[m] = j \/ \E i \in 1 .. N : new[m] = list[i]
    <3>1. m < k => m \in 1 .. N BY <1>1
    <3>2. m > k => m - 1 \in 1 .. N BY <1>1
    <3> QED BY <1>1, <1>6, <3>1, <3>2
  <2>3. k \in 1 .. N + 1 /\ new[k] = j BY <1>1, <1>6
  <2> QED BY <2>1, <2>2, <2>3
<1>11. Once(new) BY <1>6, <1>9, Distinct DEF Once
<1>12. ToSet(new) = ToSet(list) \cup {j} BY <1>1, <1>6, <1>10, Distinct DEF N
<1> QED BY <1>11, <1>12 DEF new

LEMMA RemovedAt ==
  ASSUME NEW list \in Seq(Jobs), NEW k \in 1 .. Len(list)
  PROVE  /\ RemoveAt(list, k) \in Seq(Jobs) /\ Len(RemoveAt(list, k)) = Len(list) - 1
         /\ \A i \in 1 .. Len(list) - 1 :
                RemoveAt(list, k)[i] = IF i < k THEN list[i] ELSE list[i + 1]
<1> DEFINE new == RemoveAt(list, k)
           N == Len(list)
           before == SubSeq(list, 1, k - 1)
           behind == SubSeq(list, k + 1, N)
<1>1. N \in Nat /\ k \in 1 .. N /\ \A i \in 1 .. N : list[i] \in Jobs OBVIOUS
<1>2. /\ before \in Seq(Jobs) /\ Len(before) = k - 1
      /\ \A i \in 1 .. k - 1 : before[i] = list[i]
  BY <1>1, SubSeqProperties
<1>3. /\ behind \in Seq(Jobs) /\ Len(behind) = N - k
      /\ \A i \in 1 .. N - k : behind[i] = list[k + i]
  <2>1. /\ behind \in Seq(Jobs)
        /\ Len(behind) = IF k + 1 <= N THEN N - (k + 1) + 1 ELSE 0
        /\ \A i \in 1 .. N - (k + 1) + 1 : behind[i] = list[(k + 1) + i - 1]
    BY <1>1, SubSeqProperties
  <2> HIDE DEF behind, N
  <2> QED BY <1>1, <2>1
<1>4. new = before \o behind BY DEF RemoveAt
<1> HIDE DEF new, before, behind, N
<1>5. /\ new \in Seq(Jobs) /\ Len(new) = Len(before) + Len(behind)
      /\ \A i \in 1 .. Len(before) + Len(behind) :
             new[i] = IF i <= Len(before) THEN before[i] ELSE behind[i - Len(before)]
  BY <1>2, <1>3, <1>4, ConcatProperties
<1>6. Len(before) + Len(behind) = N - 1 BY <1>1, <1>2, <1>3
<1>7. ASSUME NEW i \in 1 .. N - 1, i >= k PROVE behind[i - (k - 1)] = list[i + 1]
  <2>1. i - (k - 1) \in 1 .. N - k /\ k + (i - (k - 1)) = i + 1 BY <1>1, <1>7
  <2> QED BY <1>3, <2>1
<1>8. ASSUME NEW i \in 1 .. N - 1, i < k PROVE before[i] = list[i]
  <2>1. i \in 1 .. k - 1 BY <1>1, <1>8
  <2> QED BY <1>2, <2>1
<1>9. ASSUME NEW i \in 1 .. N - 1
      PROVE  new[i] = IF i < k THEN before[i] ELSE behind[i - (k - 1)]
  <2>1. i <= k - 1 <=> i < k BY <1>1
  <2> QED BY <1>2, <1>5, <1>6, <2>1
<1>10. Len(new) = N - 1 BY <1>5, <1>6
<1>11. \A i \in 1 .. N - 1 : ~(i < k) => i >= k BY <1>1
<1>12. \A i \in 1 .. N - 1 : new[i] = IF i < k THEN list[i] ELSE list[i + 1]
  BY <1>7, <1>8, <1>9, <1>11
<1> QED BY <1>5, <1>10, <1>12 DEF new, N

LEMMA Removed ==
  ASSUME NEW list, Once(list), NEW k \in 1 .. Len(list)
  PROVE  Once(RemoveAt(list, k)) /\ ToSet(RemoveAt(list, k)) = ToSet(list) \ {list[k]}
<1> DEFINE new == RemoveAt(list, k)
           N == Len(list)
<1>1. list \in Seq(Jobs) /\ N \in Nat /\ k \in 1 .. N /\ \A i \in 1 .. N : list[i] \in Jobs
  BY DEF Once
<1>2. /\ new \in Seq(Jobs) /\ Len(new) = N - 1
      /\ \A i \in 1 .. N - 1 : new[i] = IF i < k THEN list[i] ELSE list[i + 1]
  BY <1>1, RemovedAt
<1> HIDE DEF new, N
<1>3. \A m, n \in 1 .. N : list[m] = list[n] => m = n BY <1>1, Distinct DEF Once, N
<1>4. \A i \in 1 .. N - 1 : i + 1 \in 1 .. N /\ i \in 1 .. N BY <1>1
<1>5. \A m, n \in 1 .. N - 1 : new[m] = new[n] => m = n
  <2> DEFINE old(i) == IF i < k THEN i ELSE i + 1
  <2>1. \A i \in 1 .. N - 1 : old(i) \in 1 .. N /\ new[i] = list[old(i)] BY <1>1, <1>2
  <2>2. \A m, n \in 1 .. N - 1 : old(m) = old(n) => m = n BY <1>1
  <2> HIDE DEF old
  <2> QED BY <1>3, <2>1, <2>2
<1>6. {new[i] : i \in 1 .. N - 1} = {list[i] : i \in 1 .. N} \ {list[k]}
  <2>1. ASSUME NEW i \in 1 .. N, list[i] # list[k]
        PROVE  \E m \in 1 .. N - 1 : new[m] = list[i]
    <3>1. CASE i < k
      <4>1. i \in 1 .. N - 1 BY <1>1, <3>1
      <4> QED BY <1>2, <3>1, <4>1
    <3>2. CASE i > k
      <4>1. i - 1 \in 1 .. N - 1 /\ ~(i - 1 < k) /\ (i - 1) + 1 = i BY <1>1, <3>2
      <4>2. new[i - 1] = list[i] BY <1>2, <4>1
      <4> QED BY <4>1, <4>2
    <3>3. CASE i = k BY <2>1, <3>3
    <3> QED BY <1>1, <3>1, <3>2, <3>3
  <2>2. ASSUME NEW m \in 1 .. N - 1
        PROVE  \E i \in 1 .. N : new[m] = list[i] /\ list[i] # list[k]
    <3>1. CASE m < k
      <4>1. m \in 1 .. N /\ m # k /\ new[m] = list[m] BY <1>1, <1>2, <3>1
      <4> QED BY <1>1, <1>3, <4>1
    <3>2. CASE ~(m < k)
      <4>1. m + 1 \in 1 .. N /\ m + 1 # k /\ new[m] = list[m + 1] BY <1>1, <1>2, <3>2
      <4> QED BY <1>1, <1>3, <4>1
    <3> QED BY <3>1, <3>2
  <2> QED BY <2>1, <2>2, SMTT(60)
<1>7. Once(new) BY <1>2, <1>5, Distinct DEF Once
<1>8. ToSet(new) = ToSet(list) \ {list[k]} BY <1>1, <1>2, <1>6, Distinct DEF N
<1> QED BY <1>7, <1>8 DEF new

LEMMA Positioned ==
  ASSUME NEW list \in Seq(Jobs), NEW j \in ToSet(list)
  PROVE  PositionOf(list, j) \in 1 .. Len(list) /\ list[PositionOf(list, j)] = j
<1>1. DOMAIN list = 1 .. Len(list) BY LenProperties
<1>2. \E i \in DOMAIN list : list[i] = j BY DEF ToSet
<1> QED BY <1>1, <1>2 DEF PositionOf

(* The four changes of JobQueue::m_jobs *)

LEMMA WithoutFacts ==
  ASSUME NEW list, Once(list), NEW j
  PROVE  Once(Without(list, j)) /\ ToSet(Without(list, j)) = ToSet(list) \ {j}
<1>1. CASE j \in ToSet(list)
  <2>1. PositionOf(list, j) \in 1 .. Len(list) /\ list[PositionOf(list, j)] = j
    BY <1>1, Positioned DEF Once
  <2> QED BY <1>1, <2>1, Removed DEF Without
<1>2. CASE j \notin ToSet(list) BY <1>2 DEF Without
<1> QED BY <1>1, <1>2

LEMMA InsertedFacts ==
  ASSUME NEW list, Once(list), NEW j \in Jobs, j \notin ToSet(list), NEW after \in ToSet(list)
  PROVE  /\ Once(InsertedAfter(list, j, after))
         /\ ToSet(InsertedAfter(list, j, after)) = ToSet(list) \cup {j}
<1>1. PositionOf(list, after) \in 1 .. Len(list) BY Positioned DEF Once
<1>2. Len(list) \in Nat BY DEF Once
<1>3. PositionOf(list, after) + 1 \in 1 .. Len(list) + 1 BY <1>1, <1>2
<1> QED BY <1>3, InsertedAt DEF InsertedAfter

LEMMA InFrontFacts ==
  ASSUME NEW list, Once(list), NEW j \in Jobs, j \notin ToSet(list)
  PROVE  Once(<<j>> \o list) /\ ToSet(<<j>> \o list) = ToSet(list) \cup {j}
<1>1. list \in Seq(Jobs) /\ Len(list) \in Nat BY DEF Once
<1>2. 1 \in 1 .. Len(list) + 1 BY <1>1
<1>3. InsertAt(list, 1, j) = <<j>> \o list
  <2>1. SubSeq(list, 1, 0) = <<>> BY SubSeqEmpty
  <2>2. SubSeq(list, 1, Len(list)) = list BY <1>1, SubSeqFull
  <2>3. <<>> \o <<j>> = <<j>>
    <3>1. <<j>> \in Seq(Jobs) OBVIOUS
    <3> QED BY <3>1, ConcatEmptySeq
  <2> QED BY <2>1, <2>2, <2>3 DEF InsertAt
<1>4. /\ Once(InsertAt(list, 1, j))
      /\ ToSet(InsertAt(list, 1, j)) = ToSet(list) \cup {j}
  BY <1>2, InsertedAt
<1> QED BY <1>3, <1>4

-----------------------------------------------------------------------------
(* States in which every job is in order, in one list, once, and knows in which *)

Sound ==
    {s \in InOrder :
        \A q \in Queues : /\ IsInjective(s.queue[q].jobs)
                          /\ \A j \in ToSet(s.queue[q].jobs) : s.job[j].queue = q}

LEMMA SoundItself ==
  ASSUME NEW base \in InOrder
  PROVE  base \in SameLists(base)
BY DEF SameLists

LEMMA SoundKept ==
  ASSUME NEW base \in Sound, NEW s \in SameLists(base)
  PROVE  s \in Sound
<1>1. \A q \in Queues : ToSet(s.queue[q].jobs) \subseteq Jobs
  <2>1. ASSUME NEW q \in Queues PROVE ToSet(s.queue[q].jobs) \subseteq Jobs
    <3>1. s.queue[q].jobs \in Seq(Jobs) BY Lists
    <3> QED BY <3>1, Distinct
  <2> QED BY <2>1
<1> QED BY <1>1 DEF SameLists, Sound

LEMMA OnceInSound ==
  ASSUME NEW s \in Sound, NEW q \in Queues
  PROVE  Once(s.queue[q].jobs) /\ ToSet(s.queue[q].jobs) \subseteq Jobs
<1>1. s.queue[q].jobs \in Seq(Jobs) BY DEF Sound, InOrder, State, JobQueue
<1> QED BY <1>1, Distinct DEF Sound, Once

(* Every list has the same jobs, maybe in another order. *)
SameMembers(s, t) == \A p \in Queues : ToSet(t.queue[p].jobs) = ToSet(s.queue[p].jobs)

LEMMA ListWritten ==
  ASSUME NEW s \in State, NEW q \in Queues, NEW list \in Seq(Jobs)
  PROVE  LET t == [s EXCEPT !.queue[q].jobs = list]
         IN  /\ t \in State
             /\ t.job = s.job
             /\ \A p \in Queues :
                    t.queue[p].jobs = IF p = q THEN list ELSE s.queue[p].jobs
<1> DEFINE r == [s.queue[q] EXCEPT !.jobs = list]
           t == [s EXCEPT !.queue[q].jobs = list]
<1>1. /\ s.job \in [Jobs -> Job] /\ s.queue \in [Queues -> JobQueue]
      /\ s.scheduler \in SchedulerObject
  BY DEF State
<1>2. r \in JobQueue /\ r.jobs = list BY <1>1 DEF JobQueue
<1>3. t = [s EXCEPT !.queue = [s.queue EXCEPT ![q] = r]] BY DEF State
<1> HIDE DEF r, t
<1>4. [s.queue EXCEPT ![q] = r] \in [Queues -> JobQueue] BY <1>1, <1>2
<1>5. t \in State BY <1>1, <1>3, <1>4 DEF State
<1>6. t.job = s.job /\ t.queue = [s.queue EXCEPT ![q] = r] BY <1>3 DEF State
<1>7. \A p \in Queues : t.queue[p].jobs = IF p = q THEN list ELSE s.queue[p].jobs
  BY <1>1, <1>2, <1>6
<1> QED BY <1>5, <1>6, <1>7 DEF t

(* A new order of a list *)
LEMMA Reordered ==
  ASSUME NEW s \in Sound, NEW q \in Queues, NEW list, Once(list),
         ToSet(list) \subseteq ToSet(s.queue[q].jobs)
  PROVE  [s EXCEPT !.queue[q].jobs = list] \in Sound
<1> DEFINE t == [s EXCEPT !.queue[q].jobs = list]
<1>1. /\ t \in InOrder /\ t.job = s.job
      /\ \A p \in Queues : t.queue[p].jobs = IF p = q THEN list ELSE s.queue[p].jobs
  <2>1. s \in InOrder /\ s \in State /\ list \in Seq(Jobs) BY DEF Sound, InOrder, Once
  <2>2. /\ t \in State /\ t.job = s.job
        /\ \A p \in Queues : t.queue[p].jobs = IF p = q THEN list ELSE s.queue[p].jobs
    BY <2>1, ListWritten
  <2> HIDE DEF t
  <2> QED BY <2>1, <2>2 DEF InOrder
<1> HIDE DEF t
<1>2. \A p \in Queues : IsInjective(t.queue[p].jobs) BY <1>1 DEF Sound, Once
<1>3. ASSUME NEW p \in Queues, NEW j \in ToSet(t.queue[p].jobs) PROVE t.job[j].queue = p
  <2>1. j \in ToSet(s.queue[p].jobs) BY <1>1
  <2> QED BY <1>1, <2>1 DEF Sound
<1>4. t \in Sound BY <1>1, <1>2, <1>3 DEF Sound
<1> QED BY <1>4 DEF t

(* A job that is in no list enters one, and learns of it sooner or later. *)
LEMMA Enlisted ==
  ASSUME NEW s \in Sound, NEW j \in Jobs,
         \A p \in Queues : j \notin ToSet(s.queue[p].jobs),
         NEW q \in Queues, NEW list, Once(list),
         ToSet(list) = ToSet(s.queue[q].jobs) \cup {j},
         NEW u \in SameLists([s EXCEPT !.queue[q].jobs = list])
  PROVE  /\ [u EXCEPT !.job[j].queue = q] \in Sound
         /\ s.job[j].queue = q => u \in Sound
<1> DEFINE t == [s EXCEPT !.queue[q].jobs = list]
           r == [u.job[j] EXCEPT !.queue = q]
           v == [u EXCEPT !.job[j].queue = q]
<1>1. /\ t \in InOrder /\ t.job = s.job
      /\ \A p \in Queues : t.queue[p].jobs = IF p = q THEN list ELSE s.queue[p].jobs
  <2>1. s \in InOrder /\ s \in State /\ list \in Seq(Jobs) BY DEF Sound, InOrder, Once
  <2>2. /\ t \in State /\ t.job = s.job
        /\ \A p \in Queues : t.queue[p].jobs = IF p = q THEN list ELSE s.queue[p].jobs
    BY <2>1, ListWritten
  <2> HIDE DEF t
  <2> QED BY <2>1, <2>2 DEF InOrder
<1>2. u \in SameLists(t) OBVIOUS
<1> HIDE DEF t
<1>3. u \in InOrder /\ u.queue = t.queue /\ \A k \in Jobs : u.job[k].queue = s.job[k].queue
  BY <1>1, <1>2 DEF SameLists
<1>4. ASSUME NEW p \in Queues
      PROVE  /\ IsInjective(u.queue[p].jobs)
             /\ \A k \in ToSet(u.queue[p].jobs) :
                    k \in Jobs /\ (k = j \/ u.job[k].queue = p) /\ (k = j => p = q)
  <2>1. CASE p = q
    <3>1. u.queue[p].jobs = list BY <1>1, <1>3, <2>1
    <3>2. \A k \in ToSet(list) : k = j \/ (k \in Jobs /\ s.job[k].queue = q)
      BY OnceInSound DEF Sound
    <3> QED BY <1>3, <2>1, <3>1, <3>2 DEF Once
  <2>2. CASE p # q
    <3>1. u.queue[p].jobs = s.queue[p].jobs BY <1>1, <1>3, <2>2
    <3>2. \A k \in ToSet(s.queue[p].jobs) : k # j /\ k \in Jobs /\ s.job[k].queue = p
      BY OnceInSound DEF Sound
    <3>3. IsInjective(s.queue[p].jobs) BY DEF Sound
    <3> QED BY <1>3, <3>1, <3>2, <3>3
  <2> QED BY <2>1, <2>2
<1>5. /\ u.job \in [Jobs -> Job] /\ u.queue \in [Queues -> JobQueue]
      /\ u.scheduler \in SchedulerObject
      /\ \A k \in Jobs : Consistent(k, u.job[k])
  BY <1>3 DEF InOrder, State
<1>6. /\ r \in Job /\ r.queue = q
      /\ r.status = u.job[j].status /\ r.worker = u.job[j].worker
      /\ r.moving = u.job[j].moving /\ r.obstacle = u.job[j].obstacle
  <2>1. u.job[j] \in Job BY <1>5
  <2> HIDE DEF v
  <2> QED BY <2>1 DEF Job
<1>7. v = [u EXCEPT !.job = [u.job EXCEPT ![j] = r]] BY <1>3 DEF InOrder, State
<1> HIDE DEF v, r
<1>8. [u.job EXCEPT ![j] = r] \in [Jobs -> Job] BY <1>5, <1>6
<1>9. /\ v \in State /\ v.queue = u.queue /\ v.job = [u.job EXCEPT ![j] = r]
  BY <1>3, <1>5, <1>7, <1>8 DEF InOrder, State
<1>10. \A k \in Jobs : v.job[k].queue = IF k = j THEN q ELSE u.job[k].queue
  BY <1>5, <1>6, <1>9
<1>11. v \in Sound
  <2>1. Consistent(j, r) BY <1>5, <1>6 DEF Consistent
  <2>2. v \in InOrder BY <1>5, <1>9, <2>1 DEF InOrder
  <2> QED BY <1>4, <1>9, <1>10, <2>2, ZenonT(60) DEF Sound
<1>12. ASSUME s.job[j].queue = q PROVE u \in Sound
  <2>1. u.job[j].queue = q BY <1>3, <1>12
  <2> QED BY <1>3, <1>4, <2>1 DEF Sound
<1> QED BY <1>11, <1>12 DEF v

(* Where a job that is listed is *)
LEMMA InOneList ==
  ASSUME NEW s \in Sound, NEW j \in Jobs, NEW q \in Queues, j \in ToSet(s.queue[q].jobs)
  PROVE  s.job[j].queue = q /\ \A p \in Queues : p # q => j \notin ToSet(s.queue[p].jobs)
BY DEF Sound

LEMMA RemoveSound ==
  ASSUME NEW s \in Sound, NEW j \in Jobs, NEW q \in Queues
  PROVE  /\ remove(s, q, j) \in Sound
         /\ \A p \in Queues : remove(s, q, j).queue[p].jobs =
                IF p = q THEN Without(s.queue[q].jobs, j) ELSE s.queue[p].jobs
         /\ \A k \in Jobs : remove(s, q, j).job[k].queue = s.job[k].queue
<1> DEFINE list == Without(s.queue[q].jobs, j)
           t == [s EXCEPT !.queue[q].jobs = list]
<1>1. Once(list) /\ ToSet(list) \subseteq ToSet(s.queue[q].jobs)
  BY OnceInSound, WithoutFacts
<1> HIDE DEF list
<1>2. t \in Sound BY <1>1, Reordered
<1>3. /\ t.job = s.job
      /\ \A p \in Queues : t.queue[p].jobs = IF p = q THEN list ELSE s.queue[p].jobs
  <2>1. s \in State /\ list \in Seq(Jobs) BY <1>1 DEF Sound, InOrder, Once
  <2> QED BY <2>1, ListWritten, ZenonT(60)
<1>4. remove(s, q, j) = updateQueue(t, q) BY DEF remove, list
<1> HIDE DEF t
<1>5. updateQueue(t, q) \in SameLists(t) BY <1>2, SoundItself, UpdateQueueStays DEF Sound
<1>6. updateQueue(t, q) \in Sound BY <1>2, <1>5, SoundKept
<1> QED BY <1>3, <1>4, <1>5, <1>6 DEF SameLists, list

(* Job j, in no group before, is in one now. *)
Grouped(s, t, j, q) ==
    \A p \in Queues : ToSet(t.queue[p].jobs) = IF p = q THEN ToSet(s.queue[p].jobs) \cup {j}
                                              ELSE ToSet(s.queue[p].jobs)

LEMMA AppendSound ==
  ASSUME NEW s \in Sound, NEW j \in Jobs, NEW q \in Queues,
         \A p \in Queues : j \notin ToSet(s.queue[p].jobs), s.job[j].queue = q
  PROVE  append(s, q, j) \in Sound /\ Grouped(s, append(s, q, j), j, q)
<1> DEFINE list == Append(s.queue[q].jobs, j)
           t == [s EXCEPT !.queue[q].jobs = list]
<1>1. Once(list) /\ ToSet(list) = ToSet(s.queue[q].jobs) \cup {j}
  BY OnceInSound, Appended
<1>2. /\ t \in InOrder
      /\ \A p \in Queues : t.queue[p].jobs = IF p = q THEN list ELSE s.queue[p].jobs
  <2>1. s \in InOrder /\ s \in State /\ list \in Seq(Jobs) BY <1>1 DEF Sound, InOrder, Once
  <2> HIDE DEF list
  <2>2. /\ t \in State /\ t.job = s.job
        /\ \A p \in Queues : t.queue[p].jobs = IF p = q THEN list ELSE s.queue[p].jobs
    BY <2>1, ListWritten
  <2> QED BY <2>1, <2>2 DEF InOrder
<1> HIDE DEF list
<1>3. updateQueue(t, q) \in SameLists(t) BY <1>2, SoundItself, UpdateQueueStays
<1>4. updateQueue(t, q) \in Sound BY <1>1, <1>3, Enlisted
<1>5. updateQueue(t, q).queue = t.queue BY <1>3 DEF SameLists
<1>6. append(s, q, j) = updateQueue(t, q) BY DEF append, list
<1> HIDE DEF t
<1> QED BY <1>1, <1>2, <1>4, <1>5, <1>6 DEF Grouped

(* What move and insert write *)
Placed(list, j, after) == IF after = "front" THEN <<j>> \o list
                          ELSE InsertedAfter(list, j, after)

LEMMA PlacedFacts ==
  ASSUME NEW list, Once(list), NEW j \in Jobs, j \notin ToSet(list), NEW after,
         after # "front" => after \in ToSet(list)
  PROVE  /\ Once(Placed(list, j, after))
         /\ ToSet(Placed(list, j, after)) = ToSet(list) \cup {j}
<1>1. CASE after = "front" BY <1>1, InFrontFacts DEF Placed
<1>2. CASE after # "front" BY <1>2, InsertedFacts DEF Placed
<1> QED BY <1>1, <1>2

LEMMA MoveSound ==
  ASSUME NEW s \in Sound, NEW j \in Jobs, NEW q \in Queues, j \in ToSet(s.queue[q].jobs),
         NEW after, after # "front" => after \in ToSet(s.queue[q].jobs) /\ after # j
  PROVE  move(s, q, j, after) \in Sound /\ SameMembers(s, move(s, q, j, after))
<1> DEFINE old == s.queue[q].jobs
           list == Placed(Without(old, j), j, after)
           t == [s EXCEPT !.queue[q].jobs = list]
<1>1. Once(Without(old, j)) /\ ToSet(Without(old, j)) = ToSet(old) \ {j}
  BY OnceInSound, WithoutFacts
<1>2. Once(list) /\ ToSet(list) = (ToSet(old) \ {j}) \cup {j} BY <1>1, PlacedFacts
<1> HIDE DEF list
<1>3. t \in Sound BY <1>2, Reordered
<1>4. move(s, q, j, after) = updateQueue(t, q) BY DEF move, list, Placed
<1> HIDE DEF t
<1>5. updateQueue(t, q) \in SameLists(t) BY <1>3, SoundItself, UpdateQueueStays DEF Sound
<1>6. SameMembers(s, t)
  <2>1. s \in State /\ list \in Seq(Jobs) BY <1>2 DEF Sound, InOrder, Once
  <2>2. \A p \in Queues : t.queue[p].jobs = IF p = q THEN list ELSE s.queue[p].jobs
    BY <2>1, ListWritten, ZenonT(60) DEF t
  <2> QED BY <1>2, <2>2 DEF SameMembers
<1> QED BY <1>3, <1>4, <1>5, <1>6, SoundKept DEF SameLists, SameMembers

(* Only the group that has job j is another one. *)
Regrouped(s, t, j, dest) ==
    \A p \in Queues : ToSet(t.queue[p].jobs) = IF p = dest THEN ToSet(s.queue[p].jobs) \cup {j}
                                              ELSE ToSet(s.queue[p].jobs) \ {j}

LEMMA MoveTransferSound ==
  ASSUME NEW s \in Sound, NEW j \in Jobs, j \in ToSet(s.queue[s.job[j].queue].jobs),
         NEW dest \in Queues, NEW after,
         after # "front" => after \in ToSet(s.queue[dest].jobs)
  PROVE  /\ moveTransfer(s, j, dest, after) \in Sound
         /\ dest = s.job[j].queue => SameMembers(s, moveTransfer(s, j, dest, after))
         /\ dest # s.job[j].queue => Regrouped(s, moveTransfer(s, j, dest, after), j, dest)
<1> DEFINE old == s.job[j].queue
           r == remove(s, old, j)
           there == r.queue[dest].jobs
           list == Placed(there, j, after)
           t == [r EXCEPT !.queue[dest].jobs = list]
           u == updateQueue(t, dest)
<1>1. old \in Queues BY DEF Sound, InOrder, State, Job
<1>2. CASE dest = old
  <2>1. CASE j = after BY <1>2, <2>1 DEF moveTransfer, SameMembers
  <2>2. CASE j # after
    <3>1. move(s, dest, j, after) \in Sound /\ SameMembers(s, move(s, dest, j, after))
      BY <1>2, <2>2, MoveSound
    <3> QED BY <1>2, <2>2, <3>1 DEF moveTransfer
  <2> QED BY <2>1, <2>2
<1>3. CASE dest # old
  <2>1. /\ r \in Sound
        /\ \A p \in Queues : r.queue[p].jobs =
                IF p = old THEN Without(s.queue[old].jobs, j) ELSE s.queue[p].jobs
    BY <1>1, RemoveSound, SMTT(60)
  <2> HIDE DEF r
  <2>2. \A p \in Queues : j \notin ToSet(r.queue[p].jobs)
    <3>1. j \notin ToSet(Without(s.queue[old].jobs, j)) BY <1>1, OnceInSound, WithoutFacts
    <3>2. \A p \in Queues : p # old => j \notin ToSet(s.queue[p].jobs) BY <1>1, InOneList
    <3> QED BY <2>1, <3>1, <3>2
  <2>3. there = s.queue[dest].jobs BY <1>3, <2>1
  <2>4. Once(there) BY <2>1, OnceInSound
  <2>5. Once(list) /\ ToSet(list) = ToSet(there) \cup {j}
    BY <2>2, <2>3, <2>4, PlacedFacts
  <2> HIDE DEF list
  <2>6. /\ t \in InOrder
        /\ \A p \in Queues : t.queue[p].jobs = IF p = dest THEN list ELSE r.queue[p].jobs
    <3>1. r \in InOrder /\ r \in State /\ list \in Seq(Jobs)
      BY <2>1, <2>5 DEF Sound, InOrder, Once
    <3>2. /\ t \in State /\ t.job = r.job
          /\ \A p \in Queues : t.queue[p].jobs = IF p = dest THEN list ELSE r.queue[p].jobs
      BY <3>1, ListWritten
    <3> QED BY <3>1, <3>2 DEF InOrder
  <2>7. u \in SameLists(t) BY <2>6, SoundItself, UpdateQueueStays
  <2>8. [u EXCEPT !.job[j].queue = dest] \in Sound BY <2>1, <2>2, <2>5, <2>7, Enlisted
  <2>9. insert(r, dest, j, after) = u BY DEF insert, list, Placed
  <2> HIDE DEF u
  <2>10. moveTransfer(s, j, dest, after) = [u EXCEPT !.job[j].queue = dest]
    BY <1>3, <2>9 DEF moveTransfer, r
  <2>11. \A p \in Queues : u.queue[p].jobs = IF p = dest THEN list ELSE r.queue[p].jobs
    BY <2>6, <2>7 DEF SameLists, u
  <2>12. [u EXCEPT !.job[j].queue = dest].queue = u.queue BY <2>7 DEF SameLists, InOrder, State
  <2>13. \A p \in Queues :
            ToSet(r.queue[p].jobs) = IF p = old THEN ToSet(s.queue[p].jobs) \ {j}
                                     ELSE ToSet(s.queue[p].jobs)
    <3>1. ToSet(Without(s.queue[old].jobs, j)) = ToSet(s.queue[old].jobs) \ {j}
      BY <1>1, OnceInSound, WithoutFacts
    <3> QED BY <2>1, <3>1
  <2>14. \A p \in Queues : p # old => j \notin ToSet(s.queue[p].jobs) BY <1>1, InOneList
  <2> HIDE DEF there, old, t
  <2>15. \A p \in Queues : ToSet(u.queue[p].jobs) =
             IF p = dest THEN ToSet(s.queue[p].jobs) \cup {j} ELSE ToSet(s.queue[p].jobs) \ {j}
    BY <1>3, <2>3, <2>5, <2>11, <2>13, <2>14, ZenonT(60)
  <2>16. Regrouped(s, [u EXCEPT !.job[j].queue = dest], j, dest)
    BY <2>12, <2>15 DEF Regrouped
  <2> QED BY <1>3, <2>8, <2>10, <2>16 DEF old
<1> QED BY <1>2, <1>3

LEMMA HandlerStartSound ==
  ASSUME NEW s \in Sound, NEW j \in Jobs, j \in ToSet(s.queue[s.job[j].queue].jobs)
  PROVE  handlerStart(s, j) \in Sound /\ SameMembers(s, handlerStart(s, j))
<1> DEFINE q == s.job[j].queue
           t == setPolicy(s, j, "None")
<1>1. q \in Queues /\ s \in SameLists(s) BY SoundItself DEF Sound, InOrder, State, Job
<1>2. t \in SameLists(s) /\ setPolicy(s, j, "Start") \in SameLists(s)
  BY <1>1, SetPolicyStays DEF Policy
<1>3. t \in Sound /\ setPolicy(s, j, "Start") \in Sound BY <1>2, SoundKept
<1>4. t.job[j].queue = q /\ j \in ToSet(t.queue[q].jobs) BY <1>2 DEF SameLists
<1> HIDE DEF t
<1>5. /\ moveTransfer(t, j, q, "front") \in Sound
      /\ SameMembers(t, moveTransfer(t, j, q, "front"))
  BY <1>1, <1>3, <1>4, MoveTransferSound
<1>6. SameMembers(s, t) /\ SameMembers(s, setPolicy(s, j, "Start"))
  BY <1>2 DEF SameLists, SameMembers
<1>7. SameMembers(s, moveTransfer(t, j, q, "front")) BY <1>5, <1>6 DEF SameMembers
<1> QED BY <1>3, <1>5, <1>6, <1>7 DEF handlerStart, t

(* The two loops of JobQueue::setStatus and Scheduler::jobQueueChangedEvent *)
Reset(v, j, status) == IF v.job[j].status = status THEN setPolicy(v, j, "None") ELSE v
ResetJobs(s, list, status) ==
    LET Step(v, j) == IF v.job[j].status = status THEN setPolicy(v, j, "None") ELSE v
    IN  ForEach(Step, s, list)

LEMMA ResetLoop ==
  ASSUME NEW base, NEW s \in SameLists(base), NEW list \in Seq(Jobs), NEW status
  PROVE  \E after : /\ after[0] = s /\ ResetJobs(s, list, status) = after[Len(list)]
                    /\ \A n \in 1 .. Len(list) : after[n] = Reset(after[n - 1], list[n], status)
                    /\ \A n \in 0 .. Len(list) : after[n] \in SameLists(base)
<1> DEFINE N == Len(list)
           S == SameLists(base)
           Loop(f) == f = [n \in 0 .. N |-> IF n = 0 THEN s ELSE Reset(f[n - 1], list[n], status)]
           after == CHOOSE f : Loop(f)
           step == [p \in S \X (1 .. N) |-> Reset(p[1], list[p[2]], status)]
<1>1. N \in Nat /\ s \in S OBVIOUS
<1>2. \A v \in S, n \in 1 .. N : Reset(v, list[n], status) \in S
  <2>1. "None" \in Policy /\ \A n \in 1 .. N : list[n] \in Jobs BY DEF Policy
  <2> QED BY <2>1, SetPolicyStays DEF Reset
<1>3. ResetJobs(s, list, status) = after[N] BY DEF ResetJobs, ForEach, Reset
<1> HIDE DEF N, S
<1>4. step \in [S \X (1 .. N) -> S] BY <1>2
<1>5. \A v \in S, n \in 1 .. N : step[<<v, n>>] = Reset(v, list[n], status) OBVIOUS
<1> HIDE DEF step
<1>6. Iterations(S, s, N, step) # {} BY <1>1, <1>4, IterationsExist
<1>7. PICK g : Loop(g)
  <2>1. PICK g \in Iterations(S, s, N, step) : TRUE BY <1>6
  <2>2. \A n \in 1 .. N : n - 1 \in 0 .. N BY <1>1
  <2>3. \A n \in 1 .. N : g[n] = Reset(g[n - 1], list[n], status) BY <1>5, <2>2 DEF Iterations
  <2>4. Loop(g) BY <1>1, <2>3 DEF Iterations
  <2> QED BY <2>4
<1>8. Loop(after) BY <1>7
<1> HIDE DEF after
<1>9. after[0] = s BY <1>1, <1>8
<1>10. \A n \in 1 .. N : after[n] = Reset(after[n - 1], list[n], status) BY <1>1, <1>8
<1>11. \A n \in 0 .. N : after[n] \in S BY <1>1, <1>2, <1>9, <1>10, IterationsStay
<1> QED BY <1>3, <1>9, <1>10, <1>11 DEF S, N

StopActive(v, j) == IF v.job[j].status # "Stopped" THEN stop(v, j) ELSE v
StoppedActive(s, list) ==
    LET Step(v, j) == IF v.job[j].status # "Stopped" THEN stop(v, j) ELSE v
    IN  ForEach(Step, s, list)

LEMMA StopLoop ==
  ASSUME NEW base, NEW s \in SameLists(base), NEW list \in Seq(Jobs)
  PROVE  \E after : /\ after[0] = s /\ StoppedActive(s, list) = after[Len(list)]
                    /\ \A n \in 1 .. Len(list) : after[n] = StopActive(after[n - 1], list[n])
                    /\ \A n \in 0 .. Len(list) : after[n] \in SameLists(base)
<1> DEFINE N == Len(list)
           S == SameLists(base)
           Loop(f) == f = [n \in 0 .. N |-> IF n = 0 THEN s ELSE StopActive(f[n - 1], list[n])]
           after == CHOOSE f : Loop(f)
           step == [p \in S \X (1 .. N) |-> StopActive(p[1], list[p[2]])]
<1>1. N \in Nat /\ s \in S OBVIOUS
<1>2. \A v \in S, n \in 1 .. N : StopActive(v, list[n]) \in S BY StartsAndStopsStay DEF StopActive
<1>3. StoppedActive(s, list) = after[N] BY DEF StoppedActive, ForEach, StopActive
<1> HIDE DEF N, S
<1>4. step \in [S \X (1 .. N) -> S] BY <1>2
<1>5. \A v \in S, n \in 1 .. N : step[<<v, n>>] = StopActive(v, list[n]) OBVIOUS
<1> HIDE DEF step
<1>6. Iterations(S, s, N, step) # {} BY <1>1, <1>4, IterationsExist
<1>7. PICK g : Loop(g)
  <2>1. PICK g \in Iterations(S, s, N, step) : TRUE BY <1>6
  <2>2. \A n \in 1 .. N : n - 1 \in 0 .. N BY <1>1
  <2>3. \A n \in 1 .. N : g[n] = StopActive(g[n - 1], list[n]) BY <1>5, <2>2 DEF Iterations
  <2>4. Loop(g) BY <1>1, <2>3 DEF Iterations
  <2> QED BY <2>4
<1>8. Loop(after) BY <1>7
<1> HIDE DEF after
<1>9. after[0] = s BY <1>1, <1>8
<1>10. \A n \in 1 .. N : after[n] = StopActive(after[n - 1], list[n]) BY <1>1, <1>8
<1>11. \A n \in 0 .. N : after[n] \in S BY <1>1, <1>2, <1>9, <1>10, IterationsStay
<1> QED BY <1>3, <1>9, <1>10, <1>11 DEF S, N

QueueStatusWrote(s, t, q, status) ==
    /\ t \in Sound /\ t.job = s.job /\ t.scheduler = s.scheduler
    /\ \A p \in Queues : /\ t.queue[p].jobs = s.queue[p].jobs
                         /\ t.queue[p].status = IF p = q THEN status ELSE s.queue[p].status

LEMMA QueueStatusWritten ==
  ASSUME NEW s \in Sound, NEW q \in Queues, NEW status \in JobQueueStatus
  PROVE  QueueStatusWrote(s, [s EXCEPT !.queue[q].status = status], q, status)
<1> DEFINE r == [s.queue[q] EXCEPT !.status = status]
           b == [s EXCEPT !.queue[q].status = status]
<1>1. /\ s.job \in [Jobs -> Job] /\ s.queue \in [Queues -> JobQueue]
      /\ s.scheduler \in SchedulerObject
  BY DEF Sound, InOrder, State
<1>2. r \in JobQueue /\ r.jobs = s.queue[q].jobs /\ r.status = status BY <1>1 DEF JobQueue
<1>3. b = [s EXCEPT !.queue = [s.queue EXCEPT ![q] = r]] BY DEF Sound, InOrder, State
<1> HIDE DEF r, b
<1>4. [s.queue EXCEPT ![q] = r] \in [Queues -> JobQueue] BY <1>1, <1>2
<1>5. /\ b \in State /\ b.job = s.job /\ b.scheduler = s.scheduler
      /\ b.queue = [s.queue EXCEPT ![q] = r]
  BY <1>1, <1>3, <1>4 DEF Sound, InOrder, State
<1>6. \A p \in Queues : /\ b.queue[p].jobs = s.queue[p].jobs
                       /\ b.queue[p].status = IF p = q THEN status ELSE s.queue[p].status
  BY <1>1, <1>2, <1>5
<1>7. b \in InOrder BY <1>5 DEF Sound, InOrder
<1>8. QueueStatusWrote(s, b, q, status) BY <1>5, <1>6, <1>7, ZenonT(30) DEF Sound, QueueStatusWrote
<1> QED BY <1>8 DEF b

LEMMA SetQueueStatusSound ==
  ASSUME NEW s \in Sound, NEW q \in Queues, NEW status \in JobQueueStatus
  PROVE  /\ setQueueStatus(s, q, status) \in Sound
         /\ SameMembers(s, setQueueStatus(s, q, status))
<1> DEFINE jobs == s.queue[q].jobs
           b == [s EXCEPT !.queue[q].status = status]
           t == ResetJobs(b, jobs, status)
           u == StoppedActive(t, jobs)
<1>1. b \in Sound BY QueueStatusWritten DEF QueueStatusWrote
<1>2. jobs \in Seq(Jobs) /\ Len(jobs) \in Nat /\ \A n \in 1 .. Len(jobs) : jobs[n] \in Jobs
  <2>1. jobs \in Seq(Jobs) BY OnceInSound DEF Once
  <2> HIDE DEF jobs
  <2> QED BY <2>1
<1>3. b \in SameLists(b) BY <1>1, SoundItself DEF Sound
<1> HIDE DEF jobs
<1>4. t \in SameLists(b)
  <2>1. PICK after : /\ t = after[Len(jobs)]
                     /\ \A n \in 0 .. Len(jobs) : after[n] \in SameLists(b)
    <3> HIDE DEF b
    <3> QED BY <1>2, <1>3, ResetLoop
  <2> QED BY <1>2, <2>1
<1> HIDE DEF t
<1>5. u \in SameLists(b)
  <2>1. PICK after : /\ u = after[Len(jobs)]
                     /\ \A n \in 0 .. Len(jobs) : after[n] \in SameLists(b)
    <3> HIDE DEF b
    <3> QED BY <1>2, <1>4, StopLoop
  <2> QED BY <1>2, <2>1
<1>6. updateQueue(t, q) \in SameLists(b) BY <1>4, UpdateQueueStays
<1>7. u \in Sound /\ updateQueue(t, q) \in Sound
  <2> HIDE DEF b
  <2> QED BY <1>1, <1>5, <1>6, SoundKept
<1>8. SameMembers(s, u) /\ SameMembers(s, updateQueue(t, q))
  <2>1. \A p \in Queues : b.queue[p].jobs = s.queue[p].jobs
    BY QueueStatusWritten DEF QueueStatusWrote
  <2> HIDE DEF b
  <2> QED BY <1>5, <1>6, <2>1 DEF SameLists, SameMembers
<1>9. setQueueStatus(s, q, status) = IF status = "Stopped" THEN u ELSE updateQueue(t, q)
  BY DEF setQueueStatus, t, jobs, ResetJobs, StoppedActive
<1> QED BY <1>7, <1>8, <1>9

-----------------------------------------------------------------------------
(* Writes of the actions *)

(* As JobWritten, in the form the EXCEPTs below expand to *)
LEMMA RecordWritten ==
  ASSUME NEW base, NEW j \in Jobs, NEW s \in Writing(base, j),
         NEW r \in Job, r.queue = s.job[j].queue
  PROVE  LET t == [s EXCEPT !.job = [s.job EXCEPT ![j] = r]]
         IN  /\ t \in Writing(base, j) /\ t.job[j] = r
             /\ Consistent(j, r) => t \in SameLists(base)
<1> DEFINE t == [s EXCEPT !.job = [s.job EXCEPT ![j] = r]]
<1>1. [s EXCEPT !.job[j] = r] \in Writing(base, j) /\ [s EXCEPT !.job[j] = r].job[j] = r
  BY JobWritten
<1>2. t \in Writing(base, j) /\ t.job[j] = r
  <2>1. [s EXCEPT !.job[j] = r] = t OBVIOUS
  <2> HIDE DEF t
  <2> QED BY <1>1, <2>1
<1> HIDE DEF t
<1>3. Consistent(j, r) => t \in SameLists(base) BY <1>2, InOrderWhileWriting
<1> QED BY <1>2, <1>3 DEF t

(* What the order of a job depends on *)
SameOrder(r, t) == /\ r.status = t.status /\ r.worker = t.worker
                   /\ r.moving = t.moving /\ r.obstacle = t.obstacle

(* A write of one of those *)
Wrote(base, s, t, j, worker, moving) ==
    /\ t \in Writing(base, j) /\ t.job[j].status = s.job[j].status
    /\ t.job[j].worker = worker /\ t.job[j].moving = moving
    /\ t.job[j].obstacle = s.job[j].obstacle

LEMMA WorkerWritten ==
  ASSUME NEW base, NEW j \in Jobs, NEW s \in Writing(base, j), NEW v \in Worker
  PROVE  Wrote(base, s, [s EXCEPT !.job[j].worker = v], j, v, s.job[j].moving)
<1> DEFINE r == [s.job[j] EXCEPT !.worker = v]
<1>1. /\ r \in Job /\ r.queue = s.job[j].queue
      /\ r.status = s.job[j].status /\ r.worker = v /\ r.moving = s.job[j].moving
      /\ r.obstacle = s.job[j].obstacle
  BY ObjectsWhileWriting DEF Job
<1> HIDE DEF r
<1>2. Wrote(base, s, [s EXCEPT !.job = [s.job EXCEPT ![j] = r]], j, v, s.job[j].moving)
  <2> DEFINE t == [s EXCEPT !.job = [s.job EXCEPT ![j] = r]]
  <2>1. t \in Writing(base, j) /\ t.job[j] = r BY <1>1, RecordWritten
  <2> HIDE DEF t
  <2>2. Wrote(base, s, t, j, v, s.job[j].moving) BY <1>1, <2>1 DEF Wrote
  <2> QED BY <2>2 DEF t
<1> QED BY <1>2 DEF r

LEMMA MovingWritten ==
  ASSUME NEW base, NEW j \in Jobs, NEW s \in Writing(base, j), NEW v \in BOOLEAN
  PROVE  Wrote(base, s, [s EXCEPT !.job[j].moving = v], j, s.job[j].worker, v)
<1> DEFINE r == [s.job[j] EXCEPT !.moving = v]
<1>1. /\ r \in Job /\ r.queue = s.job[j].queue
      /\ r.status = s.job[j].status /\ r.worker = s.job[j].worker /\ r.moving = v
      /\ r.obstacle = s.job[j].obstacle
  BY ObjectsWhileWriting DEF Job
<1> HIDE DEF r
<1>2. Wrote(base, s, [s EXCEPT !.job = [s.job EXCEPT ![j] = r]], j, s.job[j].worker, v)
  <2> DEFINE t == [s EXCEPT !.job = [s.job EXCEPT ![j] = r]]
  <2>1. t \in Writing(base, j) /\ t.job[j] = r BY <1>1, RecordWritten
  <2> HIDE DEF t
  <2>2. Wrote(base, s, t, j, s.job[j].worker, v) BY <1>1, <2>1 DEF Wrote
  <2> QED BY <2>2 DEF t
<1> QED BY <1>2 DEF r

(* A write that leaves a job in order, or out of it *)
Aside(base, s, t, j) ==
    /\ t \in Writing(base, j) /\ SameOrder(t.job[j], s.job[j])
    /\ s \in SameLists(base) => t \in SameLists(base)

LEMMA FieldsWritten ==
  ASSUME NEW base, NEW j \in Jobs, NEW s \in Writing(base, j)
  PROVE  /\ \A v \in BOOLEAN : Aside(base, s, [s EXCEPT !.job[j].startTried = v], j)
         /\ \A v \in BOOLEAN : Aside(base, s, [s EXCEPT !.job[j].speed = v], j)
         /\ \A v \in BOOLEAN : Aside(base, s, [s EXCEPT !.job[j].complete = v], j)
         /\ \A v \in JobStatus : Aside(base, s, [s EXCEPT !.job[j].beforeMove = v], j)
<1>1. s.job[j] \in Job BY ObjectsWhileWriting
<1>2. ASSUME NEW r \in Job, r.queue = s.job[j].queue, SameOrder(r, s.job[j])
      PROVE  Aside(base, s, [s EXCEPT !.job = [s.job EXCEPT ![j] = r]], j)
  <2> DEFINE t == [s EXCEPT !.job = [s.job EXCEPT ![j] = r]]
  <2>1. /\ t \in Writing(base, j) /\ t.job[j] = r
        /\ Consistent(j, r) => t \in SameLists(base)
    BY <1>2, RecordWritten
  <2> HIDE DEF t
  <2>2. Consistent(j, r) <=> Consistent(j, s.job[j]) BY <1>2 DEF SameOrder, Consistent
  <2>3. s \in SameLists(base) => Consistent(j, s.job[j]) BY Objects
  <2> QED BY <1>2, <2>1, <2>2, <2>3 DEF Aside, t
<1>3. ASSUME NEW v \in BOOLEAN PROVE Aside(base, s, [s EXCEPT !.job[j].startTried = v], j)
  <2> DEFINE r == [s.job[j] EXCEPT !.startTried = v]
  <2>1. r \in Job /\ r.queue = s.job[j].queue /\ SameOrder(r, s.job[j])
    BY <1>1 DEF Job, SameOrder
  <2> HIDE DEF r
  <2>2. Aside(base, s, [s EXCEPT !.job = [s.job EXCEPT ![j] = r]], j) BY <1>2, <2>1
  <2> QED BY <2>2 DEF r
<1>4. ASSUME NEW v \in BOOLEAN PROVE Aside(base, s, [s EXCEPT !.job[j].speed = v], j)
  <2> DEFINE r == [s.job[j] EXCEPT !.speed = v]
  <2>1. r \in Job /\ r.queue = s.job[j].queue /\ SameOrder(r, s.job[j])
    BY <1>1 DEF Job, SameOrder
  <2> HIDE DEF r
  <2>2. Aside(base, s, [s EXCEPT !.job = [s.job EXCEPT ![j] = r]], j) BY <1>2, <2>1
  <2> QED BY <2>2 DEF r
<1>5. ASSUME NEW v \in BOOLEAN PROVE Aside(base, s, [s EXCEPT !.job[j].complete = v], j)
  <2> DEFINE r == [s.job[j] EXCEPT !.complete = v]
  <2>1. r \in Job /\ r.queue = s.job[j].queue /\ SameOrder(r, s.job[j])
    BY <1>1 DEF Job, SameOrder
  <2> HIDE DEF r
  <2>2. Aside(base, s, [s EXCEPT !.job = [s.job EXCEPT ![j] = r]], j) BY <1>2, <2>1
  <2> QED BY <2>2 DEF r
<1>6. ASSUME NEW v \in JobStatus PROVE Aside(base, s, [s EXCEPT !.job[j].beforeMove = v], j)
  <2> DEFINE r == [s.job[j] EXCEPT !.beforeMove = v]
  <2>1. r \in Job /\ r.queue = s.job[j].queue /\ SameOrder(r, s.job[j])
    BY <1>1 DEF Job, SameOrder
  <2> HIDE DEF r
  <2>2. Aside(base, s, [s EXCEPT !.job = [s.job EXCEPT ![j] = r]], j) BY <1>2, <2>1
  <2> QED BY <2>2 DEF r
<1> QED BY <1>3, <1>4, <1>5, <1>6

(* What the next start will meet; of a torrent that is there, nothing. *)
LEMMA ObstacleWritten ==
  ASSUME NEW base, NEW j \in Jobs, NEW s \in SameLists(base), NEW v \in Obstacle,
         Kind[j] = "bt" => s.job[j].worker # "ready"
  PROVE  [s EXCEPT !.job[j].obstacle = v] \in SameLists(base)
<1> DEFINE r == [s.job[j] EXCEPT !.obstacle = v]
<1>1. s.job[j] \in Job /\ Consistent(j, s.job[j]) /\ s \in Writing(base, j)
  BY Objects, InOrderWhileWriting
<1>2. /\ r \in Job /\ r.queue = s.job[j].queue /\ r.status = s.job[j].status
      /\ r.worker = s.job[j].worker /\ r.moving = s.job[j].moving
  BY <1>1 DEF Job
<1> HIDE DEF r
<1>3. Consistent(j, r) BY <1>1, <1>2 DEF Consistent
<1>4. [s EXCEPT !.job = [s.job EXCEPT ![j] = r]] \in SameLists(base)
  BY <1>1, <1>2, <1>3, RecordWritten
<1> QED BY <1>4 DEF r

-----------------------------------------------------------------------------
(* The invariant, and each action *)

JobsInOrder == \A j \in Jobs : Consistent(j, job[j])

(* A list has a job once, and the job believes that it is in this list. *)
GroupsAgree ==
    \A q \in Queues : /\ IsInjective(queue[q].jobs)
                      /\ \A j \in JobsOf(q) : job[j].queue = q

Inv == TypeOK /\ GroupsAgree /\ JobsInOrder

LEMMA NowIsSound ==
  Inv <=> Now \in Sound
<1>1. ASSUME TypeOK PROVE \A q \in Queues : JobsOf(q) = ToSet(queue[q].jobs)
  <2>1. \A q \in Queues : queue[q].jobs \in Seq(Jobs) BY <1>1 DEF TypeOK, JobQueue
  <2> QED BY <2>1, Distinct DEF JobsOf
<1>2. Now \in State <=> TypeOK BY DEF State, TypeOK, Now
<1>3. Now \in InOrder <=> TypeOK /\ JobsInOrder BY <1>2 DEF InOrder, JobsInOrder, Now
<1> QED BY <1>1, <1>3 DEF Inv, GroupsAgree, Sound, Now

LEMMA BecomesSound ==
  ASSUME NEW s \in Sound, Becomes(s)
  PROVE  Inv'
<1>1. /\ job' \in [Jobs -> Job] /\ queue' \in [Queues -> JobQueue]
      /\ scheduler' \in SchedulerObject
  BY DEF Sound, InOrder, State, Becomes
<1>2. TypeOK' BY <1>1 DEF TypeOK
<1>3. ASSUME NEW q \in Queues
      PROVE  /\ IsInjective(queue'[q].jobs)
             /\ \A j \in {queue'[q].jobs[i] : i \in 1 .. Len(queue'[q].jobs)} :
                    job'[j].queue = q
  <2>1. queue'[q].jobs \in Seq(Jobs) BY <1>1 DEF JobQueue
  <2>2. ToSet(queue'[q].jobs) = {queue'[q].jobs[i] : i \in 1 .. Len(queue'[q].jobs)}
    BY <2>1, Distinct
  <2> QED BY <2>2 DEF Sound, Becomes
<1>4. GroupsAgree' BY <1>3 DEF GroupsAgree, JobsOf
<1>5. JobsInOrder' BY DEF Sound, InOrder, Becomes, JobsInOrder
<1> QED BY <1>2, <1>4, <1>5 DEF Inv

(* An action that changes no list, but for the order *)
ListsStay == \A q \in Queues : ToSet(queue'[q].jobs) = ToSet(queue[q].jobs)

LEMMA BecomesSameMembers ==
  ASSUME NEW s, SameMembers(Now, s), Becomes(s)
  PROVE  ListsStay
BY DEF SameMembers, Becomes, ListsStay, Now

LEMMA BecomesStays ==
  ASSUME Now \in Sound, NEW s \in SameLists(Now), Becomes(s)
  PROVE  Inv' /\ ListsStay
<1>1. SameMembers(Now, s) BY DEF SameLists, SameMembers
<1> QED BY <1>1, SoundKept, BecomesSound, BecomesSameMembers

LEMMA NowFacts ==
  ASSUME Now \in Sound
  PROVE  /\ Now \in State /\ Now \in SameLists(Now)
         /\ \A j \in Jobs : Now \in Writing(Now, j)
         /\ \A j \in Jobs : job[j] \in Job /\ Consistent(j, job[j])
         /\ Now.job = job /\ Now.queue = queue /\ Now.scheduler = scheduler
         /\ job \in [Jobs -> Job]
         /\ scheduler \in SchedulerObject
         /\ \A j \in Jobs : job[j].queue \in Queues
<1>1. Now \in State /\ Now \in SameLists(Now) BY SoundItself DEF Sound, InOrder
<1>2. \A j \in Jobs : Now \in Writing(Now, j) BY <1>1, InOrderWhileWriting
<1>3. \A j \in Jobs : Consistent(j, job[j]) BY DEF Sound, InOrder, Now
<1> QED BY <1>1, <1>2, <1>3 DEF State, Now, Job

LEMMA ListedFacts ==
  ASSUME Now \in Sound, NEW j \in Jobs
  PROVE  /\ j \in Listed => j \in ToSet(Now.queue[Now.job[j].queue].jobs)
         /\ j \notin Listed => \A q \in Queues : j \notin ToSet(Now.queue[q].jobs)
<1>1. \A q \in Queues : JobsOf(q) = ToSet(Now.queue[q].jobs)
  <2>1. \A q \in Queues : Now.queue[q].jobs \in Seq(Jobs) BY OnceInSound DEF Once
  <2> QED BY <2>1, Distinct DEF JobsOf, Now
<1> QED BY <1>1 DEF Listed, Sound

(* What the lists name after a step *)
LEMMA ListedAfter ==
  ASSUME NEW s \in Sound, Becomes(s)
  PROVE  \A k : k \in Listed' <=> \E q \in Queues : k \in ToSet(s.queue[q].jobs)
<1>1. ASSUME NEW q \in Queues
      PROVE  {queue'[q].jobs[i] : i \in 1 .. Len(queue'[q].jobs)} = ToSet(s.queue[q].jobs)
  <2>1. s.queue[q].jobs \in Seq(Jobs) BY OnceInSound DEF Once
  <2> QED BY <2>1, Distinct DEF Becomes
<1>2. ASSUME NEW k
      PROVE  k \in Listed' <=> \E q \in Queues : k \in {queue'[q].jobs[i] : i \in 1 .. Len(queue'[q].jobs)}
  BY DEF Listed, JobsOf
<1> QED BY <1>1, <1>2, Zenon

LEMMA ListedBefore ==
  ASSUME Now \in Sound
  PROVE  \A k : k \in Listed <=> \E q \in Queues : k \in ToSet(Now.queue[q].jobs)
<1>1. ASSUME NEW q \in Queues PROVE JobsOf(q) = ToSet(Now.queue[q].jobs)
  <2>1. Now.queue[q].jobs \in Seq(Jobs) BY OnceInSound DEF Once
  <2> QED BY <2>1, Distinct DEF JobsOf, Now
<1>2. \A k : k \in Listed <=> \E q \in Queues : k \in JobsOf(q) BY DEF Listed
<1> QED BY <1>1, <1>2, Zenon

LEMMA NewJobInOrder ==
  ASSUME NEW q \in Queues, NEW j \in Jobs
  PROVE  NewJob(q) \in Job /\ NewJob(q).queue = q /\ Consistent(j, NewJob(q))
<1>1. NewJob(q) \in Job /\ NewJob(q).queue = q
  BY DEF NewJob, Job, JobStatus, Policy, ErrorType, Worker, Obstacle
<1>2. Consistent(j, NewJob(q)) BY DEF Consistent, NewJob
<1> QED BY <1>1, <1>2

LEMMA AddTransferSound ==
  ASSUME Now \in Sound, NEW j \in Jobs, NEW q \in Queues, AddTransfer(j, q)
  PROVE  Inv' /\ Listed' = Listed \cup {j}
<1> DEFINE s == [Now EXCEPT !.job[j] = NewJob(q)]
<1>1. NewJob(q) \in Job /\ NewJob(q).queue = q /\ Consistent(j, NewJob(q))
  BY NewJobInOrder
<1>2. s \in InOrder /\ s.queue = Now.queue /\ s.job = [Now.job EXCEPT ![j] = NewJob(q)]
  <2>1. s \in State /\ s.queue = Now.queue /\ s.job = [Now.job EXCEPT ![j] = NewJob(q)]
    BY <1>1, NowFacts DEF State
  <2> HIDE DEF s
  <2> QED BY <1>1, <2>1, NowFacts DEF InOrder
<1> HIDE DEF s
<1>3. \A p \in Queues : j \notin ToSet(Now.queue[p].jobs) BY ListedFacts DEF AddTransfer
<1>4. s \in Sound
  <2>1. ASSUME NEW p \in Queues, NEW k \in ToSet(Now.queue[p].jobs)
        PROVE  s.job[k].queue = p
    <3>1. k \in Jobs /\ k # j /\ Now.job[k].queue = p BY <1>3, OnceInSound DEF Sound
    <3> QED BY <1>2, <3>1, NowFacts
  <2> QED BY <1>2, <2>1 DEF Sound
<1>5. s.job[j].queue = q BY <1>1, <1>2, NowFacts
<1>6. append(s, q, j) \in Sound /\ Grouped(s, append(s, q, j), j, q)
  <2>1. \A p \in Queues : j \notin ToSet(s.queue[p].jobs) BY <1>2, <1>3
  <2> QED BY <1>4, <1>5, <2>1, AppendSound
<1>7. Becomes(append(s, q, j)) BY DEF AddTransfer, s
<1>8. \A k : k \in Listed' <=> \E p \in Queues : k \in ToSet(append(s, q, j).queue[p].jobs)
  BY <1>6, <1>7, ListedAfter
<1>9. \A k : k \in Listed <=> \E p \in Queues : k \in ToSet(Now.queue[p].jobs) BY ListedBefore
<1>10. ASSUME NEW k PROVE k \in Listed' <=> k \in Listed \cup {j}
  BY <1>2, <1>6, <1>8, <1>9 DEF Grouped
<1>11. Listed' = Listed \cup {j} BY <1>10
<1> QED BY <1>6, <1>7, <1>11, BecomesSound

LEMMA DeleteTransferSound ==
  ASSUME Now \in Sound, NEW j \in Jobs, DeleteTransfer(j)
  PROVE  Inv' /\ Listed' = Listed \ {j}
<1> DEFINE q == job[j].queue
           r == remove(Now, q, j)
           s == [r EXCEPT !.job[j] = NewJob(q)]
<1>1. q \in Queues BY NowFacts
<1>2. /\ r \in Sound
      /\ \A p \in Queues : r.queue[p].jobs =
             IF p = q THEN Without(Now.queue[q].jobs, j) ELSE Now.queue[p].jobs
  BY <1>1, RemoveSound
<1>3. \A p \in Queues : j \notin ToSet(r.queue[p].jobs)
  <2>1. j \notin ToSet(Without(Now.queue[q].jobs, j)) BY <1>1, OnceInSound, WithoutFacts
  <2>2. j \in ToSet(Now.queue[q].jobs) BY ListedFacts, NowFacts DEF DeleteTransfer
  <2>3. \A p \in Queues : p # q => j \notin ToSet(Now.queue[p].jobs)
    BY <1>1, <2>2, InOneList
  <2> HIDE DEF q, r
  <2> QED BY <1>2, <2>1, <2>3
<1>4. NewJob(q) \in Job /\ Consistent(j, NewJob(q)) BY <1>1, NewJobInOrder
<1> HIDE DEF q, r
<1>5. r \in State /\ r \in InOrder /\ r.job \in [Jobs -> Job]
  BY <1>2 DEF Sound, InOrder, State
<1>6. s \in InOrder /\ s.queue = r.queue /\ s.job = [r.job EXCEPT ![j] = NewJob(q)]
  <2>1. s \in State /\ s.queue = r.queue /\ s.job = [r.job EXCEPT ![j] = NewJob(q)]
    BY <1>4, <1>5 DEF State
  <2> HIDE DEF s
  <2> QED BY <1>4, <1>5, <2>1 DEF InOrder
<1> HIDE DEF s
<1>7. s \in Sound
  <2>1. ASSUME NEW p \in Queues, NEW k \in ToSet(r.queue[p].jobs)
        PROVE  s.job[k].queue = p
    <3>1. k \in Jobs /\ k # j /\ r.job[k].queue = p BY <1>2, <1>3, OnceInSound DEF Sound
    <3> QED BY <1>5, <1>6, <3>1
  <2> QED BY <1>2, <1>6, <2>1 DEF Sound
<1>8. Becomes(s) BY DEF DeleteTransfer, s, r, q
<1>9. \A p \in Queues : ToSet(s.queue[p].jobs) = ToSet(Now.queue[p].jobs) \ {j}
  <2>1. ToSet(Without(Now.queue[q].jobs, j)) = ToSet(Now.queue[q].jobs) \ {j}
    BY <1>1, OnceInSound, WithoutFacts
  <2> QED BY <1>2, <1>3, <1>6, <2>1
<1>10. \A k : k \in Listed' <=> \E p \in Queues : k \in ToSet(s.queue[p].jobs)
  BY <1>7, <1>8, ListedAfter
<1>11. \A k : k \in Listed <=> \E p \in Queues : k \in ToSet(Now.queue[p].jobs) BY ListedBefore
<1>12. ASSUME NEW k PROVE k \in Listed' <=> k \in Listed \ {j} BY <1>9, <1>10, <1>11
<1>13. Listed' = Listed \ {j} BY <1>12
<1> QED BY <1>7, <1>8, <1>13, BecomesSound

(* What brings a transfer into a list, or takes it out of one *)
ListsChange ==
    \E j \in Jobs : \/ \E q \in Queues : AddTransfer(j, q)
                   \/ DeleteTransfer(j)
                   \/ \E q \in Queues \ {job[j].queue}, after \in Jobs \cup {"front"} :
                          MoveTransfer(j, q, after)

LEMMA MoveTransferListed ==
  ASSUME Now \in Sound, NEW j \in Jobs, NEW dest \in Queues, NEW after \in Jobs \cup {"front"},
         dest # job[j].queue, MoveTransfer(j, dest, after)
  PROVE  Listed' = Listed
<1> DEFINE s == moveTransfer(Now, j, dest, after)
           Set(p) == IF p = dest THEN ToSet(Now.queue[p].jobs) \cup {j}
                     ELSE ToSet(Now.queue[p].jobs) \ {j}
<1>1. after # "front" => after \in ToSet(Now.queue[dest].jobs)
  <2>1. Now.queue[dest].jobs \in Seq(Jobs) BY OnceInSound DEF Once
  <2>2. JobsOf(dest) = ToSet(Now.queue[dest].jobs) BY <2>1, Distinct DEF JobsOf, Now
  <2> QED BY <2>2 DEF MoveTransfer
<1>2. j \in ToSet(Now.queue[Now.job[j].queue].jobs) /\ dest # Now.job[j].queue
  BY NowFacts, ListedFacts DEF MoveTransfer
<1>3. s \in Sound /\ \A p \in Queues : ToSet(s.queue[p].jobs) = Set(p)
  <2>1. s \in Sound /\ Regrouped(Now, s, j, dest) BY <1>1, <1>2, MoveTransferSound
  <2> QED BY <2>1 DEF Regrouped
<1>4. Becomes(s) BY DEF MoveTransfer, Handles
<1> HIDE DEF s
<1>5. \A k : k \in Listed' <=> \E p \in Queues : k \in ToSet(s.queue[p].jobs)
  BY <1>3, <1>4, ListedAfter
<1>6. \A k : k \in Listed <=> \E p \in Queues : k \in ToSet(Now.queue[p].jobs) BY ListedBefore
<1>7. Now.job[j].queue \in Queues BY NowFacts
<1>8. ASSUME NEW k PROVE k \in Listed' <=> k \in Listed
  <2>1. CASE k = j BY <1>2, <1>3, <1>5, <1>6, <1>7, <2>1
  <2>2. CASE k # j
    <3>1. \A p \in Queues : k \in Set(p) <=> k \in ToSet(Now.queue[p].jobs) BY <2>2
    <3> HIDE DEF Set
    <3>2. \A p \in Queues : k \in ToSet(s.queue[p].jobs) <=> k \in ToSet(Now.queue[p].jobs)
      BY <1>3, <3>1
    <3> QED BY <1>5, <1>6, <3>2, Zenon
  <2> QED BY <2>1, <2>2
<1> QED BY <1>8

LEMMA UserActsSound ==
  ASSUME Now \in Sound, UserActs
  PROVE  Inv' /\ (ListsStay \/ ListsChange)
<1>1. ASSUME NEW j \in Jobs, StartTransfer(j) PROVE Inv' /\ ListsStay
  <2>1. handlerStart(Now, j) \in Sound /\ SameMembers(Now, handlerStart(Now, j))
    BY <1>1, ListedFacts, HandlerStartSound DEF StartTransfer, Handles
  <2> QED BY <1>1, <2>1, BecomesSound, BecomesSameMembers DEF StartTransfer, Handles
<1>2. ASSUME NEW j \in Jobs, StopTransfer(j) PROVE Inv' /\ ListsStay
  <2>1. handlerStop(Now, j) \in SameLists(Now) BY NowFacts, HandlerStopStays
  <2> QED BY <1>2, <2>1, BecomesStays DEF StopTransfer, Handles
<1>3. ASSUME NEW j \in Jobs, NEW dest \in Queues, NEW after \in Jobs \cup {"front"},
             MoveTransfer(j, dest, after)
      PROVE  Inv' /\ (dest = job[j].queue => ListsStay)
  <2>1. after # "front" => after \in ToSet(Now.queue[dest].jobs)
    <3>1. Now.queue[dest].jobs \in Seq(Jobs) BY OnceInSound DEF Once
    <3>2. JobsOf(dest) = ToSet(Now.queue[dest].jobs) BY <3>1, Distinct DEF JobsOf, Now
    <3> QED BY <1>3, <3>2 DEF MoveTransfer, Handles
  <2>2. /\ moveTransfer(Now, j, dest, after) \in Sound
        /\ dest = job[j].queue => SameMembers(Now, moveTransfer(Now, j, dest, after))
    BY <1>3, <2>1, NowFacts, ListedFacts, MoveTransferSound DEF MoveTransfer, Handles
  <2> QED BY <1>3, <2>2, BecomesSound, BecomesSameMembers DEF MoveTransfer, Handles
<1>4. ASSUME NEW q \in Queues, NEW status \in JobQueueStatus, SetQueueStatus(q, status)
      PROVE  Inv' /\ ListsStay
  BY <1>4, SetQueueStatusSound, BecomesSound, BecomesSameMembers DEF SetQueueStatus, Handles
<1>5. ASSUME NEW suspended \in BOOLEAN, SetIsSuspended(suspended) PROVE Inv' /\ ListsStay
  <2> DEFINE s == [Now EXCEPT !.scheduler.suspended = suspended]
  <2>1. s \in SameLists(Now)
    <3>1. [scheduler EXCEPT !.suspended = suspended] \in SchedulerObject
      BY NowFacts DEF SchedulerObject
    <3>2. s = [Now EXCEPT !.scheduler = [scheduler EXCEPT !.suspended = suspended]]
      BY NowFacts
    <3> QED BY <3>1, <3>2, NowFacts, SchedulerWritten
  <2> HIDE DEF s
  <2>2. s.scheduler.queues \in Seq(Queues) BY <2>1 DEF SameLists, InOrder, State, SchedulerObject
  <2>3. updateAllQueues(s) \in SameLists(Now) BY <2>1, <2>2, UpdateAllStays
       DEF updateAllQueues, UpdatedQueues
  <2> QED BY <1>5, <2>1, <2>3, BecomesStays DEF SetIsSuspended, Handles, s
<1>6. ASSUME NEW limit \in Limits, SettingsChanged(limit) PROVE Inv' /\ ListsStay
  <2> DEFINE s == [Now EXCEPT !.scheduler.maxConnections = limit]
  <2>1. s \in SameLists(Now)
    <3>1. limit \in Nat BY LimitsAssumption
    <3>2. [scheduler EXCEPT !.maxConnections = limit] \in SchedulerObject
      BY <3>1, NowFacts DEF SchedulerObject
    <3>3. s = [Now EXCEPT !.scheduler = [scheduler EXCEPT !.maxConnections = limit]]
      BY NowFacts
    <3> QED BY <3>2, <3>3, NowFacts, SchedulerWritten
  <2> HIDE DEF s
  <2>2. s.scheduler.queues \in Seq(Queues) BY <2>1 DEF SameLists, InOrder, State, SchedulerObject
  <2>3. updateAllQueues(s) \in SameLists(Now) BY <2>1, <2>2, UpdateAllStays
       DEF updateAllQueues, UpdatedQueues
  <2> QED BY <1>6, <2>3, BecomesStays DEF SettingsChanged, Handles, s
<1> QED BY <1>1, <1>2, <1>3, <1>4, <1>5, <1>6, AddTransferSound, DeleteTransferSound
        DEF UserActs, ListsChange

LEMMA NetworkActsSound ==
  ASSUME Now \in Sound, NetworkActs
  PROVE  Inv' /\ ListsStay
<1>1. ASSUME NEW connected \in BOOLEAN, NEW timer \in BOOLEAN
      PROVE  [Now EXCEPT !.scheduler.connected = connected, !.scheduler.timer = timer]
                 \in SameLists(Now)
  <2> DEFINE c == [scheduler EXCEPT !.connected = connected, !.timer = timer]
  <2>1. c \in SchedulerObject BY NowFacts DEF SchedulerObject
  <2>2. [Now EXCEPT !.scheduler.connected = connected, !.scheduler.timer = timer]
        = [Now EXCEPT !.scheduler = c]
    BY NowFacts
  <2> HIDE DEF c
  <2> QED BY <2>1, <2>2, NowFacts, SchedulerWritten
<1>2. CASE LoseConnection
  <2> DEFINE s == [Now EXCEPT !.scheduler.connected = FALSE, !.scheduler.timer = FALSE]
  <2>1. s \in SameLists(Now) BY <1>1
  <2>2. scheduler.queues \in Seq(Queues) BY NowFacts DEF SchedulerObject
  <2> HIDE DEF s
  <2>3. ForEach(StopQueue, s, scheduler.queues) \in SameLists(Now)
    BY <2>1, <2>2, StopQueuesStay DEF StoppedQueues
  <2> QED BY <1>2, <2>3, BecomesStays DEF LoseConnection, Handles, s
<1>3. CASE GainConnection
  <2> DEFINE s == [Now EXCEPT !.scheduler.connected = TRUE, !.scheduler.timer = TRUE]
  <2>1. s \in SameLists(Now) BY <1>1
  <2> HIDE DEF s
  <2>2. s.scheduler.queues \in Seq(Queues) BY <2>1 DEF SameLists, InOrder, State, SchedulerObject
  <2>3. updateAllQueues(s) \in SameLists(Now) BY <2>1, <2>2, UpdateAllStays
       DEF updateAllQueues, UpdatedQueues
  <2> QED BY <1>3, <2>3, BecomesStays DEF GainConnection, Handles, s
<1> QED BY <1>2, <1>3 DEF NetworkActs

LEMMA TickSound ==
  ASSUME Now \in Sound, Tick
  PROVE  Inv' /\ ListsStay
BY NowFacts, TimerStays, BecomesStays DEF Tick, Handles

LEMMA KioActsSound ==
  ASSUME Now \in Sound, KioActs
  PROVE  Inv' /\ ListsStay
<1>1. ASSUME NEW j \in Jobs, NEW status \in {"Finished", "Aborted"}, Kind[j] = "kio",
             job[j].worker = "ready"
      PROVE  LET s == setStatus(Now, j, status)
             IN  /\ [s EXCEPT !.job[j].worker = "none"] \in SameLists(Now)
                 /\ [s EXCEPT !.job[j].speed = FALSE, !.job[j].worker = "none"]
                        \in SameLists(Now)
  <2> DEFINE s == setStatus(Now, j, status)
             t == [s EXCEPT !.job[j].speed = FALSE]
  <2>1. s \in SameLists(Now)
    <3>1. ~Now.job[j].moving BY <1>1, NowFacts DEF Consistent
    <3>2. \A r \in Job : r.status = status /\ r.moving = Now.job[j].moving
                         => Consistent(j, r)
      BY <1>1, <3>1 DEF Consistent
    <3> QED BY <1>1, <3>2, NowFacts, SetStatusStays DEF JobStatus
  <2> HIDE DEF s
  <2>2. t \in SameLists(Now) BY <2>1, FieldsWritten, InOrderWhileWriting DEF Aside
  <2> HIDE DEF t
  <2>3. ASSUME NEW u \in SameLists(Now)
        PROVE  [u EXCEPT !.job[j].worker = "none"] \in SameLists(Now)
    <3> DEFINE v == [u EXCEPT !.job[j].worker = "none"]
    <3>1. u \in Writing(Now, j) /\ Consistent(j, u.job[j])
      BY <2>3, InOrderWhileWriting, Objects
    <3>2. Wrote(Now, u, v, j, "none", u.job[j].moving)
      BY <3>1, WorkerWritten DEF Worker
    <3> HIDE DEF v
    <3>3. Consistent(j, v.job[j]) BY <1>1, <3>1, <3>2 DEF Wrote, Consistent
    <3>4. v \in SameLists(Now) BY <3>2, <3>3, InOrderWhileWriting DEF Wrote
    <3> QED BY <3>4 DEF v
  <2>4. [s EXCEPT !.job[j].worker = "none"] \in SameLists(Now) BY <2>1, <2>3
  <2>5. [t EXCEPT !.job[j].worker = "none"] \in SameLists(Now) BY <2>2, <2>3
  <2> QED BY <2>4, <2>5 DEF t, s
<1>2. ASSUME NEW j \in Jobs, KioFinished(j) PROVE Inv' /\ ListsStay
  BY <1>1, <1>2, BecomesStays DEF KioFinished, Handles
<1>3. ASSUME NEW j \in Jobs, KioFailed(j) PROVE Inv' /\ ListsStay
  BY <1>1, <1>3, BecomesStays DEF KioFailed, Handles
<1>4. ASSUME NEW j \in Jobs, KioMoves(j) PROVE Inv' /\ ListsStay
  <2> DEFINE s == [Now EXCEPT !.job[j].moving = TRUE]
             t == stop(s, j)
  <2>0. Wrote(Now, Now, s, j, Now.job[j].worker, TRUE) BY NowFacts, MovingWritten
  <2> HIDE DEF s
  <2>1. /\ s \in Writing(Now, j)
        /\ s.job[j].status = job[j].status /\ s.job[j].worker = job[j].worker
    BY <2>0, NowFacts DEF Wrote
  <2>2. s.job[j].status \in {"Stopped", "Finished"} => Consistent(j, s.job[j])
    BY <1>4, <2>1, NowFacts DEF KioMoves, Handles, Consistent
  <2>3. t \in SameLists(Now)
    <3>1. KioStop(s, j) \in SameLists(Now) BY <1>4, <2>1, <2>2, KioStopStays DEF KioMoves, Handles
    <3> QED BY <1>4, <3>1, AnnounceStays DEF KioMoves, Handles, stop, StopQuiet
  <2> HIDE DEF t
  <2>4. setStatus(t, j, "Moving") \in SameLists(Now)
    <3>1. t \in Writing(Now, j) /\ Consistent(j, t.job[j])
      BY <2>3, InOrderWhileWriting, Objects
    <3>2. \A r \in Job : /\ r.status = "Moving" /\ r.worker = t.job[j].worker
                         /\ r.moving = t.job[j].moving
                         => Consistent(j, r)
      BY <1>4, <3>1 DEF KioMoves, Handles, Consistent
    <3> QED BY <3>1, <3>2, SetStatusStays DEF JobStatus
  <2> QED BY <1>4, <2>4, BecomesStays DEF KioMoves, Handles, t, s
<1>5. ASSUME NEW j \in Jobs, KioMoved(j) PROVE Inv' /\ ListsStay
  <2> DEFINE s == [Now EXCEPT !.job[j].moving = FALSE]
  <2>0. Wrote(Now, Now, s, j, Now.job[j].worker, FALSE) BY NowFacts, MovingWritten
  <2> HIDE DEF s
  <2>1. /\ s \in Writing(Now, j) /\ s.job[j].moving = FALSE
        /\ s.job[j].status = job[j].status /\ s.job[j].worker = job[j].worker
    BY <2>0, NowFacts DEF Wrote
  <2>2. Consistent(j, s.job[j]) BY <1>5, <2>1, NowFacts DEF KioMoved, Handles, Consistent
  <2>3. start(s, j) \in SameLists(Now)
    BY <2>1, <2>2, InOrderWhileWriting, StartsAndStopsStay
  <2> QED BY <1>5, <2>3, BecomesStays DEF KioMoved, Handles, s
<1> QED BY <1>2, <1>3, <1>4, <1>5 DEF KioActs

LEMMA MultiActsSound ==
  ASSUME Now \in Sound, MultiActs
  PROVE  Inv' /\ ListsStay
<1>1. ASSUME NEW j \in Jobs, FileOpened(j) PROVE Inv' /\ ListsStay
  <2> DEFINE s == [Now EXCEPT !.job[j].worker = "ready"]
  <2>0. Wrote(Now, Now, s, j, "ready", Now.job[j].moving)
    BY NowFacts, WorkerWritten DEF Worker
  <2> HIDE DEF s
  <2>1. s \in Writing(Now, j) /\ s.job[j].worker = "ready" BY <2>0 DEF Wrote
  <2>2. s \in SameLists(Now)
    <3>1. Consistent(j, s.job[j]) BY <1>1, <2>1 DEF FileOpened, Handles, Consistent
    <3> QED BY <2>1, <3>1, InOrderWhileWriting
  <2>3. Announce(s, FactoryStart(s, j), j) \in SameLists(Now)
    BY <1>1, <2>1, FactoryStartStays, AnnounceStays DEF FileOpened, Handles
  <2> QED BY <1>1, <2>2, <2>3, BecomesStays DEF FileOpened, Handles, s
<1>2. ASSUME NEW j \in Jobs, MultiFinished(j) PROVE Inv' /\ ListsStay
  <2> DEFINE s == [Now EXCEPT !.job[j].worker = "none"]
             t == [s EXCEPT !.job[j].speed = FALSE]
  <2>0. Wrote(Now, Now, s, j, "none", Now.job[j].moving)
    BY NowFacts, WorkerWritten DEF Worker
  <2> HIDE DEF s
  <2>1. s \in Writing(Now, j) BY <2>0 DEF Wrote
  <2>2. t \in Writing(Now, j) BY <2>1, FieldsWritten DEF Aside
  <2> HIDE DEF t
  <2>3. \A r \in Job : r.status = "Finished" => Consistent(j, r)
    BY <1>2 DEF MultiFinished, Handles, Consistent
  <2>4. setStatus(t, j, "Finished") \in SameLists(Now)
    BY <2>2, <2>3, SetStatusStays DEF JobStatus
  <2> QED BY <1>2, <2>4, BecomesStays DEF MultiFinished, Handles, t, s
<1>3. ASSUME NEW j \in Jobs, MultiMoves(j) PROVE Inv' /\ ListsStay
  <2> DEFINE stopped == stop(Now, j)
             again == Announce(stopped, FactoryStop(stopped, j), j)
             moving == setStatus(again, j, "Moving")
             a == [moving EXCEPT !.job[j].moving = TRUE]
             b == [a EXCEPT !.job[j].beforeMove = stopped.job[j].status]
             c == [b EXCEPT !.job[j].worker = "none"]
             d == [c EXCEPT !.job[j].speed = FALSE]
  <2>0. Kind[j] = "multiseg" BY <1>3 DEF MultiMoves, Handles
  <2>1. stopped \in SameLists(Now) BY NowFacts, StartsAndStopsStay
  <2> HIDE DEF stopped
  <2>2. again \in SameLists(Now)
    BY <2>0, <2>1, InOrderWhileWriting, FactoryStopStays, AnnounceStays
  <2> HIDE DEF again
  <2>3. moving \in SameLists(Now)
    <3>1. \A r \in Job : r.status = "Moving" => Consistent(j, r) BY <2>0 DEF Consistent
    <3> QED BY <2>2, <3>1, InOrderWhileWriting, SetStatusStays DEF JobStatus
  <2> HIDE DEF moving
  <2>4. Wrote(Now, moving, a, j, moving.job[j].worker, TRUE)
    BY <2>3, InOrderWhileWriting, MovingWritten
  <2> HIDE DEF a
  <2>5. stopped.job[j].status \in JobStatus BY <2>1, Objects, FieldTypes
  <2>6. Aside(Now, a, b, j)
    <3>1. a \in Writing(Now, j) BY <2>4 DEF Wrote
    <3> QED BY <2>5, <3>1, FieldsWritten
  <2> HIDE DEF b
  <2>7. Wrote(Now, b, c, j, "none", b.job[j].moving)
    <3>1. b \in Writing(Now, j) BY <2>6 DEF Aside
    <3> QED BY <3>1, WorkerWritten DEF Worker
  <2> HIDE DEF c
  <2>8. c \in Writing(Now, j) /\ Consistent(j, c.job[j])
    BY <2>0, <2>4, <2>6, <2>7 DEF Wrote, Aside, SameOrder, Consistent
  <2>9. d \in SameLists(Now) BY <2>8, InOrderWhileWriting, FieldsWritten DEF Aside
  <2> QED BY <1>3, <2>9, BecomesStays DEF MultiMoves, Handles, d, c, b, a, moving, again, stopped
<1>4. ASSUME NEW j \in Jobs, MultiMoved(j) PROVE Inv' /\ ListsStay
  <2> DEFINE u == [Now EXCEPT !.job[j].moving = FALSE]
             s == setStatus(u, j, job[j].beforeMove)
  <2>0. Kind[j] = "multiseg" BY <1>4 DEF MultiMoved, Handles
  <2>1. u \in Writing(Now, j)
    <3>1. Wrote(Now, Now, u, j, Now.job[j].worker, FALSE) BY NowFacts, MovingWritten
    <3> HIDE DEF u
    <3> QED BY <3>1 DEF Wrote
  <2> HIDE DEF u
  <2>2. job[j].beforeMove \in JobStatus BY NowFacts, FieldTypes
  <2>3. CASE job[j].beforeMove = "Running"
    (* The job says Running before its file is open again: start mends that. *)
    <3> DEFINE t == SetStatusQuiet(u, j, "Running")
    <3>1. t \in Writing(Now, j) BY <2>1, SetStatusQuietStays, ZenonT(60) DEF JobStatus
    <3>2. t.job[j].status = "Running" BY <2>1, StatusWritten DEF JobStatus
    <3> HIDE DEF t
    <3>3. s = t BY <2>3, <3>2 DEF setStatus, Announce, t
    <3> HIDE DEF s
    <3>4. Announce(s, FactoryStart(s, j), j) \in SameLists(Now)
      BY <2>0, <3>1, <3>3, FactoryStartStays, AnnounceStays
    <3> QED BY <1>4, <2>3, <3>4, BecomesStays DEF MultiMoved, Handles, s, u
  <2>4. CASE job[j].beforeMove # "Running"
    <3>1. \A r \in Job : r.status = job[j].beforeMove => Consistent(j, r)
      BY <2>0, <2>4 DEF Consistent
    <3>2. s \in SameLists(Now) BY <2>1, <2>2, <3>1, SetStatusStays
    <3> HIDE DEF s
    <3> QED BY <1>4, <2>4, <3>2, BecomesStays DEF MultiMoved, Handles, s, u
  <2> QED BY <2>3, <2>4
<1> QED BY <1>1, <1>2, <1>3, <1>4 DEF MultiActs

(* A torrent that is there is in order, whatever its status. *)
LEMMA TorrentThere ==
  ASSUME NEW base, NEW j \in Jobs, NEW s \in Writing(base, j),
         Kind[j] = "bt", s.job[j].worker = "ready", s.job[j].obstacle = "none"
  PROVE  /\ s \in SameLists(base)
         /\ \A status \in JobStatus : setStatus(s, j, status) \in SameLists(base)
<1>1. \A r \in Job : r.worker = s.job[j].worker /\ r.obstacle = s.job[j].obstacle
                     => Consistent(j, r)
  BY DEF Consistent
<1>2. Consistent(j, s.job[j]) BY DEF Consistent
<1> QED BY <1>1, <1>2, InOrderWhileWriting, SetStatusStays

LEMMA TorrentFetchedSound ==
  ASSUME Now \in Sound, NEW j \in Jobs, NEW again \in BOOLEAN, TorrentFetched(j, again)
  PROVE  Inv' /\ ListsStay
<1> DEFINE u == [Now EXCEPT !.job[j].startTried = again]
           w == IF Now.job[j].worker = "ready" THEN Now.job[j].worker ELSE "pending"
           s == [u EXCEPT !.job[j].worker = w]
           stopped == setStatus(s, j, "Stopped")
           ready == [stopped EXCEPT !.job[j].worker = "ready"]
           pending == [stopped EXCEPT !.job[j].worker = "pending"]
<1>1. Kind[j] = "bt" BY DEF TorrentFetched, Handles
<1>2. u \in Writing(Now, j) /\ SameOrder(u.job[j], job[j])
  <2>1. Aside(Now, Now, u, j) BY NowFacts, FieldsWritten
  <2> HIDE DEF u
  <2> QED BY <2>1, NowFacts DEF Aside
<1> HIDE DEF u
<1>3. w \in Worker /\ w = IF job[j].worker = "ready" THEN "ready" ELSE "pending"
  BY NowFacts DEF Worker
<1> HIDE DEF w
<1>4. /\ s \in Writing(Now, j) /\ s.job[j].worker = w /\ s.job[j].status = job[j].status
      /\ s.job[j].moving = job[j].moving /\ s.job[j].obstacle = job[j].obstacle
  <2>1. Wrote(Now, u, s, j, w, u.job[j].moving) BY <1>2, <1>3, WorkerWritten
  <2> HIDE DEF s
  <2> QED BY <1>2, <2>1 DEF Wrote, SameOrder
<1> HIDE DEF s
<1>5. s \in SameLists(Now)
  <2>1. Consistent(j, s.job[j]) BY <1>1, <1>3, <1>4, NowFacts DEF Consistent
  <2> QED BY <1>4, <2>1, InOrderWhileWriting
<1>6. stopped \in SameLists(Now) /\ stopped.job[j].obstacle = job[j].obstacle
  <2>1. Consistent(j, s.job[j]) BY <1>5, Objects
  <2>2. \A r \in Job : /\ r.status = "Stopped" /\ r.worker = s.job[j].worker
                       /\ r.moving = s.job[j].moving /\ r.obstacle = s.job[j].obstacle
                       => Consistent(j, r)
    BY <1>1, <2>1 DEF Consistent
  <2>3. SetStatusQuiet(s, j, "Stopped") \in SameLists(Now)
    BY <1>4, <2>2, StatusStays DEF JobStatus
  <2>4. stopped \in SameLists(Now) BY <1>4, <2>2, SetStatusStays DEF JobStatus
  <2>5. s \in State /\ SetStatusQuiet(s, j, "Stopped") \in InOrder
    BY <1>5, <2>3 DEF SameLists, InOrder
  <2>6. stopped \in Touching(s, Jobs) BY <2>5, SetStatusSpares DEF JobStatus
  <2> HIDE DEF stopped
  <2> QED BY <1>4, <2>4, <2>6 DEF Touching, SameDuties
<1> HIDE DEF stopped
<1>7. stopped \in Writing(Now, j) /\ Consistent(j, stopped.job[j])
  BY <1>6, InOrderWhileWriting, Objects
<1>8. /\ ready \in Writing(Now, j) /\ ready.job[j].worker = "ready"
      /\ ready.job[j].obstacle = job[j].obstacle
  <2>1. Wrote(Now, stopped, ready, j, "ready", stopped.job[j].moving)
    BY <1>7, WorkerWritten DEF Worker
  <2> HIDE DEF ready
  <2> QED BY <1>6, <2>1 DEF Wrote
<1>9. job[j].obstacle # "none" => pending \in SameLists(Now)
  (* A torrent that meets an obstacle is not there. *)
  <2>1. Wrote(Now, stopped, pending, j, "pending", stopped.job[j].moving)
    BY <1>7, WorkerWritten DEF Worker
  <2> HIDE DEF pending
  <2>2. job[j].obstacle # "none" => Consistent(j, pending.job[j])
    BY <1>1, <1>6, <1>7, <2>1 DEF Wrote, Consistent
  <2> QED BY <2>1, <2>2, InOrderWhileWriting DEF Wrote
<1> HIDE DEF ready, pending
<1>10. /\ setError(s, j, "NotSolveable") \in SameLists(Now)
       /\ setError(stopped, j, "AutomaticRetry") \in SameLists(Now)
  BY <1>1, <1>5, <1>6, SetErrorStays DEF ErrorType
<1>11. job[j].obstacle # "none" => setError(pending, j, "NotSolveable") \in SameLists(Now)
  BY <1>1, <1>9, SetErrorStays DEF ErrorType
<1>12. job[j].obstacle = "none"
           => Announce(ready, StartTorrent(ready, j), j) \in SameLists(Now)
  BY <1>1, <1>8, StartTorrentStays, AnnounceStays
<1>13. job[j].obstacle \in Obstacle BY NowFacts, FieldTypes
<1>14. \/ Becomes(setError(s, j, "NotSolveable"))
       \/ Becomes(setError(stopped, j, "AutomaticRetry"))
       \/ job[j].obstacle # "none" /\ Becomes(setError(pending, j, "NotSolveable"))
       \/ job[j].obstacle = "none" /\ Becomes(Announce(ready, StartTorrent(ready, j), j))
  BY <1>13 DEF TorrentFetched, Handles, Obstacle, ready, pending, stopped, s, w, u
<1> QED BY <1>10, <1>11, <1>12, <1>14, BecomesStays

LEMMA BtActsSound ==
  ASSUME Now \in Sound, BtActs
  PROVE  Inv' /\ ListsStay
<1>1. ASSUME NEW j \in Jobs, TorrentFinished(j) PROVE Inv' /\ ListsStay
  <2> DEFINE s == [Now EXCEPT !.job[j].complete = TRUE]
  <2>0. Aside(Now, Now, s, j) BY NowFacts, FieldsWritten
  <2> HIDE DEF s
  <2>1. s \in Writing(Now, j) /\ s.job[j].worker = "ready" /\ s.job[j].obstacle = "none"
    BY <1>1, <2>0, NowFacts DEF Aside, SameOrder, TorrentFinished, Handles, Consistent
  <2>2. setStatus(s, j, "FinishedKeepAlive") \in SameLists(Now)
    BY <1>1, <2>1, TorrentThere DEF TorrentFinished, Handles, JobStatus
  <2> QED BY <1>1, <2>2, BecomesStays DEF TorrentFinished, Handles, s
<1>2. ASSUME NEW j \in Jobs, TorrentError(j) PROVE Inv' /\ ListsStay
  <2>1. stop(Now, j) \in SameLists(Now) BY NowFacts, StartsAndStopsStay
  <2>2. setError(stop(Now, j), j, "NotSolveable") \in SameLists(Now)
    BY <1>2, <2>1, SetErrorStays DEF TorrentError, Handles, ErrorType
  <2> QED BY <1>2, <2>2, BecomesStays DEF TorrentError, Handles
<1>3. ASSUME NEW j \in Jobs, TorrentMoves(j) PROVE Inv' /\ ListsStay
  <2> DEFINE s == [Now EXCEPT !.job[j].moving = TRUE]
             t == [s EXCEPT !.job[j].beforeMove = job[j].status]
  <2>0. Wrote(Now, Now, s, j, Now.job[j].worker, TRUE) BY NowFacts, MovingWritten
  <2> HIDE DEF s
  <2>1. s \in Writing(Now, j) /\ s.job[j].worker = "ready" /\ s.job[j].obstacle = "none"
    BY <1>3, <2>0, NowFacts DEF Wrote, TorrentMoves, Handles, Consistent
  <2>2. job[j].status \in JobStatus BY NowFacts, FieldTypes
  <2>3. t \in Writing(Now, j) /\ t.job[j].worker = "ready" /\ t.job[j].obstacle = "none"
    <3>1. Aside(Now, s, t, j) BY <2>1, <2>2, FieldsWritten
    <3> HIDE DEF t
    <3> QED BY <2>1, <3>1 DEF Aside, SameOrder
  <2> HIDE DEF t
  <2>4. setStatus(t, j, "Stopped") \in SameLists(Now)
    BY <1>3, <2>3, TorrentThere DEF TorrentMoves, Handles, JobStatus
  <2> QED BY <1>3, <2>4, BecomesStays DEF TorrentMoves, Handles, t, s
<1>4. ASSUME NEW j \in Jobs, TorrentMoved(j) PROVE Inv' /\ ListsStay
  <2> DEFINE s == [Now EXCEPT !.job[j].moving = FALSE]
  <2>0. Wrote(Now, Now, s, j, Now.job[j].worker, FALSE) BY NowFacts, MovingWritten
  <2> HIDE DEF s
  <2>1. s \in Writing(Now, j) /\ s.job[j].worker = "ready" /\ s.job[j].obstacle = "none"
    BY <1>4, <2>0, NowFacts DEF Wrote, TorrentMoved, Handles, Consistent
  <2>2. setStatus(s, j, "Running") \in SameLists(Now)
    BY <1>4, <2>1, TorrentThere DEF TorrentMoved, Handles, JobStatus
  <2> QED BY <1>4, <2>2, BecomesStays DEF TorrentMoved, Handles, s
<1> QED BY <1>1, <1>2, <1>3, <1>4, TorrentFetchedSound DEF BtActs

LEMMA SurroundingsSound ==
  ASSUME Now \in Sound, NEW j \in Jobs
  PROVE  /\ SpeedChanges(j) => Inv' /\ ListsStay
         /\ \A obstacle \in Obstacles : ObstacleChanges(j, obstacle) => Inv' /\ ListsStay
<1>1. ASSUME SpeedChanges(j) PROVE Inv' /\ ListsStay
  <2> DEFINE s == [Now EXCEPT !.job[j].speed = ~@]
  <2>1. s \in SameLists(Now) BY NowFacts, FieldsWritten DEF Aside
  <2> HIDE DEF s
  <2> QED BY <1>1, <2>1, BecomesStays DEF SpeedChanges, Handles, s
<1>2. ASSUME NEW obstacle \in Obstacles, ObstacleChanges(j, obstacle) PROVE Inv' /\ ListsStay
  <2> DEFINE s == [Now EXCEPT !.job[j].obstacle = obstacle]
  <2>1. obstacle \in Obstacle BY SwitchesAssumption
  <2>2. Kind[j] = "bt" => Now.job[j].worker # "ready" BY <1>2, NowFacts DEF ObstacleChanges, Handles
  <2>3. s \in SameLists(Now) BY <2>1, <2>2, NowFacts, ObstacleWritten
  <2> HIDE DEF s
  <2> QED BY <1>2, <2>3, BecomesStays DEF ObstacleChanges, Handles, s
<1> QED BY <1>1, <1>2

-----------------------------------------------------------------------------
(* The theorems *)

LEMMA InitSound ==
  Init => Inv
<1> SUFFICES ASSUME Init PROVE Inv OBVIOUS
<1>1. \A q \in Queues : NewJob(q) \in Job
  BY DEF NewJob, Job, JobStatus, Policy, ErrorType, Worker, Obstacle
<1>2. job \in [Jobs -> Job] BY <1>1 DEF Init
<1>3. queue \in [Queues -> JobQueue]
      /\ \A q \in Queues : queue[q].jobs = <<>>
  BY DEF Init, JobQueue, JobQueueStatus
<1>4. scheduler \in SchedulerObject
  <2>1. NoFailure \in Failure BY DEF NoFailure, Failure, FailureStatus
  <2> QED BY <2>1, LimitsAssumption, QueueOrderAssumption DEF Init, SchedulerObject
<1>5. GroupsAgree
  <2>1. \A q \in Queues : JobsOf(q) = {} BY <1>3 DEF JobsOf
  <2>2. \A q \in Queues : IsInjective(queue[q].jobs) BY <1>3 DEF IsInjective
  <2> QED BY <2>1, <2>2 DEF GroupsAgree
<1>6. JobsInOrder
  <2>1. ASSUME NEW j \in Jobs PROVE \E q \in Queues : job[j] = NewJob(q) BY DEF Init
  <2> QED BY <2>1, NewJobInOrder DEF JobsInOrder
<1> QED BY <1>2, <1>3, <1>4, <1>5, <1>6 DEF Inv, TypeOK

LEMMA NextSound ==
  Inv /\ [Next]_vars => Inv'
<1> SUFFICES ASSUME Inv, [Next]_vars PROVE Inv' OBVIOUS
<1>1. Now \in Sound BY NowIsSound
<1>2. CASE Next
  BY <1>1, <1>2, UserActsSound, NetworkActsSound, KioActsSound, MultiActsSound,
     BtActsSound, SurroundingsSound, TickSound
     DEF Next, Events
<1>3. CASE UNCHANGED vars
  BY <1>3 DEF vars, Inv, TypeOK, GroupsAgree, JobsOf, JobsInOrder
<1> QED BY <1>2, <1>3

LEMMA InvAlways ==
  Spec => []Inv
BY InitSound, NextSound, PTL DEF Spec

(* No event, however its callbacks nest, leaves an object without its type: the
   entries of m_failedJobs, the fields that the plugins write, the lists. *)
THEOREM TypesAreKept ==
  Spec => []TypeOK
<1>1. Inv => TypeOK BY DEF Inv
<1> QED BY <1>1, InvAlways, PTL

LEMMA ListedStays ==
  ASSUME Inv, Inv', ListsStay
  PROVE  Listed' = Listed
<1>1. ASSUME NEW q \in Queues
      PROVE  {queue'[q].jobs[i] : i \in 1 .. Len(queue'[q].jobs)}
                 = {queue[q].jobs[i] : i \in 1 .. Len(queue[q].jobs)}
  <2>1. queue[q].jobs \in Seq(Jobs) /\ queue'[q].jobs \in Seq(Jobs) BY DEF Inv, TypeOK, JobQueue
  <2>2. /\ ToSet(queue[q].jobs) = {queue[q].jobs[i] : i \in 1 .. Len(queue[q].jobs)}
        /\ ToSet(queue'[q].jobs) = {queue'[q].jobs[i] : i \in 1 .. Len(queue'[q].jobs)}
    BY <2>1, Distinct
  <2> QED BY <2>2, Zenon DEF ListsStay
<1>2. ASSUME NEW k PROVE k \in Listed' <=> k \in Listed
  <2>1. k \in Listed' <=> \E q \in Queues : k \in {queue'[q].jobs[i] : i \in 1 .. Len(queue'[q].jobs)}
    BY DEF Listed, JobsOf
  <2>2. k \in Listed <=> \E q \in Queues : k \in {queue[q].jobs[i] : i \in 1 .. Len(queue[q].jobs)}
    BY DEF Listed, JobsOf
  <2> QED BY <1>1, <2>1, <2>2, Zenon
<1> QED BY <1>2

(* The lists name what exists: only an addition and a removal change either. *)
Complete == transfers = Listed

LEMMA OthersCreateNothing ==
  ASSUME Next, \A j \in Jobs : ~DeleteTransfer(j) /\ \A q \in Queues : ~AddTransfer(j, q)
  PROVE  transfers' = transfers
<1>1. CASE UserActs
  BY <1>1 DEF UserActs, StartTransfer, StopTransfer, MoveTransfer, SetQueueStatus,
              SetIsSuspended, SettingsChanged, Handles
<1>2. CASE NetworkActs BY <1>2 DEF NetworkActs, LoseConnection, GainConnection, Handles
<1>3. CASE KioActs BY <1>3 DEF KioActs, KioFinished, KioFailed, KioMoves, KioMoved, Handles
<1>4. CASE MultiActs
  BY <1>4 DEF MultiActs, FileOpened, MultiFinished, MultiMoves, MultiMoved, Handles
<1>5. CASE BtActs
  <2>1. ASSUME NEW j \in Jobs, NEW again \in BOOLEAN, TorrentFetched(j, again)
        PROVE  transfers' = transfers
    BY <2>1, Zenon DEF TorrentFetched, Handles
  <2>2. ASSUME NEW j \in Jobs, \/ TorrentFinished(j) \/ TorrentError(j)
                               \/ TorrentMoves(j) \/ TorrentMoved(j)
        PROVE  transfers' = transfers
    BY <2>2 DEF TorrentFinished, TorrentError, TorrentMoves, TorrentMoved, Handles
  <2> QED BY <1>5, <2>1, <2>2 DEF BtActs
<1>6. CASE Tick BY <1>6 DEF Tick, Handles
<1>7. ASSUME NEW j \in Jobs, NEW obstacle \in Obstacles, ObstacleChanges(j, obstacle)
      PROVE  transfers' = transfers
  BY <1>7 DEF ObstacleChanges, Handles
<1>8. ASSUME NEW j \in Jobs, SpeedChanges(j) PROVE transfers' = transfers
  BY <1>8 DEF SpeedChanges, Handles
<1> QED BY <1>1, <1>2, <1>3, <1>4, <1>5, <1>6, <1>7, <1>8 DEF Next, Events

LEMMA NextComplete ==
  Inv /\ Complete /\ [Next]_vars => Complete'
<1> SUFFICES ASSUME Inv, Complete, [Next]_vars PROVE Complete' OBVIOUS
<1>1. Now \in Sound /\ Inv' BY NowIsSound, NextSound
<1>2. ASSUME NEW j \in Jobs, NEW q \in Queues, AddTransfer(j, q) PROVE Complete'
  <2>1. transfers' = transfers \cup {j} BY <1>2 DEF AddTransfer
  <2> QED BY <1>1, <1>2, <2>1, AddTransferSound DEF Complete
<1>3. ASSUME NEW j \in Jobs, DeleteTransfer(j) PROVE Complete'
  <2>1. transfers' = transfers \ {j} BY <1>3 DEF DeleteTransfer
  <2> QED BY <1>1, <1>3, <2>1, DeleteTransferSound DEF Complete
<1>4. ASSUME Next, \A j \in Jobs : ~DeleteTransfer(j) /\ \A q \in Queues : ~AddTransfer(j, q)
      PROVE  Complete'
  <2>1. transfers' = transfers BY <1>4, OthersCreateNothing
  <2>2. ListsStay \/ ListsChange
    <3>1. CASE UserActs BY <1>1, <3>1, UserActsSound
    <3>2. CASE ~UserActs
      BY <1>1, <1>4, <3>2, NetworkActsSound, KioActsSound, MultiActsSound,
         BtActsSound, SurroundingsSound, TickSound
         DEF Next, Events
    <3> QED BY <3>1, <3>2
  <2>3. CASE ListsStay BY <1>1, <2>1, <2>3, ListedStays DEF Complete
  <2>4. CASE ListsChange
    <3>1. PICK j \in Jobs, q \in Queues, after \in Jobs \cup {"front"} :
              q # job[j].queue /\ MoveTransfer(j, q, after)
      BY <1>4, <2>4 DEF ListsChange
    <3>2. Listed' = Listed BY <1>1, <3>1, MoveTransferListed
    <3> QED BY <2>1, <3>2 DEF Complete
  <2> QED BY <2>2, <2>3, <2>4
<1>5. CASE UNCHANGED vars BY <1>5 DEF vars, Complete, Listed, JobsOf
<1> QED BY <1>2, <1>3, <1>4, <1>5

(* Every transfer that exists is in the list of exactly one group, once, and in the
   one it believes it is in, and no list names another, after any sequence of
   additions, removals, moves within a group and between groups, and of the
   updates they cause. *)
THEOREM GroupsPartitionTransfers ==
  Spec => []QueuesPartitionJobs
<1>1. Init => Complete
  <2> SUFFICES ASSUME Init PROVE Complete OBVIOUS
  <2>1. \A q \in Queues : JobsOf(q) = {} BY DEF Init, JobsOf
  <2> QED BY <2>1 DEF Init, Complete, Listed
<1>2. Inv /\ Complete => QueuesPartitionJobs
  <2> SUFFICES ASSUME Inv, Complete, NEW q \in Queues
               PROVE  /\ IsInjective(queue[q].jobs)
                      /\ JobsOf(q) = {j \in transfers : job[j].queue = q}
    BY DEF QueuesPartitionJobs
  <2>1. \A p \in Queues : /\ IsInjective(queue[p].jobs)
                          /\ \A j \in JobsOf(p) : job[j].queue = p
    BY DEF Inv, GroupsAgree
  <2>2. \A j : j \in transfers <=> \E p \in Queues : j \in JobsOf(p) BY DEF Complete, Listed
  <2> QED BY <2>1, <2>2, Zenon
<1>3. Complete /\ Inv /\ [Next]_vars => Complete' BY NextComplete
<1> QED BY <1>1, <1>2, <1>3, InvAlways, PTL DEF Spec

(* Those that are listed are jobs. *)
LEMMA ListedAreJobs ==
  TypeOK => Listed \subseteq Jobs
<1> SUFFICES ASSUME TypeOK PROVE Listed \subseteq Jobs OBVIOUS
<1>1. ASSUME NEW q \in Queues PROVE JobsOf(q) \subseteq Jobs
  <2>1. queue[q].jobs \in Seq(Jobs) BY DEF TypeOK, JobQueue
  <2> QED BY <2>1 DEF JobsOf
<1> QED BY <1>1 DEF Listed

(* A transfer of mirrors or a torrent never says Running without a file or a
   torrent behind it: not while its file is opened, when that fails, when a
   torrent is damaged, nor after a move, whatever the scheduler did meanwhile. *)
THEOREM RunningIsExecutedAlways ==
  Spec => []RunningIsExecuted
<1>1. Inv => RunningIsExecuted
  <2> SUFFICES ASSUME Inv, NEW j \in Listed, Kind[j] # "kio",
                      job[j].status = "Running", ~job[j].moving
               PROVE  job[j].worker # "none"
    BY DEF RunningIsExecuted
  <2>1. j \in Jobs BY ListedAreJobs DEF Inv
  <2>2. Kind[j] \in {"multiseg", "bt"} BY <2>1, KindAssumption DEF PluginKind
  <2> QED BY <2>1, <2>2 DEF Inv, JobsInOrder, Consistent
<1> QED BY <1>1, InvAlways, PTL

(* Nothing starts the download of a TransferKio under the move of its file. *)
THEOREM MovingIsIdleAlways ==
  Spec => []MovingIsIdle
<1>1. Inv => MovingIsIdle
  BY ListedAreJobs DEF Inv, MovingIsIdle, JobsInOrder, Consistent
<1> QED BY <1>1, InvAlways, PTL

-----------------------------------------------------------------------------
(* What a walk counts.  It looks at the jobs it has passed; one that moves refuses
   to be stopped, and is not counted on. *)

Busy(s, J) == {j \in J : s.job[j].status = "Running" /\ ~Failing(s, j) /\ ~s.job[j].moving}
Occupied(s, J) == {j \in J : Active(s, j) /\ ~s.job[j].moving}

Counts(w, J) ==
    /\ w.running <= maxSimultaneousJobs(w.s)
    /\ w.running + w.waiting <= 2 * maxSimultaneousJobs(w.s)
    /\ IsFiniteSet(Busy(w.s, J)) /\ Cardinality(Busy(w.s, J)) <= w.running
    /\ IsFiniteSet(Occupied(w.s, J)) /\ Cardinality(Occupied(w.s, J)) <= w.running + w.waiting

LEMMA OneMore ==
  ASSUME NEW A, IsFiniteSet(A), NEW B, NEW j, NEW n \in Nat, Cardinality(A) <= n
  PROVE  /\ B \subseteq A => IsFiniteSet(B) /\ Cardinality(B) <= n
         /\ B \subseteq A \cup {j} => IsFiniteSet(B) /\ Cardinality(B) <= n + 1
<1>1. IsFiniteSet(A \cup {j}) /\ Cardinality(A) \in Nat
      /\ Cardinality(A \cup {j}) <= Cardinality(A) + 1
  <2>1. IsFiniteSet(A \cup {j})
        /\ (Cardinality(A \cup {j}) = Cardinality(A) \/ Cardinality(A \cup {j}) = Cardinality(A) + 1)
    BY FS_AddElement
  <2>2. Cardinality(A) \in Nat BY FS_CardinalityType
  <2> QED BY <2>1, <2>2
<1>2. ASSUME B \subseteq A PROVE IsFiniteSet(B) /\ Cardinality(B) <= n
  <2>1. IsFiniteSet(B) /\ Cardinality(B) <= Cardinality(A) BY <1>2, FS_Subset
  <2>2. Cardinality(B) \in Nat BY <2>1, FS_CardinalityType
  <2> QED BY <1>1, <2>1, <2>2
<1>3. ASSUME B \subseteq A \cup {j} PROVE IsFiniteSet(B) /\ Cardinality(B) <= n + 1
  <2>1. IsFiniteSet(B) /\ Cardinality(B) <= Cardinality(A \cup {j}) BY <1>1, <1>3, FS_Subset
  <2>2. Cardinality(B) \in Nat /\ Cardinality(A \cup {j}) \in Nat
    BY <1>1, <2>1, FS_CardinalityType
  <2> QED BY <1>1, <2>1, <2>2
<1> QED BY <1>2, <1>3

LEMMA LimitIsPositive ==
  ASSUME NEW s \in State
  PROVE  maxSimultaneousJobs(s) \in Nat \ {0}
BY DEF State, SchedulerObject, maxSimultaneousJobs

(* What the count is of after a call that touches one job *)
LEMMA LoadTouched ==
  ASSUME NEW s, NEW J, J \subseteq Jobs, NEW j \in Jobs, NEW t, t \in Touching(s, {j}),
         NEW K, K = J \cup {j}
  PROVE  /\ maxSimultaneousJobs(t) = maxSimultaneousJobs(s)
         /\ Busy(t, K) \subseteq Busy(s, J) \cup {j}
         /\ Occupied(t, K) \subseteq Occupied(s, J) \cup {j}
         /\ j \notin Busy(t, K) => Busy(t, K) \subseteq Busy(s, J)
         /\ j \notin Occupied(t, K) => Occupied(t, K) \subseteq Occupied(s, J)
<1>1. /\ maxSimultaneousJobs(t) = maxSimultaneousJobs(s)
      /\ \A k \in Jobs : Failing(t, k) = Failing(s, k)
  BY DEF Touching, SameScheduling, maxSimultaneousJobs, Failing
<1>2. ASSUME NEW k \in J, k # j
      PROVE  /\ k \in Busy(t, K) => k \in Busy(s, J)
             /\ k \in Occupied(t, K) => k \in Occupied(s, J)
  <2>1. t.job[k] = s.job[k] BY <1>2 DEF Touching
  <2> QED BY <1>1, <1>2, <2>1 DEF Busy, Occupied, Active
<1>3. Busy(t, K) \subseteq J \cup {j} /\ Occupied(t, K) \subseteq J \cup {j}
  BY DEF Busy, Occupied
<1> QED BY <1>1, <1>2, <1>3

(* One more job that counts, or one that no longer has to *)
LEMMA CountsAfter ==
  ASSUME NEW w, w.s \in State, w.running \in Nat, w.waiting \in Nat,
         NEW J \in SUBSET Jobs, Counts(w, J), NEW j \in Jobs,
         NEW v, v.s \in Touching(w.s, {j}),
         \/ /\ v.running = w.running /\ v.waiting = w.waiting
            /\ j \notin Occupied(v.s, J \cup {j})
         \/ HasRoom(w) /\ v.running = w.running + 1 /\ v.waiting = w.waiting
         \/ /\ HasRoom(w) /\ v.running = w.running /\ v.waiting = w.waiting + 1
            /\ j \notin Busy(v.s, J \cup {j})
  PROVE  Counts(v, J \cup {j})
<1> DEFINE K == J \cup {j}
<1>1. /\ maxSimultaneousJobs(v.s) = maxSimultaneousJobs(w.s)
      /\ Busy(v.s, K) \subseteq Busy(w.s, J) \cup {j}
      /\ Occupied(v.s, K) \subseteq Occupied(w.s, J) \cup {j}
      /\ j \notin Busy(v.s, K) => Busy(v.s, K) \subseteq Busy(w.s, J)
      /\ j \notin Occupied(v.s, K) => Occupied(v.s, K) \subseteq Occupied(w.s, J)
  <2>1. K = J \cup {j} /\ J \subseteq Jobs OBVIOUS
  <2> HIDE DEF K
  <2>2. maxSimultaneousJobs(v.s) = maxSimultaneousJobs(w.s) BY <2>1, LoadTouched
  <2>3. Busy(v.s, K) \subseteq Busy(w.s, J) \cup {j} BY <2>1, LoadTouched
  <2>4. Occupied(v.s, K) \subseteq Occupied(w.s, J) \cup {j} BY <2>1, LoadTouched
  <2>5. ASSUME j \notin Busy(v.s, K) PROVE Busy(v.s, K) \subseteq Busy(w.s, J)
    BY <2>1, <2>5, LoadTouched
  <2>6. ASSUME j \notin Occupied(v.s, K) PROVE Occupied(v.s, K) \subseteq Occupied(w.s, J)
    BY <2>1, <2>6, LoadTouched
  <2> QED BY <2>2, <2>3, <2>4, <2>5, <2>6
<1>2. maxSimultaneousJobs(w.s) \in Nat \ {0} BY LimitIsPositive
<1>3. /\ IsFiniteSet(Busy(w.s, J)) /\ Cardinality(Busy(w.s, J)) <= w.running
      /\ IsFiniteSet(Occupied(w.s, J)) /\ Cardinality(Occupied(w.s, J)) <= w.running + w.waiting
      /\ w.running + w.waiting \in Nat
  BY DEF Counts
<1>4. /\ IsFiniteSet(Busy(v.s, K)) /\ Cardinality(Busy(v.s, K)) <= w.running + 1
      /\ j \notin Busy(v.s, K) => Cardinality(Busy(v.s, K)) <= w.running
  <2> DEFINE A == Busy(w.s, J)
             B == Busy(v.s, K)
  <2>1. j \notin B => B \subseteq A BY <1>1, Zenon
  <2>2. B \subseteq A \cup {j} BY <1>1, Zenon
  <2>3. IsFiniteSet(A) /\ Cardinality(A) <= w.running BY <1>3
  <2> HIDE DEF A, B
  <2> QED BY <2>1, <2>2, <2>3, OneMore, Zenon DEF A, B
<1>5. /\ IsFiniteSet(Occupied(v.s, K)) /\ Cardinality(Occupied(v.s, K)) <= (w.running + w.waiting) + 1
      /\ j \notin Occupied(v.s, K) => Cardinality(Occupied(v.s, K)) <= w.running + w.waiting
  <2> DEFINE A == Occupied(w.s, J)
             B == Occupied(v.s, K)
             n == w.running + w.waiting
  <2>1. j \notin B => B \subseteq A BY <1>1, Zenon
  <2>2. B \subseteq A \cup {j} BY <1>1, Zenon
  <2>3. IsFiniteSet(A) /\ Cardinality(A) <= n /\ n \in Nat BY <1>3
  <2> HIDE DEF A, B, n
  <2>4. IsFiniteSet(B) /\ Cardinality(B) <= n + 1 /\ (j \notin B => Cardinality(B) <= n)
    BY <2>1, <2>2, <2>3, OneMore, Zenon
  <2> QED BY <2>4 DEF A, B, n
<1>6. Cardinality(Busy(v.s, K)) \in Nat /\ Cardinality(Occupied(v.s, K)) \in Nat
  BY <1>4, <1>5, FS_CardinalityType
<1>7. Busy(v.s, K) \subseteq Occupied(v.s, K) BY DEF Busy, Occupied, Active
<1> HIDE DEF K
<1>8. /\ v.running <= maxSimultaneousJobs(w.s)
      /\ v.running + v.waiting <= 2 * maxSimultaneousJobs(w.s)
  <2>1. w.running <= maxSimultaneousJobs(w.s) /\ w.running + w.waiting <= 2 * maxSimultaneousJobs(w.s)
    BY DEF Counts
  <2>2. HasRoom(w) => /\ w.running < maxSimultaneousJobs(w.s)
                      /\ w.running + w.waiting < 2 * maxSimultaneousJobs(w.s)
    BY DEF HasRoom
  <2> QED BY <1>2, <2>1, <2>2
<1>9. Cardinality(Busy(v.s, K)) <= v.running BY <1>4, <1>6, <1>7, Zenon DEF K
<1>10. Cardinality(Occupied(v.s, K)) <= v.running + v.waiting BY <1>5, <1>6 DEF K
<1>11. Counts(v, K) BY <1>1, <1>4, <1>5, <1>8, <1>9, <1>10 DEF Counts
<1> QED BY <1>11 DEF K

LEMMA EvaluateCounts ==
  ASSUME NEW base, NEW w \in WalkState(base), NEW j \in Jobs, NEW J \in SUBSET Jobs,
         Counts(w, J)
  PROVE  Counts(Evaluate(w, j), J \cup {j})
<1> DEFINE s == w.s
           K == J \cup {j}
<1>1. s \in InOrder /\ s \in State /\ w.running \in Nat /\ w.waiting \in Nat
  BY DEF WalkState, SameLists, InOrder
<1>2. Evaluate(w, j).s \in Touching(s, {j}) BY EvaluateTouches
<1> SUFFICES ASSUME NEW v, v = Evaluate(w, j) PROVE Counts(v, K)
  OBVIOUS
<1>3. v.s \in Touching(s, {j}) BY <1>2
<1>4. CASE ~HasRoom(w) \/ (Active(s, j) /\ ~shouldBeRunning(s, j))
  <2>1. v = [w EXCEPT !.s = StopQuiet(s, j)] BY <1>4 DEF Evaluate
  <2>2. v.s = StopQuiet(s, j) /\ v.running = w.running /\ v.waiting = w.waiting
    BY <2>1 DEF WalkState
  <2>3. j \notin Occupied(v.s, K) BY <1>1, <2>2, StartsAndStopsTouch, Zenon DEF Occupied
  <2> QED BY <1>1, <1>3, <2>2, <2>3, CountsAfter, Zenon
<1>5. CASE HasRoom(w) /\ ~Active(s, j) /\ ~shouldBeRunning(s, j)
  <2>1. v = w BY <1>5 DEF Evaluate
  <2>2. j \notin Occupied(v.s, K) BY <1>5, <2>1 DEF Occupied
  <2> QED BY <1>1, <1>3, <2>1, <2>2, CountsAfter, Zenon
<1>6. CASE HasRoom(w) /\ Active(s, j) /\ shouldBeRunning(s, j)
  <2>1. v = Counted(w, Failing(s, j)) BY <1>6 DEF Evaluate
  <2>2. /\ v.s = s
        /\ v.running = IF Failing(s, j) THEN w.running ELSE w.running + 1
        /\ v.waiting = IF Failing(s, j) THEN w.waiting + 1 ELSE w.waiting
    BY <2>1 DEF Counted, WalkState
  <2>3. Failing(s, j) => j \notin Busy(v.s, K) BY <2>2 DEF Busy
  <2>4. CASE Failing(s, j) BY <1>1, <1>3, <1>6, <2>2, <2>3, <2>4, CountsAfter, Zenon
  <2>5. CASE ~Failing(s, j) BY <1>1, <1>3, <1>6, <2>2, <2>5, CountsAfter, Zenon
  <2> QED BY <2>4, <2>5
<1>7. CASE HasRoom(w) /\ ~Active(s, j) /\ shouldBeRunning(s, j)
  <2> SUFFICES ASSUME NEW t, t = StartQuiet(s, j), NEW waits,
                      waits = (Failing(s, j) \/ t.job[j].status = "FinishedKeepAlive")
               PROVE  Counts(v, K)
    OBVIOUS
  <2>1. v = Counted([w EXCEPT !.s = t], waits) BY <1>7 DEF Evaluate
  <2>2. /\ v.s = t
        /\ v.running = IF waits THEN w.running ELSE w.running + 1
        /\ v.waiting = IF waits THEN w.waiting + 1 ELSE w.waiting
    BY <2>1 DEF Counted, WalkState
  <2>3. Failing(t, j) = Failing(s, j) BY <1>3, <2>2 DEF Touching, SameScheduling, Failing
  <2>4. waits => j \notin Busy(v.s, K) BY <2>2, <2>3, Zenon DEF Busy
  <2>5. CASE waits BY <1>1, <1>3, <1>7, <2>2, <2>4, <2>5, CountsAfter, Zenon
  <2>6. CASE ~waits BY <1>1, <1>3, <1>7, <2>2, <2>6, CountsAfter, Zenon
  <2> QED BY <2>5, <2>6
<1> QED BY <1>4, <1>5, <1>6, <1>7

(* After a walk the jobs of the list are within the limit, save those that move. *)
LEMMA UpdateCounts ==
  ASSUME NEW s \in InOrder, NEW q \in Queues, shouldUpdate(s)
  PROVE  LET t == updateQueue(s, q)
         IN  WithinLimit(t, {j \in ActiveJobs(t, q) : ~t.job[j].moving})
<1> DEFINE jobs == s.queue[q].jobs
           N == Len(jobs)
           Passed(n) == {jobs[i] : i \in 1 .. n}
           t == updateQueue(s, q)
<1>1. s \in SameLists(s) /\ s \in State BY SameListsOfItself DEF InOrder
<1>2. jobs \in Seq(Jobs) /\ ToSet(jobs) = Passed(N) BY <1>1, Lists, Distinct
<1>3. PICK walk : /\ walk[0] = WalkStart(s) /\ Walk(s, jobs) = walk[N]
                  /\ \A n \in 1 .. N : walk[n] = Evaluate(walk[n - 1], jobs[n])
                  /\ \A n \in 0 .. N : walk[n] \in WalkState(s)
  BY <1>1, <1>2, WalkLoop
<1>4. N \in Nat /\ \A n \in 1 .. N : jobs[n] \in Jobs BY <1>2
<1>5. t = walk[N].s BY <1>3 DEF updateQueue
<1>6. t.queue = s.queue /\ t \in State BY UpdateTouches DEF Touching
<1> HIDE DEF jobs, N, t
<1> DEFINE Good == {n \in 0 .. N : Counts(walk[n], Passed(n))}
           pass == [n \in 0 .. N |-> n]
<1>7. 0 \in Good
  <2>1. Passed(0) = {} BY <1>4
  <2>2. Busy(s, {}) = {} /\ Occupied(s, {}) = {} BY DEF Busy, Occupied
  <2>3. maxSimultaneousJobs(s) \in Nat BY <1>1, LimitIsPositive
  <2>4. walk[0].s = s /\ walk[0].running = 0 /\ walk[0].waiting = 0 BY <1>3 DEF WalkStart
  <2>5. IsFiniteSet({}) /\ Cardinality({}) = 0 BY FS_EmptySet
  <2>6. Counts(walk[0], {}) BY <2>2, <2>3, <2>4, <2>5 DEF Counts
  <2> QED BY <1>4, <2>1, <2>6
<1>8. ASSUME NEW n \in 1 .. N, n - 1 \in Good PROVE n \in Good
  <2>1. Passed(n) = Passed(n - 1) \cup {jobs[n]} /\ Passed(n - 1) \subseteq Jobs
    BY <1>4
  <2>2. walk[n - 1] \in WalkState(s) /\ jobs[n] \in Jobs /\ n \in 0 .. N BY <1>3, <1>4
  <2>3. Counts(walk[n - 1], Passed(n - 1)) BY <1>8
  <2> HIDE DEF Passed
  <2>4. Counts(walk[n], Passed(n)) BY <1>3, <2>1, <2>2, <2>3, EvaluateCounts
  <2> QED BY <2>2, <2>4
<1> HIDE DEF Good
<1>9. \A n \in 0 .. N : pass[n] \in Good
  <2>1. pass[0] = 0 /\ \A n \in 1 .. N : pass[n - 1] = n - 1 /\ pass[n] = n BY <1>4
  <2> HIDE DEF pass
  <2> QED BY <1>4, <1>7, <1>8, <2>1, IterationsStay
<1>10. Counts(walk[N], Passed(N)) BY <1>4, <1>9 DEF Good
<1>11. walk[N] \in WalkState(s) BY <1>3, <1>4
<1> DEFINE max == maxSimultaneousJobs(t)
<1>12. /\ Cardinality(Busy(t, Passed(N))) <= max
       /\ Cardinality(Occupied(t, Passed(N))) <= 2 * max
  <2>1. /\ walk[N].running \in Nat /\ walk[N].waiting \in Nat
        /\ Cardinality(Busy(t, Passed(N))) \in Nat /\ Cardinality(Occupied(t, Passed(N))) \in Nat
        /\ max \in Nat
    BY <1>5, <1>6, <1>10, <1>11, FS_CardinalityType, LimitIsPositive DEF WalkState, Counts
  <2> HIDE DEF Passed
  <2> QED BY <1>5, <1>10, <2>1 DEF Counts
<1> DEFINE active == {j \in ActiveJobs(t, q) : ~t.job[j].moving}
<1>13. t.queue[q].jobs = jobs BY <1>6 DEF jobs
<1>14. /\ active = Occupied(t, Passed(N))
       /\ {j \in active : t.job[j].status = "Running" /\ ~Failing(t, j)} = Busy(t, Passed(N))
  <2> HIDE DEF Passed
  <2> QED BY <1>2, <1>13 DEF ActiveJobs, Busy, Occupied, Active
<1> HIDE DEF active, Passed
<1>15. WithinLimit(t, active) BY <1>12, <1>14 DEF WithinLimit
<1> QED BY <1>15 DEF active, t

(* Whatever was active before, and whatever a queue, its transfers and the limit were
   meanwhile, one update brings a queue back to the limit. *)
THEOREM UpdateRestoresLimitAlways ==
  Spec => []UpdateRestoresLimit
<1>1. Inv => UpdateRestoresLimit
  <2>1. ASSUME Inv PROVE Now \in InOrder BY <2>1, NowIsSound DEF Sound
  <2> QED BY <2>1, UpdateCounts DEF UpdateRestoresLimit
<1> QED BY <1>1, InvAlways, PTL

-----------------------------------------------------------------------------
(* Downloads of TransferKio whose files stay where they are.  Between two events
   every queue is tidy: within its limits, and no job runs that its user stopped.
   In an event a queue may be untidy until it is updated; Neat(X) is the set of the
   states in which every queue but those of X is tidy. *)

OnlyKio == \A j \in Jobs : Kind[j] = "kio"

Plain(r) == ~r.moving /\ r.status \in {"Running", "Stopped", "Aborted", "Finished"}

(* An entry of m_failedJobs that says something says since when *)
Known(f) == f = NoFailure \/ (f.status # "None" /\ f.time >= 0)

Obeys(s, J) == \A j \in J : s.job[j].policy = "Stop" => s.job[j].status # "Running"
Tidy(s, q) == WithinLimit(s, ActiveJobs(s, q)) /\ Obeys(s, ToSet(s.queue[q].jobs))

Idle(s) == ~s.scheduler.connected =>
               \A q \in Queues : \A j \in ToSet(s.queue[q].jobs) : s.job[j].status # "Running"

Apart(s) == \A p, q \in Queues :
                p # q => ToSet(s.queue[p].jobs) \cap ToSet(s.queue[q].jobs) = {}

Neat(X) ==
    {s \in InOrder :
        /\ s.scheduler.queues = QueueOrder
        /\ Apart(s)
        /\ \A j \in Jobs : Plain(s.job[j]) /\ Known(s.scheduler.failed[j])
        /\ Idle(s)
        /\ shouldUpdate(s) => \A q \in Queues \ X : Tidy(s, q)}

(* Job j is no more of a burden, and no more disobedient, in t than in s. *)
NoBusier(s, t, j) ==
    /\ Active(t, j) => Active(s, j)
    /\ t.job[j].status = "Running" /\ ~Failing(t, j) =>
           s.job[j].status = "Running" /\ ~Failing(s, j)
    /\ t.job[j].policy = "Stop" /\ t.job[j].status = "Running" =>
           s.job[j].policy = "Stop" /\ s.job[j].status = "Running"

LEMMA ListsAreFinite ==
  ASSUME NEW s \in State, NEW q \in Queues
  PROVE  ToSet(s.queue[q].jobs) \subseteq Jobs /\ IsFiniteSet(ToSet(s.queue[q].jobs))
<1> DEFINE list == s.queue[q].jobs
<1>1. list \in Seq(Jobs) BY DEF State, JobQueue
<1> HIDE DEF list
<1>2. ToSet(list) = {list[i] : i \in 1 .. Len(list)} BY <1>1, Distinct
<1>3. IsFiniteSet(1 .. Len(list)) BY <1>1, FS_Interval
<1> DEFINE f == [i \in 1 .. Len(list) |-> list[i]]
<1>4. f \in Surjection(1 .. Len(list), ToSet(list)) BY <1>2 DEF Surjection
<1> HIDE DEF f
<1>5. IsFiniteSet(ToSet(list)) BY <1>3, <1>4, FS_Surjection
<1> QED BY <1>1, <1>2, <1>5 DEF list

(* A queue whose jobs are no busier stays tidy. *)
LEMMA TidyKept ==
  ASSUME NEW s \in State, NEW t \in State, NEW q \in Queues, Tidy(s, q),
         maxSimultaneousJobs(t) = maxSimultaneousJobs(s),
         ToSet(t.queue[q].jobs) \subseteq ToSet(s.queue[q].jobs),
         \A j \in ToSet(t.queue[q].jobs) : NoBusier(s, t, j)
  PROVE  Tidy(t, q)
<1> DEFINE A == ActiveJobs(s, q)
           B == ActiveJobs(t, q)
           C == {j \in A : s.job[j].status = "Running" /\ ~Failing(s, j)}
           D == {j \in B : t.job[j].status = "Running" /\ ~Failing(t, j)}
<1>1. A \subseteq ToSet(s.queue[q].jobs) /\ IsFiniteSet(ToSet(s.queue[q].jobs))
  BY ListsAreFinite DEF ActiveJobs
<1>2. B \subseteq A /\ D \subseteq C BY DEF ActiveJobs, NoBusier
<1>3. /\ Cardinality(C) <= maxSimultaneousJobs(s)
      /\ Cardinality(A) <= 2 * maxSimultaneousJobs(s)
  BY DEF Tidy, WithinLimit
<1>4. C \subseteq A OBVIOUS
<1>5. Obeys(t, ToSet(t.queue[q].jobs)) BY DEF Tidy, Obeys, NoBusier
<1> DEFINE max == maxSimultaneousJobs(s)
<1>6. Cardinality(D) <= max /\ Cardinality(B) <= 2 * max
  <2> HIDE DEF A, B, C, D
  <2>1. IsFiniteSet(A) BY <1>1, FS_Subset
  <2>2. IsFiniteSet(C) BY <1>4, <2>1, FS_Subset
  <2>3. IsFiniteSet(B) /\ Cardinality(B) <= Cardinality(A) BY <1>2, <2>1, FS_Subset
  <2>4. IsFiniteSet(D) /\ Cardinality(D) <= Cardinality(C) BY <1>2, <2>2, FS_Subset
  <2>5. /\ Cardinality(A) \in Nat /\ Cardinality(B) \in Nat
        /\ Cardinality(C) \in Nat /\ Cardinality(D) \in Nat
    BY <2>1, <2>2, <2>3, <2>4, FS_CardinalityType
  <2>6. max \in Nat BY LimitIsPositive
  <2> QED BY <1>3, <2>3, <2>4, <2>5, <2>6
<1>7. WithinLimit(t, B) BY <1>6 DEF WithinLimit
<1> QED BY <1>5, <1>7 DEF Tidy

(* Writes that leave the lists alone, or take from them *)
LEMMA NeatWritten ==
  ASSUME NEW X, NEW s \in Neat(X), NEW t \in InOrder, NEW Y,
         \A q \in Queues : ToSet(t.queue[q].jobs) \subseteq ToSet(s.queue[q].jobs),
         t.scheduler.queues = s.scheduler.queues,
         t.scheduler.suspended = s.scheduler.suspended,
         t.scheduler.connected = s.scheduler.connected,
         t.scheduler.maxConnections = s.scheduler.maxConnections,
         \A j \in Jobs : Plain(t.job[j]) /\ Known(t.scheduler.failed[j]),
         ~s.scheduler.connected =>
             \A j \in Jobs : t.job[j].status = "Running" => s.job[j].status = "Running",
         \A q \in Queues \ (X \cup Y) : \A j \in ToSet(t.queue[q].jobs) : NoBusier(s, t, j)
  PROVE  t \in Neat(X \cup Y)
<1>1. s \in State /\ t \in State BY DEF Neat, InOrder
<1>2. Apart(t) BY DEF Neat, Apart
<1>3. Idle(t)
  <2>1. \A q \in Queues : ToSet(t.queue[q].jobs) \subseteq Jobs BY <1>1, ListsAreFinite
  <2> QED BY <2>1 DEF Neat, Idle
<1>4. ASSUME shouldUpdate(t), NEW q \in Queues \ (X \cup Y) PROVE Tidy(t, q)
  <2>1. shouldUpdate(s) BY <1>4 DEF shouldUpdate
  <2>2. Tidy(s, q) BY <2>1 DEF Neat
  <2>3. maxSimultaneousJobs(t) = maxSimultaneousJobs(s) BY DEF maxSimultaneousJobs
  <2> QED BY <1>1, <2>2, <2>3, TidyKept
<1> QED BY <1>2, <1>3, <1>4 DEF Neat

(* A walk keeps the jobs plain, and leaves none that runs against its policy. *)
LEMMA EvaluateObeys ==
  ASSUME OnlyKio, NEW base, NEW w \in WalkState(base), NEW j \in Jobs,
         \A k \in Jobs : Plain(w.s.job[k])
  PROVE  LET t == Evaluate(w, j).s
         IN  /\ \A k \in Jobs : Plain(t.job[k])
             /\ t.job[j].policy = "Stop" => t.job[j].status # "Running"
<1> DEFINE s == w.s
<1>1. s \in State BY DEF WalkState, SameLists, InOrder
<1> SUFFICES ASSUME NEW t, t = Evaluate(w, j).s
             PROVE  /\ \A k \in Jobs : Plain(t.job[k])
                    /\ t.job[j].policy = "Stop" => t.job[j].status # "Running"
  OBVIOUS
<1>2. t \in Touching(s, {j}) BY EvaluateTouches
<1>3. /\ \A k \in Jobs : k # j => t.job[k] = s.job[k]
      /\ t.job[j].moving = s.job[j].moving /\ t.job[j].policy = s.job[j].policy
  BY <1>2 DEF Touching, SameDuties
<1>4. Kind[j] = "kio" /\ Plain(s.job[j]) BY DEF OnlyKio
<1>5. CASE t = StopQuiet(s, j)
  <2>1. t = KioStop(s, j) BY <1>4, <1>5 DEF StopQuiet
  <2>2. KioStop(s, j).job[j].status
            = IF s.job[j].status = "Finished" THEN "Finished" ELSE "Stopped"
    BY <1>1, KioTouches, Zenon
  <2>3. t.job[j].status \in {"Stopped", "Finished"} BY <2>1, <2>2
  <2> QED BY <1>3, <1>4, <2>3 DEF Plain
<1>6. CASE t = s /\ (~Active(s, j) \/ shouldBeRunning(s, j))
  BY <1>6 DEF Active, shouldBeRunning
<1>7. CASE t = StartQuiet(s, j) /\ shouldBeRunning(s, j)
  <2>1. t = KioStart(s, j) BY <1>4, <1>7 DEF StartQuiet
  <2>2. s.job[j].policy # "Stop" /\ s.job[j].status # "Finished" BY <1>7 DEF shouldBeRunning
  <2>3. ~s.job[j].moving BY <1>4 DEF Plain
  <2>4. t.job[j].status = "Running" BY <1>1, <2>1, <2>2, <2>3, KioTouches, Zenon
  <2> QED BY <1>3, <1>4, <2>2, <2>4 DEF Plain
<1> QED BY <1>5, <1>6, <1>7 DEF Evaluate, Counted, WalkState

LEMMA UpdateObeys ==
  ASSUME OnlyKio, NEW s \in InOrder, NEW q \in Queues, \A k \in Jobs : Plain(s.job[k])
  PROVE  LET t == updateQueue(s, q)
         IN  /\ \A k \in Jobs : Plain(t.job[k])
             /\ shouldUpdate(s) => Obeys(t, ToSet(t.queue[q].jobs))
<1> DEFINE jobs == s.queue[q].jobs
           N == Len(jobs)
           Passed(n) == {jobs[i] : i \in 1 .. n}
           t == updateQueue(s, q)
           S(n) == {w \in WalkState(s) : /\ \A k \in Jobs : Plain(w.s.job[k])
                                         /\ Obeys(w.s, Passed(n))}
<1>1. s \in SameLists(s) /\ s \in State BY SameListsOfItself DEF InOrder
<1>2. jobs \in Seq(Jobs) /\ ToSet(jobs) = Passed(N) BY <1>1, Lists, Distinct
<1>3. PICK walk : /\ walk[0] = WalkStart(s) /\ Walk(s, jobs) = walk[N]
                  /\ \A n \in 1 .. N : walk[n] = Evaluate(walk[n - 1], jobs[n])
                  /\ \A n \in 0 .. N : walk[n] \in WalkState(s)
  BY <1>1, <1>2, WalkLoop, Zenon
<1>4. N \in Nat /\ \A n \in 1 .. N : jobs[n] \in Jobs BY <1>2
<1>5. t = IF shouldUpdate(s) THEN walk[N].s ELSE s BY <1>3 DEF updateQueue
<1>6. t.queue = s.queue BY UpdateTouches DEF Touching
<1> HIDE DEF jobs, N, t
<1>7. walk[0] \in S(0)
  <2>1. walk[0].s = s /\ walk[0] \in WalkState(s) BY <1>3, <1>4 DEF WalkStart
  <2>2. Passed(0) = {} BY <1>4
  <2> QED BY <2>1, <2>2 DEF Obeys
<1>8. ASSUME NEW n \in 1 .. N, walk[n - 1] \in S(n - 1) PROVE walk[n] \in S(n)
  <2> DEFINE u == walk[n - 1].s
             v == walk[n].s
  <2>1. Passed(n) = Passed(n - 1) \cup {jobs[n]} /\ Passed(n - 1) \subseteq Jobs
    BY <1>4
  <2>2. walk[n] = Evaluate(walk[n - 1], jobs[n]) /\ walk[n] \in WalkState(s)
    BY <1>3, <1>4
  <2>3. /\ walk[n - 1] \in WalkState(s) /\ Obeys(u, Passed(n - 1))
        /\ \A k \in Jobs : Plain(u.job[k])
    BY <1>8
  <2>4. jobs[n] \in Jobs BY <1>4
  <2>5. /\ \A k \in Jobs : Plain(v.job[k])
        /\ v.job[jobs[n]].policy = "Stop" => v.job[jobs[n]].status # "Running"
    BY <2>2, <2>3, <2>4, EvaluateObeys
  <2>6. v \in Touching(u, {jobs[n]}) BY <2>2, <2>3, <2>4, EvaluateTouches
  <2>7. Obeys(v, Passed(n)) BY <2>1, <2>3, <2>5, <2>6 DEF Obeys, Touching
  <2> QED BY <2>2, <2>5, <2>7
<1> HIDE DEF S
<1> DEFINE F == [n \in Nat |-> S(n)]
<1>9. F[0] = S(0) /\ \A n \in 1 .. N : F[n] = S(n) /\ F[n - 1] = S(n - 1) BY <1>4
<1>10. F[N] = S(N) /\ N \in 0 .. N BY <1>4
<1> HIDE DEF F
<1>11. \A n \in 0 .. N : walk[n] \in F[n]
  BY <1>4, <1>7, <1>8, <1>9, IterationsAdvance, ZenonT(60)
<1>12. walk[N] \in S(N) BY <1>10, <1>11
<1> QED BY <1>2, <1>5, <1>6, <1>12, Zenon DEF S, t, jobs

(* An update tidies its queue, and disturbs no other. *)
LEMMA UpdateNeat ==
  ASSUME OnlyKio, NEW X, NEW s \in Neat(X), NEW q \in Queues
  PROVE  updateQueue(s, q) \in Neat(X \ {q})
<1>1. s \in InOrder /\ s \in State /\ s \in SameLists(s)
  BY SameListsOfItself DEF Neat, InOrder
<1> SUFFICES ASSUME NEW t, t = updateQueue(s, q) PROVE t \in Neat(X \ {q})
  OBVIOUS
<1>2. t \in InOrder /\ t \in State BY <1>1, UpdateQueueStays DEF SameLists, InOrder
<1>3. t \in Touching(s, ToSet(s.queue[q].jobs)) BY <1>1, UpdateTouches
<1>4. t.queue = s.queue BY <1>3 DEF Touching
<1>5. SameScheduling(t.scheduler, s.scheduler) BY <1>3 DEF Touching
<1>6. /\ \A k \in Jobs : Plain(t.job[k])
      /\ shouldUpdate(s) => Obeys(t, ToSet(t.queue[q].jobs))
  BY <1>1, UpdateObeys DEF Neat
<1>7. \A p \in Queues : ToSet(t.queue[p].jobs) \subseteq Jobs
  BY <1>2, ListsAreFinite
<1>8. CASE ~shouldUpdate(s)
  <2>1. t = s BY <1>8 DEF updateQueue
  <2> QED BY <1>8, <2>1 DEF Neat
<1>9. CASE shouldUpdate(s)
  <2>1. Idle(t) BY <1>5, <1>9 DEF SameScheduling, shouldUpdate, Idle
  <2>2. Tidy(t, q)
    <3>1. WithinLimit(t, {j \in ActiveJobs(t, q) : ~t.job[j].moving})
      BY <1>1, <1>9, UpdateCounts
    <3>2. {j \in ActiveJobs(t, q) : ~t.job[j].moving} = ActiveJobs(t, q)
      BY <1>6, <1>7 DEF ActiveJobs, Plain
    <3> QED BY <1>6, <1>9, <3>1, <3>2 DEF Tidy
  <2>3. ASSUME NEW p \in Queues \ X, p # q PROVE Tidy(t, p)
    <3>1. Tidy(s, p) BY <1>9, <2>3 DEF Neat
    <3>2. \A j \in ToSet(t.queue[p].jobs) : t.job[j] = s.job[j]
      BY <1>3, <1>4, <1>7, <2>3 DEF Touching, Neat, Apart
    <3>3. \A j \in ToSet(t.queue[p].jobs) : NoBusier(s, t, j)
      BY <1>5, <3>2 DEF NoBusier, Active, Failing, SameScheduling
    <3>4. maxSimultaneousJobs(t) = maxSimultaneousJobs(s)
      BY <1>5 DEF SameScheduling, maxSimultaneousJobs
    <3> QED BY <1>1, <1>2, <1>4, <3>1, <3>3, <3>4, TidyKept
  <2>4. Apart(t) /\ \A j \in Jobs : Known(t.scheduler.failed[j])
    BY <1>4, <1>5 DEF Apart, Neat, SameScheduling
  <2> QED BY <1>2, <1>5, <1>6, <2>1, <2>2, <2>3, <2>4 DEF Neat, SameScheduling
<1> QED BY <1>8, <1>9

LEMMA NeatMore ==
  ASSUME NEW X, NEW Y, X \subseteq Y
  PROVE  Neat(X) \subseteq Neat(Y)
BY DEF Neat

LEMMA NeatFacts ==
  ASSUME NEW X, NEW s \in Neat(X)
  PROVE  /\ s \in State /\ s \in InOrder /\ s \in SameLists(s)
         /\ \A q \in Queues : ToSet(s.queue[q].jobs) \subseteq Jobs
         /\ \A j \in Jobs : s.job[j].queue \in Queues /\ s.job[j] \in Job
<1>1. s \in State /\ s \in InOrder /\ s \in SameLists(s) BY SameListsOfItself DEF Neat, InOrder
<1> QED BY <1>1, ListsAreFinite DEF State, Job

(* A call that touches one job, which it leaves inactive *)
LEMMA NeatTouched ==
  ASSUME NEW X, NEW s \in Neat(X), NEW j \in Jobs, NEW t \in InOrder,
         t \in Touching(s, {j}),
         t.job[j].status \in {"Stopped", "Aborted", "Finished"}
  PROVE  t \in Neat(X)
<1>1. /\ t.queue = s.queue /\ t.job[j].moving = s.job[j].moving
      /\ \A k \in Jobs : k # j => t.job[k] = s.job[k]
      /\ SameScheduling(t.scheduler, s.scheduler)
  BY DEF Touching, SameDuties
<1>2. \A k \in Jobs : Plain(t.job[k]) BY <1>1 DEF Neat, Plain
<1>3. \A k \in Jobs : t.job[k].status = "Running" => s.job[k].status = "Running" BY <1>1
<1>4. \A k \in Jobs : NoBusier(s, t, k)
  BY <1>1 DEF NoBusier, Active, Failing, SameScheduling
<1>5. \A q \in Queues : ToSet(t.queue[q].jobs) \subseteq Jobs BY <1>1, NeatFacts
<1>6. \A k \in Jobs : Known(t.scheduler.failed[k]) BY <1>1 DEF Neat, SameScheduling
<1>7. t \in Neat(X \cup {}) BY <1>1, <1>2, <1>3, <1>4, <1>5, <1>6, NeatWritten DEF SameScheduling
<1> QED BY <1>7

(* What the scheduler hears of an inactive job *)
LEMMA AnnounceNeat ==
  ASSUME OnlyKio, NEW X, NEW s, NEW t \in Neat(X), NEW j \in Jobs
  PROVE  /\ Announce(s, t, j) \in Neat(X)
         /\ t.job[j].status \notin {s.job[j].status, "Running"} =>
                Announce(s, t, j) \in Neat(X \ {t.job[j].queue})
<1>1. t.job[j].queue \in Queues BY NeatFacts
<1>2. updateQueue(t, t.job[j].queue) \in Neat(X \ {t.job[j].queue}) BY <1>1, UpdateNeat
<1>3. updateQueue(t, t.job[j].queue) \in Neat(X) BY <1>2, NeatMore
<1> QED BY <1>2, <1>3 DEF Announce

LEMMA StopNeat ==
  ASSUME OnlyKio, NEW X, NEW s \in Neat(X), NEW j \in Jobs
  PROVE  /\ stop(s, j) \in Neat(X)
         /\ s.job[j].status \notin {"Stopped", "Finished"} =>
                stop(s, j) \in Neat(X \ {s.job[j].queue})
<1> DEFINE u == StopQuiet(s, j)
<1>1. s \in State /\ s \in InOrder /\ s \in SameLists(s) /\ Kind[j] = "kio"
  BY NeatFacts DEF OnlyKio
<1>2. u \in InOrder BY <1>1, StartAndStopStay DEF SameLists
<1>3. u = KioStop(s, j) BY <1>1 DEF StopQuiet
<1> HIDE DEF u
<1>4. /\ KioStop(s, j) \in Touching(s, {j})
      /\ KioStop(s, j).job[j].status
             = IF s.job[j].status = "Finished" THEN "Finished" ELSE "Stopped"
  BY <1>1, KioTouches, Zenon
<1>5. /\ u \in Touching(s, {j}) /\ u.job[j].status \in {"Stopped", "Finished"}
      /\ s.job[j].status \notin {"Stopped", "Finished"} =>
             u.job[j].status \notin {s.job[j].status, "Running"}
  BY <1>3, <1>4
<1>6. u \in Neat(X) BY <1>2, <1>5, NeatTouched
<1>7. u.job[j].queue = s.job[j].queue BY <1>5 DEF Touching, SameDuties
<1>8. stop(s, j) = Announce(s, u, j) BY DEF stop, u
<1>9. stop(s, j) \in Neat(X) BY <1>6, <1>8, AnnounceNeat, Zenon
<1>10. ASSUME s.job[j].status \notin {"Stopped", "Finished"}
       PROVE  stop(s, j) \in Neat(X \ {s.job[j].queue})
  <2>1. u.job[j].status \notin {s.job[j].status, "Running"} BY <1>5, <1>10
  <2>2. Announce(s, u, j) \in Neat(X \ {u.job[j].queue}) BY <1>6, <2>1, AnnounceNeat
  <2> QED BY <1>7, <1>8, <2>2
<1> QED BY <1>9, <1>10

LEMMA SetStatusNeat ==
  ASSUME OnlyKio, NEW X, NEW s \in Neat(X), NEW j \in Jobs, NEW status \in {"Aborted", "Finished"}
  PROVE  setStatus(s, j, status) \in Neat(X)
<1> DEFINE u == SetStatusQuiet(s, j, status)
<1>1. /\ s \in State /\ s \in SameLists(s) /\ s \in Writing(s, j) /\ Kind[j] = "kio"
      /\ Plain(s.job[j]) /\ status \in JobStatus
  BY NeatFacts, InOrderWhileWriting DEF OnlyKio, Neat, JobStatus
<1>2. \A r \in Job : /\ r.status = status /\ r.worker = s.job[j].worker
                     /\ r.moving = s.job[j].moving /\ r.obstacle = s.job[j].obstacle
                     => Consistent(j, r)
  BY <1>1 DEF Consistent, Plain
<1>3. u \in InOrder BY <1>1, <1>2, StatusStays DEF SameLists
<1>4. u \in Touching(s, {j}) /\ u.job[j].status = status BY <1>1, SetStatusTouches
<1> HIDE DEF u
<1>5. u \in Neat(X) BY <1>3, <1>4, NeatTouched
<1> QED BY <1>5, AnnounceNeat, Zenon DEF setStatus, u

(* A new policy *)
PolicyWrote(s, t, j, policy) ==
    /\ t \in SameLists(s) /\ t.scheduler = s.scheduler
    /\ \A k \in Jobs : k # j => t.job[k] = s.job[k]
    /\ t.job[j] = [s.job[j] EXCEPT !.policy = policy]
    /\ \A k \in Jobs : /\ t.job[k].status = s.job[k].status
                       /\ t.job[k].moving = s.job[k].moving

LEMMA PolicyWritten ==
  ASSUME NEW s \in InOrder, NEW j \in Jobs, NEW policy \in Policy
  PROVE  PolicyWrote(s, [s EXCEPT !.job[j].policy = policy], j, policy)
<1> DEFINE r == [s.job[j] EXCEPT !.policy = policy]
           u == [s EXCEPT !.job[j] = r]
<1>1. /\ s \in SameLists(s) /\ s \in Writing(s, j)
      /\ s.job[j] \in Job /\ Consistent(j, s.job[j])
  BY SameListsOfItself, InOrderWhileWriting, Objects
<1>2. /\ r \in Job /\ r.queue = s.job[j].queue
      /\ r.status = s.job[j].status /\ r.worker = s.job[j].worker
      /\ r.moving = s.job[j].moving /\ r.obstacle = s.job[j].obstacle
  <2> HIDE DEF u
  <2> QED BY <1>1 DEF Job
<1>3. u \in SameLists(s)
  <2> HIDE DEF r
  <2>1. Consistent(j, r) BY <1>1, <1>2 DEF Consistent
  <2> QED BY <1>1, <1>2, <2>1, JobWritten
<1>4. [s EXCEPT !.job[j].policy = policy] = u BY DEF InOrder, State
<1>5. u.scheduler = s.scheduler /\ u.job = [s.job EXCEPT ![j] = r] BY DEF InOrder, State
<1>6. s.job \in [Jobs -> Job] BY DEF InOrder, State
<1>7. u.job[j] = r /\ \A k \in Jobs : k # j => u.job[k] = s.job[k] BY <1>5, <1>6
<1> HIDE DEF u
<1> QED BY <1>2, <1>3, <1>4, <1>5, <1>7 DEF PolicyWrote

LEMMA SetPolicyNeat ==
  ASSUME OnlyKio, NEW s \in Neat({}), s \in Sound, NEW j \in Jobs, NEW policy \in Policy
  PROVE  setPolicy(s, j, policy) \in Neat({})
<1> SUFFICES ASSUME NEW t, t = [s EXCEPT !.job[j].policy = policy],
                    NEW q, q = s.job[j].queue
             PROVE  updateQueue(t, q) \in Neat({})
  BY DEF setPolicy
<1>1. s \in InOrder /\ s \in State /\ q \in Queues BY NeatFacts
<1>2. /\ t \in SameLists(s) /\ t.scheduler = s.scheduler
      /\ \A k \in Jobs : k # j => t.job[k] = s.job[k]
      /\ \A k \in Jobs : /\ t.job[k].status = s.job[k].status
                         /\ t.job[k].moving = s.job[k].moving
  <2>1. PolicyWrote(s, t, j, policy) BY <1>1, PolicyWritten
  <2> QED BY <2>1 DEF PolicyWrote
<1>3. t \in InOrder /\ t.queue = s.queue BY <1>2 DEF SameLists
<1>4. \A k \in Jobs : Plain(t.job[k]) /\ Known(t.scheduler.failed[k])
  BY <1>2 DEF Neat, Plain
<1>5. ASSUME NEW p \in Queues, p # q, NEW k \in ToSet(t.queue[p].jobs)
      PROVE  NoBusier(s, t, k)
  <2>1. k \in Jobs /\ k # j BY <1>3, <1>5, NeatFacts DEF Sound
  <2> QED BY <1>2, <2>1 DEF NoBusier, Active, Failing
<1>6. t \in Neat({} \cup {q}) BY <1>2, <1>3, <1>4, <1>5, NeatWritten, Zenon
<1>7. updateQueue(t, q) \in Neat(({} \cup {q}) \ {q}) BY <1>1, <1>6, UpdateNeat
<1>8. ({} \cup {q}) \ {q} = {} OBVIOUS
<1> QED BY <1>7, <1>8

LEMMA HandlerStopNeat ==
  ASSUME OnlyKio, NEW s \in Neat({}), s \in Sound, NEW j \in Jobs
  PROVE  handlerStop(s, j) \in Neat({})
BY SetPolicyNeat DEF handlerStop, Policy

(* The lists *)

ListWrote(s, t, q, list) ==
    /\ t \in State /\ t.job = s.job /\ t.scheduler = s.scheduler
    /\ \A p \in Queues : t.queue[p].jobs = IF p = q THEN list ELSE s.queue[p].jobs

LEMMA WroteList ==
  ASSUME NEW s \in State, NEW q \in Queues, NEW list \in Seq(Jobs)
  PROVE  ListWrote(s, [s EXCEPT !.queue[q].jobs = list], q, list)
<1> DEFINE t == [s EXCEPT !.queue[q].jobs = list]
<1>1. t.scheduler = s.scheduler BY DEF State
<1>2. /\ t \in State /\ t.job = s.job
      /\ \A p \in Queues : t.queue[p].jobs = IF p = q THEN list ELSE s.queue[p].jobs
  BY ListWritten, ZenonT(30)
<1> HIDE DEF t
<1>3. ListWrote(s, t, q, list) BY <1>1, <1>2 DEF ListWrote
<1> QED BY <1>3 DEF t

LEMMA ListInOrder ==
  ASSUME NEW s \in InOrder, NEW q \in Queues, NEW list \in Seq(Jobs), NEW t,
         ListWrote(s, t, q, list)
  PROVE  t \in InOrder
BY DEF ListWrote, InOrder

(* A list whose elements are of the old one: reordered, or one taken out *)
LEMMA ReorderedNeat ==
  ASSUME OnlyKio, NEW s \in Neat({}), NEW q \in Queues, NEW list \in Seq(Jobs),
         ToSet(list) \subseteq ToSet(s.queue[q].jobs)
  PROVE  updateQueue([s EXCEPT !.queue[q].jobs = list], q) \in Neat({})
<1> SUFFICES ASSUME NEW t, t = [s EXCEPT !.queue[q].jobs = list]
             PROVE  updateQueue(t, q) \in Neat({})
  OBVIOUS
<1>1. s \in State /\ s \in InOrder BY NeatFacts
<1>2. ListWrote(s, t, q, list) BY <1>1, WroteList
<1>3. t \in InOrder BY <1>1, <1>2, ListInOrder
<1>4. /\ t.job = s.job /\ t.scheduler = s.scheduler
      /\ \A p \in Queues : ToSet(t.queue[p].jobs) \subseteq ToSet(s.queue[p].jobs)
  BY <1>2 DEF ListWrote
<1>5. \A j \in Jobs : NoBusier(s, t, j) BY <1>4 DEF NoBusier, Active, Failing
<1>6. \A j \in Jobs : Plain(t.job[j]) /\ Known(t.scheduler.failed[j]) BY <1>4 DEF Neat
<1>7. \A p \in Queues : ToSet(t.queue[p].jobs) \subseteq Jobs BY <1>4, NeatFacts
<1>8. t \in Neat({} \cup {}) BY <1>3, <1>4, <1>5, <1>6, <1>7, NeatWritten, Zenon
<1>9. updateQueue(t, q) \in Neat({} \ {q}) BY <1>8, UpdateNeat
<1> QED BY <1>9

(* A list with a job that was in none; offline it must not run. *)
LEMMA EnlistedNeat ==
  ASSUME OnlyKio, NEW s \in Neat({}), NEW q \in Queues, NEW j \in Jobs, NEW list \in Seq(Jobs),
         ToSet(list) = ToSet(s.queue[q].jobs) \cup {j},
         \A p \in Queues : j \notin ToSet(s.queue[p].jobs),
         ~s.scheduler.connected => s.job[j].status # "Running"
  PROVE  updateQueue([s EXCEPT !.queue[q].jobs = list], q) \in Neat({})
<1> SUFFICES ASSUME NEW t, t = [s EXCEPT !.queue[q].jobs = list]
             PROVE  updateQueue(t, q) \in Neat({})
  OBVIOUS
<1>1. s \in State /\ s \in InOrder BY NeatFacts
<1>2. ListWrote(s, t, q, list) BY <1>1, WroteList
<1>3. t \in InOrder /\ t \in State
  <2>1. t \in InOrder BY <1>1, <1>2, ListInOrder
  <2> QED BY <2>1 DEF InOrder
<1>4. /\ t.job = s.job /\ t.scheduler = s.scheduler
      /\ \A p \in Queues : t.queue[p].jobs = IF p = q THEN list ELSE s.queue[p].jobs
  BY <1>2 DEF ListWrote
<1>5. Apart(t)
  <2>1. ASSUME NEW p \in Queues, NEW r \in Queues, p # r
        PROVE  ToSet(t.queue[p].jobs) \cap ToSet(t.queue[r].jobs) = {}
    <3>1. ToSet(s.queue[p].jobs) \cap ToSet(s.queue[r].jobs) = {} BY <2>1 DEF Neat, Apart
    <3> QED BY <1>4, <2>1, <3>1
  <2> QED BY <2>1 DEF Apart
<1>6. Idle(t) BY <1>4 DEF Idle, Neat
<1>7. ASSUME shouldUpdate(t), NEW p \in Queues \ {q} PROVE Tidy(t, p)
  <2>1. Tidy(s, p) BY <1>4, <1>7 DEF Neat, shouldUpdate
  <2>2. t.queue[p].jobs = s.queue[p].jobs BY <1>4, <1>7
  <2>3. \A k \in ToSet(t.queue[p].jobs) : NoBusier(s, t, k)
    BY <1>4 DEF NoBusier, Active, Failing
  <2>4. maxSimultaneousJobs(t) = maxSimultaneousJobs(s) BY <1>4 DEF maxSimultaneousJobs
  <2> QED BY <1>1, <1>3, <2>1, <2>2, <2>3, <2>4, TidyKept, Zenon
<1>8. t \in Neat({q}) BY <1>3, <1>4, <1>5, <1>6, <1>7, Zenon DEF Neat
<1>9. updateQueue(t, q) \in Neat({q} \ {q}) BY <1>8, UpdateNeat
<1>10. {q} \ {q} = {} OBVIOUS
<1> QED BY <1>9, <1>10, Zenon

LEMMA RemoveNeat ==
  ASSUME OnlyKio, NEW s \in Neat({}), s \in Sound, NEW q \in Queues, NEW j \in Jobs
  PROVE  remove(s, q, j) \in Neat({})
<1>1. /\ Without(s.queue[q].jobs, j) \in Seq(Jobs)
      /\ ToSet(Without(s.queue[q].jobs, j)) \subseteq ToSet(s.queue[q].jobs)
  BY OnceInSound, WithoutFacts DEF Once
<1> QED BY <1>1, ReorderedNeat DEF remove

(* What the status of a job is after a removal while the scheduler does nothing *)
LEMMA RemovedOffline ==
  ASSUME NEW s \in Sound, NEW q \in Queues, NEW j \in Jobs, ~s.scheduler.connected
  PROVE  remove(s, q, j).job = s.job /\ remove(s, q, j).scheduler = s.scheduler
<1> DEFINE t == [s EXCEPT !.queue[q].jobs = Without(@, j)]
<1>1. t.job = s.job /\ t.scheduler = s.scheduler BY DEF Sound, InOrder, State
<1> HIDE DEF t
<1>2. updateQueue(t, q) = t BY <1>1 DEF updateQueue, shouldUpdate
<1> QED BY <1>1, <1>2, Zenon DEF remove, t

LEMMA MoveTransferNeat ==
  ASSUME OnlyKio, NEW s \in Neat({}), s \in Sound, NEW j \in Jobs,
         j \in ToSet(s.queue[s.job[j].queue].jobs),
         NEW dest \in Queues, NEW after,
         after # "front" => after \in ToSet(s.queue[dest].jobs)
  PROVE  moveTransfer(s, j, dest, after) \in Neat({})
<1> SUFFICES ASSUME NEW old, old = s.job[j].queue PROVE moveTransfer(s, j, dest, after) \in Neat({})
  OBVIOUS
<1>1. old \in Queues BY NeatFacts
<1>2. CASE dest = old /\ j = after BY <1>2 DEF moveTransfer
<1>3. CASE dest = old /\ j # after
  <2> DEFINE list == Placed(Without(s.queue[dest].jobs, j), j, after)
  <2>1. /\ Once(Without(s.queue[dest].jobs, j))
        /\ ToSet(Without(s.queue[dest].jobs, j)) = ToSet(s.queue[dest].jobs) \ {j}
    BY OnceInSound, WithoutFacts
  <2>2. Once(list) /\ ToSet(list) = (ToSet(s.queue[dest].jobs) \ {j}) \cup {j}
    <3>1. /\ j \notin ToSet(Without(s.queue[dest].jobs, j))
          /\ after # "front" => after \in ToSet(Without(s.queue[dest].jobs, j))
      BY <1>3, <2>1
    <3> QED BY <2>1, <3>1, PlacedFacts
  <2>3. list \in Seq(Jobs) /\ ToSet(list) \subseteq ToSet(s.queue[dest].jobs)
    BY <1>3, <2>2, Zenon DEF Once
  <2>4. moveTransfer(s, j, dest, after) = updateQueue([s EXCEPT !.queue[dest].jobs = list], dest)
    BY <1>3 DEF moveTransfer, move, Placed
  <2> HIDE DEF list
  <2> QED BY <2>3, <2>4, ReorderedNeat
<1>4. CASE dest # old
  <2> SUFFICES ASSUME NEW r, r = remove(s, old, j) PROVE moveTransfer(s, j, dest, after) \in Neat({})
    OBVIOUS
  <2> DEFINE there == r.queue[dest].jobs
             list == Placed(there, j, after)
             u == updateQueue([r EXCEPT !.queue[dest].jobs = list], dest)
             v == [u EXCEPT !.job[j].queue = dest]
  <2>1. r \in Sound /\ r \in Neat({}) BY <1>1, RemoveSound, RemoveNeat
  <2>2. \A p \in Queues : r.queue[p].jobs =
                IF p = old THEN Without(s.queue[old].jobs, j) ELSE s.queue[p].jobs
    <3>1. \A p \in Queues : remove(s, old, j).queue[p].jobs =
                IF p = old THEN Without(s.queue[old].jobs, j) ELSE s.queue[p].jobs
      BY <1>1, RemoveSound, ZenonT(30)
    <3> QED BY <3>1
  <2>3. \A p \in Queues : j \notin ToSet(r.queue[p].jobs)
    <3>1. j \notin ToSet(Without(s.queue[old].jobs, j)) BY <1>1, OnceInSound, WithoutFacts
    <3>2. \A p \in Queues : p # old => j \notin ToSet(s.queue[p].jobs) BY <1>1, InOneList
    <3> QED BY <2>2, <3>1, <3>2
  <2>4. there = s.queue[dest].jobs BY <1>4, <2>2
  <2>5. Once(there) BY <2>1, OnceInSound
  <2>6. Once(list) /\ ToSet(list) = ToSet(there) \cup {j}
    BY <2>3, <2>4, <2>5, PlacedFacts
  <2>7. ~r.scheduler.connected => r.job[j].status # "Running"
    <3>1. CASE s.scheduler.connected
      <4>1. r.scheduler.connected = s.scheduler.connected
        <5>1. Without(s.queue[old].jobs, j) \in Seq(Jobs)
          BY <1>1, OnceInSound, WithoutFacts DEF Once
        <5> DEFINE b == [s EXCEPT !.queue[old].jobs = Without(s.queue[old].jobs, j)]
        <5>2. s \in State /\ s \in InOrder BY NeatFacts
        <5>3. ListWrote(s, b, old, Without(s.queue[old].jobs, j)) BY <1>1, <5>1, <5>2, WroteList
        <5>4. r = updateQueue(b, old) BY DEF remove
        <5> HIDE DEF b
        <5>5. b \in InOrder BY <1>1, <5>1, <5>2, <5>3, ListInOrder
        <5>6. r \in Touching(b, ToSet(b.queue[old].jobs)) BY <1>1, <5>4, <5>5, UpdateTouches
        <5> QED BY <5>3, <5>6 DEF ListWrote, Touching, SameScheduling
      <4> QED BY <3>1, <4>1
    <3>2. CASE ~s.scheduler.connected
      <4>1. r.job = s.job BY <1>1, <3>2, RemovedOffline
      <4>2. s.job[j].status # "Running" BY <1>1, <3>2 DEF Neat, Idle
      <4> QED BY <4>1, <4>2
    <3> QED BY <3>1, <3>2
  <2>8. moveTransfer(s, j, dest, after) = v
    BY <1>4 DEF moveTransfer, insert, Placed
  <2>9. moveTransfer(s, j, dest, after) \in Sound BY MoveTransferSound
  <2>10. list \in Seq(Jobs) BY <2>6 DEF Once
  <2> HIDE DEF list
  <2>11. u \in Neat({}) BY <2>1, <2>3, <2>6, <2>7, <2>10, EnlistedNeat
  <2> HIDE DEF u
  <2>12. u \in State BY <2>11, NeatFacts
  <2>13. /\ v.queue = u.queue /\ v.scheduler = u.scheduler
         /\ \A k \in Jobs : /\ v.job[k].status = u.job[k].status
                            /\ v.job[k].moving = u.job[k].moving
                            /\ v.job[k].policy = u.job[k].policy
    BY <2>12 DEF State, Job
  <2> HIDE DEF v
  <2>14. v \in InOrder BY <2>8, <2>9 DEF Sound
  <2>15. \A k \in Jobs : NoBusier(u, v, k) BY <2>13 DEF NoBusier, Active, Failing
  <2>16. \A k \in Jobs : Plain(v.job[k]) /\ Known(v.scheduler.failed[k])
    BY <2>11, <2>13 DEF Neat, Plain
  <2>17. \A p \in Queues : ToSet(v.queue[p].jobs) \subseteq Jobs BY <2>11, <2>13, NeatFacts
  <2>18. v \in Neat({} \cup {}) BY <2>11, <2>13, <2>14, <2>15, <2>16, <2>17, NeatWritten, Zenon
  <2> QED BY <2>8, <2>18
<1> QED BY <1>2, <1>3, <1>4

LEMMA HandlerStartNeat ==
  ASSUME OnlyKio, NEW s \in Neat({}), s \in Sound, NEW j \in Jobs,
         j \in ToSet(s.queue[s.job[j].queue].jobs)
  PROVE  handlerStart(s, j) \in Neat({})
<1> DEFINE q == s.job[j].queue
           t == setPolicy(s, j, "None")
<1>1. q \in Queues /\ s \in SameLists(s) BY NeatFacts
<1>2. t \in SameLists(s) BY <1>1, SetPolicyStays DEF Policy
<1>3. t \in Neat({}) /\ setPolicy(s, j, "Start") \in Neat({}) BY SetPolicyNeat DEF Policy
<1>4. t \in Sound BY <1>2, SoundKept
<1>5. t.job[j].queue = q /\ j \in ToSet(t.queue[q].jobs) BY <1>2 DEF SameLists
<1> HIDE DEF t
<1>6. moveTransfer(t, j, q, "front") \in Neat({})
  BY <1>1, <1>3, <1>4, <1>5, MoveTransferNeat
<1> QED BY <1>3, <1>6 DEF handlerStart, t

(* Queues that are started and stopped *)

(* A set of states that every step of a loop keeps, the loop keeps. *)
LEMMA ResetsKeep ==
  ASSUME NEW base, NEW s \in SameLists(base), NEW list \in Seq(Jobs), NEW status,
         NEW S, s \in S, \A v \in S, j \in Jobs : Reset(v, j, status) \in S
  PROVE  ResetJobs(s, list, status) \in S
<1> SUFFICES ASSUME NEW N, N = Len(list) PROVE ResetJobs(s, list, status) \in S
  OBVIOUS
<1>1. N \in Nat /\ \A n \in 1 .. N : list[n] \in Jobs OBVIOUS
<1>2. PICK after : /\ after[0] = s /\ ResetJobs(s, list, status) = after[N]
                   /\ \A n \in 1 .. N : after[n] = Reset(after[n - 1], list[n], status)
  BY ResetLoop
<1>3. \A n \in 1 .. N : after[n - 1] \in S => after[n] \in S BY <1>1, <1>2
<1>4. \A n \in 0 .. N : after[n] \in S BY <1>1, <1>2, <1>3, IterationsStay, Zenon
<1> QED BY <1>1, <1>2, <1>4

LEMMA StopActivesKeep ==
  ASSUME NEW base, NEW s \in SameLists(base), NEW list \in Seq(Jobs),
         NEW S, s \in S, \A v \in S, j \in Jobs : StopActive(v, j) \in S
  PROVE  StoppedActive(s, list) \in S
<1> SUFFICES ASSUME NEW N, N = Len(list) PROVE StoppedActive(s, list) \in S
  OBVIOUS
<1>1. N \in Nat /\ \A n \in 1 .. N : list[n] \in Jobs OBVIOUS
<1>2. PICK after : /\ after[0] = s /\ StoppedActive(s, list) = after[N]
                   /\ \A n \in 1 .. N : after[n] = StopActive(after[n - 1], list[n])
  BY StopLoop
<1>3. \A n \in 1 .. N : after[n - 1] \in S => after[n] \in S BY <1>1, <1>2
<1>4. \A n \in 0 .. N : after[n] \in S BY <1>1, <1>2, <1>3, IterationsStay, Zenon
<1> QED BY <1>1, <1>2, <1>4

LEMMA SetQueueStatusNeat ==
  ASSUME OnlyKio, NEW s \in Neat({}), s \in Sound, NEW q \in Queues, NEW status \in JobQueueStatus
  PROVE  setQueueStatus(s, q, status) \in Neat({})
<1> SUFFICES ASSUME NEW b, b = [s EXCEPT !.queue[q].status = status],
                    NEW jobs, jobs = s.queue[q].jobs
             PROVE  setQueueStatus(s, q, status) \in Neat({})
  BY Zenon
<1> DEFINE t == ResetJobs(b, jobs, status)
           u == StoppedActive(t, jobs)
           S == {v \in Neat({}) : v \in SameLists(b)}
<1>1. /\ b \in Sound /\ b.job = s.job /\ b.scheduler = s.scheduler
      /\ \A p \in Queues : b.queue[p].jobs = s.queue[p].jobs
  <2>1. QueueStatusWrote(s, b, q, status) BY QueueStatusWritten
  <2> QED BY <2>1 DEF QueueStatusWrote
<1>2. jobs \in Seq(Jobs) /\ Len(jobs) \in Nat /\ \A n \in 1 .. Len(jobs) : jobs[n] \in Jobs
  <2>1. jobs \in Seq(Jobs) BY OnceInSound DEF Once
  <2> QED BY <2>1
<1>3. b \in S
  <2>1. b \in InOrder /\ b \in SameLists(b) BY <1>1, SoundItself DEF Sound
  <2>2. \A j \in Jobs : NoBusier(s, b, j) BY <1>1 DEF NoBusier, Active, Failing
  <2>3. \A j \in Jobs : Plain(b.job[j]) /\ Known(b.scheduler.failed[j]) BY <1>1 DEF Neat
  <2>4. \A p \in Queues : ToSet(b.queue[p].jobs) \subseteq Jobs BY <1>1, NeatFacts
  <2>5. b \in Neat({} \cup {}) BY <1>1, <2>1, <2>2, <2>3, <2>4, NeatWritten, Zenon
  <2> QED BY <2>1, <2>5
<1>4. \A v \in S, j \in Jobs : Reset(v, j, status) \in S /\ StopActive(v, j) \in S
  <2>1. ASSUME NEW v \in S, NEW j \in Jobs
        PROVE  Reset(v, j, status) \in S /\ StopActive(v, j) \in S
    <3>1. "None" \in Policy BY DEF Policy
    <3>2. v \in Sound BY <1>1, SoundKept
    <3>3. setPolicy(v, j, "None") \in S BY <3>1, <3>2, SetPolicyNeat, SetPolicyStays
    <3>4. stop(v, j) \in S BY StopNeat, StartsAndStopsStay
    <3> QED BY <3>3, <3>4 DEF Reset, StopActive
  <2> QED BY <2>1
<1>5. t \in S
  <2>1. b \in SameLists(b) /\ \A v \in S, j \in Jobs : Reset(v, j, status) \in S BY <1>3, <1>4
  <2> HIDE DEF S
  <2> QED BY <1>2, <1>3, <2>1, ResetsKeep
<1> HIDE DEF t
<1>6. u \in S
  <2>1. t \in SameLists(b) /\ \A v \in S, j \in Jobs : StopActive(v, j) \in S BY <1>4, <1>5
  <2> HIDE DEF S
  <2> QED BY <1>2, <1>5, <2>1, StopActivesKeep
<1>7. updateQueue(t, q) \in Neat({})
  <2>1. updateQueue(t, q) \in Neat({} \ {q}) BY <1>5, UpdateNeat
  <2> QED BY <2>1
<1>8. setQueueStatus(s, q, status) = IF status = "Stopped" THEN u ELSE updateQueue(t, q)
  BY DEF setQueueStatus, t, ResetJobs, StoppedActive
<1> QED BY <1>6, <1>7, <1>8

(* Updates of all queues, after which none is untidy *)
LEMMA UpdateAllNeat ==
  ASSUME OnlyKio, NEW s \in Neat(Queues)
  PROVE  updateAllQueues(s) \in Neat({})
<1> DEFINE list == s.scheduler.queues
           N == Len(list)
           S(n) == Neat(Queues \ {list[i] : i \in 1 .. n})
<1>1. list = QueueOrder BY DEF Neat
<1>2. /\ list \in Seq(Queues) /\ N \in Nat /\ \A n \in 1 .. N : list[n] \in Queues
      /\ \A q \in Queues : \E i \in 1 .. N : list[i] = q
  <2> HIDE DEF list
  <2> QED BY <1>1, QueueOrderAssumption
<1>3. PICK after : /\ after[0] = s /\ UpdatedQueues(s, list) = after[N]
                   /\ \A n \in 1 .. N : after[n] = updateQueue(after[n - 1], list[n])
  <2>1. s \in SameLists(s) BY NeatFacts
  <2>2. PICK f : /\ f[0] = s /\ UpdatedQueues(s, list) = f[Len(list)]
                 /\ \A n \in 1 .. Len(list) : f[n] = updateQueue(f[n - 1], list[n])
                 /\ \A n \in 0 .. Len(list) : f[n] \in SameLists(s)
    <3> HIDE DEF list
    <3> QED BY <1>2, <2>1, UpdateAllLoop
  <2> QED BY <2>2
<1>4. updateAllQueues(s) = after[N] BY <1>3 DEF updateAllQueues, UpdatedQueues
<1> HIDE DEF list, N
<1>5. after[0] \in S(0)
  <2>1. Queues \ {list[i] : i \in 1 .. 0} = Queues OBVIOUS
  <2> QED BY <1>3, <2>1
<1>6. ASSUME NEW n \in 1 .. N, after[n - 1] \in S(n - 1) PROVE after[n] \in S(n)
  <2> DEFINE X == Queues \ {list[i] : i \in 1 .. n - 1}
  <2>1. X \ {list[n]} = Queues \ {list[i] : i \in 1 .. n} BY <1>2
  <2>2. after[n - 1] \in Neat(X) /\ list[n] \in Queues BY <1>2, <1>6
  <2> HIDE DEF X
  <2>3. after[n] \in Neat(X \ {list[n]}) BY <1>3, <2>2, UpdateNeat
  <2> QED BY <2>1, <2>3
<1>7. Queues \ {list[i] : i \in 1 .. N} = {} BY <1>2
<1> HIDE DEF S
<1> DEFINE F == [n \in Nat |-> S(n)]
<1>8. F[0] = S(0) /\ \A n \in 1 .. N : F[n] = S(n) /\ F[n - 1] = S(n - 1) BY <1>2
<1>9. F[N] = S(N) /\ N \in 0 .. N BY <1>2
<1> HIDE DEF F
<1>10. \A n \in 0 .. N : after[n] \in F[n]
  BY <1>2, <1>5, <1>6, <1>8, IterationsAdvance, ZenonT(60)
<1>11. after[N] \in S(N) BY <1>9, <1>10
<1> QED BY <1>4, <1>7, <1>11 DEF S

(* What suspends the scheduler, connects it or gives it another limit may leave every
   queue untidy, and no job running offline. *)
LEMMA Untidied ==
  ASSUME NEW s \in Neat({}), NEW t \in InOrder, t.queue = s.queue, t.job = s.job,
         t.scheduler.queues = s.scheduler.queues, t.scheduler.failed = s.scheduler.failed,
         t.scheduler.connected \/ ~s.scheduler.connected
  PROVE  /\ t \in Neat(Queues)
         /\ ~shouldUpdate(t) => t \in Neat({})
BY Zenon DEF Neat, Apart, Idle

(* The timer.  An entry of m_failedJobs is about an error of an aborted job, or tells
   to stop one that runs or is aborted, when it is a new one. *)
Entered(s, j, f, e) ==
    /\ e = IF IsValid(f) THEN f ELSE NoFailure
    /\ Known(e)
    /\ f.status = s.scheduler.failed[j].status => e.status = f.status
    /\ f.status # s.scheduler.failed[j].status =>
           /\ f.status = "Error" => s.job[j].status = "Aborted"
           /\ Retries(f) => s.job[j].status \in {"Running", "Aborted"}

LEMMA AbortedKnown ==
  ASSUME NEW old \in Failure, Known(old), NEW error, NEW f, f = Aborted(old, error),
         f # [old EXCEPT !.status = "Error"]
  PROVE  f.status \in {"Abort", "AbortTimeout"} /\ f.time >= 0
<1>1. error = "AutomaticRetry" BY DEF Aborted
<1>2. CASE old.status # "Abort" BY <1>1, <1>2 DEF Aborted
<1>3. CASE old.status = "Abort" /\ old.time + 1 >= ReconnectDelay BY <1>1, <1>3 DEF Aborted
<1>4. CASE old.status = "Abort" /\ ~(old.time + 1 >= ReconnectDelay)
  <2>1. old.time \in Int /\ old.time >= 0 BY <1>4 DEF Known, NoFailure, Failure
  <2>2. f = [old EXCEPT !.time = @ + 1, !.count = Count(@ + 1)] BY <1>1, <1>4 DEF Aborted
  <2>3. f.status = "Abort" /\ f.time = old.time + 1 BY <1>4, <2>2 DEF Failure
  <2> QED BY <2>1, <2>3
<1> QED BY <1>2, <1>3, <1>4

LEMMA FailureEntered ==
  ASSUME NEW s \in InOrder, NEW j \in Jobs, Known(s.scheduler.failed[j]),
         NEW f, f = NextFailure(s, j), NEW e, e = IF IsValid(f) THEN f ELSE NoFailure
  PROVE  Entered(s, j, f, e) /\ e \in Failure
<1> SUFFICES ASSUME NEW old, old = s.scheduler.failed[j]
             PROVE  Entered(s, j, f, e) /\ e \in Failure
  OBVIOUS
<1>1. /\ old \in Failure /\ old.time \in Int
      /\ NoFailure \in Failure /\ NoFailure.status = "None"
  BY DEF InOrder, State, SchedulerObject, Failure, NoFailure, FailureStatus
<1>2. StallTime \in Nat \ {0} BY TimesAssumption
<1>3. f \in Failure /\ e \in Failure
  <2>1. f \in Failure BY SameListsOfItself, NextFailureTyped
  <2> QED BY <1>1, <2>1
<1>4. Known(f) => e = f BY DEF Known, IsValid, NoFailure
<1>5. CASE isStalled(s.job[j])
  <2>1. s.job[j].status = "Running" /\ f = Stalled(old) BY <1>5 DEF isStalled, NextFailure
  <2>2. f.status \in {"AboutToStall", "Stall", "StallTimeout"} /\ f.time >= 0
    BY <1>1, <1>2, <2>1 DEF Stalled, Known, NoFailure
  <2>3. Known(f) /\ e = f BY <1>4, <2>2 DEF Known
  <2> QED BY <1>3, <2>1, <2>2, <2>3 DEF Entered
<1>6. CASE ~isStalled(s.job[j]) /\ s.job[j].status = "Aborted"
  <2>1. f = Aborted(old, s.job[j].error) BY <1>6 DEF NextFailure
  <2>2. CASE f = [old EXCEPT !.status = "Error"]
    <3>1. f.status = "Error" /\ f.time = old.time BY <1>1, <2>2 DEF Failure
    <3>2. CASE old = NoFailure
      <4>1. ~IsValid(f) /\ f.status # old.status BY <3>1, <3>2 DEF IsValid, NoFailure
      <4>2. Known(e) BY <4>1 DEF Known
      <4> QED BY <1>3, <1>6, <4>1, <4>2 DEF Entered
    <3>3. CASE old # NoFailure
      <4>1. Known(f) /\ e = f BY <1>4, <3>1, <3>3 DEF Known
      <4> QED BY <1>3, <1>6, <4>1 DEF Entered
    <3> QED BY <3>2, <3>3
  <2>3. CASE f # [old EXCEPT !.status = "Error"]
    <3>1. f.status \in {"Abort", "AbortTimeout"} /\ f.time >= 0
      BY <1>1, <2>1, <2>3, AbortedKnown
    <3>2. Known(f) /\ e = f BY <1>4, <3>1 DEF Known
    <3> QED BY <1>3, <1>6, <3>2 DEF Entered
  <2> QED BY <2>2, <2>3
<1>7. CASE ~isStalled(s.job[j]) /\ s.job[j].status # "Aborted"
  <2>1. f \in {old, NoFailure} BY <1>7 DEF NextFailure
  <2>2. Known(f) /\ e = f BY <1>4, <2>1 DEF Known
  <2>3. f.status # old.status => f.status = "None" BY <1>1, <2>1
  <2>4. f.status = "None" => f.status # "Error" /\ ~Retries(f) BY DEF Retries
  <2> QED BY <1>3, <2>2, <2>3, <2>4 DEF Entered
<1> QED BY <1>5, <1>6, <1>7

(* The write of an entry *)
EntryWrote(s, t, j, e) ==
    /\ t \in SameLists(s) /\ t.job = s.job /\ t.queue = s.queue
    /\ t.scheduler.queues = s.scheduler.queues
    /\ t.scheduler.suspended = s.scheduler.suspended
    /\ t.scheduler.connected = s.scheduler.connected
    /\ t.scheduler.maxConnections = s.scheduler.maxConnections
    /\ \A k \in Jobs : t.scheduler.failed[k] = IF k = j THEN e ELSE s.scheduler.failed[k]

LEMMA EntryWritten ==
  ASSUME NEW s \in InOrder, NEW j \in Jobs, NEW e \in Failure
  PROVE  EntryWrote(s, [s EXCEPT !.scheduler.failed[j] = e], j, e)
<1> DEFINE c == [s.scheduler EXCEPT !.failed[j] = e]
           t == [s EXCEPT !.scheduler = c]
<1>1. s \in SameLists(s) /\ s.scheduler \in SchedulerObject
  BY SameListsOfItself DEF InOrder, State
<1>2. /\ c \in SchedulerObject
      /\ c.queues = s.scheduler.queues /\ c.suspended = s.scheduler.suspended
      /\ c.connected = s.scheduler.connected
      /\ c.maxConnections = s.scheduler.maxConnections
      /\ \A k \in Jobs : c.failed[k] = IF k = j THEN e ELSE s.scheduler.failed[k]
  BY <1>1 DEF SchedulerObject
<1>3. [s EXCEPT !.scheduler.failed[j] = e] = t BY DEF InOrder, State
<1> HIDE DEF c
<1>4. t \in SameLists(s) BY <1>1, <1>2, SchedulerWritten
<1>5. t.job = s.job /\ t.queue = s.queue /\ t.scheduler = c BY DEF InOrder, State
<1> HIDE DEF t
<1> QED BY <1>2, <1>3, <1>4, <1>5, Zenon DEF EntryWrote

LEMMA CheckJobNeat ==
  ASSUME OnlyKio, NEW s \in Neat({}), s \in Sound, NEW j \in Jobs
  PROVE  CheckJob(s, j) \in Neat({})
<1> SUFFICES ASSUME NEW f, f = NextFailure(s, j),
                    NEW e, e = IF IsValid(f) THEN f ELSE NoFailure,
                    NEW t, t = [s EXCEPT !.scheduler.failed[j] = e],
                    NEW q, q = s.job[j].queue
             PROVE  CheckJob(s, j) \in Neat({})
  BY Zenon
<1>1. CheckJob(s, j) = IF f.status # s.scheduler.failed[j].status THEN failureEvent(t, j, f) ELSE t
  BY DEF CheckJob
<1>2. s \in State /\ s \in InOrder /\ q \in Queues BY NeatFacts
<1>3. Entered(s, j, f, e) /\ e \in Failure
  <2>1. Known(s.scheduler.failed[j]) BY DEF Neat
  <2>2. Entered(s, j, f, e) BY <1>2, <2>1, FailureEntered
  <2>3. e \in Failure BY <1>2, <2>1, FailureEntered
  <2> QED BY <2>2, <2>3
<1>4. EntryWrote(s, t, j, e) BY <1>2, <1>3, EntryWritten
<1>5. t \in InOrder /\ t \in Sound /\ t \in SameLists(s) /\ t.job = s.job
  BY <1>4, SoundKept DEF EntryWrote, SameLists
<1>6. \A k \in Jobs : Plain(t.job[k]) /\ Known(t.scheduler.failed[k])
  BY <1>3, <1>4 DEF Neat, EntryWrote, Entered
<1>7. \A p \in Queues : ToSet(t.queue[p].jobs) \subseteq Jobs
  BY <1>4, NeatFacts DEF EntryWrote
<1>8. \A k \in Jobs : k # j => NoBusier(s, t, k)
  BY <1>4 DEF EntryWrote, NoBusier, Active, Failing
<1>9. ASSUME NoBusier(s, t, j) PROVE t \in Neat({})
  <2>1. t \in Neat({} \cup {})
    <3>1. \A p \in Queues \ ({} \cup {}) : \A k \in ToSet(t.queue[p].jobs) : NoBusier(s, t, k)
      BY <1>7, <1>8, <1>9
    <3> QED BY <1>4, <1>5, <1>6, <1>7, <3>1, NeatWritten, Zenon DEF EntryWrote
  <2> QED BY <2>1
<1>10. CASE f.status = s.scheduler.failed[j].status
  <2>1. t.scheduler.failed[j].status = s.scheduler.failed[j].status
    BY <1>3, <1>4, <1>10 DEF Entered, EntryWrote
  <2>2. NoBusier(s, t, j) BY <1>5, <2>1 DEF NoBusier, Active, Failing
  <2> QED BY <1>1, <1>9, <1>10, <2>2
<1>11. CASE f.status # s.scheduler.failed[j].status
  <2>1. t \in Neat({q})
    <3>1. \A p \in Queues \ {q} : j \notin ToSet(t.queue[p].jobs)
      BY <1>4 DEF EntryWrote, Sound
    <3>2. \A p \in Queues \ ({} \cup {q}) : \A k \in ToSet(t.queue[p].jobs) : NoBusier(s, t, k)
      BY <1>7, <1>8, <3>1
    <3>3. t \in Neat({} \cup {q})
      BY <1>4, <1>5, <1>6, <1>7, <3>2, NeatWritten, ZenonT(30) DEF EntryWrote
    <3> QED BY <3>3
  <2>2. {q} \ {q} = {} BY Zenon
  <2>3. CASE f.status = "Error"
    <3>1. s.job[j].status = "Aborted" BY <1>3, <1>11, <2>3 DEF Entered
    <3>2. NoBusier(s, t, j) BY <1>5, <3>1 DEF NoBusier, Active
    <3>3. handlerStop(t, j) \in Neat({}) BY <1>5, <1>9, <3>2, HandlerStopNeat
    <3> QED BY <1>1, <1>11, <2>3, <3>3 DEF failureEvent
  <2>4. CASE f.status # "Error" /\ Retries(f)
    <3>1. t.job[j].status \notin {"Stopped", "Finished"} /\ t.job[j].queue = q
      BY <1>3, <1>5, <1>11, <2>4 DEF Entered
    <3>2. stop(t, j) \in Neat({q} \ {q}) BY <2>1, <3>1, StopNeat, Zenon
    <3> QED BY <1>1, <1>11, <2>2, <2>4, <3>2 DEF failureEvent
  <2>5. CASE f.status # "Error" /\ ~Retries(f)
    <3>1. updateQueue(t, q) \in Neat({q} \ {q}) BY <1>2, <2>1, UpdateNeat
    <3> QED BY <1>1, <1>5, <1>11, <2>2, <2>5, <3>1 DEF failureEvent
  <2> QED BY <2>3, <2>4, <2>5
<1> QED BY <1>10, <1>11

LEMMA CheckJobsKeep ==
  ASSUME NEW base, NEW s \in SameLists(base), NEW list \in Seq(Jobs),
         NEW S, s \in S, \A v \in S, j \in Jobs : CheckJob(v, j) \in S
  PROVE  CheckedJobs(s, list) \in S
<1> SUFFICES ASSUME NEW N, N = Len(list) PROVE CheckedJobs(s, list) \in S
  OBVIOUS
<1>1. N \in Nat /\ \A n \in 1 .. N : list[n] \in Jobs OBVIOUS
<1>2. PICK after : /\ after[0] = s /\ CheckedJobs(s, list) = after[N]
                   /\ \A n \in 1 .. N : after[n] = CheckJob(after[n - 1], list[n])
  BY CheckJobsLoop
<1>3. \A n \in 1 .. N : after[n - 1] \in S => after[n] \in S BY <1>1, <1>2
<1>4. \A n \in 0 .. N : after[n] \in S BY <1>1, <1>2, <1>3, IterationsStay, Zenon
<1> QED BY <1>1, <1>2, <1>4

LEMMA CheckQueuesKeep ==
  ASSUME NEW base, NEW s \in SameLists(base), NEW list \in Seq(Queues),
         NEW S, s \in S, \A v \in S, q \in Queues : CheckQueue(v, q) \in S
  PROVE  CheckedQueues(s, list) \in S
<1> SUFFICES ASSUME NEW N, N = Len(list) PROVE CheckedQueues(s, list) \in S
  OBVIOUS
<1>1. N \in Nat /\ \A n \in 1 .. N : list[n] \in Queues OBVIOUS
<1>2. PICK after : /\ after[0] = s /\ CheckedQueues(s, list) = after[N]
                   /\ \A n \in 1 .. N : after[n] = CheckQueue(after[n - 1], list[n])
  BY CheckQueuesLoop
<1>3. \A n \in 1 .. N : after[n - 1] \in S => after[n] \in S BY <1>1, <1>2
<1>4. \A n \in 0 .. N : after[n] \in S BY <1>1, <1>2, <1>3, IterationsStay, Zenon
<1> QED BY <1>1, <1>2, <1>4

LEMMA TimerNeat ==
  ASSUME OnlyKio, NEW s \in Neat({}), s \in Sound
  PROVE  timerEvent(s) \in Neat({})
<1> DEFINE S == {v \in Neat({}) : v \in SameLists(s)}
<1>1. s \in S /\ s \in SameLists(s) BY NeatFacts
<1>2. \A v \in S : v \in SameLists(s) /\ v \in Neat({}) /\ v \in Sound BY SoundKept
<1>3. \A v \in S, j \in Jobs : CheckJob(v, j) \in S BY <1>2, CheckJobNeat, CheckJobStays
<1>4. \A v \in S, q \in Queues : v.queue[q].jobs \in Seq(Jobs) BY <1>2, Lists
<1>5. s.scheduler.queues \in Seq(Queues) BY QueueOrderAssumption DEF Neat
<1> HIDE DEF S
<1>6. \A v \in S, q \in Queues : CheckQueue(v, q) \in S
  <2>1. ASSUME NEW v \in S, NEW q \in Queues PROVE CheckQueue(v, q) \in S
    <3>1. CheckedJobs(v, v.queue[q].jobs) \in S BY <1>2, <1>3, <1>4, CheckJobsKeep
    <3> QED BY <3>1 DEF CheckQueue, CheckedJobs
  <2> QED BY <2>1
<1>7. CheckedQueues(s, s.scheduler.queues) \in S BY <1>1, <1>5, <1>6, CheckQueuesKeep
<1> QED BY <1>1, <1>7 DEF timerEvent, CheckedQueues, S

-----------------------------------------------------------------------------
(* The loss of the connection.  Nothing is updated while every job is stopped, so
   that a job that was stopped stays so.  D are the jobs that were. *)
Offline(base, D) ==
    {v \in SameLists(base) :
        /\ v.scheduler.queues = QueueOrder /\ ~v.scheduler.connected
        /\ \A j \in Jobs : Plain(v.job[j]) /\ Known(v.scheduler.failed[j])
        /\ \A j \in D : v.job[j].status # "Running"}

LEMMA OfflineStop ==
  ASSUME OnlyKio, NEW base, NEW D \in SUBSET Jobs, NEW s \in Offline(base, D), NEW j \in Jobs
  PROVE  stop(s, j) \in Offline(base, D \cup {j})
<1> SUFFICES ASSUME NEW u, u = StopQuiet(s, j) PROVE stop(s, j) \in Offline(base, D \cup {j})
  OBVIOUS
<1>1. s \in SameLists(base) /\ s \in State /\ Kind[j] = "kio"
  BY DEF Offline, SameLists, InOrder, OnlyKio
<1>2. u = KioStop(s, j) BY <1>1 DEF StopQuiet
<1>3. /\ KioStop(s, j) \in Touching(s, {j})
      /\ KioStop(s, j).job[j].status
             = IF s.job[j].status = "Finished" THEN "Finished" ELSE "Stopped"
  BY <1>1, KioTouches, Zenon
<1>4. /\ u \in Touching(s, {j}) /\ u.job[j].status \in {"Stopped", "Finished"} BY <1>2, <1>3
<1>5. u \in SameLists(base) BY <1>1, StartAndStopStay
<1>6. /\ \A k \in Jobs : k # j => u.job[k] = s.job[k]
      /\ u.job[j].moving = s.job[j].moving
      /\ SameScheduling(u.scheduler, s.scheduler)
  BY <1>4 DEF Touching, SameDuties
<1>7. updateQueue(u, u.job[j].queue) = u
  BY <1>6 DEF Offline, SameScheduling, updateQueue, shouldUpdate
<1>8. stop(s, j) = u BY <1>7 DEF stop, Announce
<1>9. \A k \in Jobs : Plain(u.job[k]) /\ Known(u.scheduler.failed[k])
  BY <1>4, <1>6 DEF Offline, Plain, SameScheduling
<1>10. \A k \in D \cup {j} : u.job[k].status # "Running" BY <1>4, <1>6 DEF Offline
<1>11. u.scheduler.queues = QueueOrder /\ ~u.scheduler.connected
  BY <1>6 DEF Offline, SameScheduling
<1> QED BY <1>5, <1>8, <1>9, <1>10, <1>11 DEF Offline

(* The loops, with a set of states for every number of iterations *)
LEMMA StopsAdvance ==
  ASSUME NEW base, NEW s \in SameLists(base), NEW list \in Seq(Jobs), NEW S, s \in S[0],
         \A n \in 1 .. Len(list) : \A v \in S[n - 1] : stop(v, list[n]) \in S[n]
  PROVE  StoppedJobs(s, list) \in S[Len(list)]
<1> SUFFICES ASSUME NEW N, N = Len(list) PROVE StoppedJobs(s, list) \in S[N]
  OBVIOUS
<1>1. N \in Nat OBVIOUS
<1>2. PICK after : /\ after[0] = s /\ StoppedJobs(s, list) = after[N]
                   /\ \A n \in 1 .. N : after[n] = stop(after[n - 1], list[n])
  BY StopsLoop
<1>3. \A n \in 1 .. N : after[n - 1] \in S[n - 1] => after[n] \in S[n] BY <1>2
<1>4. \A n \in 0 .. N : after[n] \in S[n] BY <1>1, <1>2, <1>3, IterationsAdvance, Zenon
<1> QED BY <1>1, <1>2, <1>4

LEMMA StopQueuesAdvance ==
  ASSUME NEW base, NEW s \in SameLists(base), NEW list \in Seq(Queues), NEW S, s \in S[0],
         \A n \in 1 .. Len(list) : \A v \in S[n - 1] : StopQueue(v, list[n]) \in S[n]
  PROVE  StoppedQueues(s, list) \in S[Len(list)]
<1> SUFFICES ASSUME NEW N, N = Len(list) PROVE StoppedQueues(s, list) \in S[N]
  OBVIOUS
<1>1. N \in Nat OBVIOUS
<1>2. PICK after : /\ after[0] = s /\ StoppedQueues(s, list) = after[N]
                   /\ \A n \in 1 .. N : after[n] = StopQueue(after[n - 1], list[n])
  BY StopQueuesLoop
<1>3. \A n \in 1 .. N : after[n - 1] \in S[n - 1] => after[n] \in S[n] BY <1>2
<1>4. \A n \in 0 .. N : after[n] \in S[n] BY <1>1, <1>2, <1>3, IterationsAdvance, Zenon
<1> QED BY <1>1, <1>2, <1>4

LEMMA OfflineStops ==
  ASSUME OnlyKio, NEW base, NEW D \in SUBSET Jobs, NEW s \in Offline(base, D),
         NEW list \in Seq(Jobs)
  PROVE  StoppedJobs(s, list) \in Offline(base, D \cup ToSet(list))
<1> SUFFICES ASSUME NEW N, N = Len(list),
                    NEW S, S = [n \in Nat |-> Offline(base, D \cup {list[i] : i \in 1 .. n})]
             PROVE  StoppedJobs(s, list) \in Offline(base, D \cup ToSet(list))
  BY Zenon
<1>1. N \in Nat /\ (\A n \in 1 .. N : list[n] \in Jobs) /\ ToSet(list) = {list[i] : i \in 1 .. N}
  BY Distinct
<1>2. s \in SameLists(base) BY DEF Offline
<1>3. s \in S[0]
  <2>1. {list[i] : i \in 1 .. 0} = {} OBVIOUS
  <2>2. S[0] = Offline(base, D) BY <2>1
  <2> QED BY <2>2
<1>4. ASSUME NEW n \in 1 .. N, NEW v \in S[n - 1] PROVE stop(v, list[n]) \in S[n]
  <2> DEFINE E == D \cup {list[i] : i \in 1 .. n - 1}
  <2>1. v \in Offline(base, E) /\ E \subseteq Jobs /\ list[n] \in Jobs BY <1>1, <1>4
  <2>2. E \cup {list[n]} = D \cup {list[i] : i \in 1 .. n} BY <1>1
  <2> HIDE DEF E
  <2>3. stop(v, list[n]) \in Offline(base, E \cup {list[n]}) BY <2>1, OfflineStop
  <2>4. n \in Nat BY <1>1
  <2> QED BY <2>2, <2>3, <2>4
<1>5. S[N] = Offline(base, D \cup ToSet(list)) BY <1>1
<1>6. StoppedJobs(s, list) \in S[Len(list)]
  BY <1>2, <1>3, <1>4, StopsAdvance
<1> QED BY <1>5, <1>6

(* What is stopped is every job of every list. *)
LEMMA OfflineAll ==
  ASSUME OnlyKio, NEW base, NEW s \in Offline(base, {})
  PROVE  StoppedQueues(s, QueueOrder)
             \in Offline(base, UNION {ToSet(base.queue[q].jobs) : q \in Queues})
<1> SUFFICES ASSUME NEW N, N = Len(QueueOrder), NEW list, list = QueueOrder,
                    NEW D, D = [n \in Nat |-> UNION {ToSet(base.queue[list[i]].jobs) : i \in 1 .. n}],
                    NEW S, S = [n \in Nat |-> Offline(base, D[n])]
             PROVE  StoppedQueues(s, list)
                        \in Offline(base, UNION {ToSet(base.queue[q].jobs) : q \in Queues})
  BY Zenon
<1>1. /\ list \in Seq(Queues) /\ N \in Nat /\ N = Len(list)
      /\ \A n \in 1 .. N : list[n] \in Queues
      /\ \A q \in Queues : \E i \in 1 .. N : list[i] = q
  BY QueueOrderAssumption
<1>2. s \in SameLists(base) /\ s.queue = base.queue BY DEF Offline, SameLists
<1>3. \A p \in Queues : base.queue[p].jobs \in Seq(Jobs) /\ ToSet(base.queue[p].jobs) \subseteq Jobs
  <2>1. \A p \in Queues : s.queue[p].jobs \in Seq(Jobs) BY <1>2, Lists
  <2>2. s \in State BY <1>2 DEF SameLists, InOrder
  <2> QED BY <1>2, <2>1, <2>2, ListsAreFinite
<1>4. s \in S[0]
  <2>1. D[0] = {} OBVIOUS
  <2> QED BY <2>1
<1>5. ASSUME NEW n \in 1 .. N, NEW v \in S[n - 1] PROVE StopQueue(v, list[n]) \in S[n]
  <2> DEFINE p == list[n]
  <2>1. p \in Queues /\ n - 1 \in Nat /\ n \in Nat BY <1>1
  <2>2. D[n] = D[n - 1] \cup ToSet(base.queue[p].jobs)
    <3> DEFINE J(i) == ToSet(base.queue[list[i]].jobs)
    <3>1. D[n] = UNION {J(i) : i \in 1 .. n} /\ D[n - 1] = UNION {J(i) : i \in 1 .. n - 1}
      BY <2>1
    <3>2. 1 .. n = (1 .. n - 1) \cup {n} BY <1>1
    <3>3. ToSet(base.queue[p].jobs) = J(n) OBVIOUS
    <3> HIDE DEF J
    <3> QED BY <3>1, <3>2, <3>3
  <2>3. D[n - 1] \subseteq Jobs BY <1>1, <1>3
  <2>4. v \in Offline(base, D[n - 1]) /\ S[n] = Offline(base, D[n]) BY <2>1
  <2> HIDE DEF p
  <2>5. v.queue[p].jobs = base.queue[p].jobs BY <2>4 DEF Offline, SameLists
  <2>6. StoppedJobs(v, v.queue[p].jobs) \in Offline(base, D[n - 1] \cup ToSet(v.queue[p].jobs))
    BY <1>3, <2>1, <2>3, <2>4, <2>5, OfflineStops
  <2> QED BY <2>2, <2>4, <2>5, <2>6, Zenon DEF StopQueue, StoppedJobs, p
<1>6. StoppedQueues(s, list) \in S[Len(list)] BY <1>1, <1>2, <1>4, <1>5, StopQueuesAdvance, Zenon
<1>7. D[N] = UNION {ToSet(base.queue[q].jobs) : q \in Queues} BY <1>1
<1> QED BY <1>1, <1>6, <1>7, Zenon

LEMMA LostNeat ==
  ASSUME OnlyKio, NEW s \in Neat({}), NEW t \in InOrder, t.queue = s.queue, t.job = s.job,
         t.scheduler.queues = s.scheduler.queues, t.scheduler.failed = s.scheduler.failed,
         ~t.scheduler.connected
  PROVE  StoppedQueues(t, t.scheduler.queues) \in Neat({})
<1> SUFFICES ASSUME NEW u, u = StoppedQueues(t, t.scheduler.queues) PROVE u \in Neat({})
  OBVIOUS
<1>1. t.scheduler.queues = QueueOrder BY DEF Neat
<1>2. t \in Offline(t, {}) BY <1>1, SameListsOfItself DEF Offline, Neat
<1>3. u \in Offline(t, UNION {ToSet(t.queue[q].jobs) : q \in Queues})
  BY <1>1, <1>2, OfflineAll
<1>4. u \in Offline(t, {}) BY <1>3 DEF Offline
<1>5. u \in SameLists(t) /\ u.queue = s.queue /\ u \in InOrder BY <1>4 DEF Offline, SameLists
<1>6. Apart(u) BY <1>5 DEF Neat, Apart
<1>7. \A q \in Queues : \A j \in ToSet(u.queue[q].jobs) : u.job[j].status # "Running"
  BY <1>3, <1>5 DEF Offline
<1>8. ~shouldUpdate(u) BY <1>4 DEF Offline, shouldUpdate
<1> QED BY <1>4, <1>5, <1>6, <1>7, <1>8 DEF Neat, Offline, Idle

-----------------------------------------------------------------------------
(* The actions *)

(* One job is replaced by one that is inactive, or as busy as it was. *)
LEMMA JobReplaced ==
  ASSUME NEW X, NEW s \in Neat(X), NEW j \in Jobs, NEW r \in Job, Plain(r),
         \/ r.status \in {"Stopped", "Aborted", "Finished"}
         \/ r.status = s.job[j].status /\ r.policy = s.job[j].policy,
         NEW t \in InOrder, t = [s EXCEPT !.job = [s.job EXCEPT ![j] = r]]
  PROVE  t \in Neat(X)
<1>1. s \in State BY NeatFacts
<1>2. /\ t.queue = s.queue /\ t.scheduler = s.scheduler /\ t.job[j] = r
      /\ \A k \in Jobs : k # j => t.job[k] = s.job[k]
  BY <1>1 DEF State
<1>3. \A k \in Jobs : NoBusier(s, t, k) BY <1>2 DEF NoBusier, Active, Failing
<1>4. \A k \in Jobs : Plain(t.job[k]) /\ Known(t.scheduler.failed[k]) BY <1>2 DEF Neat
<1>5. \A k \in Jobs : t.job[k].status = "Running" => s.job[k].status = "Running" BY <1>2
<1>6. \A q \in Queues : ToSet(t.queue[q].jobs) \subseteq Jobs BY <1>2, NeatFacts
<1>7. t \in Neat(X \cup {}) BY <1>2, <1>3, <1>4, <1>5, <1>6, NeatWritten, Zenon
<1> QED BY <1>7

LEMMA NewJobNeat ==
  ASSUME NEW s \in Neat({}), NEW j \in Jobs, NEW q \in Queues
  PROVE  /\ [s EXCEPT !.job[j] = NewJob(q)] \in Neat({})
         /\ [s EXCEPT !.job[j] = NewJob(q)].queue = s.queue
         /\ [s EXCEPT !.job[j] = NewJob(q)].job[j].status = "Stopped"
<1> DEFINE t == [s EXCEPT !.job[j] = NewJob(q)]
<1>1. /\ NewJob(q) \in Job /\ Consistent(j, NewJob(q)) /\ Plain(NewJob(q))
      /\ NewJob(q).status = "Stopped"
  BY NewJobInOrder DEF Plain, NewJob
<1>2. t = [s EXCEPT !.job = [s.job EXCEPT ![j] = NewJob(q)]]
  BY NeatFacts DEF State
<1>3. s \in State /\ s \in InOrder BY NeatFacts
<1>4. t \in State /\ t.queue = s.queue /\ t.job = [s.job EXCEPT ![j] = NewJob(q)]
  BY <1>1, <1>3 DEF State
<1> HIDE DEF t
<1>5. s.job \in [Jobs -> Job] BY <1>3 DEF State
<1>6. t \in InOrder /\ t.job[j].status = "Stopped" BY <1>1, <1>3, <1>4, <1>5 DEF InOrder
<1>7. t \in Neat({}) BY <1>1, <1>2, <1>6, JobReplaced
<1> QED BY <1>4, <1>6, <1>7 DEF t

(* What an action that replaces one job at the end leaves in order *)
LEMMA BecomesInOrder ==
  ASSUME Inv', NEW s \in State, NEW j, NEW r,
         Becomes([s EXCEPT !.job = [s.job EXCEPT ![j] = r]])
  PROVE  [s EXCEPT !.job = [s.job EXCEPT ![j] = r]] \in InOrder
<1> DEFINE t == [s EXCEPT !.job = [s.job EXCEPT ![j] = r]]
<1>1. t = [job |-> t.job, queue |-> t.queue, scheduler |-> t.scheduler] BY DEF State
<1>2. t.job = job' /\ t.queue = queue' /\ t.scheduler = scheduler' BY DEF Becomes
<1> HIDE DEF t
<1>3. t \in State BY <1>1, <1>2 DEF Inv, TypeOK, State
<1>4. t \in InOrder BY <1>2, <1>3 DEF Inv, JobsInOrder, InOrder
<1> QED BY <1>4 DEF t

LEMMA AddTransferNeat ==
  ASSUME OnlyKio, Now \in Neat({}), Now \in Sound, NEW j \in Jobs, NEW q \in Queues, j \notin Listed
  PROVE  append([Now EXCEPT !.job[j] = NewJob(q)], q, j) \in Neat({})
<1> SUFFICES ASSUME NEW s, s = [Now EXCEPT !.job[j] = NewJob(q)],
                    NEW list, list = Append(s.queue[q].jobs, j)
             PROVE  append(s, q, j) \in Neat({})
  BY Zenon
<1>1. s \in Neat({}) /\ s.queue = Now.queue /\ s.job[j].status = "Stopped" BY NewJobNeat
<1>2. \A p \in Queues : j \notin ToSet(s.queue[p].jobs) BY <1>1, ListedFacts
<1>3. Once(s.queue[q].jobs) BY <1>1, OnceInSound
<1>4. list \in Seq(Jobs) /\ ToSet(list) = ToSet(s.queue[q].jobs) \cup {j}
  BY <1>2, <1>3, Appended DEF Once
<1>5. updateQueue([s EXCEPT !.queue[q].jobs = list], q) \in Neat({})
  BY <1>1, <1>2, <1>4, EnlistedNeat, Zenon
<1> QED BY <1>5 DEF append

LEMMA BecomesNeat ==
  ASSUME NEW s \in Neat({}), Becomes(s)
  PROVE  (Now \in Neat({}))'
<1>1. s = [job |-> s.job, queue |-> s.queue, scheduler |-> s.scheduler]
  BY NeatFacts DEF State
<1>2. Now' = s BY <1>1 DEF Now, Becomes
<1> QED BY <1>2 DEF Neat

LEMMA UserActsNeat ==
  ASSUME OnlyKio, Inv, Inv', Now \in Neat({}), UserActs
  PROVE  (Now \in Neat({}))'
<1>1. Now \in Sound BY NowIsSound
<1>2. ASSUME NEW j \in Jobs, NEW q \in Queues, AddTransfer(j, q) PROVE (Now \in Neat({}))'
  <2>1. append([Now EXCEPT !.job[j] = NewJob(q)], q, j) \in Neat({})
    BY <1>1, <1>2, AddTransferNeat DEF AddTransfer
  <2> QED BY <1>2, <2>1, BecomesNeat DEF AddTransfer
<1>3. ASSUME NEW j \in Jobs, DeleteTransfer(j) PROVE (Now \in Neat({}))'
  <2> SUFFICES ASSUME NEW r, r = remove(Now, job[j].queue, j) PROVE (Now \in Neat({}))'
    OBVIOUS
  <2>1. job[j].queue \in Queues BY <1>1, NowFacts
  <2>2. r \in Neat({}) BY <1>1, <2>1, RemoveNeat
  <2>3. [r EXCEPT !.job[j] = NewJob(job[j].queue)] \in Neat({}) BY <2>1, <2>2, NewJobNeat
  <2> QED BY <1>3, <2>3, BecomesNeat DEF DeleteTransfer
<1>4. ASSUME NEW j \in Jobs, StartTransfer(j) PROVE (Now \in Neat({}))'
  <2>1. handlerStart(Now, j) \in Neat({})
    BY <1>1, <1>4, ListedFacts, HandlerStartNeat DEF StartTransfer, Handles
  <2> QED BY <1>4, <2>1, BecomesNeat DEF StartTransfer, Handles
<1>5. ASSUME NEW j \in Jobs, StopTransfer(j) PROVE (Now \in Neat({}))'
  <2>1. handlerStop(Now, j) \in Neat({}) BY <1>1, HandlerStopNeat
  <2> QED BY <1>5, <2>1, BecomesNeat DEF StopTransfer, Handles
<1>6. ASSUME NEW j \in Jobs, NEW dest \in Queues, NEW after \in Jobs \cup {"front"},
             MoveTransfer(j, dest, after)
      PROVE  (Now \in Neat({}))'
  <2>1. after # "front" => after \in ToSet(Now.queue[dest].jobs)
    <3>1. Now.queue[dest].jobs \in Seq(Jobs) BY <1>1, OnceInSound DEF Once
    <3>2. JobsOf(dest) = ToSet(Now.queue[dest].jobs) BY <3>1, Distinct DEF JobsOf, Now
    <3> QED BY <1>6, <3>2 DEF MoveTransfer, Handles
  <2>2. moveTransfer(Now, j, dest, after) \in Neat({})
    BY <1>1, <1>6, <2>1, ListedFacts, MoveTransferNeat DEF MoveTransfer, Handles
  <2> QED BY <1>6, <2>2, BecomesNeat DEF MoveTransfer, Handles
<1>7. ASSUME NEW q \in Queues, NEW status \in JobQueueStatus, SetQueueStatus(q, status)
      PROVE  (Now \in Neat({}))'
  BY <1>1, <1>7, SetQueueStatusNeat, BecomesNeat DEF SetQueueStatus, Handles
<1>8. ASSUME NEW suspended \in BOOLEAN, SetIsSuspended(suspended) PROVE (Now \in Neat({}))'
  <2> SUFFICES ASSUME NEW s, s = [Now EXCEPT !.scheduler.suspended = suspended]
               PROVE  (Now \in Neat({}))'
    BY Zenon
  <2>1. /\ s.queue = Now.queue /\ s.job = Now.job
        /\ s.scheduler.queues = Now.scheduler.queues
        /\ s.scheduler.failed = Now.scheduler.failed
        /\ s.scheduler.connected = Now.scheduler.connected
    BY <1>1, NowFacts DEF SchedulerObject
  <2>2. s \in InOrder
    <3>1. [scheduler EXCEPT !.suspended = suspended] \in SchedulerObject
      BY <1>1, NowFacts DEF SchedulerObject
    <3>2. s = [Now EXCEPT !.scheduler = [scheduler EXCEPT !.suspended = suspended]]
      BY <1>1, NowFacts
    <3>3. s \in SameLists(Now) BY <1>1, <3>1, <3>2, NowFacts, SchedulerWritten
    <3> QED BY <3>3 DEF SameLists
  <2>3. s \in Neat(Queues) /\ (~shouldUpdate(s) => s \in Neat({})) BY <2>1, <2>2, Untidied, Zenon
  <2>4. updateAllQueues(s) \in Neat({}) BY <2>3, UpdateAllNeat
  <2>5. suspended = scheduler.suspended => s = Now
    <3>1. Now.scheduler = [Now.scheduler EXCEPT !.suspended = scheduler.suspended]
      BY <1>1, NowFacts DEF SchedulerObject
    <3> QED BY <1>1, <3>1, NowFacts DEF State
  <2>6. Becomes(IF suspended # scheduler.suspended /\ shouldUpdate(s)
                THEN updateAllQueues(s) ELSE s)
    BY <1>8 DEF SetIsSuspended, Handles
  <2>7. CASE suspended # scheduler.suspended /\ shouldUpdate(s)
    BY <2>4, <2>6, <2>7, BecomesNeat
  <2>8. CASE ~(suspended # scheduler.suspended /\ shouldUpdate(s))
    <3>1. s \in Neat({}) BY <2>3, <2>5, <2>8
    <3> QED BY <2>6, <2>8, <3>1, BecomesNeat
  <2> QED BY <2>7, <2>8
<1>9. ASSUME NEW limit \in Limits, SettingsChanged(limit) PROVE (Now \in Neat({}))'
  <2> SUFFICES ASSUME NEW s, s = [Now EXCEPT !.scheduler.maxConnections = limit]
               PROVE  (Now \in Neat({}))'
    BY Zenon
  <2>1. /\ s.queue = Now.queue /\ s.job = Now.job
        /\ s.scheduler.queues = Now.scheduler.queues
        /\ s.scheduler.failed = Now.scheduler.failed
        /\ s.scheduler.connected = Now.scheduler.connected
    BY <1>1, NowFacts DEF SchedulerObject
  <2>2. s \in InOrder
    <3>1. [scheduler EXCEPT !.maxConnections = limit] \in SchedulerObject
      BY <1>1, LimitsAssumption, NowFacts DEF SchedulerObject
    <3>2. s = [Now EXCEPT !.scheduler = [scheduler EXCEPT !.maxConnections = limit]]
      BY <1>1, NowFacts
    <3>3. s \in SameLists(Now) BY <1>1, <3>1, <3>2, NowFacts, SchedulerWritten
    <3> QED BY <3>3 DEF SameLists
  <2>3. s \in Neat(Queues) BY <2>1, <2>2, Untidied, Zenon
  <2>4. updateAllQueues(s) \in Neat({}) BY <2>3, UpdateAllNeat
  <2> QED BY <1>9, <2>4, BecomesNeat DEF SettingsChanged, Handles
<1> QED BY <1>2, <1>3, <1>4, <1>5, <1>6, <1>7, <1>8, <1>9 DEF UserActs

LEMMA NetworkActsNeat ==
  ASSUME OnlyKio, Inv, Now \in Neat({}), NetworkActs
  PROVE  (Now \in Neat({}))'
<1>1. Now \in Sound BY NowIsSound
<1>2. ASSUME NEW connected \in BOOLEAN, NEW timer \in BOOLEAN,
             NEW s, s = [Now EXCEPT !.scheduler.connected = connected, !.scheduler.timer = timer]
      PROVE  /\ s \in InOrder /\ s.queue = Now.queue /\ s.job = Now.job
             /\ s.scheduler.queues = Now.scheduler.queues
             /\ s.scheduler.failed = Now.scheduler.failed
             /\ s.scheduler.connected = connected
  <2> DEFINE c == [scheduler EXCEPT !.connected = connected, !.timer = timer]
  <2>1. /\ c \in SchedulerObject /\ c.queues = scheduler.queues
        /\ c.failed = scheduler.failed /\ c.connected = connected
    BY <1>1, NowFacts, Zenon DEF SchedulerObject
  <2>2. s = [Now EXCEPT !.scheduler = c] BY <1>1, <1>2, NowFacts, Zenon
  <2> HIDE DEF c
  <2>3. s \in SameLists(Now) BY <1>1, <2>1, <2>2, NowFacts, SchedulerWritten
  <2>4. s.queue = Now.queue /\ s.job = Now.job /\ s.scheduler = c
    BY <1>1, <2>2, NowFacts DEF State
  <2>5. s \in InOrder BY <2>3 DEF SameLists
  <2> QED BY <1>1, <2>1, <2>4, <2>5, NowFacts
<1>3. CASE LoseConnection
  <2> SUFFICES ASSUME NEW s, s = [Now EXCEPT !.scheduler.connected = FALSE,
                                             !.scheduler.timer = FALSE]
               PROVE  (Now \in Neat({}))'
    OBVIOUS
  <2>1. /\ s \in InOrder /\ s.queue = Now.queue /\ s.job = Now.job
        /\ s.scheduler.queues = Now.scheduler.queues
        /\ s.scheduler.failed = Now.scheduler.failed
        /\ s.scheduler.connected = FALSE
    BY <1>2, Zenon
  <2>2. StoppedQueues(s, s.scheduler.queues) \in Neat({}) BY <2>1, LostNeat, Zenon
  <2>3. s.scheduler.queues = scheduler.queues BY <1>1, <2>1, NowFacts
  <2>4. Becomes(StoppedQueues(s, s.scheduler.queues))
    BY <1>3, <2>3 DEF LoseConnection, Handles, StoppedQueues
  <2> QED BY <2>2, <2>4, BecomesNeat
<1>4. CASE GainConnection
  <2> SUFFICES ASSUME NEW s, s = [Now EXCEPT !.scheduler.connected = TRUE,
                                             !.scheduler.timer = TRUE]
               PROVE  (Now \in Neat({}))'
    OBVIOUS
  <2>1. /\ s \in InOrder /\ s.queue = Now.queue /\ s.job = Now.job
        /\ s.scheduler.queues = Now.scheduler.queues
        /\ s.scheduler.failed = Now.scheduler.failed
        /\ s.scheduler.connected = TRUE
    BY <1>2, Zenon
  <2>2. s \in Neat(Queues) BY <2>1, Untidied, Zenon
  <2>3. updateAllQueues(s) \in Neat({}) BY <2>2, UpdateAllNeat
  <2> QED BY <1>4, <2>3, BecomesNeat DEF GainConnection, Handles
<1> QED BY <1>3, <1>4 DEF NetworkActs

LEMMA KioActsNeat ==
  ASSUME OnlyKio, ~FilesMove, Inv, Inv', Now \in Neat({}), KioActs
  PROVE  (Now \in Neat({}))'
<1>1. Now \in Sound BY NowIsSound
<1>2. ASSUME NEW j \in Jobs, NEW s \in Neat({}), NEW t,
             \/ t = [s EXCEPT !.job = [s.job EXCEPT ![j] = [s.job[j] EXCEPT !.worker = "none"]]]
             \/ t = [s EXCEPT !.job = [s.job EXCEPT ![j] = [s.job[j] EXCEPT !.speed = FALSE,
                                                                            !.worker = "none"]]],
             Becomes(t)
      PROVE  (Now \in Neat({}))'
  <2> SUFFICES ASSUME NEW r, r = [s.job[j] EXCEPT !.worker = "none"]
                             \/ r = [s.job[j] EXCEPT !.speed = FALSE, !.worker = "none"],
                      t = [s EXCEPT !.job = [s.job EXCEPT ![j] = r]]
               PROVE  (Now \in Neat({}))'
    BY <1>2
  <2>1. s \in State /\ s.job[j] \in Job /\ Plain(s.job[j]) BY NeatFacts DEF Neat
  <2>2. /\ r \in Job /\ r.status = s.job[j].status /\ r.policy = s.job[j].policy
        /\ r.moving = s.job[j].moving
    BY <2>1, Zenon DEF Job, Worker
  <2>3. t \in InOrder BY <1>2, <2>1, BecomesInOrder
  <2>4. Plain(r) BY <2>1, <2>2 DEF Plain
  <2>5. t \in Neat({}) BY <2>2, <2>3, <2>4, JobReplaced
  <2> QED BY <1>2, <2>5, BecomesNeat
<1>3. ASSUME NEW j \in Jobs, KioFinished(j) PROVE (Now \in Neat({}))'
  <2> SUFFICES ASSUME NEW s, s = setStatus(Now, j, "Finished") PROVE (Now \in Neat({}))'
    OBVIOUS
  <2>1. s \in Neat({}) BY SetStatusNeat
  <2>2. [s EXCEPT !.job[j].speed = FALSE, !.job[j].worker = "none"]
        = [s EXCEPT !.job = [s.job EXCEPT ![j] = [s.job[j] EXCEPT !.speed = FALSE,
                                                                   !.worker = "none"]]]
    BY <2>1, NeatFacts, Zenon DEF State
  <2> QED BY <1>2, <1>3, <2>1, <2>2, ZenonT(30) DEF KioFinished, Handles
<1>4. ASSUME NEW j \in Jobs, KioFailed(j) PROVE (Now \in Neat({}))'
  <2> SUFFICES ASSUME NEW s, s = setStatus(Now, j, "Aborted") PROVE (Now \in Neat({}))'
    OBVIOUS
  <2>1. s \in Neat({}) BY SetStatusNeat
  <2>2. [s EXCEPT !.job[j].worker = "none"]
        = [s EXCEPT !.job = [s.job EXCEPT ![j] = [s.job[j] EXCEPT !.worker = "none"]]]
    BY <2>1, NeatFacts DEF State
  <2> QED BY <1>2, <1>4, <2>1, <2>2, Zenon DEF KioFailed, Handles
<1>5. ASSUME NEW j \in Jobs PROVE ~KioMoves(j) /\ ~KioMoved(j)
  <2>1. ~Now.job[j].moving BY DEF Neat, Plain
  <2> QED BY <1>1, <2>1, NowFacts DEF KioMoves, KioMoved, Handles
<1> QED BY <1>3, <1>4, <1>5 DEF KioActs

LEMMA SpeedChangesNeat ==
  ASSUME Inv, Inv', Now \in Neat({}), NEW j \in Jobs, SpeedChanges(j)
  PROVE  (Now \in Neat({}))'
<1> DEFINE r == [job[j] EXCEPT !.speed = ~@]
           t == [Now EXCEPT !.job = [Now.job EXCEPT ![j] = r]]
<1>1. Now \in Sound BY NowIsSound
<1>2. job[j] \in Job /\ Now.job = job /\ Now \in State BY <1>1, NowFacts
<1>3. /\ r \in Job /\ r.status = job[j].status /\ r.policy = job[j].policy
      /\ r.moving = job[j].moving
  BY <1>2, Zenon DEF Job
<1>4. Becomes(t) BY <1>2 DEF SpeedChanges, Handles
<1> HIDE DEF r
<1>5. t \in InOrder BY <1>2, <1>4, BecomesInOrder
<1>6. Plain(r) BY <1>2, <1>3 DEF Plain, Neat
<1>7. t \in Neat({}) BY <1>2, <1>3, <1>5, <1>6, JobReplaced
<1> QED BY <1>4, <1>7, BecomesNeat

LEMMA InitNeat ==
  ASSUME Init
  PROVE  Now \in Neat({})
<1>1. Now \in InOrder BY InitSound, NowIsSound DEF Sound
<1>2. \A q \in Queues : Now.queue[q].jobs = <<>> BY DEF Init, Now
<1>3. \A q \in Queues : ToSet(Now.queue[q].jobs) = {} BY <1>2 DEF ToSet
<1>4. \A j \in Jobs : Plain(Now.job[j])
  <2>1. \A j \in Jobs : \E q \in Queues : Now.job[j] = NewJob(q) BY DEF Init, Now
  <2>2. \A q \in Queues : Plain(NewJob(q)) BY DEF Plain, NewJob
  <2> QED BY <2>1, <2>2
<1>5. Now.scheduler.queues = QueueOrder /\ \A j \in Jobs : Known(Now.scheduler.failed[j])
  BY DEF Init, Now, Known
<1>6. maxSimultaneousJobs(Now) \in Nat BY <1>1, LimitIsPositive DEF InOrder
<1>7. Cardinality({}) = 0 BY FS_EmptySet
<1>8. \A q \in Queues : Tidy(Now, q)
  <2>1. ASSUME NEW q \in Queues PROVE Tidy(Now, q)
    <3>1. ActiveJobs(Now, q) = {} BY <1>3 DEF ActiveJobs
    <3>2. WithinLimit(Now, {}) BY <1>6, <1>7 DEF WithinLimit
    <3> QED BY <1>3, <3>1, <3>2 DEF Tidy, Obeys
  <2> QED BY <2>1
<1> QED BY <1>1, <1>3, <1>4, <1>5, <1>8 DEF Neat, Apart, Idle

LEMMA NextNeat ==
  ASSUME OnlyKio, ~FilesMove
  PROVE  Inv /\ Now \in Neat({}) /\ [Next]_vars => (Now \in Neat({}))'
<1> SUFFICES ASSUME Inv, Now \in Neat({}), [Next]_vars PROVE (Now \in Neat({}))'
  OBVIOUS
<1>1. Inv' BY NextSound
<1>2. Now \in Sound BY NowIsSound
<1>3. ASSUME Tick PROVE (Now \in Neat({}))'
  BY <1>2, <1>3, TimerNeat, BecomesNeat DEF Tick, Handles
<1>4. ASSUME MultiActs \/ BtActs \/ \E j \in Jobs, obstacle \in Obstacles : ObstacleChanges(j, obstacle)
      PROVE  FALSE
  <2>1. \A j \in Jobs : Kind[j] \notin {"multiseg", "bt"} BY DEF OnlyKio
  <2>2. ~MultiActs BY <2>1, ZenonT(30) DEF MultiActs, FileOpened, MultiFinished, MultiMoves, MultiMoved, Handles
  <2>3. ~BtActs
    <3>1. ASSUME NEW j \in Jobs, NEW again \in BOOLEAN, TorrentFetched(j, again) PROVE FALSE
      <4>1. Kind[j] = "bt" BY <3>1, Zenon DEF TorrentFetched, Handles
      <4> QED BY <2>1, <4>1
    <3>2. \A j \in Jobs : ~TorrentFinished(j) /\ ~TorrentError(j)
      BY <2>1, Zenon DEF TorrentFinished, TorrentError, Handles
    <3>3. \A j \in Jobs : ~TorrentMoves(j) /\ ~TorrentMoved(j)
      BY <2>1, Zenon DEF TorrentMoves, TorrentMoved, Handles
    <3> QED BY <3>1, <3>2, <3>3 DEF BtActs
  <2>4. \A j \in Jobs, obstacle \in Obstacles : ~ObstacleChanges(j, obstacle)
    BY <2>1 DEF ObstacleChanges, Handles
  <2> QED BY <1>4, <2>2, <2>3, <2>4
<1>5. ASSUME UNCHANGED vars PROVE (Now \in Neat({}))'
  <2>1. Becomes(Now) BY <1>5 DEF vars, Now, Becomes
  <2> QED BY <2>1, BecomesNeat
<1> QED BY <1>1, <1>3, <1>4, <1>5, UserActsNeat, NetworkActsNeat, KioActsNeat, SpeedChangesNeat
        DEF Next, Events

LEMMA NeatAlways ==
  ASSUME OnlyKio, ~FilesMove
  PROVE  Spec => [](Inv /\ Now \in Neat({}))
<1>1. Init => Inv /\ Now \in Neat({}) BY InitSound, InitNeat
<1>2. Inv /\ Now \in Neat({}) /\ [Next]_vars => (Inv /\ Now \in Neat({}))'
  BY NextSound, NextNeat
<1> QED BY <1>1, <1>2, PTL DEF Spec

(* However many downloads there are, in however many groups, and whatever the user,
   the network, the servers and the timer do: between two events no group of
   TransferKio downloads has more active transfers than the limit allows. *)
THEOREM LimitRespectedAlways ==
  ASSUME OnlyKio, ~FilesMove
  PROVE  Spec => []LimitRespected
<1>1. Now \in Neat({}) => LimitRespected BY DEF Neat, Tidy, LimitRespected
<1> QED BY <1>1, NeatAlways, PTL

(* As long as the scheduler may act, none of them runs that its user stopped, not
   even after the retries of the timer and the updates of other groups. *)
THEOREM StopPolicyObeyedAlways ==
  ASSUME OnlyKio, ~FilesMove
  PROVE  Spec => []StopPolicyObeyed
<1>1. Inv /\ Now \in Neat({}) => StopPolicyObeyed
  <2> SUFFICES ASSUME Inv, Now \in Neat({}), shouldUpdate(Now), NEW j \in Listed,
                      job[j].policy = "Stop"
               PROVE  job[j].status # "Running"
    BY DEF StopPolicyObeyed
  <2>1. Now \in Sound /\ j \in Jobs BY NowIsSound, ListedAreJobs DEF Inv
  <2>2. job[j].queue \in Queues /\ j \in ToSet(Now.queue[job[j].queue].jobs) /\ Now.job = job
    BY <2>1, ListedFacts, NowFacts
  <2>3. Tidy(Now, job[j].queue) BY <2>2 DEF Neat
  <2> QED BY <2>2, <2>3 DEF Tidy, Obeys
<1> QED BY <1>1, NeatAlways, PTL

(* Once the connection is lost none of them runs, whatever the user starts or adds,
   until it is back. *)
THEOREM OfflineIsIdleAlways ==
  ASSUME OnlyKio, ~FilesMove
  PROVE  Spec => []OfflineIsIdle
<1>1. Inv /\ Now \in Neat({}) => OfflineIsIdle
  <2> SUFFICES ASSUME Inv, Now \in Neat({}), ~scheduler.connected, NEW j \in Listed
               PROVE  job[j].status # "Running"
    BY DEF OfflineIsIdle
  <2>1. Now \in Sound /\ j \in Jobs BY NowIsSound, ListedAreJobs DEF Inv
  <2>2. /\ job[j].queue \in Queues /\ j \in ToSet(Now.queue[job[j].queue].jobs)
        /\ Now.job = job /\ Now.scheduler = scheduler
    BY <2>1, ListedFacts, NowFacts
  <2>3. Idle(Now) BY DEF Neat
  <2> QED BY <2>2, <2>3 DEF Idle
<1> QED BY <1>1, NeatAlways, PTL


-----------------------------------------------------------------------------
(* No event leaves work behind (Settled).  A queue rests if an update of it would let
   every job be; Calm(X) are the states in which every queue but those in X rests. *)

(* A queue rests if an update of it would let every job be: c[n] is what the walk
   has counted after n jobs. *)
Load == [running : Nat, waiting : Nat]
Loaded(s, c) == [s |-> s, running |-> c.running, waiting |-> c.waiting]

Rests(s, q) ==
    LET list == s.queue[q].jobs
    IN  \E c \in [0 .. Len(list) -> Load] :
            /\ Loaded(s, c[0]) = WalkStart(s)
            /\ \A n \in 1 .. Len(list) : Evaluate(Loaded(s, c[n - 1]), list[n]) = Loaded(s, c[n])

LEMMA RestingIsSettled ==
  ASSUME NEW s \in InOrder, NEW q \in Queues, Rests(s, q)
  PROVE  updateQueue(s, q) = s
<1>0. s.queue[q].jobs \in Seq(Jobs) BY DEF InOrder, State, JobQueue
<1> SUFFICES ASSUME NEW list \in Seq(Jobs), list = s.queue[q].jobs PROVE Walk(s, list).s = s
  BY <1>0 DEF updateQueue
<1>1. s \in SameLists(s) BY SameListsOfItself
<1>2. PICK walk : /\ walk[0] = WalkStart(s) /\ Walk(s, list) = walk[Len(list)]
                  /\ \A n \in 1 .. Len(list) : walk[n] = Evaluate(walk[n - 1], list[n])
                  /\ \A n \in 0 .. Len(list) : walk[n] \in WalkState(s)
  BY <1>1, WalkLoop
<1>3. PICK c \in [0 .. Len(list) -> Load] :
          /\ Loaded(s, c[0]) = WalkStart(s)
          /\ \A n \in 1 .. Len(list) : Evaluate(Loaded(s, c[n - 1]), list[n]) = Loaded(s, c[n])
  BY DEF Rests
<1> DEFINE N == Len(list)
           F == [n \in Nat |-> {Loaded(s, c[n])}]
<1>4. N \in Nat BY <1>1
<1>5. walk[0] \in F[0] BY <1>3, <1>2
<1>6. ASSUME NEW n \in 1 .. N, walk[n - 1] \in F[n - 1] PROVE walk[n] \in F[n]
  <2>1. n \in Nat /\ n - 1 \in Nat BY <1>4
  <2>2. walk[n - 1] = Loaded(s, c[n - 1]) BY <1>6, <2>1
  <2>3. walk[n] = Loaded(s, c[n]) BY <1>3, <1>2, <2>2
  <2> QED BY <2>1, <2>3
<1>7. F[N] = {Loaded(s, c[N])} BY <1>4
<1> HIDE DEF F, N
<1>8. \A n \in 0 .. N : walk[n] \in F[n] BY <1>4, <1>5, <1>6, IterationsAdvance, Zenon
<1>9. walk[N] = Loaded(s, c[N]) BY <1>4, <1>7, <1>8
<1> QED BY <1>2, <1>9 DEF N, Loaded

Later(t, w) == [s |-> t, running |-> w.running, waiting |-> w.waiting]

(* What a walk decided about a job it decides again. *)
LEMMA EvaluateAgain ==
  ASSUME OnlyKio, NEW base, NEW w \in WalkState(base), NEW j \in Jobs, Plain(w.s.job[j]),
         NEW t \in State, t.job[j] = Evaluate(w, j).s.job[j], t.queue = w.s.queue,
         SameScheduling(t.scheduler, w.s.scheduler)
  PROVE  Evaluate(Later(t, w), j) = Later(t, Evaluate(w, j))
<1> SUFFICES ASSUME NEW s, s = w.s, NEW v, v = Evaluate(w, j),
                    NEW again, again = Later(t, w), NEW done, done = Later(t, v)
             PROVE  Evaluate(again, j) = done
  OBVIOUS
<1>1. s \in State /\ Kind[j] = "kio" BY DEF WalkState, SameLists, InOrder, OnlyKio
<1>2. /\ again.s = t /\ again.running = w.running /\ again.waiting = w.waiting
      /\ again = [s |-> t, running |-> w.running, waiting |-> w.waiting]
      /\ done = [s |-> t, running |-> v.running, waiting |-> v.waiting]
  BY DEF Later
<1>3. /\ HasRoom(again) = HasRoom(w) /\ Failing(t, j) = Failing(s, j)
  BY <1>2 DEF HasRoom, maxSimultaneousJobs, SameScheduling, Failing
<1>4. v.s \in Touching(s, {j}) BY EvaluateTouches
<1>5. /\ t.job[j].queue = s.job[j].queue /\ t.job[j].policy = s.job[j].policy
  BY <1>4 DEF Touching, SameDuties
<1>6. StopQuiet(s, j) = KioStop(s, j) /\ StopQuiet(t, j) = KioStop(t, j)
      /\ StartQuiet(s, j) = KioStart(s, j)
  BY <1>1 DEF StopQuiet, StartQuiet
<1>7. KioStop(s, j).job[j].status = IF s.job[j].status = "Finished" THEN "Finished" ELSE "Stopped"
  BY <1>1, KioTouches, Zenon
<1>8. w.s = s /\ w = [s |-> s, running |-> w.running, waiting |-> w.waiting]
      /\ [again EXCEPT !.s = t] = again
  BY <1>2 DEF WalkState
<1>9. CASE ~HasRoom(w)
  <2>1. v = [w EXCEPT !.s = KioStop(s, j)] BY <1>6, <1>9 DEF Evaluate
  <2>2. v.s = KioStop(s, j) /\ v.running = w.running /\ v.waiting = w.waiting
    BY <1>8, <2>1
  <2>3. KioStop(t, j) = t BY <1>7, <2>2 DEF KioStop
  <2>4. Evaluate(again, j) = [again EXCEPT !.s = t]
    BY <1>2, <1>3, <1>6, <1>9, <2>3 DEF Evaluate
  <2> QED BY <1>2, <1>8, <2>2, <2>4
<1>10. CASE HasRoom(w) /\ Active(s, j) /\ ~shouldBeRunning(s, j)
  <2>1. v = [w EXCEPT !.s = KioStop(s, j)] BY <1>6, <1>10 DEF Evaluate
  <2>2. v.s = KioStop(s, j) /\ v.running = w.running /\ v.waiting = w.waiting
    BY <1>8, <2>1
  <2>3. s.job[j].status = "Running" BY <1>10 DEF Active, Plain
  <2>4. t.job[j].status = "Stopped" BY <1>7, <2>2, <2>3
  <2>5. ~Active(t, j) /\ ~shouldBeRunning(t, j)
    BY <1>5, <1>10, <2>3, <2>4 DEF Active, shouldBeRunning
  <2>6. Evaluate(again, j) = again BY <1>2, <1>3, <1>10, <2>5 DEF Evaluate
  <2> QED BY <1>2, <2>2, <2>6
<1>11. CASE HasRoom(w) /\ ~Active(s, j) /\ ~shouldBeRunning(s, j)
  <2>1. v = w BY <1>11 DEF Evaluate
  <2>2. ~Active(t, j) /\ ~shouldBeRunning(t, j)
    BY <1>11, <2>1 DEF Active, shouldBeRunning
  <2>3. Evaluate(again, j) = again BY <1>2, <1>3, <1>11, <2>2 DEF Evaluate
  <2> QED BY <1>2, <2>1, <2>3
<1>12. CASE HasRoom(w) /\ Active(s, j) /\ shouldBeRunning(s, j)
  <2>1. v = Counted(w, Failing(s, j)) BY <1>12 DEF Evaluate
  <2>2. v.s = s /\ v.running = (IF Failing(s, j) THEN w.running ELSE w.running + 1)
        /\ v.waiting = IF Failing(s, j) THEN w.waiting + 1 ELSE w.waiting
    BY <1>8, <2>1 DEF Counted
  <2>3. Active(t, j) /\ shouldBeRunning(t, j)
    BY <1>12, <2>2 DEF Active, shouldBeRunning
  <2>4. Evaluate(again, j) = Counted(again, Failing(s, j))
    BY <1>2, <1>3, <1>12, <2>3 DEF Evaluate
  <2> QED BY <1>2, <2>2, <2>4 DEF Counted
<1>13. CASE HasRoom(w) /\ ~Active(s, j) /\ shouldBeRunning(s, j)
  <2>1. KioStart(s, j).job[j].status = "Running"
    BY <1>1, <1>13, KioTouches, Zenon DEF shouldBeRunning, Plain
  <2>2. v = Counted([w EXCEPT !.s = KioStart(s, j)], Failing(s, j))
    <3> SUFFICES ASSUME NEW u, u = KioStart(s, j), NEW waits,
                        waits = (Failing(s, j) \/ u.job[j].status = "FinishedKeepAlive")
                 PROVE  v = Counted([w EXCEPT !.s = u], Failing(s, j))
      OBVIOUS
    <3>1. v = Counted([w EXCEPT !.s = u], waits) BY <1>6, <1>8, <1>13 DEF Evaluate
    <3>2. waits = Failing(s, j)
      <4>1. u.job[j].status # "FinishedKeepAlive" BY <2>1
      <4> QED BY <4>1 DEF Failing
    <3> QED BY <3>1, <3>2
  <2>3. v.s = KioStart(s, j) /\ v.running = (IF Failing(s, j) THEN w.running ELSE w.running + 1)
        /\ v.waiting = IF Failing(s, j) THEN w.waiting + 1 ELSE w.waiting
    BY <1>8, <2>2 DEF Counted
  <2>4. Active(t, j) /\ shouldBeRunning(t, j)
    BY <1>5, <1>13, <2>1, <2>3 DEF Active, shouldBeRunning
  <2>5. Evaluate(again, j) = Counted(again, Failing(s, j))
    BY <1>2, <1>3, <1>13, <2>4 DEF Evaluate
  <2> QED BY <1>2, <2>3, <2>5 DEF Counted
<1> QED BY <1>9, <1>10, <1>11, <1>12, <1>13

LEMMA UpdateRests ==
  ASSUME OnlyKio, NEW s \in Sound, NEW q \in Queues, shouldUpdate(s),
         \A j \in Jobs : Plain(s.job[j])
  PROVE  Rests(updateQueue(s, q), q)
<1> SUFFICES ASSUME NEW t, t = updateQueue(s, q), NEW list, list = s.queue[q].jobs,
                    NEW N, N = Len(list)
             PROVE  Rests(t, q)
  BY Zenon
<1>1. s \in InOrder /\ s \in State /\ s \in SameLists(s)
  BY SameListsOfItself DEF Sound, InOrder
<1>2. /\ list \in Seq(Jobs) /\ N \in Nat /\ \A n \in 1 .. N : list[n] \in Jobs
      /\ \A m, n \in 1 .. N : list[m] = list[n] => m = n
  BY OnceInSound, Distinct DEF Once
<1>3. PICK walk : /\ walk[0] = WalkStart(s) /\ Walk(s, list) = walk[N]
                  /\ \A n \in 1 .. N : walk[n] = Evaluate(walk[n - 1], list[n])
                  /\ \A n \in 0 .. N : walk[n] \in WalkState(s)
  BY <1>1, <1>2, WalkLoop
<1>4. t = walk[N].s BY <1>3 DEF updateQueue
<1> DEFINE Settles(w, n) ==
               /\ w \in WalkState(s) /\ w.s \in Touching(s, Jobs)
               /\ \A k \in Jobs : Plain(w.s.job[k])
               /\ \A m \in 1 .. n : w.s.job[list[m]] = walk[m].s.job[list[m]]
           F == [n \in Nat |-> {w \in WalkState(s) : Settles(w, n)}]
<1>5. ASSUME NEW n \in 1 .. N, Settles(walk[n - 1], n - 1) PROVE Settles(walk[n], n)
  <2>1. /\ walk[n - 1] \in WalkState(s) /\ walk[n] = Evaluate(walk[n - 1], list[n])
        /\ walk[n] \in WalkState(s) /\ list[n] \in Jobs
    BY <1>2, <1>3, SMTT(60)
  <2>2. \A k \in Jobs : Plain(walk[n].s.job[k]) BY <1>5, <2>1, EvaluateObeys
  <2>3. walk[n].s \in Touching(walk[n - 1].s, {list[n]}) BY <2>1, EvaluateTouches, Zenon
  <2>4. walk[n].s \in Touching(s, Jobs)
    <3>1. walk[n - 1].s \in Touching(s, Jobs) /\ {list[n]} \subseteq Jobs BY <1>5, <2>1
    <3> HIDE DEF Settles
    <3> QED BY <2>3, <3>1, TouchedTwice
  <2>5. ASSUME NEW m \in 1 .. n PROVE walk[n].s.job[list[m]] = walk[m].s.job[list[m]]
    <3>1. CASE m = n BY <3>1
    <3>2. CASE m # n
      <4>1. m \in 1 .. n - 1 /\ m \in 1 .. N BY <1>2, <3>2
      <4>2. list[m] # list[n] /\ list[m] \in Jobs BY <1>2, <3>2, <4>1
      <4>3. walk[n].s.job[list[m]] = walk[n - 1].s.job[list[m]] BY <2>3, <4>2, Zenon DEF Touching
      <4> QED BY <1>5, <4>1, <4>3, Zenon
    <3> QED BY <3>1, <3>2
  <2> QED BY <2>1, <2>2, <2>4, <2>5, Zenon
<1>6. walk[0] \in F[0]
  <2>1. walk[0].s = s /\ walk[0] \in WalkState(s) BY <1>2, <1>3 DEF WalkStart
  <2>2. Settles(walk[0], 0) BY <1>1, <2>1, NotTouched
  <2> HIDE DEF Settles
  <2> QED BY <2>1, <2>2
<1>7. ASSUME NEW n \in 1 .. N, walk[n - 1] \in F[n - 1] PROVE walk[n] \in F[n]
  <2> HIDE DEF Settles
  <2>1. n \in Nat /\ n - 1 \in Nat /\ walk[n] \in WalkState(s) BY <1>2, <1>3
  <2>2. Settles(walk[n - 1], n - 1) BY <1>7, <2>1
  <2> QED BY <1>5, <2>1, <2>2
<1>8. ASSUME NEW n \in 0 .. N, walk[n] \in F[n] PROVE Settles(walk[n], n)
  <2> HIDE DEF Settles
  <2> QED BY <1>2, <1>8
<1>9. \A n \in 0 .. N : Settles(walk[n], n)
  <2> HIDE DEF F, Settles
  <2>1. \A n \in 0 .. N : walk[n] \in F[n] BY <1>2, <1>6, <1>7, IterationsAdvance, Zenon
  <2> QED BY <1>8, <2>1
<1>10. /\ t \in State /\ t.queue = s.queue /\ SameScheduling(t.scheduler, s.scheduler)
       /\ \A m \in 1 .. N : t.job[list[m]] = walk[m].s.job[list[m]]
  <2>1. Settles(walk[N], N)
    <3> HIDE DEF Settles
    <3> QED BY <1>2, <1>9
  <2> QED BY <1>4, <2>1 DEF Touching
<1>11. /\ \A n \in 0 .. N : walk[n] \in WalkState(s) /\ walk[n].s \in Touching(s, Jobs)
       /\ \A n \in 0 .. N : \A k \in Jobs : Plain(walk[n].s.job[k])
  BY <1>9
<1> HIDE DEF Settles, F
<1> DEFINE c == [n \in 0 .. N |-> [running |-> walk[n].running, waiting |-> walk[n].waiting]]
<1>12. c \in [0 .. N -> Load] BY <1>11 DEF Load, WalkState
<1>13. Loaded(t, c[0]) = WalkStart(t) BY <1>2, <1>3 DEF Loaded, WalkStart
<1>14. ASSUME NEW n \in 1 .. N
       PROVE  Evaluate(Loaded(t, c[n - 1]), list[n]) = Loaded(t, c[n])
  <2>1. n \in 0 .. N /\ n - 1 \in 0 .. N /\ list[n] \in Jobs BY <1>2
  <2>2. /\ walk[n - 1] \in WalkState(s) /\ walk[n] = Evaluate(walk[n - 1], list[n])
        /\ Plain(walk[n - 1].s.job[list[n]]) /\ t.job[list[n]] = walk[n].s.job[list[n]]
    BY <1>3, <1>10, <1>11, <2>1
  <2>3. t.queue = walk[n - 1].s.queue /\ SameScheduling(t.scheduler, walk[n - 1].s.scheduler)
    BY <1>10, <1>11, <2>1 DEF Touching, SameScheduling
  <2>4. /\ c[n - 1] = [running |-> walk[n - 1].running, waiting |-> walk[n - 1].waiting]
        /\ c[n] = [running |-> walk[n].running, waiting |-> walk[n].waiting]
    BY <2>1
  <2> HIDE DEF c
  <2>5. Loaded(t, c[n - 1]) = Later(t, walk[n - 1]) /\ Loaded(t, c[n]) = Later(t, walk[n])
    BY <2>4 DEF Loaded, Later
  <2>6. Evaluate(Later(t, walk[n - 1]), list[n]) = Later(t, Evaluate(walk[n - 1], list[n]))
    <3> SUFFICES ASSUME NEW u \in WalkState(s), u = walk[n - 1], NEW j \in Jobs, j = list[n]
                 PROVE  Evaluate(Later(t, u), j) = Later(t, Evaluate(u, j))
      BY <2>1, <2>2, Zenon
    <3>1. /\ Plain(u.s.job[j]) /\ t.job[j] = Evaluate(u, j).s.job[j] /\ t.queue = u.s.queue
          /\ SameScheduling(t.scheduler, u.s.scheduler)
      BY <2>2, <2>3, Zenon
    <3> QED BY <1>10, <3>1, EvaluateAgain, Zenon
  <2> QED BY <2>2, <2>5, <2>6, Zenon
<1>15. t.queue[q].jobs = list BY <1>10
<1> HIDE DEF c
<1> QED BY <1>12, <1>13, <1>14, <1>15 DEF Rests

(* The scheduler would treat j in t as it does in s. *)
Alike(s, t, j) ==
    /\ t.job[j].status = s.job[j].status
    /\ shouldBeRunning(t, j) <=> shouldBeRunning(s, j)
    /\ shouldBeRunning(s, j) => (Failing(t, j) <=> Failing(s, j))

LEMMA EvaluateAlike ==
  ASSUME OnlyKio, NEW s \in State, NEW t \in State, NEW j \in Jobs, Plain(s.job[j]),
         Alike(s, t, j), maxSimultaneousJobs(t) = maxSimultaneousJobs(s),
         NEW c \in Load, NEW d \in Load, Evaluate(Loaded(s, c), j) = Loaded(s, d)
  PROVE  Evaluate(Loaded(t, c), j) = Loaded(t, d)
<1> SUFFICES ASSUME NEW w, w = Loaded(s, c), NEW v, v = Loaded(t, c)
             PROVE  Evaluate(v, j) = Loaded(t, d)
  OBVIOUS
<1>1. /\ w.s = s /\ w.running = c.running /\ w.waiting = c.waiting
      /\ v.s = t /\ v.running = c.running /\ v.waiting = c.waiting
      /\ w = [s |-> s, running |-> c.running, waiting |-> c.waiting]
      /\ v = [s |-> t, running |-> c.running, waiting |-> c.waiting]
      /\ Loaded(s, d) = [s |-> s, running |-> d.running, waiting |-> d.waiting]
      /\ Loaded(t, d) = [s |-> t, running |-> d.running, waiting |-> d.waiting]
  BY DEF Loaded
<1>2. HasRoom(v) = HasRoom(w) BY <1>1 DEF HasRoom
<1>3. Active(t, j) = Active(s, j) BY DEF Alike, Active
<1>4. /\ Kind[j] = "kio" /\ StopQuiet(s, j) = KioStop(s, j) /\ StopQuiet(t, j) = KioStop(t, j)
      /\ StartQuiet(s, j) = KioStart(s, j)
  BY DEF OnlyKio, StopQuiet, StartQuiet
<1>5. Evaluate(w, j) = Loaded(s, d) OBVIOUS
<1>6. CASE ~HasRoom(w) \/ (Active(s, j) /\ ~shouldBeRunning(s, j))
  <2>1. Evaluate(w, j) = [w EXCEPT !.s = KioStop(s, j)] BY <1>1, <1>4, <1>6 DEF Evaluate
  <2>2. KioStop(s, j) = s /\ c.running = d.running /\ c.waiting = d.waiting
    BY <1>1, <1>5, <2>1
  <2>3. s.job[j].status \in {"Stopped", "Finished"}
    <3>1. KioStop(s, j).job[j].status
              = IF s.job[j].status = "Finished" THEN "Finished" ELSE "Stopped"
      BY KioTouches, Zenon
    <3> QED BY <2>2, <3>1
  <2>4. KioStop(t, j) = t BY <2>3 DEF Alike, KioStop
  <2>5. Evaluate(v, j) = [v EXCEPT !.s = t]
    BY <1>1, <1>2, <1>3, <1>4, <1>6, <2>4 DEF Evaluate, Alike
  <2> QED BY <1>1, <2>2, <2>5
<1>7. CASE HasRoom(w) /\ ~Active(s, j) /\ ~shouldBeRunning(s, j)
  <2>1. Evaluate(w, j) = w BY <1>1, <1>7 DEF Evaluate
  <2>2. c.running = d.running /\ c.waiting = d.waiting BY <1>1, <1>5, <2>1
  <2>3. Evaluate(v, j) = v BY <1>1, <1>2, <1>3, <1>7 DEF Evaluate, Alike
  <2> QED BY <1>1, <2>2, <2>3
<1>8. CASE HasRoom(w) /\ Active(s, j) /\ shouldBeRunning(s, j)
  <2>1. Evaluate(w, j) = Counted(w, Failing(s, j)) BY <1>1, <1>8 DEF Evaluate
  <2>2. Evaluate(v, j) = Counted(v, Failing(t, j)) BY <1>1, <1>2, <1>3, <1>8 DEF Evaluate, Alike
  <2>3. d.running = (IF Failing(s, j) THEN c.running ELSE c.running + 1)
        /\ d.waiting = IF Failing(s, j) THEN c.waiting + 1 ELSE c.waiting
    BY <1>1, <1>5, <2>1 DEF Counted
  <2>4. Failing(t, j) <=> Failing(s, j) BY <1>8 DEF Alike
  <2> QED BY <1>1, <2>2, <2>3, <2>4 DEF Counted
<1>9. CASE HasRoom(w) /\ ~Active(s, j) /\ shouldBeRunning(s, j)
  <2> SUFFICES ASSUME NEW u, u = KioStart(s, j) PROVE FALSE
    OBVIOUS
  <2>1. u.job[j].status = "Running" BY <1>9, KioTouches, Zenon DEF shouldBeRunning, Plain
  <2>2. \E waits : Evaluate(w, j) = Counted([w EXCEPT !.s = u], waits)
    BY <1>1, <1>4, <1>9 DEF Evaluate
  <2>3. \A waits : Counted([w EXCEPT !.s = u], waits).s = u BY <1>1 DEF Counted
  <2>4. u = s BY <1>1, <1>5, <2>2, <2>3
  <2> QED BY <1>9, <2>1, <2>4 DEF Active
<1> QED BY <1>6, <1>7, <1>8, <1>9

LEMMA RestsAlike ==
  ASSUME OnlyKio, NEW s \in State, NEW t \in State, NEW q \in Queues, Rests(s, q),
         t.queue[q].jobs = s.queue[q].jobs,
         maxSimultaneousJobs(t) = maxSimultaneousJobs(s),
         \A j \in Jobs : Plain(s.job[j]),
         \A j \in ToSet(s.queue[q].jobs) : Alike(s, t, j)
  PROVE  Rests(t, q)
<1> SUFFICES ASSUME NEW list, list = s.queue[q].jobs PROVE Rests(t, q)
  OBVIOUS
<1>1. /\ list \in Seq(Jobs) /\ ToSet(list) = {list[i] : i \in 1 .. Len(list)}
      /\ Len(list) \in Nat /\ \A n \in 1 .. Len(list) : list[n] \in Jobs
  <2>1. list \in Seq(Jobs) BY DEF State, JobQueue
  <2> QED BY <2>1, Distinct
<1>2. PICK c \in [0 .. Len(list) -> Load] :
          /\ Loaded(s, c[0]) = WalkStart(s)
          /\ \A n \in 1 .. Len(list) : Evaluate(Loaded(s, c[n - 1]), list[n]) = Loaded(s, c[n])
  BY DEF Rests
<1>3. Loaded(t, c[0]) = WalkStart(t) BY <1>2 DEF Loaded, WalkStart
<1>4. ASSUME NEW n \in 1 .. Len(list)
      PROVE  Evaluate(Loaded(t, c[n - 1]), list[n]) = Loaded(t, c[n])
  <2>1. c[n - 1] \in Load /\ c[n] \in Load BY <1>1
  <2>2. list[n] \in Jobs /\ Alike(s, t, list[n]) /\ Plain(s.job[list[n]]) BY <1>1
  <2>3. Evaluate(Loaded(s, c[n - 1]), list[n]) = Loaded(s, c[n]) BY <1>2
  <2> QED BY <2>1, <2>2, <2>3, EvaluateAlike
<1> QED BY <1>2, <1>3, <1>4 DEF Rests

(* The states in which every queue but those in X rests.  Within an event X are the
   queues that are still to be updated. *)
Calm(X) ==
    {s \in Sound :
        /\ s.scheduler.queues = QueueOrder
        /\ \A j \in Jobs : Plain(s.job[j]) /\ Known(s.scheduler.failed[j])
        /\ shouldUpdate(s) => \A q \in Queues \ X : Rests(s, q)}

LEMMA CalmFacts ==
  ASSUME NEW X, NEW s \in Calm(X)
  PROVE  /\ s \in State /\ s \in InOrder /\ s \in Sound /\ s \in SameLists(s)
         /\ \A q \in Queues : ToSet(s.queue[q].jobs) \subseteq Jobs
         /\ \A j \in Jobs : s.job[j].queue \in Queues /\ s.job[j] \in Job /\ Plain(s.job[j])
<1>1. s \in Sound /\ s \in State /\ s \in InOrder BY DEF Calm, Sound, InOrder
<1>2. s \in SameLists(s) BY <1>1, SameListsOfItself
<1>3. \A q \in Queues : ToSet(s.queue[q].jobs) \subseteq Jobs BY <1>1, OnceInSound
<1> QED BY <1>1, <1>2, <1>3 DEF State, Job, Calm

LEMMA CalmMore ==
  ASSUME NEW X, NEW Y, X \subseteq Y
  PROVE  Calm(X) \subseteq Calm(Y)
BY DEF Calm

(* Writes that concern the queues of Y only *)
LEMMA CalmWritten ==
  ASSUME OnlyKio, NEW X, NEW s \in Calm(X), NEW t \in Sound, NEW Y,
         t.scheduler.queues = s.scheduler.queues,
         t.scheduler.suspended = s.scheduler.suspended,
         t.scheduler.connected = s.scheduler.connected,
         t.scheduler.maxConnections = s.scheduler.maxConnections,
         \A j \in Jobs : Plain(t.job[j]) /\ Known(t.scheduler.failed[j]),
         \A q \in Queues \ (X \cup Y) :
             /\ t.queue[q].jobs = s.queue[q].jobs
             /\ \A j \in ToSet(s.queue[q].jobs) : Alike(s, t, j)
  PROVE  t \in Calm(X \cup Y)
<1>1. s \in State /\ t \in State /\ \A j \in Jobs : Plain(s.job[j])
  BY CalmFacts DEF Sound, InOrder
<1>2. ASSUME shouldUpdate(t), NEW q \in Queues \ (X \cup Y) PROVE Rests(t, q)
  <2>1. Rests(s, q) BY <1>2, Zenon DEF Calm, shouldUpdate
  <2>2. maxSimultaneousJobs(t) = maxSimultaneousJobs(s) BY DEF maxSimultaneousJobs
  <2> QED BY <1>1, <1>2, <2>1, <2>2, RestsAlike
<1> QED BY <1>2 DEF Calm

(* The same job in a queue of the same status *)
LEMMA SameIsAlike ==
  ASSUME NEW s, NEW t, NEW j, t.job[j] = s.job[j],
         t.queue[s.job[j].queue].status = s.queue[s.job[j].queue].status,
         t.scheduler.failed[j] = s.scheduler.failed[j]
  PROVE  Alike(s, t, j)
BY DEF Alike, shouldBeRunning, Failing

LEMMA UpdateCalm ==
  ASSUME OnlyKio, NEW X, NEW s \in Calm(X), NEW q \in Queues
  PROVE  updateQueue(s, q) \in Calm(X \ {q})
<1> SUFFICES ASSUME NEW t, t = updateQueue(s, q) PROVE t \in Calm(X \ {q})
  OBVIOUS
<1>1. s \in InOrder /\ s \in Sound /\ s \in State /\ s \in SameLists(s)
      /\ \A j \in Jobs : Plain(s.job[j])
  BY CalmFacts
<1>2. t \in Sound BY <1>1, UpdateQueueStays, SoundKept
<1>3. t \in Touching(s, ToSet(s.queue[q].jobs)) BY <1>1, UpdateTouches
<1>4. t.queue = s.queue /\ SameScheduling(t.scheduler, s.scheduler) BY <1>3 DEF Touching
<1>5. \A k \in Jobs : Plain(t.job[k]) BY <1>1, UpdateObeys
<1>6. CASE ~shouldUpdate(s)
  <2>1. t = s BY <1>6 DEF updateQueue
  <2> QED BY <1>6, <2>1 DEF Calm
<1>7. CASE shouldUpdate(s)
  <2>1. Rests(t, q) BY <1>1, <1>7, UpdateRests
  <2>2. ASSUME NEW p \in Queues \ X, p # q PROVE Rests(t, p)
    <3>1. Rests(s, p) BY <1>7, <2>2 DEF Calm
    <3>2. ASSUME NEW j \in ToSet(s.queue[p].jobs) PROVE Alike(s, t, j)
      <4>1. j \in Jobs /\ j \notin ToSet(s.queue[q].jobs)
        BY <1>1, <2>2, <3>2, CalmFacts, InOneList
      <4>2. t.job[j] = s.job[j] BY <1>3, <4>1 DEF Touching
      <4> QED BY <1>4, <4>2, SameIsAlike DEF SameScheduling
    <3>3. maxSimultaneousJobs(t) = maxSimultaneousJobs(s)
      BY <1>4 DEF SameScheduling, maxSimultaneousJobs
    <3>4. t \in State BY <1>3 DEF Touching
    <3> QED BY <1>1, <1>4, <3>1, <3>2, <3>3, <3>4, RestsAlike
  <2>3. \A p \in Queues \ (X \ {q}) : Rests(t, p) BY <2>1, <2>2
  <2>4. t.scheduler.queues = QueueOrder /\ \A j \in Jobs : Known(t.scheduler.failed[j])
    BY <1>4 DEF SameScheduling, Calm
  <2> QED BY <1>2, <1>5, <2>3, <2>4 DEF Calm
<1> QED BY <1>6, <1>7

(* A call that changed the status of one job, or nothing, and is heard of *)
LEMMA AnnounceCalm ==
  ASSUME OnlyKio, NEW X, NEW s \in Calm(X), NEW j \in Jobs, NEW u \in InOrder,
         u \in Touching(s, {j}), Plain(u.job[j]),
         u = s \/ u.job[j].status \notin {s.job[j].status, "Running"}
  PROVE  /\ Announce(s, u, j) \in Calm(X)
         /\ u # s => Announce(s, u, j) \in Calm(X \ {s.job[j].queue})
<1> SUFFICES ASSUME NEW q, q = s.job[j].queue
             PROVE  /\ Announce(s, u, j) \in Calm(X)
                    /\ u # s => Announce(s, u, j) \in Calm(X \ {q})
  OBVIOUS
<1>1. /\ s \in Sound /\ s \in State /\ q \in Queues
      /\ \A p \in Queues : ToSet(s.queue[p].jobs) \subseteq Jobs
  BY CalmFacts
<1>2. CASE u = s
  <2>1. Announce(s, u, j) = s BY <1>2 DEF Announce
  <2> QED BY <1>2, <2>1
<1>3. CASE u # s
  <2>1. /\ u.queue = s.queue /\ SameScheduling(u.scheduler, s.scheduler)
        /\ \A k \in Jobs : k # j => u.job[k] = s.job[k]
        /\ \A k \in Jobs : u.job[k].queue = s.job[k].queue
    BY DEF Touching, SameDuties
  <2>2. u \in SameLists(s) BY <2>1 DEF SameLists
  <2>3. u \in Sound BY <1>1, <2>2, SoundKept
  <2>4. ASSUME NEW p \in Queues \ (X \cup {q}), NEW k \in ToSet(s.queue[p].jobs)
        PROVE  Alike(s, u, k)
    <3>1. k \in Jobs /\ k # j BY <1>1, <2>4 DEF Sound
    <3> QED BY <2>1, <3>1, SameIsAlike DEF SameScheduling
  <2>5. \A k \in Jobs : Plain(u.job[k]) /\ Known(u.scheduler.failed[k])
    BY <2>1 DEF Calm, SameScheduling
  <2>6. u \in Calm(X \cup {q})
    BY <2>1, <2>3, <2>4, <2>5, CalmWritten DEF SameScheduling
  <2>7. Announce(s, u, j) = updateQueue(u, q) BY <1>3, <2>1 DEF Announce
  <2>8. updateQueue(u, q) \in Calm((X \cup {q}) \ {q}) BY <1>1, <2>6, UpdateCalm
  <2>9. (X \cup {q}) \ {q} = X \ {q} OBVIOUS
  <2>10. Announce(s, u, j) \in Calm(X \ {q}) BY <2>7, <2>8, <2>9
  <2>11. Calm(X \ {q}) \subseteq Calm(X) BY CalmMore
  <2> QED BY <2>10, <2>11
<1> QED BY <1>2, <1>3

LEMMA StopCalm ==
  ASSUME OnlyKio, NEW X, NEW s \in Calm(X), NEW j \in Jobs
  PROVE  /\ stop(s, j) \in Calm(X)
         /\ s.job[j].status \in {"Stopped", "Finished"} => stop(s, j) = s
         /\ s.job[j].status \notin {"Stopped", "Finished"} =>
                stop(s, j) \in Calm(X \ {s.job[j].queue})
<1> DEFINE u == StopQuiet(s, j)
<1>1. s \in State /\ s \in SameLists(s) /\ Kind[j] = "kio" /\ Plain(s.job[j])
  BY CalmFacts DEF OnlyKio
<1>2. u \in InOrder BY <1>1, StartAndStopStay DEF SameLists
<1>3. u = KioStop(s, j) BY <1>1 DEF StopQuiet
<1>4. stop(s, j) = Announce(s, u, j) BY DEF stop
<1> HIDE DEF u
<1>5. /\ KioStop(s, j) \in Touching(s, {j})
      /\ KioStop(s, j).job[j].status
             = IF s.job[j].status = "Finished" THEN "Finished" ELSE "Stopped"
  BY <1>1, KioTouches, Zenon
<1>6. u \in Touching(s, {j}) /\ Plain(u.job[j])
  <2>1. u.job[j].moving = s.job[j].moving BY <1>3, <1>5 DEF Touching, SameDuties
  <2> QED BY <1>1, <1>3, <1>5, <2>1 DEF Plain
<1>7. CASE s.job[j].status \in {"Stopped", "Finished"}
  <2>1. u = s BY <1>3, <1>7 DEF KioStop
  <2>2. stop(s, j) = s BY <1>4, <2>1 DEF Announce
  <2> QED BY <1>7, <2>2
<1>8. CASE s.job[j].status \notin {"Stopped", "Finished"}
  <2>1. u.job[j].status \notin {s.job[j].status, "Running"} /\ u # s BY <1>3, <1>5, <1>8
  <2>2. Announce(s, u, j) \in Calm(X) BY <1>2, <1>6, <2>1, AnnounceCalm, Zenon
  <2>3. Announce(s, u, j) \in Calm(X \ {s.job[j].queue}) BY <1>2, <1>6, <2>1, AnnounceCalm
  <2> QED BY <1>4, <1>8, <2>2, <2>3
<1> QED BY <1>7, <1>8

LEMMA SetStatusCalm ==
  ASSUME OnlyKio, NEW X, NEW s \in Calm(X), NEW j \in Jobs, NEW status \in {"Aborted", "Finished"}
  PROVE  setStatus(s, j, status) \in Calm(X)
<1> DEFINE u == SetStatusQuiet(s, j, status)
<1>1. /\ s \in State /\ s \in SameLists(s) /\ s \in Writing(s, j) /\ Kind[j] = "kio"
      /\ Plain(s.job[j]) /\ status \in JobStatus
  BY CalmFacts, InOrderWhileWriting DEF OnlyKio, JobStatus
<1>2. \A r \in Job : /\ r.status = status /\ r.worker = s.job[j].worker
                     /\ r.moving = s.job[j].moving /\ r.obstacle = s.job[j].obstacle
                     => Consistent(j, r)
  BY <1>1 DEF Consistent, Plain
<1>3. u \in InOrder BY <1>1, <1>2, StatusStays DEF SameLists
<1>4. u \in Touching(s, {j}) /\ u.job[j].status = status BY <1>1, SetStatusTouches
<1>5. u = s \/ status # s.job[j].status BY DEF SetStatusQuiet
<1> HIDE DEF u
<1>6. Plain(u.job[j]) BY <1>1, <1>4 DEF Touching, SameDuties, Plain
<1>7. Announce(s, u, j) \in Calm(X) BY <1>3, <1>4, <1>5, <1>6, AnnounceCalm, Zenon
<1> QED BY <1>7 DEF setStatus, u

LEMMA SetPolicyCalm ==
  ASSUME OnlyKio, NEW X, NEW s \in Calm(X), NEW j \in Jobs, NEW policy \in Policy
  PROVE  /\ setPolicy(s, j, policy) \in Calm(X)
         /\ s.job[j].policy # policy => setPolicy(s, j, policy) \in Calm(X \ {s.job[j].queue})
<1> SUFFICES ASSUME NEW t, t = [s EXCEPT !.job[j].policy = policy],
                    NEW q, q = s.job[j].queue
             PROVE  updateQueue(t, q) \in Calm(X \ {q}) /\ updateQueue(t, q) \in Calm(X)
  BY DEF setPolicy
<1>1. s \in InOrder /\ s \in State /\ s \in Sound /\ q \in Queues
  BY CalmFacts
<1>2. PolicyWrote(s, t, j, policy) BY <1>1, PolicyWritten
<1>3. /\ t \in SameLists(s) /\ t.scheduler = s.scheduler
      /\ \A k \in Jobs : k # j => t.job[k] = s.job[k]
      /\ \A k \in Jobs : /\ t.job[k].status = s.job[k].status
                         /\ t.job[k].moving = s.job[k].moving
  BY <1>2 DEF PolicyWrote
<1>4. t \in Sound /\ t.queue = s.queue BY <1>1, <1>3, SoundKept DEF SameLists
<1>5. \A k \in Jobs : Plain(t.job[k]) /\ Known(t.scheduler.failed[k])
  BY <1>3 DEF Calm, Plain
<1>6. ASSUME NEW p \in Queues \ (X \cup {q}), NEW k \in ToSet(s.queue[p].jobs)
      PROVE  Alike(s, t, k)
  <2>1. k \in Jobs /\ k # j BY <1>6, CalmFacts DEF Sound
  <2> QED BY <1>3, <1>4, <2>1, SameIsAlike, Zenon
<1>7. t \in Calm(X \cup {q}) BY <1>3, <1>4, <1>5, <1>6, CalmWritten, Zenon
<1>8. updateQueue(t, q) \in Calm((X \cup {q}) \ {q}) BY <1>1, <1>7, UpdateCalm
<1>9. (X \cup {q}) \ {q} = X \ {q} OBVIOUS
<1>10. Calm(X \ {q}) \subseteq Calm(X) BY CalmMore
<1> QED BY <1>8, <1>9, <1>10

LEMMA HandlerStopCalm ==
  ASSUME OnlyKio, NEW X, NEW s \in Calm(X), NEW j \in Jobs
  PROVE  handlerStop(s, j) \in Calm(X)
BY SetPolicyCalm, Zenon DEF handlerStop, Policy

(* A list that is written in its queue, which is updated at once *)
LEMMA RelistedCalm ==
  ASSUME OnlyKio, NEW s \in Calm({}), NEW q \in Queues, NEW list \in Seq(Jobs),
         [s EXCEPT !.queue[q].jobs = list] \in Sound
  PROVE  updateQueue([s EXCEPT !.queue[q].jobs = list], q) \in Calm({})
<1> SUFFICES ASSUME NEW t, t = [s EXCEPT !.queue[q].jobs = list]
             PROVE  updateQueue(t, q) \in Calm({})
  OBVIOUS
<1>1. s \in State /\ t \in Sound BY CalmFacts
<1>2. ListWrote(s, t, q, list) BY <1>1, WroteList
<1>3. \A p \in Queues : t.queue[p].status = s.queue[p].status
  <2>1. s.queue \in [Queues -> JobQueue] BY <1>1 DEF State
  <2>2. t.queue = [s.queue EXCEPT ![q].jobs = list] BY <1>1 DEF State
  <2> QED BY <2>1, <2>2 DEF JobQueue
<1>4. /\ t.job = s.job /\ t.scheduler = s.scheduler
      /\ \A p \in Queues : p # q => t.queue[p].jobs = s.queue[p].jobs
  BY <1>2 DEF ListWrote
<1>5. ASSUME NEW p \in Queues \ ({} \cup {q}), NEW j \in ToSet(s.queue[p].jobs)
      PROVE  Alike(s, t, j)
  <2>1. s.job[j].queue \in Queues BY <1>5, CalmFacts
  <2> QED BY <1>3, <1>4, <2>1, SameIsAlike, Zenon
<1>6. \A j \in Jobs : Plain(t.job[j]) /\ Known(t.scheduler.failed[j]) BY <1>4 DEF Calm
<1>7. t \in Calm({} \cup {q}) BY <1>1, <1>4, <1>5, <1>6, CalmWritten, Zenon
<1>8. updateQueue(t, q) \in Calm(({} \cup {q}) \ {q}) BY <1>7, UpdateCalm
<1>9. ({} \cup {q}) \ {q} = {} OBVIOUS
<1> QED BY <1>8, <1>9, Zenon

LEMMA RemoveCalm ==
  ASSUME OnlyKio, NEW s \in Calm({}), NEW q \in Queues, NEW j \in Jobs
  PROVE  remove(s, q, j) \in Calm({})
<1>1. s \in Sound BY CalmFacts
<1> SUFFICES ASSUME NEW list, list = Without(s.queue[q].jobs, j)
             PROVE  updateQueue([s EXCEPT !.queue[q].jobs = list], q) \in Calm({})
  BY DEF remove
<1>2. /\ Once(list) /\ list \in Seq(Jobs)
      /\ ToSet(list) \subseteq ToSet(s.queue[q].jobs)
  BY <1>1, OnceInSound, WithoutFacts DEF Once
<1>3. [s EXCEPT !.queue[q].jobs = list] \in Sound BY <1>1, <1>2, Reordered
<1> QED BY <1>2, <1>3, RelistedCalm

(* A transfer goes to another place of its group *)
LEMMA MoveCalm ==
  ASSUME OnlyKio, NEW s \in Calm({}), NEW j \in Jobs, NEW dest, dest = s.job[j].queue,
         j \in ToSet(s.queue[dest].jobs), NEW after,
         after # "front" => after \in ToSet(s.queue[dest].jobs)
  PROVE  moveTransfer(s, j, dest, after) \in Calm({})
<1>1. s \in Sound /\ dest \in Queues BY CalmFacts
<1>2. CASE j = after BY <1>2 DEF moveTransfer
<1>3. CASE j # after
  <2> SUFFICES ASSUME NEW list, list = Placed(Without(s.queue[dest].jobs, j), j, after)
               PROVE  moveTransfer(s, j, dest, after) \in Calm({})
    OBVIOUS
  <2>1. /\ Once(Without(s.queue[dest].jobs, j))
        /\ ToSet(Without(s.queue[dest].jobs, j)) = ToSet(s.queue[dest].jobs) \ {j}
    BY <1>1, OnceInSound, WithoutFacts
  <2>2. Once(list) /\ ToSet(list) = (ToSet(s.queue[dest].jobs) \ {j}) \cup {j}
    <3> SUFFICES ASSUME NEW rest, rest = Without(s.queue[dest].jobs, j)
                 PROVE  Once(list) /\ ToSet(list) = (ToSet(s.queue[dest].jobs) \ {j}) \cup {j}
      BY Zenon
    <3>1. /\ Once(rest) /\ ToSet(rest) = ToSet(s.queue[dest].jobs) \ {j}
          /\ j \notin ToSet(rest) /\ (after # "front" => after \in ToSet(rest))
      BY <1>3, <2>1, Zenon
    <3>2. Once(Placed(rest, j, after)) /\ ToSet(Placed(rest, j, after)) = ToSet(rest) \cup {j}
      BY <3>1, PlacedFacts, Zenon
    <3> QED BY <3>1, <3>2, Zenon
  <2>3. list \in Seq(Jobs) /\ ToSet(list) \subseteq ToSet(s.queue[dest].jobs)
    BY <2>2, Zenon DEF Once
  <2>4. moveTransfer(s, j, dest, after) = updateQueue([s EXCEPT !.queue[dest].jobs = list], dest)
    BY <1>3 DEF moveTransfer, move, Placed
  <2>5. [s EXCEPT !.queue[dest].jobs = list] \in Sound BY <1>1, <2>2, <2>3, Reordered, Zenon
  <2> QED BY <1>1, <2>3, <2>4, <2>5, RelistedCalm, Zenon
<1> QED BY <1>2, <1>3

LEMMA HandlerStartCalm ==
  ASSUME OnlyKio, NEW s \in Calm({}), NEW j \in Jobs,
         j \in ToSet(s.queue[s.job[j].queue].jobs)
  PROVE  handlerStart(s, j) \in Calm({})
<1> SUFFICES ASSUME NEW q, q = s.job[j].queue, NEW t, t = setPolicy(s, j, "None")
             PROVE  handlerStart(s, j) \in Calm({})
  OBVIOUS
<1>1. q \in Queues /\ s \in SameLists(s) BY CalmFacts
<1>2. t \in SameLists(s) BY <1>1, SetPolicyStays DEF Policy
<1>3. t \in Calm({}) /\ setPolicy(s, j, "Start") \in Calm({}) BY SetPolicyCalm DEF Policy
<1>4. t.job[j].queue = q /\ j \in ToSet(t.queue[q].jobs) BY <1>2 DEF SameLists
<1>5. moveTransfer(t, j, q, "front") \in Calm({}) BY <1>3, <1>4, MoveCalm
<1> QED BY <1>3, <1>5 DEF handlerStart

(* What a job is that no list has is nobody's concern. *)
LEMMA UnlistedCalm ==
  ASSUME OnlyKio, NEW s \in Calm({}), NEW j \in Jobs, NEW q \in Queues,
         \A p \in Queues : j \notin ToSet(s.queue[p].jobs)
  PROVE  /\ [s EXCEPT !.job[j] = NewJob(q)] \in Calm({})
         /\ [s EXCEPT !.job[j] = NewJob(q)].queue = s.queue
         /\ [s EXCEPT !.job[j] = NewJob(q)].job[j].queue = q
<1> SUFFICES ASSUME NEW t, t = [s EXCEPT !.job[j] = NewJob(q)]
             PROVE  t \in Calm({}) /\ t.queue = s.queue /\ t.job[j].queue = q
  BY Zenon
<1>1. /\ NewJob(q) \in Job /\ Consistent(j, NewJob(q)) /\ Plain(NewJob(q))
      /\ NewJob(q).queue = q
  BY NewJobInOrder DEF Plain, NewJob
<1>2. s \in State /\ s \in InOrder /\ s \in Sound BY CalmFacts
<1>3. /\ t \in State /\ t.queue = s.queue /\ t.scheduler = s.scheduler
      /\ t.job = [s.job EXCEPT ![j] = NewJob(q)]
  BY <1>1, <1>2 DEF State
<1>4. s.job \in [Jobs -> Job] BY <1>2 DEF State
<1>5. t.job[j] = NewJob(q) /\ \A k \in Jobs : k # j => t.job[k] = s.job[k] BY <1>3, <1>4
<1>6. t \in InOrder BY <1>1, <1>2, <1>3, <1>5, Zenon DEF InOrder
<1>7. ASSUME NEW p \in Queues, NEW k \in ToSet(s.queue[p].jobs) PROVE t.job[k] = s.job[k]
  BY <1>5, <1>7, CalmFacts
<1>8. t \in Sound
  <2>1. ASSUME NEW p \in Queues
        PROVE  /\ IsInjective(t.queue[p].jobs)
               /\ \A k \in ToSet(t.queue[p].jobs) : t.job[k].queue = p
    <3>1. t.queue[p].jobs = s.queue[p].jobs BY <1>3
    <3>2. /\ IsInjective(s.queue[p].jobs)
          /\ \A k \in ToSet(s.queue[p].jobs) : s.job[k].queue = p
      BY <1>2 DEF Sound
    <3> QED BY <1>7, <3>1, <3>2
  <2> QED BY <1>6, <2>1, Zenon DEF Sound
<1>9. \A k \in Jobs : Plain(t.job[k]) /\ Known(t.scheduler.failed[k])
  BY <1>1, <1>3, <1>5 DEF Calm
<1>10. \A p \in Queues : \A k \in ToSet(s.queue[p].jobs) : Alike(s, t, k)
  BY <1>3, <1>7, SameIsAlike, Zenon
<1>11. t \in Calm({} \cup {}) BY <1>3, <1>8, <1>9, <1>10, CalmWritten, Zenon
<1> QED BY <1>1, <1>3, <1>5, <1>11

LEMMA AppendCalm ==
  ASSUME OnlyKio, NEW s \in Calm({}), NEW j \in Jobs, NEW q \in Queues, s.job[j].queue = q,
         \A p \in Queues : j \notin ToSet(s.queue[p].jobs)
  PROVE  append(s, q, j) \in Calm({})
<1> SUFFICES ASSUME NEW list, list = Append(s.queue[q].jobs, j),
                    NEW t, t = [s EXCEPT !.queue[q].jobs = list]
             PROVE  updateQueue(t, q) \in Calm({})
  BY Zenon DEF append
<1>1. s \in Sound /\ s \in InOrder /\ s \in State BY CalmFacts
<1>2. Once(list) /\ list \in Seq(Jobs) /\ ToSet(list) = ToSet(s.queue[q].jobs) \cup {j}
  BY <1>1, OnceInSound, Appended DEF Once
<1>3. t \in InOrder BY <1>1, <1>2, WroteList, ListInOrder, Zenon
<1>4. t \in SameLists([s EXCEPT !.queue[q].jobs = list]) BY <1>3, SoundItself
<1>5. t \in Sound BY <1>1, <1>2, <1>4, Enlisted, Zenon
<1> QED BY <1>2, <1>5, RelistedCalm, Zenon

(* A queue of jobs that shall not run, and do not, rests. *)
LEMMA IdleRests ==
  ASSUME OnlyKio, NEW s \in State, NEW q \in Queues,
         \A j \in ToSet(s.queue[q].jobs) : /\ s.job[j].status \in {"Stopped", "Finished"}
                                           /\ ~shouldBeRunning(s, j)
  PROVE  Rests(s, q)
<1> SUFFICES ASSUME NEW list, list = s.queue[q].jobs PROVE Rests(s, q)
  OBVIOUS
<1>1. /\ list \in Seq(Jobs) /\ Len(list) \in Nat /\ \A n \in 1 .. Len(list) : list[n] \in Jobs
      /\ ToSet(list) = {list[i] : i \in 1 .. Len(list)}
  <2>1. list \in Seq(Jobs) BY DEF State, JobQueue
  <2> QED BY <2>1, Distinct
<1> DEFINE none == [running |-> 0, waiting |-> 0]
           c == [n \in 0 .. Len(list) |-> none]
<1>2. c \in [0 .. Len(list) -> Load] BY DEF Load
<1>3. \A n \in 0 .. Len(list) : c[n] = none OBVIOUS
<1>4. Loaded(s, none) = WalkStart(s) BY DEF Loaded, WalkStart
<1>5. ASSUME NEW j \in Jobs, j \in ToSet(list)
      PROVE  Evaluate(Loaded(s, none), j) = Loaded(s, none)
  <2> SUFFICES ASSUME NEW w, w = Loaded(s, none) PROVE Evaluate(w, j) = w
    OBVIOUS
  <2>1. w.s = s /\ [w EXCEPT !.s = s] = w BY DEF Loaded
  <2>2. ~Active(s, j) /\ ~shouldBeRunning(s, j) BY <1>5 DEF Active
  <2>3. StopQuiet(s, j) = s
    <3>1. Kind[j] = "kio" BY DEF OnlyKio
    <3>2. KioStop(s, j) = s BY <1>5 DEF KioStop
    <3> QED BY <3>1, <3>2 DEF StopQuiet
  <2> QED BY <2>1, <2>2, <2>3 DEF Evaluate
<1> HIDE DEF none, c
<1>6. ASSUME NEW n \in 1 .. Len(list)
      PROVE  Evaluate(Loaded(s, c[n - 1]), list[n]) = Loaded(s, c[n])
  <2>1. c[n - 1] = none /\ c[n] = none BY <1>1, <1>3
  <2>2. list[n] \in Jobs /\ list[n] \in ToSet(list) BY <1>1
  <2> QED BY <1>5, <2>1, <2>2
<1>7. Loaded(s, c[0]) = WalkStart(s) BY <1>1, <1>3, <1>4
<1> QED BY <1>2, <1>6, <1>7 DEF Rests

LEMMA ResetsAdvance ==
  ASSUME NEW base, NEW s \in SameLists(base), NEW list \in Seq(Jobs), NEW status, NEW S, s \in S[0],
         \A n \in 1 .. Len(list) : \A v \in S[n - 1] : Reset(v, list[n], status) \in S[n]
  PROVE  ResetJobs(s, list, status) \in S[Len(list)]
<1> SUFFICES ASSUME NEW N, N = Len(list) PROVE ResetJobs(s, list, status) \in S[N]
  OBVIOUS
<1>1. N \in Nat OBVIOUS
<1>2. PICK after : /\ after[0] = s /\ ResetJobs(s, list, status) = after[N]
                   /\ \A n \in 1 .. N : after[n] = Reset(after[n - 1], list[n], status)
  BY ResetLoop
<1>3. \A n \in 1 .. N : after[n - 1] \in S[n - 1] => after[n] \in S[n] BY <1>2
<1>4. \A n \in 0 .. N : after[n] \in S[n] BY <1>1, <1>2, <1>3, IterationsAdvance
<1> QED BY <1>1, <1>2, <1>4

LEMMA StopActivesAdvance ==
  ASSUME NEW base, NEW s \in SameLists(base), NEW list \in Seq(Jobs), NEW S, s \in S[0],
         \A n \in 1 .. Len(list) : \A v \in S[n - 1] : StopActive(v, list[n]) \in S[n]
  PROVE  StoppedActive(s, list) \in S[Len(list)]
<1> SUFFICES ASSUME NEW N, N = Len(list) PROVE StoppedActive(s, list) \in S[N]
  OBVIOUS
<1>1. N \in Nat OBVIOUS
<1>2. PICK after : /\ after[0] = s /\ StoppedActive(s, list) = after[N]
                   /\ \A n \in 1 .. N : after[n] = StopActive(after[n - 1], list[n])
  BY StopLoop
<1>3. \A n \in 1 .. N : after[n - 1] \in S[n - 1] => after[n] \in S[n] BY <1>2
<1>4. \A n \in 0 .. N : after[n] \in S[n] BY <1>1, <1>2, <1>3, IterationsAdvance, Zenon
<1> QED BY <1>1, <1>2, <1>4

(* JobQueue::setStatus.  A queue that is stopped rests when a policy was reset or a
   job stopped, or when there was nothing to reset or to stop. *)
LEMMA SetQueueStatusCalm ==
  ASSUME OnlyKio, NEW s \in Calm({}), NEW q \in Queues, NEW status \in JobQueueStatus
  PROVE  setQueueStatus(s, q, status) \in Calm({})
<1> SUFFICES ASSUME NEW b, b = [s EXCEPT !.queue[q].status = status],
                    NEW jobs, jobs = s.queue[q].jobs, NEW N, N = Len(jobs)
             PROVE  setQueueStatus(s, q, status) \in Calm({})
  BY Zenon
<1> DEFINE t == ResetJobs(b, jobs, status)
           u == StoppedActive(t, jobs)
<1>1. s \in Sound /\ s \in State BY CalmFacts
<1>2. /\ b \in Sound /\ b.job = s.job /\ b.scheduler = s.scheduler
      /\ \A p \in Queues : /\ b.queue[p].jobs = s.queue[p].jobs
                           /\ b.queue[p].status = IF p = q THEN status ELSE s.queue[p].status
  <2>1. QueueStatusWrote(s, b, q, status) BY <1>1, QueueStatusWritten
  <2> QED BY <2>1 DEF QueueStatusWrote
<1>3. /\ jobs \in Seq(Jobs) /\ N \in Nat /\ \A n \in 1 .. N : jobs[n] \in Jobs
      /\ ToSet(jobs) = {jobs[i] : i \in 1 .. N}
      /\ \A n \in 1 .. N : b.job[jobs[n]].queue = q
  <2>1. jobs \in Seq(Jobs) BY <1>1, OnceInSound DEF Once
  <2>2. ToSet(jobs) = {jobs[i] : i \in 1 .. N} BY <2>1, Distinct
  <2>3. \A j \in ToSet(jobs) : s.job[j].queue = q BY <1>1 DEF Sound
  <2> QED BY <1>2, <2>1, <2>2, <2>3
<1>4. b \in Calm({q}) /\ b \in State /\ b \in SameLists(b)
  <2>1. ASSUME NEW p \in Queues \ ({} \cup {q}), NEW j \in ToSet(s.queue[p].jobs)
        PROVE  Alike(s, b, j)
    <3>1. s.job[j].queue = p BY <1>1, <2>1 DEF Sound
    <3> QED BY <1>2, <2>1, <3>1, SameIsAlike, Zenon
  <2>2. \A j \in Jobs : Plain(b.job[j]) /\ Known(b.scheduler.failed[j]) BY <1>2 DEF Calm
  <2>3. b \in Calm({} \cup {q}) BY <1>2, <2>1, <2>2, CalmWritten, Zenon
  <2>4. b \in Calm({q}) BY <2>3
  <2> QED BY <2>4, CalmFacts
<1>5. Calm({}) \subseteq Calm({q}) BY CalmMore
<1> DEFINE Stays == {v \in Calm({q}) : v \in SameLists(b)}
           Unset(n) == \A i \in 1 .. n : b.job[jobs[i]].status = "Stopped"
                                          => b.job[jobs[i]].policy = "None"
           Ended(n) == \A i \in 1 .. n : b.job[jobs[i]].status \in {"Stopped", "Finished"}
           Resetting(n) == {v \in Stays : status = "Stopped" => v \in Calm({}) \/ (v = b /\ Unset(n))}
           Stopping(n) == {v \in Stays : v \in Calm({}) \/ (v = b /\ Unset(N) /\ Ended(n))}
           R == [n \in Nat |-> Resetting(n)]
           S == [n \in Nat |-> Stopping(n)]
<1>6. /\ \A n \in Nat : R[n] = Resetting(n) /\ S[n] = Stopping(n)
      /\ \A n \in 1 .. N : n \in Nat /\ n - 1 \in Nat
      /\ \A n \in 1 .. N : \A i \in 1 .. n : i \in 1 .. n - 1 \/ i = n
  <2>1. N \in Nat BY <1>3
  <2> HIDE DEF Resetting, Stopping
  <2> QED BY <2>1
<1>7. b \in R[0]
  <2>1. b \in Resetting(0) BY <1>4
  <2> QED BY <1>6, <2>1
<1> HIDE DEF R, S
<1>8. ASSUME NEW n \in 1 .. N, NEW v \in R[n - 1] PROVE Reset(v, jobs[n], status) \in R[n]
  <2> SUFFICES ASSUME NEW j \in Jobs, j = jobs[n], NEW w, w = Reset(v, j, status)
               PROVE  w \in R[n]
    BY <1>3
  <2>1. n \in Nat /\ n - 1 \in Nat /\ R[n] = Resetting(n) /\ R[n - 1] = Resetting(n - 1) BY <1>6, Zenon
  <2>2. v \in Resetting(n - 1) BY <1>8, <2>1, Zenon
  <2>3. v \in Calm({q}) /\ v \in SameLists(b) BY <2>2
  <2>4. w \in Stays
    <3>1. "None" \in Policy BY DEF Policy
    <3>2. setPolicy(v, j, "None") \in Calm({q}) BY <2>3, <3>1, SetPolicyCalm
    <3>3. setPolicy(v, j, "None") \in SameLists(b) BY <2>3, <3>1, SetPolicyStays
    <3> QED BY <2>3, <3>2, <3>3 DEF Reset
  <2>5. ASSUME status = "Stopped", v \in Calm({}) PROVE w \in Calm({})
    <3>1. setPolicy(v, j, "None") \in Calm({}) BY <2>5, SetPolicyCalm DEF Policy
    <3> QED BY <2>5, <3>1 DEF Reset
  <2>6. ASSUME status = "Stopped", v = b, Unset(n - 1)
        PROVE  w \in Calm({}) \/ (w = b /\ Unset(n))
    <3>1. CASE b.job[j].status = "Stopped" /\ b.job[j].policy # "None"
      <4>1. w = setPolicy(b, j, "None") BY <2>6, <3>1 DEF Reset
      <4>2. setPolicy(b, j, "None") \in Calm({q} \ {b.job[j].queue})
        BY <1>4, <3>1, SetPolicyCalm, Zenon DEF Policy
      <4>3. {q} \ {b.job[j].queue} = {} BY <1>3
      <4> QED BY <4>1, <4>2, <4>3, Zenon
    <3>2. CASE ~(b.job[j].status = "Stopped" /\ b.job[j].policy # "None")
      <4>1. w = b BY <2>6, <3>2, Zenon DEF Reset, setPolicy
      <4>2. Unset(n)
        <5>1. \A i \in 1 .. n : i \in 1 .. n - 1 \/ i = n BY <1>6
        <5> QED BY <2>6, <3>2, <5>1
      <4> QED BY <4>1, <4>2
    <3> QED BY <3>1, <3>2, Zenon
  <2>7. w \in Resetting(n)
    <3> HIDE DEF Stays, Unset
    <3> QED BY <2>2, <2>4, <2>5, <2>6
  <2> QED BY <2>1, <2>7, Zenon
<1>9. t \in R[N]
  <2>1. b \in SameLists(b) BY <1>4
  <2>2. \A n \in 1 .. N : \A v \in R[n - 1] : Reset(v, jobs[n], status) \in R[n] BY <1>8
  <2> QED BY <1>3, <1>7, <2>1, <2>2, ResetsAdvance, Zenon
<1>10. t \in Resetting(N) BY <1>3, <1>6, <1>9, Zenon
<1> HIDE DEF t
<1>11. CASE status = "Running"
  <2>1. t \in Calm({q}) BY <1>10
  <2>2. updateQueue(t, q) \in Calm({q} \ {q}) BY <2>1, UpdateCalm
  <2>3. {q} \ {q} = {} OBVIOUS
  <2>4. setQueueStatus(s, q, status) = updateQueue(t, q)
    BY <1>11 DEF setQueueStatus, t, ResetJobs
  <2> QED BY <2>2, <2>3, <2>4, Zenon
<1>12. CASE status = "Stopped"
  <2>1. t \in S[0]
    <3>1. Ended(0) OBVIOUS
    <3>2. t \in Stopping(0)
      <4> HIDE DEF Stays, Unset, Ended
      <4> QED BY <1>10, <1>12, <3>1
    <3> QED BY <1>6, <3>2, Zenon
  <2>2. ASSUME NEW n \in 1 .. N, NEW v \in S[n - 1] PROVE StopActive(v, jobs[n]) \in S[n]
    <3> SUFFICES ASSUME NEW j \in Jobs, j = jobs[n], NEW w, w = StopActive(v, j)
                 PROVE  w \in S[n]
      BY <1>3
    <3>1. n \in Nat /\ n - 1 \in Nat /\ S[n] = Stopping(n) /\ S[n - 1] = Stopping(n - 1) BY <1>6, Zenon
    <3>2. v \in Stopping(n - 1) BY <2>2, <3>1, Zenon
    <3>3. v \in Calm({q}) /\ v \in SameLists(b) BY <3>2, Zenon
    <3>4. w \in Stays
      <4>1. stop(v, j) \in Calm({q}) BY <3>3, StopCalm
      <4>2. stop(v, j) \in SameLists(b) BY <3>3, StartsAndStopsStay
      <4> QED BY <3>3, <4>1, <4>2 DEF StopActive
    <3>5. ASSUME v \in Calm({}) PROVE w \in Calm({})
      <4>1. stop(v, j) \in Calm({}) BY <3>5, StopCalm
      <4> QED BY <3>5, <4>1 DEF StopActive
    <3>6. ASSUME v = b, Ended(n - 1) PROVE w \in Calm({}) \/ (w = b /\ Ended(n))
      <4>1. CASE b.job[j].status \in {"Stopped", "Finished"}
        <5>1. stop(b, j) = b BY <1>4, <4>1, StopCalm, Zenon
        <5>2. w = b BY <3>6, <5>1 DEF StopActive
        <5>3. \A i \in 1 .. n : i \in 1 .. n - 1 \/ i = n BY <1>6
        <5> QED BY <3>6, <4>1, <5>2, <5>3
      <4>2. CASE b.job[j].status \notin {"Stopped", "Finished"}
        <5>1. w = stop(b, j) BY <3>6, <4>2 DEF StopActive
        <5>2. stop(b, j) \in Calm({q} \ {b.job[j].queue}) BY <1>4, <4>2, StopCalm, Zenon
        <5>3. {q} \ {b.job[j].queue} = {} BY <1>3
        <5> QED BY <5>1, <5>2, <5>3, Zenon
      <4> QED BY <4>1, <4>2
    <3>7. w \in Stopping(n)
      <4> HIDE DEF Stays, Unset, Ended
      <4> QED BY <3>2, <3>4, <3>5, <3>6
    <3> QED BY <3>1, <3>7, Zenon
  <2>3. u \in S[N]
    <3>1. t \in SameLists(b) BY <1>10
    <3>2. \A n \in 1 .. N : \A v \in S[n - 1] : StopActive(v, jobs[n]) \in S[n] BY <2>2
    <3> QED BY <1>3, <2>1, <3>1, <3>2, StopActivesAdvance
  <2>4. u \in Stopping(N) BY <1>3, <1>6, <2>3, Zenon
  <2>5. setQueueStatus(s, q, status) = u
    BY <1>12 DEF setQueueStatus, u, t, ResetJobs, StoppedActive
  <2> HIDE DEF u
  <2>6. ASSUME u = b, Unset(N), Ended(N) PROVE b \in Calm({})
    <3>1. \A j \in ToSet(b.queue[q].jobs) : /\ b.job[j].status \in {"Stopped", "Finished"}
                                            /\ ~shouldBeRunning(b, j)
      <4>1. ASSUME NEW i \in 1 .. N
            PROVE  /\ b.job[jobs[i]].status \in {"Stopped", "Finished"}
                   /\ ~shouldBeRunning(b, jobs[i])
        <5>1. b.job[jobs[i]].queue = q /\ b.queue[q].status = "Stopped" BY <1>2, <1>3, <1>12
        <5>2. b.job[jobs[i]].status = "Stopped" => b.job[jobs[i]].policy = "None" BY <2>6
        <5>3. b.job[jobs[i]].status \in {"Stopped", "Finished"} BY <2>6
        <5> QED BY <5>1, <5>2, <5>3 DEF shouldBeRunning
      <4>2. /\ Len(b.queue[q].jobs) = N
            /\ \A j \in ToSet(b.queue[q].jobs) : \E i \in 1 .. N : j = jobs[i]
        BY <1>2, <1>3
      <4> QED BY <4>1, <4>2
    <3>2. Rests(b, q) BY <1>4, <3>1, IdleRests, Zenon
    <3> QED BY <1>4, <3>2 DEF Calm
  <2>7. u \in Calm({})
    <3> HIDE DEF Unset, Ended
    <3> QED BY <2>4, <2>6
  <2> QED BY <2>5, <2>7
<1> QED BY <1>11, <1>12 DEF JobQueueStatus

LEMMA UpdateAllCalm ==
  ASSUME OnlyKio, NEW s \in Calm(Queues)
  PROVE  updateAllQueues(s) \in Calm({})
<1> DEFINE list == s.scheduler.queues
           N == Len(list)
           S(n) == Calm(Queues \ {list[i] : i \in 1 .. n})
<1>1. list = QueueOrder BY DEF Calm
<1>2. /\ list \in Seq(Queues) /\ N \in Nat /\ \A n \in 1 .. N : list[n] \in Queues
      /\ \A q \in Queues : \E i \in 1 .. N : list[i] = q
  <2> HIDE DEF list
  <2> QED BY <1>1, QueueOrderAssumption
<1>3. PICK after : /\ after[0] = s /\ UpdatedQueues(s, list) = after[N]
                   /\ \A n \in 1 .. N : after[n] = updateQueue(after[n - 1], list[n])
  <2>1. s \in SameLists(s) BY CalmFacts
  <2>2. PICK f : /\ f[0] = s /\ UpdatedQueues(s, list) = f[Len(list)]
                 /\ \A n \in 1 .. Len(list) : f[n] = updateQueue(f[n - 1], list[n])
                 /\ \A n \in 0 .. Len(list) : f[n] \in SameLists(s)
    <3> HIDE DEF list
    <3> QED BY <1>2, <2>1, UpdateAllLoop
  <2> QED BY <2>2
<1>4. updateAllQueues(s) = after[N] BY <1>3 DEF updateAllQueues, UpdatedQueues
<1> HIDE DEF list, N
<1>5. after[0] \in S(0)
  <2>1. Queues \ {list[i] : i \in 1 .. 0} = Queues OBVIOUS
  <2> QED BY <1>3, <2>1
<1>6. ASSUME NEW n \in 1 .. N, after[n - 1] \in S(n - 1) PROVE after[n] \in S(n)
  <2> DEFINE X == Queues \ {list[i] : i \in 1 .. n - 1}
  <2>1. X \ {list[n]} = Queues \ {list[i] : i \in 1 .. n} BY <1>2
  <2>2. after[n - 1] \in Calm(X) /\ list[n] \in Queues BY <1>2, <1>6
  <2> HIDE DEF X
  <2>3. after[n] \in Calm(X \ {list[n]}) BY <1>3, <2>2, UpdateCalm
  <2> QED BY <2>1, <2>3
<1>7. Queues \ {list[i] : i \in 1 .. N} = {} BY <1>2
<1> HIDE DEF S
<1> DEFINE F == [n \in Nat |-> S(n)]
<1>8. F[0] = S(0) /\ \A n \in 1 .. N : F[n] = S(n) /\ F[n - 1] = S(n - 1) BY <1>2
<1>9. F[N] = S(N) /\ N \in 0 .. N BY <1>2
<1> HIDE DEF F
<1>10. \A n \in 0 .. N : after[n] \in F[n]
  BY <1>2, <1>5, <1>6, <1>8, IterationsAdvance, ZenonT(60)
<1>11. after[N] \in S(N) BY <1>9, <1>10
<1> QED BY <1>4, <1>7, <1>11 DEF S

(* An entry that becomes an error is of a job that shall not be retried. *)
LEMMA ErrorIsFinal ==
  ASSUME NEW s \in InOrder, NEW j \in Jobs, NEW f, f = NextFailure(s, j),
         f.status = "Error", f.status # s.scheduler.failed[j].status
  PROVE  s.job[j].status = "Aborted" /\ s.job[j].error # "AutomaticRetry"
<1> SUFFICES ASSUME NEW old, old = s.scheduler.failed[j]
             PROVE  s.job[j].status = "Aborted" /\ s.job[j].error # "AutomaticRetry"
  OBVIOUS
<1>1. old \in Failure /\ NoFailure.status = "None"
  BY DEF InOrder, State, SchedulerObject, NoFailure
<1>2. CASE isStalled(s.job[j])
  <2>1. f = Stalled(old) BY <1>2 DEF NextFailure
  <2>2. f.status \in {"AboutToStall", "Stall", "StallTimeout"}
    BY <1>1, <2>1 DEF Stalled, Failure
  <2> QED BY <2>2
<1>3. CASE ~isStalled(s.job[j]) /\ s.job[j].status = "Aborted"
  <2>1. f = Aborted(old, s.job[j].error) BY <1>3 DEF NextFailure
  <2>2. s.job[j].error = "AutomaticRetry" => f.status \in {"Abort", "AbortTimeout"}
    BY <1>1, <2>1 DEF Aborted, Failure
  <2> QED BY <1>3, <2>2
<1>4. CASE ~isStalled(s.job[j]) /\ s.job[j].status # "Aborted"
  <2>1. f \in {old, NoFailure} BY <1>4 DEF NextFailure
  <2> QED BY <1>1, <2>1
<1> QED BY <1>2, <1>3, <1>4

LEMMA CheckJobCalm ==
  ASSUME OnlyKio, NEW s \in Calm({}), NEW j \in Jobs
  PROVE  CheckJob(s, j) \in Calm({})
<1> SUFFICES ASSUME NEW f, f = NextFailure(s, j),
                    NEW e, e = IF IsValid(f) THEN f ELSE NoFailure,
                    NEW t, t = [s EXCEPT !.scheduler.failed[j] = e],
                    NEW q, q = s.job[j].queue
             PROVE  CheckJob(s, j) \in Calm({})
  BY Zenon
<1>1. CheckJob(s, j) = IF f.status # s.scheduler.failed[j].status THEN failureEvent(t, j, f) ELSE t
  BY DEF CheckJob
<1>2. s \in State /\ s \in InOrder /\ s \in Sound /\ q \in Queues BY CalmFacts
<1>3. Entered(s, j, f, e) /\ e \in Failure
  <2>1. Known(s.scheduler.failed[j]) BY DEF Calm
  <2>2. Entered(s, j, f, e) BY <1>2, <2>1, FailureEntered
  <2>3. e \in Failure BY <1>2, <2>1, FailureEntered
  <2> QED BY <2>2, <2>3
<1>4. EntryWrote(s, t, j, e) BY <1>2, <1>3, EntryWritten
<1>5. t \in Sound /\ t.job = s.job /\ t.queue = s.queue
  BY <1>2, <1>4, SoundKept DEF EntryWrote
<1>6. \A k \in Jobs : Plain(t.job[k]) /\ Known(t.scheduler.failed[k])
  BY <1>3, <1>4 DEF Calm, EntryWrote, Entered
<1>7. ASSUME NEW k \in Jobs, k # j PROVE Alike(s, t, k)
  BY <1>4, <1>5, <1>7, SameIsAlike, Zenon DEF EntryWrote
<1>8. ASSUME Alike(s, t, j) PROVE t \in Calm({})
  <2>1. \A p \in Queues : \A k \in ToSet(s.queue[p].jobs) : Alike(s, t, k)
    BY <1>7, <1>8, CalmFacts
  <2>2. t \in Calm({} \cup {}) BY <1>4, <1>5, <1>6, <2>1, CalmWritten, Zenon DEF EntryWrote
  <2> QED BY <2>2
<1>9. CASE f.status = s.scheduler.failed[j].status
  <2>1. t.scheduler.failed[j].status = s.scheduler.failed[j].status
    BY <1>3, <1>4, <1>9 DEF Entered, EntryWrote
  <2>2. Alike(s, t, j) BY <1>5, <2>1 DEF Alike, shouldBeRunning, Failing
  <2> QED BY <1>1, <1>8, <1>9, <2>2
<1>10. CASE f.status # s.scheduler.failed[j].status
  <2>1. t \in Calm({q})
    <3>1. \A p \in Queues \ ({} \cup {q}) : \A k \in ToSet(s.queue[p].jobs) : Alike(s, t, k)
      <4>1. ASSUME NEW p \in Queues \ ({} \cup {q}), NEW k \in ToSet(s.queue[p].jobs)
            PROVE  k \in Jobs /\ k # j
        BY <1>2, <4>1, CalmFacts DEF Sound
      <4> QED BY <1>7, <4>1
    <3>2. t \in Calm({} \cup {q}) BY <1>4, <1>5, <1>6, <3>1, CalmWritten, Zenon DEF EntryWrote
    <3> QED BY <3>2
  <2>2. {q} \ {q} = {} BY Zenon
  <2>3. CASE f.status = "Error"
    <3>1. s.job[j].status = "Aborted" /\ s.job[j].error # "AutomaticRetry"
      BY <1>2, <1>10, <2>3, ErrorIsFinal
    <3>2. Alike(s, t, j) BY <1>5, <3>1 DEF Alike, shouldBeRunning
    <3>3. handlerStop(t, j) \in Calm({}) BY <1>8, <3>2, HandlerStopCalm
    <3> QED BY <1>1, <1>10, <2>3, <3>3 DEF failureEvent
  <2>4. CASE f.status # "Error" /\ Retries(f)
    <3>1. t.job[j].status \notin {"Stopped", "Finished"} /\ t.job[j].queue = q
      BY <1>3, <1>5, <1>10, <2>4 DEF Entered
    <3>2. stop(t, j) \in Calm({q} \ {t.job[j].queue})
      <4>1. t.job[j].status \notin {"Stopped", "Finished"} BY <3>1
      <4> QED BY <2>1, <4>1, StopCalm, Zenon
    <3> QED BY <1>1, <1>10, <2>2, <2>4, <3>1, <3>2 DEF failureEvent
  <2>5. CASE f.status # "Error" /\ ~Retries(f)
    <3>1. updateQueue(t, q) \in Calm({q} \ {q}) BY <1>2, <2>1, UpdateCalm
    <3> QED BY <1>1, <1>5, <1>10, <2>2, <2>5, <3>1 DEF failureEvent
  <2> QED BY <2>3, <2>4, <2>5
<1> QED BY <1>9, <1>10

LEMMA TimerCalm ==
  ASSUME OnlyKio, NEW s \in Calm({})
  PROVE  timerEvent(s) \in Calm({})
<1> DEFINE S == {v \in Calm({}) : v \in SameLists(s)}
<1>1. s \in S /\ s \in SameLists(s) BY CalmFacts
<1>2. \A v \in S : v \in SameLists(s) /\ v \in Calm({}) BY DEF S
<1>3. \A v \in S, j \in Jobs : CheckJob(v, j) \in S BY <1>2, CheckJobCalm, CheckJobStays
<1>4. \A v \in S, q \in Queues : v.queue[q].jobs \in Seq(Jobs) BY <1>2, Lists
<1>5. s.scheduler.queues \in Seq(Queues) BY QueueOrderAssumption DEF Calm
<1> HIDE DEF S
<1>6. \A v \in S, q \in Queues : CheckQueue(v, q) \in S
  <2>1. ASSUME NEW v \in S, NEW q \in Queues PROVE CheckQueue(v, q) \in S
    <3>1. CheckedJobs(v, v.queue[q].jobs) \in S BY <1>2, <1>3, <1>4, CheckJobsKeep
    <3> QED BY <3>1 DEF CheckQueue, CheckedJobs
  <2> QED BY <2>1
<1>7. CheckedQueues(s, s.scheduler.queues) \in S BY <1>1, <1>5, <1>6, CheckQueuesKeep
<1> QED BY <1>1, <1>7 DEF timerEvent, CheckedQueues, S

-----------------------------------------------------------------------------
(* The actions *)

LEMMA BecomesCalm ==
  ASSUME NEW s \in Calm({}), Becomes(s)
  PROVE  (Now \in Calm({}))'
<1>1. s = [job |-> s.job, queue |-> s.queue, scheduler |-> s.scheduler]
  BY CalmFacts DEF State
<1>2. Now' = s BY <1>1 DEF Now, Becomes
<1> QED BY <1>2 DEF Calm

(* What suspends the scheduler, connects it or gives it another limit may disturb every
   queue. *)
LEMMA Disturbed ==
  ASSUME NEW s \in Calm({}), NEW c \in SchedulerObject,
         c.queues = s.scheduler.queues, c.failed = s.scheduler.failed,
         NEW t, t = [s EXCEPT !.scheduler = c]
  PROVE  /\ t \in Calm(Queues) /\ t.scheduler = c
         /\ ~shouldUpdate(t) => t \in Calm({})
<1>1. s \in Sound /\ s \in SameLists(s) /\ s \in State BY CalmFacts
<1>2. t \in SameLists(s) BY <1>1, SchedulerWritten
<1>3. t \in Sound BY <1>1, <1>2, SoundKept
<1>4. t.job = s.job /\ t.scheduler = c BY <1>1 DEF State
<1> QED BY <1>3, <1>4, Zenon DEF Calm

(* One job is written that the scheduler treats as it did. *)
LEMMA JobWrittenCalm ==
  ASSUME OnlyKio, NEW s \in Calm({}), NEW j \in Jobs, NEW r \in Job, Consistent(j, r),
         r.status = s.job[j].status, r.policy = s.job[j].policy, r.error = s.job[j].error,
         r.queue = s.job[j].queue, r.moving = s.job[j].moving,
         NEW t, t = [s EXCEPT !.job = [s.job EXCEPT ![j] = r]]
  PROVE  t \in Calm({})
<1>1. s \in State /\ s \in Sound /\ s \in SameLists(s) /\ s \in Writing(s, j)
  BY CalmFacts, InOrderWhileWriting
<1>2. t \in SameLists(s)
  <2>1. r \in Job /\ r.queue = s.job[j].queue OBVIOUS
  <2>2. [s EXCEPT !.job = [s.job EXCEPT ![j] = r]] \in SameLists(s)
    BY <1>1, <2>1, RecordWritten, Zenon
  <2> QED BY <2>2
<1>3. t \in Sound BY <1>1, <1>2, SoundKept
<1>4. t.queue = s.queue /\ t.scheduler = s.scheduler /\ t.job = [s.job EXCEPT ![j] = r]
  BY <1>1 DEF State
<1>5. t.job[j] = r /\ \A k \in Jobs : k # j => t.job[k] = s.job[k]
  BY <1>1, <1>4 DEF State
<1>6. Alike(s, t, j) BY <1>4, <1>5 DEF Alike, shouldBeRunning, Failing
<1>7. ASSUME NEW k \in Jobs PROVE Alike(s, t, k)
  BY <1>4, <1>5, <1>6, SameIsAlike, Zenon
<1>8. \A k \in Jobs : Plain(t.job[k]) /\ Known(t.scheduler.failed[k])
  BY <1>4, <1>5 DEF Calm, Plain
<1>9. \A q \in Queues : \A k \in ToSet(s.queue[q].jobs) : Alike(s, t, k) BY <1>7, CalmFacts
<1>10. t \in Calm({} \cup {}) BY <1>3, <1>4, <1>8, <1>9, CalmWritten, Zenon
<1> QED BY <1>10

LEMMA NowIsCalm ==
  ASSUME Now \in Calm({})
  PROVE  /\ Now \in Sound /\ Now \in State /\ Now.job = job /\ Now.queue = queue
         /\ Now.scheduler = scheduler /\ scheduler \in SchedulerObject
         /\ \A j \in Jobs : job[j] \in Job /\ Consistent(j, job[j]) /\ job[j].queue \in Queues
<1>1. Now \in Sound BY CalmFacts
<1> QED BY <1>1, NowFacts

(* No listed transfer changes its group.  TransferTreeModel::moveTransfer updates both
   groups before it writes m_jobQueue, so that a queue may wait for an update when
   the groups are not of the same status. *)
SameGroups == \A j \in Listed : job'[j].queue = job[j].queue

(* Within its group, that is, a transfer moves when it moves at all. *)
LEMMA MovesInItsGroup ==
  ASSUME Now \in Sound, SameGroups, NEW j \in Jobs, NEW dest \in Queues,
         NEW after \in Jobs \cup {"front"}, MoveTransfer(j, dest, after)
  PROVE  dest = Now.job[j].queue
<1>1. j \in Listed /\ Becomes(moveTransfer(Now, j, dest, after)) BY DEF MoveTransfer, Handles
<1>2. after # "front" => after \in ToSet(Now.queue[dest].jobs)
  <2>1. Now.queue[dest].jobs \in Seq(Jobs) BY OnceInSound DEF Once
  <2>2. JobsOf(dest) = ToSet(Now.queue[dest].jobs) BY <2>1, Distinct DEF JobsOf, Now
  <2> QED BY <2>2 DEF MoveTransfer, Handles
<1>3. j \in ToSet(Now.queue[Now.job[j].queue].jobs) /\ Now.job = job
  BY <1>1, ListedFacts, NowFacts
<1> SUFFICES ASSUME dest # Now.job[j].queue PROVE FALSE
  OBVIOUS
<1> SUFFICES ASSUME NEW v, v = moveTransfer(Now, j, dest, after) PROVE FALSE
  OBVIOUS
<1>4. v \in State
  <2>1. v \in Sound BY <1>2, <1>3, MoveTransferSound
  <2> QED BY <2>1 DEF Sound, InOrder
<1>5. \E u : v = [u EXCEPT !.job[j].queue = dest] BY Zenon DEF moveTransfer
<1>6. v.job[j].queue = dest
  <2>1. PICK u : v = [u EXCEPT !.job[j].queue = dest] BY <1>5, Zenon
  <2>2. DOMAIN v = DOMAIN u /\ DOMAIN v = {"job", "queue", "scheduler"}
    BY <1>4, <2>1 DEF State
  <2>3. v.job = [u.job EXCEPT ![j].queue = dest] BY <2>1, <2>2
  <2>4. DOMAIN v.job = Jobs /\ v.job[j] \in Job BY <1>4 DEF State
  <2>5. v.job[j] = [u.job[j] EXCEPT !.queue = dest] BY <2>3, <2>4
  <2>6. "queue" \in DOMAIN v.job[j] BY <2>4 DEF Job
  <2>7. DOMAIN v.job[j] = DOMAIN u.job[j] BY <2>5
  <2> QED BY <2>5, <2>6, <2>7
<1>7. job'[j].queue = dest BY <1>1, <1>6 DEF Becomes
<1> QED BY <1>1, <1>3, <1>7 DEF SameGroups

LEMMA UserActsCalm ==
  ASSUME OnlyKio, Now \in Calm({}), UserActs, SameGroups
  PROVE  (Now \in Calm({}))'
<1>1. Now \in Sound BY NowIsCalm
<1>2. ASSUME NEW j \in Jobs, NEW q \in Queues, AddTransfer(j, q) PROVE (Now \in Calm({}))'
  <2> SUFFICES ASSUME NEW s, s = [Now EXCEPT !.job[j] = NewJob(q)] PROVE (Now \in Calm({}))'
    BY Zenon
  <2>1. j \notin Listed /\ Becomes(append(s, q, j)) BY <1>2 DEF AddTransfer
  <2>2. \A p \in Queues : j \notin ToSet(Now.queue[p].jobs) BY <1>1, <2>1, ListedFacts
  <2>3. s \in Calm({}) /\ s.queue = Now.queue /\ s.job[j].queue = q
    <3>1. s \in Calm({}) BY <2>2, UnlistedCalm
    <3>2. s.queue = Now.queue BY <2>2, UnlistedCalm
    <3>3. s.job[j].queue = q BY <2>2, UnlistedCalm
    <3> QED BY <3>1, <3>2, <3>3
  <2>4. append(s, q, j) \in Calm({}) BY <2>2, <2>3, AppendCalm, Zenon
  <2> QED BY <2>1, <2>4, BecomesCalm
<1>3. ASSUME NEW j \in Jobs, DeleteTransfer(j) PROVE (Now \in Calm({}))'
  <2> SUFFICES ASSUME NEW q, q = job[j].queue, NEW r, r = remove(Now, q, j)
               PROVE  (Now \in Calm({}))'
    OBVIOUS
  <2>1. q \in Queues BY NowIsCalm
  <2>2. r \in Calm({}) BY <2>1, RemoveCalm
  <2>3. \A p \in Queues : r.queue[p].jobs = IF p = q THEN Without(Now.queue[q].jobs, j)
                                            ELSE Now.queue[p].jobs
    <3>1. \A p \in Queues : remove(Now, q, j).queue[p].jobs =
              IF p = q THEN Without(Now.queue[q].jobs, j) ELSE Now.queue[p].jobs
      BY <1>1, <2>1, RemoveSound, Zenon
    <3> QED BY <3>1
  <2>4. j \notin ToSet(Without(Now.queue[q].jobs, j)) BY <1>1, <2>1, OnceInSound, WithoutFacts
  <2>5. \A p \in Queues : p # q => j \notin ToSet(Now.queue[p].jobs)
    BY <1>1, NowIsCalm DEF Sound
  <2>6. \A p \in Queues : j \notin ToSet(r.queue[p].jobs) BY <2>3, <2>4, <2>5
  <2>7. [r EXCEPT !.job[j] = NewJob(q)] \in Calm({}) BY <2>1, <2>2, <2>6, UnlistedCalm
  <2>8. Becomes([r EXCEPT !.job[j] = NewJob(q)]) BY <1>3 DEF DeleteTransfer
  <2> QED BY <2>7, <2>8, BecomesCalm
<1>4. ASSUME NEW j \in Jobs, StartTransfer(j) PROVE (Now \in Calm({}))'
  <2>1. handlerStart(Now, j) \in Calm({})
    BY <1>1, <1>4, ListedFacts, HandlerStartCalm DEF StartTransfer, Handles
  <2> QED BY <1>4, <2>1, BecomesCalm DEF StartTransfer, Handles
<1>5. ASSUME NEW j \in Jobs, StopTransfer(j) PROVE (Now \in Calm({}))'
  <2>1. handlerStop(Now, j) \in Calm({}) BY HandlerStopCalm
  <2> QED BY <1>5, <2>1, BecomesCalm DEF StopTransfer, Handles
<1>6. ASSUME NEW j \in Jobs, NEW dest \in Queues, NEW after \in Jobs \cup {"front"},
             MoveTransfer(j, dest, after)
      PROVE  (Now \in Calm({}))'
  <2>1. j \in Listed /\ Becomes(moveTransfer(Now, j, dest, after)) BY <1>6 DEF MoveTransfer, Handles
  <2>2. after # "front" => after \in ToSet(Now.queue[dest].jobs)
    <3>1. Now.queue[dest].jobs \in Seq(Jobs) BY <1>1, OnceInSound DEF Once
    <3>2. JobsOf(dest) = ToSet(Now.queue[dest].jobs) BY <3>1, Distinct DEF JobsOf, Now
    <3> QED BY <1>6, <3>2 DEF MoveTransfer, Handles
  <2>3. j \in ToSet(Now.queue[Now.job[j].queue].jobs) /\ Now.job = job
    BY <1>1, <2>1, ListedFacts, NowIsCalm
  <2>4. dest = Now.job[j].queue BY <1>1, <1>6, MovesInItsGroup
  <2>5. moveTransfer(Now, j, dest, after) \in Calm({}) BY <2>2, <2>3, <2>4, MoveCalm
  <2> QED BY <2>1, <2>5, BecomesCalm
<1>7. ASSUME NEW q \in Queues, NEW status \in JobQueueStatus, SetQueueStatus(q, status)
      PROVE  (Now \in Calm({}))'
  BY <1>7, SetQueueStatusCalm, BecomesCalm DEF SetQueueStatus, Handles
<1>8. ASSUME NEW suspended \in BOOLEAN, SetIsSuspended(suspended) PROVE (Now \in Calm({}))'
  <2> SUFFICES ASSUME NEW s, s = [Now EXCEPT !.scheduler.suspended = suspended],
                      NEW c, c = [scheduler EXCEPT !.suspended = suspended]
               PROVE  (Now \in Calm({}))'
    BY Zenon
  <2>1. /\ c \in SchedulerObject /\ c.queues = scheduler.queues /\ c.failed = scheduler.failed
        /\ suspended = scheduler.suspended => c = scheduler
    BY NowIsCalm DEF SchedulerObject
  <2>2. s = [Now EXCEPT !.scheduler = c] BY NowIsCalm
  <2>3. Now.scheduler = scheduler BY NowIsCalm
  <2> DEFINE Written(x) == x \in Calm(Queues) /\ (~shouldUpdate(x) => x \in Calm({}))
  <2>4. Written(s)
    <3>1. /\ c \in SchedulerObject /\ c.queues = Now.scheduler.queues
          /\ c.failed = Now.scheduler.failed /\ s = [Now EXCEPT !.scheduler = c]
      BY <2>1, <2>2, <2>3
    <3>2. Now \in Calm({}) OBVIOUS
    <3> HIDE DEF Written
    <3>3. s \in Calm(Queues) BY ONLY <3>1, <3>2, Disturbed
    <3>4. ~shouldUpdate(s) => s \in Calm({}) BY ONLY <3>1, <3>2, Disturbed
    <3> QED BY <3>3, <3>4 DEF Written
  <2>5. s \in Calm(Queues) /\ (~shouldUpdate(s) => s \in Calm({})) BY <2>4
  <2> HIDE DEF Written
  <2>6. updateAllQueues(s) \in Calm({}) BY <2>5, UpdateAllCalm
  <2>7. suspended = scheduler.suspended => s = Now
    BY <2>1, <2>2, <2>3, NowIsCalm DEF State
  <2>8. Becomes(IF suspended # scheduler.suspended /\ shouldUpdate(s)
                THEN updateAllQueues(s) ELSE s)
    BY <1>8 DEF SetIsSuspended, Handles
  <2>9. CASE suspended # scheduler.suspended /\ shouldUpdate(s)
    BY <2>6, <2>8, <2>9, BecomesCalm
  <2>10. CASE ~(suspended # scheduler.suspended /\ shouldUpdate(s))
    <3>1. s \in Calm({}) BY <2>5, <2>7, <2>10
    <3> QED BY <2>8, <2>10, <3>1, BecomesCalm
  <2> QED BY <2>9, <2>10
<1>9. ASSUME NEW limit \in Limits, SettingsChanged(limit) PROVE (Now \in Calm({}))'
  <2> SUFFICES ASSUME NEW s, s = [Now EXCEPT !.scheduler.maxConnections = limit],
                      NEW c, c = [scheduler EXCEPT !.maxConnections = limit]
               PROVE  (Now \in Calm({}))'
    BY Zenon
  <2>1. c \in SchedulerObject /\ c.queues = scheduler.queues /\ c.failed = scheduler.failed
    BY NowIsCalm, LimitsAssumption DEF SchedulerObject
  <2>2. s = [Now EXCEPT !.scheduler = c] /\ Now.scheduler = scheduler BY NowIsCalm
  <2>3. s \in Calm(Queues) BY <2>1, <2>2, Disturbed, ZenonT(30)
  <2>4. updateAllQueues(s) \in Calm({}) BY <2>3, UpdateAllCalm
  <2> QED BY <1>9, <2>4, BecomesCalm DEF SettingsChanged, Handles
<1> QED BY <1>2, <1>3, <1>4, <1>5, <1>6, <1>7, <1>8, <1>9 DEF UserActs

LEMMA NetworkActsCalm ==
  ASSUME OnlyKio, Now \in Calm({}), NetworkActs
  PROVE  (Now \in Calm({}))'
<1>1. ASSUME NEW connected \in BOOLEAN, NEW timer \in BOOLEAN,
             NEW s, s = [Now EXCEPT !.scheduler.connected = connected, !.scheduler.timer = timer]
      PROVE  /\ s \in Calm(Queues) /\ s.scheduler.queues = scheduler.queues
             /\ s.scheduler.connected = connected
             /\ ~shouldUpdate(s) => s \in Calm({})
  <2> SUFFICES ASSUME NEW c, c = [scheduler EXCEPT !.connected = connected, !.timer = timer]
               PROVE  /\ s \in Calm(Queues) /\ s.scheduler.queues = scheduler.queues
                      /\ s.scheduler.connected = connected
                      /\ ~shouldUpdate(s) => s \in Calm({})
    OBVIOUS
  <2>1. /\ c \in SchedulerObject /\ c.queues = scheduler.queues /\ c.failed = scheduler.failed
        /\ c.connected = connected
    BY NowIsCalm, Zenon DEF SchedulerObject
  <2>2. s = [Now EXCEPT !.scheduler = c] /\ Now.scheduler = scheduler BY <1>1, NowIsCalm, Zenon
  <2>3. s \in Calm(Queues) BY <2>1, <2>2, Disturbed, ZenonT(30)
  <2>4. s.scheduler = c BY <2>1, <2>2, Disturbed
  <2>5. ~shouldUpdate(s) => s \in Calm({}) BY <2>1, <2>2, Disturbed, Zenon
  <2> QED BY <2>1, <2>3, <2>4, <2>5
<1>2. CASE LoseConnection
  <2> SUFFICES ASSUME NEW s, s = [Now EXCEPT !.scheduler.connected = FALSE,
                                             !.scheduler.timer = FALSE],
                      NEW u, u = StoppedQueues(s, s.scheduler.queues)
               PROVE  (Now \in Calm({}))'
    OBVIOUS
  <2>1. s \in Calm(Queues) /\ s.scheduler.queues = scheduler.queues /\ ~s.scheduler.connected
    BY <1>1, Zenon
  <2>2. s \in Offline(s, {}) /\ s.scheduler.queues = QueueOrder /\ s \in Sound
    <3>1. s \in Sound /\ s \in SameLists(s) BY <2>1, CalmFacts
    <3>2. /\ s.scheduler.queues = QueueOrder
          /\ \A j \in Jobs : Plain(s.job[j]) /\ Known(s.scheduler.failed[j])
      BY <2>1, Zenon DEF Calm
    <3> QED BY <2>1, <3>1, <3>2, Zenon DEF Offline
  <2>3. u \in Offline(s, UNION {ToSet(s.queue[q].jobs) : q \in Queues}) BY <2>2, OfflineAll, ZenonT(30)
  <2>4. u \in Offline(s, {}) BY <2>3 DEF Offline
  <2>5. u \in Sound BY <2>2, <2>4, SoundKept DEF Offline
  <2>6. u \in Calm({}) BY <2>4, <2>5 DEF Offline, Calm, shouldUpdate
  <2>7. Becomes(u) BY <1>2, <2>1 DEF LoseConnection, Handles, StoppedQueues
  <2> QED BY <2>6, <2>7, BecomesCalm
<1>3. CASE GainConnection
  <2> SUFFICES ASSUME NEW s, s = [Now EXCEPT !.scheduler.connected = TRUE,
                                             !.scheduler.timer = TRUE]
               PROVE  (Now \in Calm({}))'
    OBVIOUS
  <2>1. s \in Calm(Queues) BY <1>1, Zenon
  <2>2. updateAllQueues(s) \in Calm({}) BY <2>1, UpdateAllCalm
  <2> QED BY <1>3, <2>2, BecomesCalm DEF GainConnection, Handles
<1> QED BY <1>2, <1>3 DEF NetworkActs

(* What a transfer reports: its status first, and the rest when the scheduler has
   updated its queue. *)
LEMMA KioActsCalm ==
  ASSUME OnlyKio, ~FilesMove, Now \in Calm({}), KioActs
  PROVE  (Now \in Calm({}))'
<1>1. ASSUME NEW j \in Jobs, NEW s \in Calm({}), NEW r,
             \/ r = [s.job[j] EXCEPT !.worker = "none"]
             \/ r = [s.job[j] EXCEPT !.speed = FALSE, !.worker = "none"]
      PROVE  [s EXCEPT !.job = [s.job EXCEPT ![j] = r]] \in Calm({})
  <2>1. s.job[j] \in Job /\ Plain(s.job[j]) /\ Kind[j] = "kio" BY CalmFacts DEF OnlyKio
  <2>2. /\ r \in Job /\ r.status = s.job[j].status /\ r.policy = s.job[j].policy
        /\ r.error = s.job[j].error /\ r.queue = s.job[j].queue
        /\ r.moving = s.job[j].moving /\ r.worker = "none"
    BY <1>1, <2>1, Zenon DEF Job, Worker
  <2>3. Consistent(j, r) BY <2>1, <2>2 DEF Consistent, Plain
  <2> QED BY <2>2, <2>3, JobWrittenCalm
<1>2. ASSUME NEW j \in Jobs, KioFinished(j) PROVE (Now \in Calm({}))'
  <2> SUFFICES ASSUME NEW s, s = setStatus(Now, j, "Finished"), NEW r,
                      r = [s.job[j] EXCEPT !.speed = FALSE, !.worker = "none"]
               PROVE  (Now \in Calm({}))'
    BY Zenon
  <2>1. s \in Calm({}) BY SetStatusCalm
  <2>2. [s EXCEPT !.job[j].speed = FALSE, !.job[j].worker = "none"]
        = [s EXCEPT !.job = [s.job EXCEPT ![j] = r]]
    BY <2>1, CalmFacts, Zenon DEF State
  <2>3. [s EXCEPT !.job = [s.job EXCEPT ![j] = r]] \in Calm({}) BY <1>1, <2>1, Zenon
  <2> QED BY <1>2, <2>2, <2>3, BecomesCalm DEF KioFinished, Handles
<1>3. ASSUME NEW j \in Jobs, KioFailed(j) PROVE (Now \in Calm({}))'
  <2> SUFFICES ASSUME NEW s, s = setStatus(Now, j, "Aborted"), NEW r,
                      r = [s.job[j] EXCEPT !.worker = "none"]
               PROVE  (Now \in Calm({}))'
    BY Zenon
  <2>1. s \in Calm({}) BY SetStatusCalm
  <2>2. [s EXCEPT !.job[j].worker = "none"] = [s EXCEPT !.job = [s.job EXCEPT ![j] = r]]
    BY <2>1, CalmFacts DEF State
  <2>3. [s EXCEPT !.job = [s.job EXCEPT ![j] = r]] \in Calm({}) BY <1>1, <2>1, Zenon
  <2> QED BY <1>3, <2>2, <2>3, BecomesCalm DEF KioFailed, Handles
<1>4. ASSUME NEW j \in Jobs PROVE ~KioMoves(j) /\ ~KioMoved(j)
  <2>1. ~job[j].moving BY CalmFacts, NowIsCalm DEF Plain
  <2> QED BY <2>1 DEF KioMoves, KioMoved, Handles
<1> QED BY <1>2, <1>3, <1>4 DEF KioActs

LEMMA SpeedChangesCalm ==
  ASSUME OnlyKio, Now \in Calm({}), NEW j \in Jobs, SpeedChanges(j)
  PROVE  (Now \in Calm({}))'
<1> SUFFICES ASSUME NEW r, r = [job[j] EXCEPT !.speed = ~@],
                    NEW t, t = [Now EXCEPT !.job = [Now.job EXCEPT ![j] = r]]
             PROVE  (Now \in Calm({}))'
  BY Zenon
<1>1. job[j] \in Job /\ Consistent(j, job[j]) /\ Now.job = job /\ Now \in State BY NowIsCalm
<1>2. /\ r \in Job /\ r.status = job[j].status /\ r.policy = job[j].policy
      /\ r.error = job[j].error /\ r.queue = job[j].queue /\ r.moving = job[j].moving
      /\ r.worker = job[j].worker /\ r.obstacle = job[j].obstacle
  BY <1>1, Zenon DEF Job
<1>3. Consistent(j, r) BY <1>1, <1>2 DEF Consistent
<1>4. t \in Calm({}) BY <1>1, <1>2, <1>3, JobWrittenCalm, Zenon
<1>5. Becomes(t) BY <1>1 DEF SpeedChanges, Handles
<1> QED BY <1>4, <1>5, BecomesCalm

LEMMA InitCalm ==
  ASSUME OnlyKio, Init
  PROVE  Now \in Calm({})
<1>1. Now \in Sound /\ Now \in State BY InitSound, NowIsSound DEF Sound, InOrder
<1>2. \A q \in Queues : Now.queue[q].jobs = <<>> BY DEF Init, Now
<1>3. \A q \in Queues : ToSet(Now.queue[q].jobs) = {} BY <1>2 DEF ToSet
<1>4. \A q \in Queues : Rests(Now, q) BY <1>1, <1>3, IdleRests
<1>5. \A j \in Jobs : Plain(Now.job[j])
  <2>1. \A j \in Jobs : \E q \in Queues : Now.job[j] = NewJob(q) BY DEF Init, Now
  <2>2. \A q \in Queues : Plain(NewJob(q)) BY DEF Plain, NewJob
  <2> QED BY <2>1, <2>2
<1>6. Now.scheduler.queues = QueueOrder /\ \A j \in Jobs : Known(Now.scheduler.failed[j])
  BY DEF Init, Now, Known
<1> QED BY <1>1, <1>4, <1>5, <1>6 DEF Calm

(* Without transfers of other plugins their actions do not happen. *)
LEMMA OtherPluginsRest ==
  ASSUME OnlyKio
  PROVE  /\ ~MultiActs /\ ~BtActs
         /\ ~ \E j \in Jobs, obstacle \in Obstacles : ObstacleChanges(j, obstacle)
<1>1. \A j \in Jobs : Kind[j] \notin {"multiseg", "bt"} BY DEF OnlyKio
<1>2. ~MultiActs BY <1>1, ZenonT(30) DEF MultiActs, FileOpened, MultiFinished, MultiMoves, MultiMoved, Handles
<1>3. ~BtActs
  <2>1. ASSUME NEW j \in Jobs, NEW again \in BOOLEAN, TorrentFetched(j, again) PROVE FALSE
    <3>1. Kind[j] = "bt" BY <2>1, Zenon DEF TorrentFetched, Handles
    <3> QED BY <1>1, <3>1
  <2>2. \A j \in Jobs : ~TorrentFinished(j) /\ ~TorrentError(j)
    BY <1>1, Zenon DEF TorrentFinished, TorrentError, Handles
  <2>3. \A j \in Jobs : ~TorrentMoves(j) /\ ~TorrentMoved(j)
    BY <1>1, Zenon DEF TorrentMoves, TorrentMoved, Handles
  <2> QED BY <2>1, <2>2, <2>3 DEF BtActs
<1>4. \A j \in Jobs, obstacle \in Obstacles : ~ObstacleChanges(j, obstacle)
  BY <1>1 DEF ObstacleChanges, Handles
<1> QED BY <1>2, <1>3, <1>4

LEMMA NextCalm ==
  ASSUME OnlyKio, ~FilesMove
  PROVE  Now \in Calm({}) /\ [Next /\ SameGroups]_vars => (Now \in Calm({}))'
<1> SUFFICES ASSUME Now \in Calm({}), [Next /\ SameGroups]_vars PROVE (Now \in Calm({}))'
  OBVIOUS
<1>1. ASSUME Tick PROVE (Now \in Calm({}))'
  BY <1>1, TimerCalm, BecomesCalm DEF Tick, Handles
<1>2. ASSUME UNCHANGED vars PROVE (Now \in Calm({}))'
  <2>1. Becomes(Now) BY <1>2 DEF vars, Now, Becomes
  <2> QED BY <2>1, BecomesCalm
<1> QED BY <1>1, <1>2, OtherPluginsRest, UserActsCalm, NetworkActsCalm, KioActsCalm, SpeedChangesCalm
        DEF Next, Events

LEMMA CalmIsSettled ==
  Now \in Calm({}) => Settled
<1>1. ASSUME Now \in Calm({}), shouldUpdate(Now), NEW q \in Queues
      PROVE  updateQueue(Now, q) = Now
  <2>1. Rests(Now, q) /\ Now \in InOrder BY <1>1, CalmFacts DEF Calm
  <2> QED BY <2>1, RestingIsSettled
<1> QED BY <1>1 DEF Settled

(* Whatever the users, the network, the servers and the timer do, no event leaves a
   TransferKio download waiting for an update that nobody makes, as long as the
   downloads stay in their groups. *)
THEOREM SettledInTheirGroups ==
  ASSUME OnlyKio, ~FilesMove
  PROVE  Init /\ [][Next /\ SameGroups]_vars => []Settled
<1>1. Init => Now \in Calm({}) BY InitCalm
<1>2. Now \in Calm({}) /\ [Next /\ SameGroups]_vars => (Now \in Calm({}))' BY NextCalm
<1> QED BY <1>1, <1>2, CalmIsSettled, PTL

LEMMA OneGroupStays ==
  ASSUME \A p, q \in Queues : p = q
  PROVE  Inv /\ Inv' /\ [Next]_vars => [Next /\ SameGroups]_vars
<1> SUFFICES ASSUME Inv, Inv', NEW j \in Listed PROVE job'[j].queue = job[j].queue
  BY DEF SameGroups
<1>1. j \in Jobs BY ListedAreJobs DEF Inv
<1>2. job[j].queue \in Queues /\ job'[j].queue \in Queues
  BY <1>1 DEF Inv, TypeOK, Job
<1> QED BY <1>2

(* With one group, nothing is left out. *)
THEOREM SettledAlways ==
  ASSUME OnlyKio, ~FilesMove, \A p, q \in Queues : p = q
  PROVE  Spec => []Settled
<1>1. Inv /\ Inv' /\ [Next]_vars => [Next /\ SameGroups]_vars BY OneGroupStays
<1> QED BY <1>1, InvAlways, SettledInTheirGroups, PTL DEF Spec

-----------------------------------------------------------------------------
(* A transfer that is added or removed interrupts no other (AddAndRemoveInterruptNobody):
   in a resting queue the walk over the list with one job more or less lets be
   every job that is active. *)

(* c counts no more than d. *)
NoFuller(c, d) == c.running <= d.running /\ c.running + c.waiting <= d.running + d.waiting

LEMMA NoFullerHasRoom ==
  ASSUME NEW s \in State, NEW c \in Load, NEW d \in Load, NoFuller(c, d), HasRoom(Loaded(s, d))
  PROVE  HasRoom(Loaded(s, c))
<1>1. maxSimultaneousJobs(s) \in Nat
  BY DEF maxSimultaneousJobs, State, SchedulerObject
<1> QED BY <1>1 DEF Load, Loaded, NoFuller, HasRoom

LEMMA NoFullerTransitive ==
  ASSUME NEW c \in Load, NEW d \in Load, NEW e \in Load, NoFuller(c, d), NoFuller(d, e)
  PROVE  NoFuller(c, e)
BY DEF NoFuller, Load

(* An active job that a walk lets be is one that shall run and for which there is
   room, and it is let be when there is more. *)
LEMMA LetBe ==
  ASSUME OnlyKio, NEW s \in State, NEW j \in Jobs, Plain(s.job[j]), NEW c \in Load, NEW d \in Load,
         Evaluate(Loaded(s, c), j) = Loaded(s, d)
  PROVE  /\ NoFuller(c, d)
         /\ ~HasRoom(Loaded(s, c)) => d = c /\ ~Active(s, j)
         /\ HasRoom(Loaded(s, c)) =>
                \A b \in Load : NoFuller(b, c) =>
                    \E e \in Load : NoFuller(e, d) /\ Evaluate(Loaded(s, b), j) = Loaded(s, e)
<1> SUFFICES ASSUME NEW w, w = Loaded(s, c)
             PROVE  /\ NoFuller(c, d)
                    /\ ~HasRoom(w) => d = c /\ ~Active(s, j)
                    /\ HasRoom(w) =>
                           \A b \in Load : NoFuller(b, c) =>
                               \E e \in Load : /\ NoFuller(e, d)
                                               /\ Evaluate(Loaded(s, b), j) = Loaded(s, e)
  OBVIOUS
<1>1. /\ w.s = s /\ w.running = c.running /\ w.waiting = c.waiting
      /\ w = [s |-> s, running |-> c.running, waiting |-> c.waiting]
      /\ Evaluate(w, j) = [s |-> s, running |-> d.running, waiting |-> d.waiting]
  BY DEF Loaded
<1>2. /\ Kind[j] = "kio" /\ StopQuiet(s, j) = KioStop(s, j) /\ StartQuiet(s, j) = KioStart(s, j)
  BY DEF OnlyKio, StopQuiet, StartQuiet
<1>3. ASSUME c.running = d.running, c.waiting = d.waiting PROVE d = c /\ NoFuller(c, d)
  BY <1>3 DEF Load, NoFuller
<1>4. CASE ~HasRoom(w) \/ (Active(s, j) /\ ~shouldBeRunning(s, j))
  <2>1. Evaluate(w, j) = [w EXCEPT !.s = KioStop(s, j)] BY <1>1, <1>2, <1>4 DEF Evaluate
  <2>2. KioStop(s, j) = s /\ c.running = d.running /\ c.waiting = d.waiting
    BY <1>1, <2>1
  <2>3. s.job[j].status \in {"Stopped", "Finished"}
    <3>1. KioStop(s, j).job[j].status
              = IF s.job[j].status = "Finished" THEN "Finished" ELSE "Stopped"
      BY KioTouches, Zenon
    <3> QED BY <2>2, <3>1
  <2>4. ~Active(s, j) BY <2>3 DEF Active
  <2> QED BY <1>3, <1>4, <2>2, <2>4
<1>5. CASE HasRoom(w) /\ ~Active(s, j) /\ ~shouldBeRunning(s, j)
  <2>1. Evaluate(w, j) = w BY <1>1, <1>5 DEF Evaluate
  <2>2. d = c /\ NoFuller(c, d) BY <1>1, <1>3, <2>1
  <2>3. ASSUME NEW b \in Load, NoFuller(b, c) PROVE Evaluate(Loaded(s, b), j) = Loaded(s, b)
    <3> SUFFICES ASSUME NEW v, v = Loaded(s, b) PROVE Evaluate(v, j) = v
      OBVIOUS
    <3>1. v.s = s BY DEF Loaded
    <3>2. HasRoom(v) BY <1>5, <2>3, NoFullerHasRoom
    <3> QED BY <1>5, <3>1, <3>2 DEF Evaluate
  <2> QED BY <1>5, <2>2, <2>3
<1>6. CASE HasRoom(w) /\ Active(s, j) /\ shouldBeRunning(s, j)
  <2>1. Evaluate(w, j) = Counted(w, Failing(s, j)) BY <1>1, <1>6 DEF Evaluate
  <2>2. d.running = (IF Failing(s, j) THEN c.running ELSE c.running + 1)
        /\ d.waiting = IF Failing(s, j) THEN c.waiting + 1 ELSE c.waiting
    BY <1>1, <2>1 DEF Counted
  <2>3. NoFuller(c, d) BY <2>2 DEF NoFuller, Load
  <2>4. ASSUME NEW b \in Load, NoFuller(b, c)
        PROVE  \E e \in Load : NoFuller(e, d) /\ Evaluate(Loaded(s, b), j) = Loaded(s, e)
    <3> SUFFICES ASSUME NEW v, v = Loaded(s, b),
                        NEW e, e = [running |-> IF Failing(s, j) THEN b.running ELSE b.running + 1,
                                    waiting |-> IF Failing(s, j) THEN b.waiting + 1 ELSE b.waiting]
                 PROVE  e \in Load /\ NoFuller(e, d) /\ Evaluate(v, j) = Loaded(s, e)
      BY Zenon
    <3>1. v.s = s /\ v = [s |-> s, running |-> b.running, waiting |-> b.waiting] BY DEF Loaded
    <3>2. HasRoom(v) BY <1>6, <2>4, NoFullerHasRoom
    <3>3. Evaluate(v, j) = Counted(v, Failing(s, j)) BY <1>6, <3>1, <3>2 DEF Evaluate
    <3>4. Counted(v, Failing(s, j)) = Loaded(s, e) BY <3>1 DEF Counted, Loaded
    <3>5. e \in Load BY DEF Load
    <3>6. NoFuller(e, d) BY <2>2, <2>4 DEF NoFuller, Load
    <3> QED BY <3>3, <3>4, <3>5, <3>6
  <2> QED BY <1>6, <2>3, <2>4
<1>7. CASE HasRoom(w) /\ ~Active(s, j) /\ shouldBeRunning(s, j)
  <2> SUFFICES ASSUME NEW u, u = KioStart(s, j) PROVE FALSE
    OBVIOUS
  <2>1. u.job[j].status = "Running" BY <1>7, KioTouches, Zenon DEF shouldBeRunning, Plain
  <2>2. \E waits : Evaluate(w, j) = Counted([w EXCEPT !.s = u], waits)
    BY <1>1, <1>2, <1>7 DEF Evaluate
  <2>3. \A waits : Counted([w EXCEPT !.s = u], waits).s = u BY <1>1 DEF Counted
  <2>4. u = s BY <1>1, <2>2, <2>3
  <2> QED BY <1>7, <2>1, <2>4 DEF Active
<1> QED BY <1>4, <1>5, <1>6, <1>7

(* A walk over a list of which d bounds what it counts: it lets the jobs be one after the
   other, until there is no room left and no active job ahead. *)
Spares(s, list, d) ==
    \A n \in 1 .. Len(list) :
        \/ \E e \in Load : Evaluate(Loaded(s, d[n - 1]), list[n]) = Loaded(s, e) /\ NoFuller(e, d[n])
        \/ ~Active(s, list[n]) /\ ~HasRoom(Loaded(s, d[n]))

LEMMA WalkSpares ==
  ASSUME OnlyKio, NEW s \in InOrder, \A j \in Jobs : Plain(s.job[j]), NEW list \in Seq(Jobs),
         NEW d \in [0 .. Len(list) -> Load], Spares(s, list, d)
  PROVE  \A k \in Jobs : Active(s, k) => Walk(s, list).s.job[k].status = s.job[k].status
<1>1. s \in SameLists(s) /\ s \in State BY SameListsOfItself DEF InOrder
<1>2. PICK walk : /\ walk[0] = WalkStart(s) /\ Walk(s, list) = walk[Len(list)]
                  /\ \A n \in 1 .. Len(list) : walk[n] = Evaluate(walk[n - 1], list[n])
                  /\ \A n \in 0 .. Len(list) : walk[n] \in WalkState(s)
  BY <1>1, WalkLoop
<1> DEFINE N == Len(list)
           Kept(w) == \A k \in Jobs : Active(s, k) => w.s.job[k].status = s.job[k].status
           Within(w, n) == \E f \in Load : NoFuller(f, d[n]) /\ w = Loaded(s, f)
           Full(w, n) == ~HasRoom(Loaded(s, d[n])) /\ Kept(w)
           F == [n \in Nat |-> {w \in WalkState(s) : Within(w, n) \/ Full(w, n)}]
<1>3. N \in Nat /\ \A n \in 1 .. N : list[n] \in Jobs /\ n - 1 \in 0 .. N /\ n \in 0 .. N
  OBVIOUS
<1>4. ASSUME NEW n \in 0 .. N, NEW w, Within(w, n) PROVE Kept(w) BY <1>4 DEF Loaded
<1>5. walk[0] \in F[0]
  <2>1. d[0] \in Load /\ [running |-> 0, waiting |-> 0] \in Load BY <1>3 DEF Load
  <2>2. NoFuller([running |-> 0, waiting |-> 0], d[0]) BY <2>1 DEF Load, NoFuller
  <2>3. walk[0] = Loaded(s, [running |-> 0, waiting |-> 0]) BY <1>2 DEF WalkStart, Loaded
  <2>4. Within(walk[0], 0) BY <2>1, <2>2, <2>3
  <2> HIDE DEF Within, Full
  <2> QED BY <1>2, <1>3, <2>4
<1>6. ASSUME NEW n \in 1 .. N, Within(walk[n - 1], n - 1) \/ Full(walk[n - 1], n - 1)
      PROVE  Within(walk[n], n) \/ Full(walk[n], n)
  <2>1. /\ list[n] \in Jobs /\ walk[n - 1] \in WalkState(s) /\ walk[n] = Evaluate(walk[n - 1], list[n])
        /\ d[n - 1] \in Load /\ d[n] \in Load /\ Plain(s.job[list[n]])
    BY <1>2, <1>3
  <2>2. Kept(walk[n - 1]) BY <1>3, <1>4, <1>6
  <2>3. ASSUME ~Active(s, list[n]) PROVE Kept(walk[n])
    <3>1. walk[n].s \in Touching(walk[n - 1].s, {list[n]}) BY <2>1, EvaluateTouches, Zenon
    <3>2. ASSUME NEW k \in Jobs, Active(s, k) PROVE walk[n].s.job[k] = walk[n - 1].s.job[k]
      <4>1. k \notin {list[n]} BY <2>3, <3>2
      <4> QED BY <3>1, <4>1 DEF Touching
    <3> QED BY <2>2, <3>2
  <2> HIDE DEF Kept
  <2>4. CASE ~Active(s, list[n]) /\ ~HasRoom(Loaded(s, d[n])) BY <2>3, <2>4
  <2>5. ASSUME NEW e \in Load, Evaluate(Loaded(s, d[n - 1]), list[n]) = Loaded(s, e),
               NoFuller(e, d[n])
        PROVE  Within(walk[n], n) \/ Full(walk[n], n)
    <3>1. /\ ~HasRoom(Loaded(s, d[n - 1])) => e = d[n - 1] /\ ~Active(s, list[n])
          /\ HasRoom(Loaded(s, d[n - 1])) =>
                \A b \in Load : NoFuller(b, d[n - 1]) =>
                    \E f \in Load : /\ NoFuller(f, e)
                                    /\ Evaluate(Loaded(s, b), list[n]) = Loaded(s, f)
      BY <1>1, <2>1, <2>5, LetBe
    <3>2. CASE ~HasRoom(Loaded(s, d[n - 1]))
      <4>1. e = d[n - 1] /\ ~Active(s, list[n]) BY <3>1, <3>2
      <4>2. ~HasRoom(Loaded(s, d[n])) BY <1>1, <2>1, <2>5, <3>2, <4>1, NoFullerHasRoom
      <4> QED BY <2>3, <4>1, <4>2
    <3>3. CASE HasRoom(Loaded(s, d[n - 1]))
      <4>1. PICK b \in Load : NoFuller(b, d[n - 1]) /\ walk[n - 1] = Loaded(s, b)
        BY <1>6, <3>3
      <4>2. PICK f \in Load : NoFuller(f, e) /\ Evaluate(Loaded(s, b), list[n]) = Loaded(s, f)
        BY <3>1, <3>3, <4>1
      <4>3. NoFuller(f, d[n]) BY <2>1, <2>5, <4>2, NoFullerTransitive
      <4>4. walk[n] = Loaded(s, f) BY <2>1, <4>1, <4>2
      <4> QED BY <4>3, <4>4
    <3> QED BY <3>2, <3>3
  <2> QED BY <2>4, <2>5 DEF Spares
<1>7. ASSUME NEW n \in 1 .. N, walk[n - 1] \in F[n - 1] PROVE walk[n] \in F[n]
  <2>1. n \in Nat /\ n - 1 \in Nat /\ walk[n] \in WalkState(s) BY <1>2, <1>3
  <2> HIDE DEF Within, Full
  <2>2. Within(walk[n - 1], n - 1) \/ Full(walk[n - 1], n - 1) BY <1>7, <2>1
  <2> QED BY <1>6, <2>1, <2>2
<1>8. ASSUME walk[N] \in F[N] PROVE Kept(walk[N])
  <2> HIDE DEF Within, Kept
  <2> QED BY <1>3, <1>4, <1>8
<1> HIDE DEF F, Kept
<1>9. \A n \in 0 .. N : walk[n] \in F[n] BY <1>3, <1>5, <1>7, IterationsAdvance, Zenon
<1>10. Kept(walk[N]) BY <1>3, <1>8, <1>9
<1> QED BY <1>2, <1>10 DEF Kept

LEMMA UpdateSpares ==
  ASSUME OnlyKio, NEW s \in InOrder, \A j \in Jobs : Plain(s.job[j]), NEW q \in Queues,
         NEW list \in Seq(Jobs), list = s.queue[q].jobs,
         NEW d \in [0 .. Len(list) -> Load], Spares(s, list, d)
  PROVE  \A k \in Jobs : Active(s, k) => updateQueue(s, q).job[k].status = s.job[k].status
<1>1. \A k \in Jobs : Active(s, k) => Walk(s, list).s.job[k].status = s.job[k].status
  BY WalkSpares
<1> QED BY <1>1 DEF updateQueue

(* t is s but for the lists of the queues. *)
OtherLists(s, t) ==
    /\ t.job = s.job /\ t.scheduler = s.scheduler
    /\ \A q \in Queues : t.queue[q].status = s.queue[q].status

(* The walk over list lets every job be, with the loads c. *)
LetsBe(s, list, c) ==
    \A n \in 1 .. Len(list) : /\ Evaluate(Loaded(s, c[n - 1]), list[n]) = Loaded(s, c[n])
                              /\ NoFuller(c[n - 1], c[n])

(* What the walk over a resting list decided it decides in a state with another list. *)
LEMMA RestsElsewhere ==
  ASSUME OnlyKio, NEW X, NEW s \in Calm(X), NEW q \in Queues, Rests(s, q),
         NEW t \in State, OtherLists(s, t), NEW list, list = s.queue[q].jobs
  PROVE  \E c \in [0 .. Len(list) -> Load] : LetsBe(t, list, c)
<1>1. PICK c \in [0 .. Len(list) -> Load] :
          /\ Loaded(s, c[0]) = WalkStart(s)
          /\ \A n \in 1 .. Len(list) : Evaluate(Loaded(s, c[n - 1]), list[n]) = Loaded(s, c[n])
  BY DEF Rests
<1>2. s \in State BY CalmFacts
<1>3. list \in Seq(Jobs) BY <1>2 DEF State, JobQueue
<1>4. Len(list) \in Nat /\ \A n \in 1 .. Len(list) : list[n] \in Jobs BY <1>3
<1>5. maxSimultaneousJobs(t) = maxSimultaneousJobs(s) BY DEF OtherLists, maxSimultaneousJobs
<1>6. ASSUME NEW n \in 1 .. Len(list)
      PROVE  /\ Evaluate(Loaded(t, c[n - 1]), list[n]) = Loaded(t, c[n])
             /\ NoFuller(c[n - 1], c[n])
  <2>1. c[n - 1] \in Load /\ c[n] \in Load BY <1>4
  <2>2. Plain(s.job[list[n]]) /\ s.job[list[n]].queue \in Queues BY <1>4, CalmFacts
  <2>3. Alike(s, t, list[n]) BY <2>2, SameIsAlike DEF OtherLists
  <2>4. list[n] \in Jobs /\ Evaluate(Loaded(s, c[n - 1]), list[n]) = Loaded(s, c[n])
    BY <1>1, <1>4
  <2>5. Evaluate(Loaded(t, c[n - 1]), list[n]) = Loaded(t, c[n])
    <3>1. /\ s \in State /\ t \in State /\ list[n] \in Jobs /\ Plain(s.job[list[n]])
          /\ Alike(s, t, list[n]) /\ maxSimultaneousJobs(t) = maxSimultaneousJobs(s)
          /\ c[n - 1] \in Load /\ c[n] \in Load
          /\ Evaluate(Loaded(s, c[n - 1]), list[n]) = Loaded(s, c[n])
      BY <1>2, <1>5, <2>1, <2>2, <2>3, <2>4
    <3> QED BY ONLY OnlyKio, <3>1, EvaluateAlike
  <2>6. NoFuller(c[n - 1], c[n]) BY <1>2, <2>1, <2>2, <2>4, LetBe
  <2> QED BY <2>5, <2>6
<1> QED BY <1>6 DEF LetsBe

(* The state that JobQueue writes before it tells the scheduler *)
LEMMA ListWroteOnly ==
  ASSUME NEW s \in State, NEW q \in Queues, NEW list \in Seq(Jobs),
         NEW t, t = [s EXCEPT !.queue[q].jobs = list]
  PROVE  t \in State /\ OtherLists(s, t) /\ t.queue[q].jobs = list
<1>1. ListWrote(s, t, q, list) BY WroteList
<1>2. \A p \in Queues : t.queue[p].status = s.queue[p].status
  <2>1. s.queue \in [Queues -> JobQueue] BY DEF State
  <2>2. t.queue = [s.queue EXCEPT ![q].jobs = list] BY DEF State
  <2> QED BY <2>1, <2>2 DEF JobQueue
<1> QED BY <1>1, <1>2 DEF ListWrote, OtherLists

(* A job that is taken out of a resting queue leaves room to those behind it. *)
LEMMA RemoveSpares ==
  ASSUME OnlyKio, NEW s \in Calm({}), shouldUpdate(s), NEW q \in Queues,
         NEW j \in ToSet(s.queue[q].jobs)
  PROVE  \A k \in Jobs : Active(s, k) => remove(s, q, j).job[k].status = s.job[k].status
<1> SUFFICES ASSUME NEW list, list = s.queue[q].jobs, NEW p, p = PositionOf(list, j),
                    NEW new, new = RemoveAt(list, p), NEW t, t = [s EXCEPT !.queue[q].jobs = new]
             PROVE  \A k \in Jobs : Active(s, k) => updateQueue(t, q).job[k].status = s.job[k].status
  BY DEF remove, Without
<1>1. s \in State /\ s \in Sound /\ Rests(s, q) /\ list \in Seq(Jobs)
  <2>1. s \in State /\ s \in Sound BY CalmFacts
  <2> QED BY <2>1 DEF Calm, State, JobQueue
<1>2. p \in 1 .. Len(list) /\ Len(list) \in Nat BY <1>1, Positioned
<1>3. /\ new \in Seq(Jobs) /\ Len(new) = Len(list) - 1
      /\ \A i \in 1 .. Len(list) - 1 : new[i] = IF i < p THEN list[i] ELSE list[i + 1]
  BY <1>1, <1>2, RemovedAt, Zenon
<1>4. t \in State /\ OtherLists(s, t) /\ t.queue[q].jobs = new BY <1>1, <1>3, ListWroteOnly
<1>5. t \in InOrder BY <1>1, <1>4, Zenon DEF Sound, InOrder, OtherLists
<1>6. \A k \in Jobs : Plain(t.job[k]) BY <1>4 DEF Calm, OtherLists
<1>7. PICK c \in [0 .. Len(list) -> Load] : LetsBe(t, list, c)
  BY <1>1, <1>4, RestsElsewhere
<1> DEFINE d == [n \in 0 .. Len(new) |-> IF n < p - 1 THEN c[n] ELSE c[n + 1]]
<1>8. \A n \in 0 .. Len(list) : c[n] \in Load OBVIOUS
<1>9. d \in [0 .. Len(new) -> Load] /\ \A n \in 0 .. Len(new) : d[n] = IF n < p - 1 THEN c[n] ELSE c[n + 1]
  <2>1. ASSUME NEW n \in 0 .. Len(new) PROVE (IF n < p - 1 THEN c[n] ELSE c[n + 1]) \in Load
    <3>1. n \in 0 .. Len(list) /\ n + 1 \in 0 .. Len(list) BY <1>2, <1>3
    <3> QED BY <1>8, <3>1
  <2> QED BY <2>1
<1> HIDE DEF d
<1>10. ASSUME NEW n \in 1 .. Len(new)
       PROVE  \E e \in Load : Evaluate(Loaded(t, d[n - 1]), new[n]) = Loaded(t, e) /\ NoFuller(e, d[n])
  <2>1. n \in 0 .. Len(new) /\ n - 1 \in 0 .. Len(new) /\ n \in 1 .. Len(list) - 1
    BY <1>2, <1>3
  <2>2. CASE n < p - 1
    <3>1. d[n - 1] = c[n - 1] /\ d[n] = c[n] /\ new[n] = list[n] /\ n \in 1 .. Len(list)
      BY <1>2, <1>3, <1>9, <2>1, <2>2
    <3>2. c[n] \in Load /\ NoFuller(c[n], c[n]) BY <1>2, <1>8, <3>1 DEF NoFuller, Load
    <3> QED BY <1>7, <3>1, <3>2 DEF LetsBe
  <2>3. CASE n = p - 1
    <3>0. /\ n + 1 \in 1 .. Len(list) /\ (n + 1) - 1 = n /\ n \in 1 .. Len(list) /\ n < p
          /\ ~(n < p - 1) /\ n - 1 < p - 1 /\ n \in 1 .. Len(list) - 1
      BY <1>2, <2>1, <2>3
    <3>1. d[n - 1] = c[n - 1] /\ d[n] = c[n + 1] /\ new[n] = list[n]
      BY <1>3, <1>9, <2>1, <3>0
    <3>2. c[n] \in Load /\ NoFuller(c[n], c[n + 1]) BY <1>2, <1>7, <1>8, <3>0 DEF LetsBe
    <3> QED BY <1>7, <3>0, <3>1, <3>2, Zenon DEF LetsBe
  <2>4. CASE n > p - 1
    <3>0. /\ n + 1 \in 1 .. Len(list) /\ (n + 1) - 1 = n /\ (n - 1) + 1 = n /\ ~(n < p)
          /\ ~(n < p - 1) /\ ~(n - 1 < p - 1) /\ n \in 1 .. Len(list) - 1
      BY <1>2, <2>1, <2>4, SMTT(60)
    <3>1. d[n - 1] = c[n] /\ d[n] = c[n + 1] /\ new[n] = list[n + 1]
      BY <1>3, <1>9, <2>1, <3>0
    <3>2. c[n + 1] \in Load /\ NoFuller(c[n + 1], c[n + 1]) BY <1>2, <1>8, <3>0 DEF NoFuller, Load
    <3>3. Evaluate(Loaded(t, c[n]), list[n + 1]) = Loaded(t, c[n + 1])
      BY <1>7, <3>0, Zenon DEF LetsBe
    <3> QED BY <3>0, <3>1, <3>2, <3>3
  <2>5. n < p - 1 \/ n = p - 1 \/ n > p - 1 BY <1>2, <2>1
  <2> QED BY <2>2, <2>3, <2>4, <2>5, Zenon
<1>11. Spares(t, new, d) BY <1>10, Zenon DEF Spares
<1>12. \A k \in Jobs : Active(t, k) => updateQueue(t, q).job[k].status = t.job[k].status
  BY <1>3, <1>4, <1>5, <1>6, <1>9, <1>11, UpdateSpares, Zenon
<1> QED BY <1>4, <1>12 DEF Active, OtherLists

(* A job that is appended to a resting queue comes last. *)
LEMMA AppendSpares ==
  ASSUME OnlyKio, NEW s \in Calm({}), shouldUpdate(s), NEW q \in Queues, NEW j \in Jobs,
         ~Active(s, j)
  PROVE  \A k \in Jobs : Active(s, k) => append(s, q, j).job[k].status = s.job[k].status
<1> DEFINE list == s.queue[q].jobs
           new == Append(list, j)
           t == [s EXCEPT !.queue[q].jobs = new]
<1>0. append(s, q, j) = updateQueue(t, q) BY DEF append
<1>1. s \in State /\ s \in Sound /\ Rests(s, q) /\ list \in Seq(Jobs)
  <2>1. s \in State /\ s \in Sound BY CalmFacts
  <2> QED BY <2>1 DEF Calm, State, JobQueue
<1>2. /\ new \in Seq(Jobs) /\ Len(list) \in Nat /\ Len(new) = Len(list) + 1
      /\ \A i \in 1 .. Len(list) : new[i] = list[i]
      /\ new[Len(list) + 1] = j
  BY <1>1, SMTT(60)
<1> HIDE DEF new
<1>3. t \in State /\ OtherLists(s, t) /\ t.queue[q].jobs = new BY <1>1, <1>2, ListWroteOnly
<1> HIDE DEF list, t
<1>4. t \in InOrder BY <1>1, <1>3 DEF Sound, InOrder, OtherLists
<1>5. \A k \in Jobs : Plain(t.job[k]) BY <1>3 DEF Calm, OtherLists
<1>6. PICK c \in [0 .. Len(list) -> Load] : LetsBe(t, list, c)
  BY <1>1, <1>3, RestsElsewhere DEF list
<1> DEFINE full == [running |-> maxSimultaneousJobs(t), waiting |-> 0]
           d == [n \in 0 .. Len(new) |-> IF n <= Len(list) THEN c[n] ELSE full]
<1>7. full \in Load /\ ~HasRoom(Loaded(t, full))
  <2>0. t \in State BY <1>3
  <2>1. maxSimultaneousJobs(t) \in Nat BY ONLY <2>0 DEF maxSimultaneousJobs, State, SchedulerObject
  <2> QED BY <2>1 DEF Load, HasRoom, Loaded
<1> HIDE DEF full
<1>8. \A n \in 0 .. Len(list) : c[n] \in Load OBVIOUS
<1>9. /\ d \in [0 .. Len(new) -> Load]
      /\ \A n \in 0 .. Len(new) : d[n] = IF n <= Len(list) THEN c[n] ELSE full
  BY <1>2, <1>7, <1>8
<1> HIDE DEF d
<1>10. ASSUME NEW n \in 1 .. Len(new)
       PROVE  \/ \E e \in Load : /\ Evaluate(Loaded(t, d[n - 1]), new[n]) = Loaded(t, e)
                                 /\ NoFuller(e, d[n])
              \/ ~Active(t, new[n]) /\ ~HasRoom(Loaded(t, d[n]))
  <2>1. CASE n \in 1 .. Len(list)
    <3>1. d[n - 1] = c[n - 1] /\ d[n] = c[n] /\ new[n] = list[n] /\ c[n] \in Load
      BY <1>2, <1>8, <1>9, <2>1
    <3>2. NoFuller(c[n], c[n]) BY <3>1 DEF NoFuller, Load
    <3> QED BY <1>6, <2>1, <3>1, <3>2 DEF LetsBe
  <2>2. CASE n = Len(list) + 1
    <3>0. n \in 0 .. Len(new) /\ ~(n <= Len(list)) BY <1>2, <2>2
    <3>1. d[n] = full /\ new[n] = j BY <1>2, <1>9, <2>2, <3>0
    <3>2. ~Active(t, j) BY <1>3 DEF Active, OtherLists
    <3> QED BY <1>7, <3>1, <3>2
  <2>3. n \in 1 .. Len(list) \/ n = Len(list) + 1 BY <1>2
  <2> QED BY <2>1, <2>2, <2>3
<1>11. Spares(t, new, d) BY <1>10 DEF Spares
<1>12. \A k \in Jobs : Active(t, k) => updateQueue(t, q).job[k].status = t.job[k].status
  BY <1>2, <1>3, <1>4, <1>5, <1>9, <1>11, UpdateSpares
<1> QED BY <1>0, <1>3, <1>12 DEF Active, OtherLists

LEMMA AddInterruptsNobody ==
  ASSUME OnlyKio, Now \in Calm({}), shouldUpdate(Now), NEW j \in Jobs, NEW q \in Queues,
         AddTransfer(j, q), NEW k \in Listed, Active(Now, k)
  PROVE  job'[k].status = job[k].status
<1> SUFFICES ASSUME NEW s, s = [Now EXCEPT !.job[j] = NewJob(q)]
             PROVE  job'[k].status = job[k].status
  BY Zenon
<1>1. Now \in Sound /\ Now \in State /\ Now.job = job BY NowIsCalm
<1>2. j \notin Listed /\ Becomes(append(s, q, j)) BY DEF AddTransfer
<1>3. \A p \in Queues : j \notin ToSet(Now.queue[p].jobs) BY <1>1, <1>2, ListedFacts
<1>4. s \in Calm({}) BY <1>3, UnlistedCalm
<1>5. s.scheduler = Now.scheduler /\ s.job = [job EXCEPT ![j] = NewJob(q)] BY <1>1 DEF State
<1>6. k \in Jobs /\ k # j
  <2>1. Inv BY <1>1, NowIsSound
  <2> QED BY <1>2, <2>1, ListedAreJobs DEF Inv
<1>7. s.job[k] = job[k] /\ s.job[j] = NewJob(q)
  <2>1. job \in [Jobs -> Job] BY <1>1 DEF State
  <2> QED BY <1>5, <1>6, <2>1
<1>8. shouldUpdate(s) /\ Active(s, k) /\ ~Active(s, j)
  BY <1>1, <1>5, <1>7 DEF shouldUpdate, Active, NewJob
<1>9. append(s, q, j).job[k].status = s.job[k].status BY <1>4, <1>6, <1>8, AppendSpares, Zenon
<1> QED BY <1>2, <1>7, <1>9 DEF Becomes

LEMMA DeleteInterruptsNobody ==
  ASSUME OnlyKio, Now \in Calm({}), shouldUpdate(Now), NEW j \in Jobs, DeleteTransfer(j), Inv',
         NEW k \in Listed \cap Listed', Active(Now, k)
  PROVE  job'[k].status = job[k].status
<1> SUFFICES ASSUME NEW q, q = job[j].queue, NEW r, r = remove(Now, q, j),
                    NEW s, s = [r EXCEPT !.job[j] = NewJob(q)]
             PROVE  job'[k].status = job[k].status
  BY Zenon
<1>1. /\ Now \in Sound /\ Now.job = job /\ Now.queue = queue /\ q \in Queues
      /\ Inv /\ k \in Jobs
  <2>1. Now \in Sound /\ Now.job = job /\ Now.queue = queue /\ q \in Queues BY NowIsCalm
  <2>2. Inv BY <2>1, NowIsSound
  <2> QED BY <2>1, <2>2, ListedAreJobs DEF Inv
<1>2. j \in Listed /\ Becomes(s) BY DEF DeleteTransfer
<1>3. j \in ToSet(Now.queue[q].jobs) BY <1>1, <1>2, ListedFacts
<1>4. /\ r \in Sound
      /\ \A p \in Queues : r.queue[p].jobs =
             IF p = q THEN Without(Now.queue[q].jobs, j) ELSE Now.queue[p].jobs
  BY <1>1, RemoveSound, SMTT(60)
<1>5. r.job \in [Jobs -> Job] /\ s.queue = r.queue /\ s.job = [r.job EXCEPT ![j] = NewJob(q)]
  BY <1>4 DEF Sound, InOrder, State
<1>6. k # j
  <2>1. ASSUME NEW p \in Queues PROVE j \notin {queue'[p].jobs[i] : i \in 1 .. Len(queue'[p].jobs)}
    <3>1. queue'[p].jobs = r.queue[p].jobs BY <1>2, <1>5 DEF Becomes
    <3>2. queue'[p].jobs \in Seq(Jobs) BY DEF Inv, TypeOK, JobQueue
    <3>3. ToSet(queue'[p].jobs) = {queue'[p].jobs[i] : i \in 1 .. Len(queue'[p].jobs)}
      BY <3>2, Distinct
    <3>4. j \notin ToSet(Without(Now.queue[q].jobs, j)) BY <1>1, OnceInSound, WithoutFacts
    <3>5. p # q => j \notin ToSet(Now.queue[p].jobs) BY <1>1, <1>3, InOneList
    <3> QED BY <1>4, <3>1, <3>3, <3>4, <3>5
  <2>2. j \notin Listed' BY <2>1 DEF Listed, JobsOf
  <2> QED BY <2>2
<1>7. r.job[k].status = Now.job[k].status BY <1>1, <1>3, RemoveSpares
<1>8. s.job[k] = r.job[k] BY <1>1, <1>5, <1>6
<1> QED BY <1>1, <1>2, <1>7, <1>8 DEF Becomes

(* A transfer that comes or goes takes no other's place: the one that is appended is
   looked at last, and those behind the one that left find more room. *)
THEOREM AddAndRemoveInterruptNobodyInTheirGroups ==
  ASSUME OnlyKio, ~FilesMove
  PROVE  Init /\ [][Next /\ SameGroups]_vars => AddAndRemoveInterruptNobody
<1>1. Init => Now \in Calm({}) BY InitCalm
<1>2. Now \in Calm({}) /\ [Next /\ SameGroups]_vars => (Now \in Calm({}))' BY NextCalm
<1>3. Now \in Calm({}) /\ [Next /\ SameGroups]_vars
      => [Cardinality(Listed') # Cardinality(Listed) /\ shouldUpdate(Now)
          => \A j \in Listed \cap Listed' : Active(Now, j) => job'[j].status = job[j].status]_vars
  <2> SUFFICES ASSUME Now \in Calm({}), Next, SameGroups,
                      Cardinality(Listed') # Cardinality(Listed), shouldUpdate(Now),
                      NEW k \in Listed \cap Listed', Active(Now, k)
               PROVE  job'[k].status = job[k].status
    OBVIOUS
  <2>1. Now \in Sound /\ Inv /\ Inv'
    <3>1. Now \in Sound BY NowIsCalm
    <3>2. Inv BY <3>1, NowIsSound
    <3> QED BY <3>1, <3>2, NextSound
  <2>2. ~ListsStay BY <2>1, ListedStays
  <2>3. UserActs /\ ListsChange
    <3>1. ~MultiActs /\ ~BtActs
          /\ ~ \E j \in Jobs, obstacle \in Obstacles : ObstacleChanges(j, obstacle)
      BY OtherPluginsRest
    <3>2. ~NetworkActs /\ ~KioActs /\ ~Tick /\ \A j \in Jobs : ~SpeedChanges(j)
      BY <2>1, <2>2, NetworkActsSound, KioActsSound, TickSound, SurroundingsSound
    <3>3. UserActs BY <3>1, <3>2 DEF Next, Events
    <3> QED BY <2>1, <2>2, <3>3, UserActsSound
  <2>4. ASSUME NEW j \in Jobs, NEW q \in Queues, AddTransfer(j, q) PROVE job'[k].status = job[k].status
    BY <2>4, AddInterruptsNobody
  <2>5. ASSUME NEW j \in Jobs, DeleteTransfer(j) PROVE job'[k].status = job[k].status
    BY <2>1, <2>5, DeleteInterruptsNobody
  <2>6. ASSUME NEW j \in Jobs, NEW q \in Queues \ {job[j].queue}, NEW after \in Jobs \cup {"front"},
               MoveTransfer(j, q, after)
        PROVE  FALSE
    <3>1. q = Now.job[j].queue BY <2>1, <2>6, MovesInItsGroup
    <3> QED BY <3>1, NowIsCalm
  <2> QED BY <2>3, <2>4, <2>5, <2>6 DEF ListsChange
<1> QED BY <1>1, <1>2, <1>3, PTL DEF AddAndRemoveInterruptNobody

(* With one group, nothing is left out. *)
THEOREM AddAndRemoveInterruptNobodyAlways ==
  ASSUME OnlyKio, ~FilesMove, \A p, q \in Queues : p = q
  PROVE  Spec => AddAndRemoveInterruptNobody
<1>1. Inv /\ Inv' /\ [Next]_vars => [Next /\ SameGroups]_vars BY OneGroupStays
<1> QED BY <1>1, InvAlways, AddAndRemoveInterruptNobodyInTheirGroups, PTL DEF Spec
=============================================================================
