---------------------------- MODULE SessionProofs ----------------------------
(***************************************************************************)
(* That changes are saved and progress is, for every set of transfers and  *)
(* every number of lists that are loaded, when there was a list to load.   *)
(***************************************************************************)
EXTENDS Session, FiniteSetTheorems, TLAPS

Timers == {"inactive", "once", "regularly"}

(* The objects are of their types, and the observers are numbered. *)
SessionTypeOK ==
    /\ running \in BOOLEAN
    /\ DOMAIN list \subseteq Transfers
    /\ list \in [DOMAIN list -> [status : Statuses, startStatus : Statuses]]
    /\ \E n \in Nat : observers \in [1..n -> [m_save : Timers, m_finishAction : BOOLEAN]]
    /\ \E T \in SUBSET Transfers : \E f \in [T -> BOOLEAN] : stored = [exists |-> TRUE, finished |-> f]

(* The first observer is there as long as the program runs, and it alone   *)
(* sees to it that what has changed is saved, ...                          *)
FirstSaves ==
    running => /\ 1 \in DOMAIN observers
               /\ changed = {} /\ hasRunningJobs(list) => observers[1].m_save = "regularly"
               /\ changed = {} /\ File(list) # stored => observers[1].m_save # "inactive"

(* ... and nothing is left of a run that has ended. *)
NothingIsLeft == ~running => changed = {} /\ observers = <<>>

SessionInv == SessionTypeOK /\ FirstSaves /\ NothingIsLeft

-----------------------------------------------------------------------------
(* A list, written and read again. *)
LEMMA FileType ==
    ASSUME NEW l, DOMAIN l \subseteq Transfers
    PROVE  \E T \in SUBSET Transfers : \E f \in [T -> BOOLEAN] : File(l) = [exists |-> TRUE, finished |-> f]
<1> DEFINE f == [t \in DOMAIN l |-> l[t].status = "Finished"]
<1>1. f \in [DOMAIN l -> BOOLEAN]
  OBVIOUS
<1>2. File(l) = [exists |-> TRUE, finished |-> f]
  BY DEF File
<1> QED
  BY <1>1, <1>2

(* What requestSave leaves of the timer of an observer. *)
LEMMA RequestedSaves ==
    ASSUME NEW o \in [m_save : Timers, m_finishAction : BOOLEAN], NEW l
    PROVE  /\ Requested(o, l) \in [m_save : Timers, m_finishAction : BOOLEAN]
           /\ Requested(o, l).m_save # "inactive"
           /\ hasRunningJobs(l) => Requested(o, l).m_save = "regularly"
  BY DEF Requested, Kind, Timers

LEMMA Initially == FileExists /\ SessionInit => SessionInv
<1> SUFFICES ASSUME FileExists, SessionInit PROVE SessionInv
  OBVIOUS
<1> USE DEF SessionInit
<1>1. DOMAIN list = {}
  OBVIOUS
<1>2. list \in [DOMAIN list -> [status : Statuses, startStatus : Statuses]]
  BY <1>1
<1>3. observers \in [1..0 -> [m_save : Timers, m_finishAction : BOOLEAN]]
  OBVIOUS
<1>4. \E T \in SUBSET Transfers : \E f \in [T -> BOOLEAN] : stored = [exists |-> TRUE, finished |-> f]
  BY FileType, <1>1
<1> QED
  BY <1>1, <1>2, <1>3, <1>4 DEF SessionInv, SessionTypeOK, FirstSaves, NothingIsLeft

-----------------------------------------------------------------------------
(* The steps that change a transfer, the list or the batch. *)

ObserverType == [m_save : Timers, m_finishAction : BOOLEAN]

(* Requested for all observers keeps them what they are. *)
LEMMA AllRequested ==
    ASSUME NEW n \in Nat, observers \in [1..n -> ObserverType], NEW l,
           observers' = [o \in DOMAIN observers |-> Requested(observers[o], l)]
    PROVE  /\ observers' \in [1..n -> ObserverType]
           /\ 1 \in DOMAIN observers =>
                /\ 1 \in DOMAIN observers'
                /\ observers'[1].m_save # "inactive"
                /\ hasRunningJobs(l) => observers'[1].m_save = "regularly"
<1>1. DOMAIN observers = 1..n
  OBVIOUS
<1>2. \A o \in 1..n : observers[o] \in ObserverType
  OBVIOUS
<1>3. \A o \in 1..n : Requested(observers[o], l) \in ObserverType
  BY <1>2, RequestedSaves DEF ObserverType
<1>4. observers' \in [1..n -> ObserverType]
  BY <1>1, <1>3
<1>5. ASSUME 1 \in DOMAIN observers
      PROVE  observers'[1] = Requested(observers[1], l)
  BY <1>5
<1> QED
  BY <1>1, <1>2, <1>4, <1>5, RequestedSaves DEF ObserverType

LEMMA AddKeeps ==
    ASSUME SessionInv, NEW t \in Transfers, AddTransfer(t)
    PROVE  SessionInv'
<1> USE DEF SessionInv
<1>1. PICK n \in Nat : observers \in [1..n -> ObserverType]
  BY DEF SessionTypeOK, ObserverType
<1>2. /\ running /\ running' /\ list' = WithNew(t) /\ changed' = changed /\ stored' = stored
      /\ observers' = [o \in DOMAIN observers |-> Requested(observers[o], WithNew(t))]
  BY DEF AddTransfer, Listed
<1>3. /\ DOMAIN list' \subseteq Transfers
      /\ list' \in [DOMAIN list' -> [status : Statuses, startStatus : Statuses]]
  BY <1>2 DEF WithNew, Added, Statuses, SessionTypeOK
<1>4. /\ observers' \in [1..n -> ObserverType]
      /\ 1 \in DOMAIN observers' /\ observers'[1].m_save # "inactive"
      /\ hasRunningJobs(WithNew(t)) => observers'[1].m_save = "regularly"
  BY <1>1, <1>2, AllRequested DEF FirstSaves
<1>5. SessionTypeOK'
  BY <1>1, <1>2, <1>3, <1>4 DEF SessionTypeOK, ObserverType
<1>6. FirstSaves' /\ NothingIsLeft'
  BY <1>2, <1>4 DEF FirstSaves, NothingIsLeft, hasRunningJobs
<1> QED
  BY <1>5, <1>6

LEMMA RemoveKeeps ==
    ASSUME SessionInv, NEW t \in Transfers, RemoveTransfer(t)
    PROVE  SessionInv'
<1> DEFINE l == Restrict(list, DOMAIN list \ {t})
<1> USE DEF SessionInv
<1>1. PICK n \in Nat : observers \in [1..n -> ObserverType]
  BY DEF SessionTypeOK, ObserverType
<1>2. /\ running /\ running' /\ list' = l /\ stored' = stored
      /\ observers' = [o \in DOMAIN observers |-> Requested(observers[o], l)]
  BY DEF RemoveTransfer, Removed, Listed
<1>3. /\ DOMAIN list' \subseteq Transfers
      /\ list' \in [DOMAIN list' -> [status : Statuses, startStatus : Statuses]]
  BY <1>2 DEF Restrict, SessionTypeOK
<1>4. /\ observers' \in [1..n -> ObserverType]
      /\ 1 \in DOMAIN observers' /\ observers'[1].m_save # "inactive"
      /\ hasRunningJobs(l) => observers'[1].m_save = "regularly"
  BY <1>1, <1>2, AllRequested DEF FirstSaves
<1>5. SessionTypeOK'
  BY <1>1, <1>2, <1>3, <1>4 DEF SessionTypeOK, ObserverType
<1>6. FirstSaves' /\ NothingIsLeft'
  BY <1>2, <1>4 DEF FirstSaves, NothingIsLeft, hasRunningJobs
<1> QED
  BY <1>5, <1>6

LEMMA ChangeStatusKeeps ==
    ASSUME SessionInv, NEW t \in Transfers, ChangeStatus(t)
    PROVE  SessionInv'
<1> USE DEF SessionInv
<1>1. PICK s \in Statuses : list' = [list EXCEPT ![t].status = s]
  BY DEF ChangeStatus
<1>2. running' /\ running /\ changed' # {} /\ observers' = observers /\ stored' = stored
  BY DEF ChangeStatus
<1>3. /\ DOMAIN list' = DOMAIN list
      /\ list' \in [DOMAIN list -> [status : Statuses, startStatus : Statuses]]
  BY <1>1 DEF SessionTypeOK
<1> QED
  BY <1>2, <1>3 DEF SessionTypeOK, FirstSaves, NothingIsLeft

LEMMA TimerEventKeeps ==
    ASSUME SessionInv, TimerEvent
    PROVE  SessionInv'
<1> DEFINE R(o) == Requested(observers[o], list)
           finish == (\A t \in changed : IsFinished(t)) /\ allTransfersFinished
<1> USE DEF SessionInv
<1>1. PICK n \in Nat : observers \in [1..n -> ObserverType]
  BY DEF SessionTypeOK, ObserverType
<1>2. DOMAIN observers = 1..n /\ running /\ running' /\ list' = list /\ stored' = stored
  BY <1>1 DEF TimerEvent
<1>3. \A o \in 1..n : /\ R(o) \in ObserverType
                      /\ R(o).m_save # "inactive"
                      /\ hasRunningJobs(list) => R(o).m_save = "regularly"
  BY <1>1, RequestedSaves DEF ObserverType
<1>4. \A o \in 1..n : Informed(observers[o]) = [R(o) EXCEPT !.m_finishAction = @ \/ finish]
  BY DEF Informed
<1> HIDE DEF R, finish
<1>5. \A o \in 1..n : /\ Informed(observers[o]) \in ObserverType
                      /\ Informed(observers[o]).m_save = R(o).m_save
  <2> TAKE o \in 1..n
  <2>1. Informed(observers[o]) = [R(o) EXCEPT !.m_finishAction = R(o).m_finishAction \/ finish]
    BY <1>4
  <2>2. (R(o).m_finishAction \/ finish) \in BOOLEAN
    OBVIOUS
  <2> HIDE DEF finish
  <2> QED
    BY <2>1, <2>2, <1>3 DEF ObserverType
<1>6. observers' = [o \in 1..n |-> Informed(observers[o])]
  BY <1>2 DEF TimerEvent
<1>7. observers' \in [1..n -> ObserverType]
  BY <1>5, <1>6
<1>8. SessionTypeOK'
  BY <1>2, <1>7 DEF SessionTypeOK, ObserverType
<1>9. FirstSaves' /\ NothingIsLeft'
  BY <1>2, <1>3, <1>5, <1>6 DEF FirstSaves, NothingIsLeft, hasRunningJobs
<1> QED
  BY <1>8, <1>9

-----------------------------------------------------------------------------
(* The timers of an observer. *)

LEMMA SaveTimerKeeps ==
    ASSUME SessionInv, NEW o \in DOMAIN observers, SaveTimer(o)
    PROVE  SessionInv'
<1> USE DEF SessionInv
<1>1. PICK n \in Nat : observers \in [1..n -> ObserverType]
  BY DEF SessionTypeOK, ObserverType
<1>2. DOMAIN observers = 1..n /\ running' = running /\ changed' = changed /\ list' = list
  BY <1>1 DEF SaveTimer
<1>3. observers[o] \in ObserverType /\ observers[o].m_save # "inactive"
  BY <1>1 DEF SaveTimer
<1>4. PICK v \in Timers : /\ observers' = [observers EXCEPT ![o].m_save = v]
                          /\ observers[o].m_save = "regularly" => v = "regularly"
  BY <1>3 DEF SaveTimer, ObserverType, Timers
<1>5. observers' \in [1..n -> ObserverType]
  BY <1>1, <1>4 DEF ObserverType
<1>6. stored' = File(list)
  BY DEF SaveTimer, save
<1>7. SessionTypeOK'
  BY <1>2, <1>5, <1>6, FileType DEF SessionTypeOK, ObserverType
<1>8. running
  BY <1>2 DEF NothingIsLeft
<1>9. FirstSaves' /\ NothingIsLeft'
  <2>1. 1 \in DOMAIN observers' /\ File(list)' = stored'
    BY <1>1, <1>2, <1>5, <1>6, <1>8 DEF FirstSaves, File
  <2>2. ASSUME changed = {}, hasRunningJobs(list) PROVE observers'[1].m_save = "regularly"
    <3>1. observers[1].m_save = "regularly"
      BY <1>8, <2>2 DEF FirstSaves
    <3> QED
      BY <1>1, <1>2, <1>4, <1>5, <2>1, <3>1 DEF ObserverType
  <2> QED
    BY <1>2, <1>8, <2>1, <2>2 DEF FirstSaves, NothingIsLeft, hasRunningJobs
<1> QED
  BY <1>7, <1>9

LEMMA FinishActionKeeps ==
    ASSUME SessionInv, NEW o \in DOMAIN observers, FinishTimer(o) \/ Abort(o)
    PROVE  SessionInv'
<1> USE DEF SessionInv
<1>1. PICK n \in Nat : observers \in [1..n -> ObserverType]
  BY DEF SessionTypeOK, ObserverType
<1>2. /\ running' = running /\ changed' = changed /\ list' = list /\ stored' = stored
      /\ observers' = [observers EXCEPT ![o].m_finishAction = FALSE]
  BY DEF FinishTimer, Abort
<1>3. /\ observers' \in [1..n -> ObserverType]
      /\ \A u \in 1..n : observers'[u].m_save = observers[u].m_save
  BY <1>1, <1>2 DEF ObserverType
<1>4. running
  BY DEF NothingIsLeft
<1>5. SessionTypeOK'
  BY <1>2, <1>3 DEF SessionTypeOK, ObserverType
<1>6. FirstSaves' /\ NothingIsLeft'
  BY <1>1, <1>2, <1>3, <1>4 DEF FirstSaves, NothingIsLeft, hasRunningJobs, File
<1> QED
  BY <1>5, <1>6

-----------------------------------------------------------------------------
(* The steps of the program. *)

LEMMA ChangeGroupsKeeps ==
    ASSUME SessionInv, ChangeGroups
    PROVE  SessionInv'
<1> USE DEF SessionInv
<1>1. /\ stored' = File(list) /\ running' = running /\ list' = list /\ changed' = changed
      /\ observers' = observers
  BY DEF ChangeGroups, save
<1>2. SessionTypeOK'
  BY <1>1, FileType DEF SessionTypeOK
<1> QED
  BY <1>1, <1>2 DEF FirstSaves, NothingIsLeft, hasRunningJobs, File

(* What is loaded is what is in the file, and nothing of it runs. *)
LEMMA LaunchKeeps ==
    ASSUME SessionInv, Launch
    PROVE  SessionInv'
<1> USE DEF SessionInv
<1>1. PICK T \in SUBSET Transfers : \E f \in [T -> BOOLEAN] : stored = [exists |-> TRUE, finished |-> f]
  BY DEF SessionTypeOK
<1>2. PICK f \in [T -> BOOLEAN] : stored = [exists |-> TRUE, finished |-> f]
  BY <1>1
<1>3. /\ running' /\ changed' = {} /\ stored' = stored
      /\ observers' = [o \in {1} |-> Observer]
      /\ list' = [t \in T |-> Added(IF f[t] THEN "Finished" ELSE "Stopped")]
  BY <1>2 DEF Launch, Loaded, Stored, NothingIsLeft
<1>4. \A t \in T : /\ list'[t] = Added(IF f[t] THEN "Finished" ELSE "Stopped")
                   /\ list'[t].status = IF f[t] THEN "Finished" ELSE "Stopped"
  BY <1>3 DEF Added
<1>5. list' \in [DOMAIN list' -> [status : Statuses, startStatus : Statuses]]
  BY <1>3 DEF Added, Statuses
<1>6. observers' \in [1..1 -> ObserverType]
  BY <1>3 DEF Observer, ObserverType, Timers
<1>7. SessionTypeOK'
  BY <1>3, <1>5, <1>6, <1>1 DEF SessionTypeOK, ObserverType
<1>8. DOMAIN list' = T /\ \A t \in T : (list'[t].status = "Finished") = f[t]
  BY <1>3, <1>4
<1>9. File(list)' = stored'
  BY <1>2, <1>3, <1>8 DEF File
<1>10. ~hasRunningJobs(list)'
  BY <1>4, <1>8 DEF hasRunningJobs
<1> QED
  BY <1>3, <1>7, <1>9, <1>10 DEF FirstSaves, NothingIsLeft

LEMMA ImportKeeps ==
    ASSUME SessionInv, NEW t \in Transfers, Import(t)
    PROVE  SessionInv'
<1> USE DEF SessionInv
<1>1. PICK n \in Nat : observers \in [1..n -> ObserverType]
  BY DEF SessionTypeOK, ObserverType
<1>2. DOMAIN observers = 1..n
  BY <1>1
<1>3. Cardinality(1..n) = n
  <2>1. IsFiniteSet(1..n) /\ Cardinality(1..n) = IF 1 > n THEN 0 ELSE n - 1 + 1
    BY FS_Interval
  <2> QED
    BY <2>1
<1>4. /\ running /\ running' /\ list' = WithNew(t) /\ changed' = changed /\ stored' = stored
      /\ observers' = [o \in 1..(n + 1) |->
             IF o = n + 1 THEN Observer ELSE Requested(observers[o], WithNew(t))]
  BY <1>2, <1>3 DEF Import
<1>5. n >= 1
  BY <1>2, <1>4 DEF FirstSaves
<1>6. /\ DOMAIN list' \subseteq Transfers
      /\ list' \in [DOMAIN list' -> [status : Statuses, startStatus : Statuses]]
  BY <1>4 DEF WithNew, Added, Statuses, SessionTypeOK
<1>7. \A o \in 1..n : Requested(observers[o], WithNew(t)) \in ObserverType
  BY <1>1, RequestedSaves DEF ObserverType
<1>8. Observer \in ObserverType
  BY DEF Observer, ObserverType, Timers
<1>9. observers' \in [1..(n + 1) -> ObserverType]
  BY <1>4, <1>7, <1>8
<1>10. 1 \in DOMAIN observers' /\ observers'[1] = Requested(observers[1], WithNew(t))
  BY <1>4, <1>5
<1>11. /\ observers'[1].m_save # "inactive"
       /\ hasRunningJobs(WithNew(t)) => observers'[1].m_save = "regularly"
  BY <1>1, <1>2, <1>5, <1>10, RequestedSaves DEF ObserverType
<1>12. SessionTypeOK'
  <2>1. \E i \in Nat : observers' \in [1..i -> ObserverType]
    BY <1>9
  <2> QED
    BY <1>4, <1>6, <2>1 DEF SessionTypeOK, ObserverType
<1> QED
  BY <1>4, <1>10, <1>11, <1>12 DEF FirstSaves, NothingIsLeft, hasRunningJobs

LEMMA EndsKeeps ==
    ASSUME SessionInv, Quit \/ SessionCrash
    PROVE  SessionInv'
<1> USE DEF SessionInv
<1>1. running' = FALSE /\ list' = <<>> /\ changed' = {} /\ observers' = <<>>
  BY DEF Quit, SessionCrash, Ends
<1>2. \E T \in SUBSET Transfers : \E f \in [T -> BOOLEAN] : stored' = [exists |-> TRUE, finished |-> f]
  BY FileType DEF Quit, SessionCrash, save, SessionTypeOK
<1>3. observers' \in [1..0 -> [m_save : Timers, m_finishAction : BOOLEAN]]
  BY <1>1
<1>4. DOMAIN list' = {} /\ list' \in [DOMAIN list' -> [status : Statuses, startStatus : Statuses]]
  <2>1. DOMAIN list' = {}
    BY <1>1
  <2> QED
    BY <1>1, <2>1
<1>5. running' \in BOOLEAN /\ DOMAIN list' \subseteq Transfers
  BY <1>1, <1>4
<1>6. SessionTypeOK'
  BY <1>2, <1>3, <1>4, <1>5 DEF SessionTypeOK
<1> QED
  BY <1>1, <1>6 DEF FirstSaves, NothingIsLeft

LEMMA StutterKeeps ==
    ASSUME SessionInv, UNCHANGED <<running, list, changed, observers, stored>>
    PROVE  SessionInv'
  BY DEF SessionInv, SessionTypeOK, FirstSaves, NothingIsLeft, hasRunningJobs, File

-----------------------------------------------------------------------------
(* The invariant holds in every state of a program whose first run finds a *)
(* list of transfers: kget.cpp:523 returns before it makes an observer     *)
(* when there is none.                                                     *)
THEOREM SessionInvariant ==
    ASSUME FileExists
    PROVE  SessionSpec => []SessionInv
<1>1. SessionInit => SessionInv
  BY Initially
<1>2. SessionInv /\ [SessionNext]_sessionVars => SessionInv'
  <2> SUFFICES ASSUME SessionInv, [SessionNext]_sessionVars
               PROVE  SessionInv'
    OBVIOUS
  <2>1. ASSUME NEW t \in Transfers, AddTransfer(t) \/ RemoveTransfer(t) \/ ChangeStatus(t) \/ Import(t)
        PROVE  SessionInv'
    BY <2>1, AddKeeps, RemoveKeeps, ChangeStatusKeeps, ImportKeeps
  <2>2. ASSUME NEW o \in DOMAIN observers, SaveTimer(o) \/ FinishTimer(o) \/ Abort(o)
        PROVE  SessionInv'
    BY <2>2, SaveTimerKeeps, FinishActionKeeps
  <2>3. CASE ChangeGroups
    BY <2>3, ChangeGroupsKeeps
  <2>4. CASE TimerEvent
    BY <2>4, TimerEventKeeps
  <2>5. CASE Launch
    BY <2>5, LaunchKeeps
  <2>6. CASE Quit \/ SessionCrash
    BY <2>6, EndsKeeps
  <2>7. CASE StaysAfterQuestion
    BY <2>7, StutterKeeps DEF StaysAfterQuestion
  <2>8. CASE UNCHANGED sessionVars
    BY <2>8, StutterKeeps DEF sessionVars
  <2> QED
    BY <2>1, <2>2, <2>3, <2>4, <2>5, <2>6, <2>7, <2>8 DEF SessionNext
<1> QED
  BY <1>1, <1>2, PTL DEF SessionSpec

(* Whatever is not on the disk yet has a timer that will save it, or is in *)
(* the batch that starts one, for any number of transfers and lists.       *)
THEOREM ChangesAreSavedAlways ==
    ASSUME FileExists
    PROVE  SessionSpec => []ChangesAreSaved
<1>1. SessionInv => ChangesAreSaved
  BY DEF SessionInv, FirstSaves, ChangesAreSaved, SaveIsPending
<1> QED
  BY <1>1, SessionInvariant, PTL

(* While a transfer runs the list is saved again and again (kget.cpp:1359), *)
(* for any number of transfers and lists.                                   *)
THEOREM ProgressIsSavedAlways ==
    ASSUME FileExists
    PROVE  SessionSpec => []ProgressIsSaved
<1>1. SessionInv => ProgressIsSaved
  BY DEF SessionInv, FirstSaves, ProgressIsSaved
<1> QED
  BY <1>1, SessionInvariant, PTL
=============================================================================
