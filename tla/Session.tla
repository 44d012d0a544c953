------------------------------ MODULE Session ------------------------------
(***************************************************************************)
(* What a run of the program keeps of the list of transfers: KGet::load    *)
(* and KGet::save, the event loop that tells of changes in batches         *)
(* (transfertreemodel.cpp), and the GenericObservers (kget.cpp), which     *)
(* save the list by a timer and act when all transfers have finished.      *)
(*                                                                         *)
(* Every list that is loaded creates one more observer, with timers of its *)
(* own. The program may crash at any time and is started again.            *)
(***************************************************************************)
EXTENDS Naturals, FiniteSets, Functions

CONSTANTS
    Transfers,      \* the transfers there can be
    FileExists,     \* does the first run find a list of transfers?
    MaxObservers    \* bound: lists that are loaded in one run of the program

ASSUME SessionAssumption == FileExists \in BOOLEAN /\ MaxObservers \in Nat \ {0}

VARIABLES
    running,        \* is the program running?
    list,           \* its transfers: status, and status when they were loaded or added
    changed,        \* m_changedTransfers; when not empty the timer of the model is active
    observers,      \* the timers of each GenericObserver
    quitting,       \* slotQuit has been posted
    stored          \* transfers.kgt: the transfers in it, finished or not; or NoFile

sessionVars == <<running, list, changed, observers, quitting, stored>>

NoFile == [exists |-> FALSE]
File(l) == [exists |-> TRUE, finished |-> [t \in DOMAIN l |-> l[t].status = "Finished"]]
Stored == IF stored.exists THEN stored.finished ELSE <<>>

Statuses == {"Stopped", "Running", "Aborted", "Finished"}
Added(s) == [status |-> s, startStatus |-> s]
Observer == [m_save |-> "inactive", m_finishAction |-> FALSE]

SessionInit ==
    /\ running = FALSE
    /\ list = <<>>
    /\ changed = {}
    /\ observers = <<>>
    /\ quitting = FALSE
    /\ stored = IF FileExists THEN File(<<>>) ELSE NoFile

-----------------------------------------------------------------------------
(* GenericObserver *)

hasRunningJobs(l) == \E t \in DOMAIN l : l[t].status = "Running"
Kind(l) == IF hasRunningJobs(l) THEN "regularly" ELSE "once"

(* Mutant: the kind of the timer is chosen when it is started. *)
RequestedOnce(o, l) == IF o.m_save # "inactive" THEN o ELSE [o EXCEPT !.m_save = Kind(l)]

(* requestSave: a timer that is active goes on, as a single shot or not.   *)
Requested(o, l) == [o EXCEPT !.m_save = Kind(l)]

IsFinished(t) == list[t].status = "Finished"
IsNew(t) == list[t].startStatus # "Finished"

(* Some transfer, and not only such that were finished from the start.     *)
allTransfersFinished ==
    /\ \E t \in DOMAIN list : IsFinished(t) /\ IsNew(t)
    /\ \A t \in DOMAIN list : IsFinished(t)

(* transfersChangedEvent, of a batch in which statuses have changed.       *)
Informed(o) ==
    [Requested(o, list) EXCEPT
        !.m_finishAction = @ \/ ((\A t \in changed : IsFinished(t)) /\ allTransfersFinished)]

(* KGet::save *)
save == stored' = File(list)

(* slotSave, by the timer *)
SaveTimer(o) ==
    /\ observers[o].m_save # "inactive"
    /\ save
    /\ observers' = [observers EXCEPT ![o].m_save = IF @ = "once" THEN "inactive" ELSE @]
    /\ UNCHANGED <<running, list, changed, quitting>>

(* slotAfterFinishAction: ten seconds later, to quit the program.          *)
FinishTimer(o) ==
    /\ observers[o].m_finishAction
    /\ observers' = [observers EXCEPT ![o].m_finishAction = FALSE]
    /\ quitting' = TRUE
    /\ UNCHANGED <<running, list, changed, stored>>

(* slotAbortAfterFinishAction, from the notification of this observer.     *)
Abort(o) ==
    /\ observers[o].m_finishAction
    /\ observers' = [observers EXCEPT ![o].m_finishAction = FALSE]
    /\ UNCHANGED <<running, list, changed, quitting, stored>>

-----------------------------------------------------------------------------
(* TransferTreeModel *)

(* The list changes, and then every observer requests a save. *)
Listed(l) ==
    /\ list' = l
    /\ observers' = [o \in DOMAIN observers |-> Requested(observers[o], l)]

WithNew(t) == [u \in DOMAIN list \cup {t} |-> IF u = t THEN Added("Stopped") ELSE list[u]]

AddTransfer(t) ==
    /\ running
    /\ t \notin DOMAIN list
    /\ Listed(WithNew(t))
    /\ UNCHANGED <<running, changed, quitting, stored>>

(* Mutant: a removal alone is not worth a save. *)
RemovedUnsaved(t) ==
    /\ list' = Restrict(list, DOMAIN list \ {t})
    /\ UNCHANGED observers

Removed(t) == Listed(Restrict(list, DOMAIN list \ {t}))

(* delTransfers takes it out of the batch, too. *)
RemoveTransfer(t) ==
    /\ running
    /\ t \in DOMAIN list
    /\ Removed(t)
    /\ changed' = changed \ {t}
    /\ UNCHANGED <<running, quitting, stored>>

(* addGroup and delGroup of a group without transfers: saved at once, if   *)
(* there is somebody who observes.                                         *)
ChangeGroups ==
    /\ running
    /\ DOMAIN observers # {}
    /\ save
    /\ UNCHANGED <<running, list, changed, observers, quitting>>

(* A transfer changes its status by itself or by the scheduler, and posts  *)
(* the change.                                                             *)
MayFollow(s, s2) ==
    \/ s = "Running" /\ s2 \in {"Stopped", "Aborted", "Finished"}
    \/ s \in {"Stopped", "Aborted"} /\ s2 = "Running"

ChangeStatus(t) ==
    /\ running
    /\ t \in DOMAIN list
    /\ \E s \in Statuses :
         /\ MayFollow(list[t].status, s)
         /\ list' = [list EXCEPT ![t].status = s]
    /\ changed' = changed \cup {t}
    /\ UNCHANGED <<running, observers, quitting, stored>>

(* timerEvent delivers the batch to all observers. *)
TimerEvent ==
    /\ running
    /\ changed # {}
    /\ observers' = [o \in DOMAIN observers |-> Informed(observers[o])]
    /\ changed' = {}
    /\ UNCHANGED <<running, list, quitting, stored>>

-----------------------------------------------------------------------------
(* The program *)

Loaded == [t \in DOMAIN Stored |-> Added(IF Stored[t] THEN "Finished" ELSE "Stopped")]

(* MainWindow::init and KGet::load; the observer does not see the loading. *)
Launch ==
    /\ ~running
    /\ running' = TRUE
    /\ list' = Loaded
    /\ observers' = IF stored.exists THEN [o \in {1} |-> Observer] ELSE <<>>
    /\ UNCHANGED <<changed, quitting, stored>>

(* KGet::load of another list: who was there observes it.                  *)
Import(t) ==
    LET n == Cardinality(DOMAIN observers)
    IN  /\ running
        /\ n < MaxObservers
        /\ t \notin DOMAIN list
        /\ list' = WithNew(t)
        /\ observers' = [o \in 1..(n + 1) |->
               IF o = n + 1 THEN Observer ELSE Requested(observers[o], list')]
        /\ UNCHANGED <<running, changed, quitting, stored>>

Ends ==
    /\ running' = FALSE
    /\ list' = <<>>
    /\ changed' = {}
    /\ observers' = <<>>
    /\ quitting' = FALSE

(* MainWindow::slotQuit, by the user or posted; with running transfers the *)
(* user is asked. The destructor of the window saves the list.             *)
Quit == running /\ save /\ Ends

StaysAfterQuestion ==
    /\ quitting /\ hasRunningJobs(list)
    /\ quitting' = FALSE
    /\ UNCHANGED <<running, list, changed, observers, stored>>

SessionCrash == running /\ Ends /\ UNCHANGED stored

SessionNext ==
    \/ \E t \in Transfers : AddTransfer(t) \/ RemoveTransfer(t) \/ ChangeStatus(t) \/ Import(t)
    \/ \E o \in DOMAIN observers : SaveTimer(o) \/ FinishTimer(o) \/ Abort(o)
    \/ ChangeGroups \/ TimerEvent \/ Launch \/ Quit \/ StaysAfterQuestion \/ SessionCrash

SessionSpec == SessionInit /\ [][SessionNext]_sessionVars

-----------------------------------------------------------------------------
(* Properties *)

SaveIsPending == \E o \in DOMAIN observers : observers[o].m_save # "inactive"

(* Whatever is not on the disk yet will be saved: a transfer that was      *)
(* added, removed, imported or has finished and is not in the file has a   *)
(* timer running, or is in the batch that will start one. Only a crash     *)
(* within that time loses it (kget.cpp:1351-1366).                         *)
ChangesAreSaved ==
    running /\ changed = {} /\ File(list) # stored => SaveIsPending

(* "save regularly if there are running jobs" (kget.cpp:1359): however     *)
(* statuses change while a timer is active, one that goes on is active as  *)
(* long as a transfer runs.                                                *)
ProgressIsSaved ==
    running /\ changed = {} /\ hasRunningJobs(list) =>
        \E o \in DOMAIN observers : observers[o].m_save = "regularly"
=============================================================================
