------------------------------ MODULE Metalink ------------------------------
(***************************************************************************)
(* A transfer of several files (transfer-plugins/metalink/metalink.cpp):   *)
(* it downloads the Metalink, makes a DataSourceFactory of each file the   *)
(* Metalink names, asks which of them to download, starts some at a time,  *)
(* and makes one status of theirs. A factory tells its status inside of    *)
(* the call that changes it, so updateStatus() runs nested in start(); it  *)
(* says nothing while its file is being opened. What a factory does is     *)
(* cut down to this (Download has the rest).                               *)
(*                                                                         *)
(* The calls of the scheduler that follow a change of the status are       *)
(* steps of their own. The Metalink is not a dynamic one.                  *)
(***************************************************************************)
EXTENDS Integers, SequencesExt, FiniteSetsExt, Loops

CONSTANTS
    FileOrder,          \* the files, in the order of m_dataSourceFactory
    SimultanousFiles,   \* MetalinkSettings::simultanousFiles
    MaxFailures,        \* bound: how often the download of a file fails
    MaxSelections,      \* bound: how often the user selects files
    MaxDownloads        \* bound: the jobs that download the Metalink at a time

Files == ToSet(FileOrder)

ASSUME MetalinkAssumption ==
    /\ FileOrder \in Seq(Files)
    /\ SimultanousFiles \in Nat \ {0}
    /\ {MaxFailures, MaxSelections, MaxDownloads} \subseteq Nat

VARIABLES
    metalink,   \* the Metalink
    wanted,     \* the scheduler wants it to run
    downloads,  \* the jobs that download the Metalink itself
    dialogs,    \* the open dialogs that ask which files to download
    count       \* what is bounded

metalinkVars == <<metalink, wanted, downloads, dialogs, count>>

(* A factory, with what it does to its file; broken, when the file has     *)
(* failed its verification.                                                *)
NewFactory == [status |-> "Stopped", doDownload |-> TRUE, m_startTried |-> FALSE, file |-> "closed",
               broken |-> FALSE]

(* Nothing is there but the source; a Metalink is stored already when that *)
(* is a local file.                                                        *)
MetalinkInit ==
    /\ \E local \in BOOLEAN :
          metalink = [status |-> "Stopped", m_ready |-> FALSE, stored |-> local,
               m_currentFiles |-> 0, factory |-> [f \in Files |-> NewFactory]]
    /\ wanted = TRUE
    /\ downloads = 0
    /\ dialogs = 0
    /\ count = [failures |-> 0, selections |-> 0]

Selected(n) == {f \in Files : n.m_ready /\ n.factory[f].doDownload}
Running(n) == {f \in Files : n.factory[f].status = "Running"}
Opening(n) == {f \in Files : n.factory[f].m_startTried /\ n.factory[f].file = "opening"}
Unfinished(n) == {f \in Selected(n) : n.factory[f].status # "Finished"}

-----------------------------------------------------------------------------
(* What the Metalink n becomes. *)

(* Mutant: the files that still run do not count. *)
StopsWithOne(n, s) == [n EXCEPT !.status = s, !.m_currentFiles = 0]

(* updateStatus for a factory that is stopped or aborted, or for none.     *)
NoLongerRunning(n, s) ==
    LET running == Running(n) \cap Selected(n)
    IN  [n EXCEPT !.m_currentFiles = Cardinality(running),
                  !.status = IF running = {} THEN s ELSE @]

(* DataSourceFactory::start: the file cannot be created, is open, or is    *)
(* opened first.                                                           *)
StartFactory(n, f, fails) ==
    LET tried == [n EXCEPT !.factory[f].m_startTried = TRUE]
    IN  IF n.factory[f].status = "Finished" THEN n
        ELSE IF ~n.factory[f].doDownload THEN tried
        ELSE IF fails THEN NoLongerRunning([tried EXCEPT !.factory[f].status = "Aborted"], "Aborted")
        ELSE IF n.factory[f].file = "open"
        THEN [n EXCEPT !.factory[f].status = "Running", !.factory[f].m_startTried = FALSE, !.status = "Running"]
        ELSE [tried EXCEPT !.factory[f].file = "opening"]

(* Mutant: what has failed is not tried again. *)
StartsUnlessAborted(n, f) ==
    n.factory[f].doDownload /\ n.factory[f].status \notin {"Finished", "Running", "Aborted"}

ShouldStart(n, f) == n.factory[f].doDownload /\ n.factory[f].status \notin {"Finished", "Running"}

(* startMetalink: failing are the files whose start would fail.            *)
startMetalink(n0, failing) ==
    LET StartNext(n, f) ==
            IF n.m_currentFiles < SimultanousFiles /\ ShouldStart(n, f)
            THEN StartFactory([n EXCEPT !.m_currentFiles = @ + 1], f, f \in failing)
            ELSE n
    IN  IF n0.m_ready THEN ForEach(StartNext, n0, FileOrder) ELSE n0

(* Mutant: finished as soon as no file is running. *)
AllFinishedIfNoneRuns(n) == Running(n) \cap Selected(n) = {}

AllFinished(n) == Unfinished(n) = {}

(* updateStatus for a factory that has finished. *)
HasFinished(n0, failing) ==
    LET n == IF n0.m_currentFiles > 0
             THEN startMetalink([n0 EXCEPT !.m_currentFiles = @ - 1], failing)
             ELSE n0
    IN  IF AllFinished(n) THEN [n EXCEPT !.status = "Finished"] ELSE n

(* DataSourceFactory::stop, and updateStatus. *)
StopFactory(n, f) ==
    IF n.factory[f].status = "Finished" THEN n
    ELSE NoLongerRunning([n EXCEPT !.factory[f].status = "Stopped", !.factory[f].m_startTried = FALSE], "Stopped")

(* metalinkInit, when there is a valid Metalink or not: the factories of   *)
(* the files are new, whatever was there before.                           *)
metalinkInit(n, valid) ==
    IF valid THEN [n EXCEPT !.m_ready = TRUE, !.factory = [f \in Files |-> NewFactory]]
    ELSE [n EXCEPT !.status = "Aborted"]

-----------------------------------------------------------------------------
(* The scheduler *)

(* Which starts of files fail: at most so many that MaxFailures is kept. *)
Failing == {F \in SUBSET Files : count.failures + Cardinality(F) <= MaxFailures}

Aborted(n) == {f \in Files : n.factory[f].status = "Aborted"}
NewlyAborted(n, o) == Cardinality(Aborted(n) \ Aborted(o))

StartReady ==
    /\ metalink.m_ready
    /\ \E F \in Failing : metalink' = startMetalink(metalink, F)
    /\ count' = [count EXCEPT !.failures = @ + NewlyAborted(metalink', metalink)]
    /\ UNCHANGED downloads

(* A valid Metalink is stored: the files are not asked for. *)
StartLocal ==
    /\ ~metalink.m_ready /\ metalink.stored
    /\ \E F \in Failing : metalink' = startMetalink(metalinkInit(metalink, TRUE), F)
    /\ count' = [count EXCEPT !.failures = @ + NewlyAborted(metalink', metalink)]
    /\ UNCHANGED downloads

(* None is stored, or what is stored is none. Another download may be on   *)
(* its way.                                                                *)
downloadMetalink ==
    /\ ~metalink.m_ready /\ ~metalink.stored
    /\ downloads < MaxDownloads
    /\ downloads' = downloads + 1
    /\ metalink' = [metalink EXCEPT !.status = "Stopped"]
    /\ UNCHANGED count

StartWanted ==
    /\ wanted
    /\ metalink.status \in {"Stopped", "Aborted"}
    /\ StartReady \/ StartLocal \/ downloadMetalink
    /\ UNCHANGED <<wanted, dialogs>>

(* Metalink::stop *)
stopMetalink(n) == IF ~n.m_ready \/ n.status = "Stopped" THEN n
           ELSE ForEach(StopFactory, [n EXCEPT !.m_currentFiles = 0], FileOrder)

StopWanted ==
    /\ wanted
    /\ wanted' = FALSE
    /\ metalink' = stopMetalink(metalink)
    /\ UNCHANGED <<downloads, dialogs, count>>

Want == ~wanted /\ wanted' = TRUE /\ UNCHANGED <<metalink, downloads, dialogs, count>>

(* A transfer that runs and gets no data is stopped and started again. *)
RestartStalled ==
    /\ wanted
    /\ metalink.status = "Running" /\ Running(metalink) = {}
    /\ metalink' = stopMetalink(metalink)
    /\ UNCHANGED <<wanted, downloads, dialogs, count>>

-----------------------------------------------------------------------------
(* The download of the Metalink. What comes may not be a Metalink; then    *)
(* the one that was parsed before may be kept. An error is told to nobody. *)
(* What replaced factories go on to do is not modelled: with one download  *)
(* at a time there are none.                                               *)

MetalinkDownloaded ==
    /\ downloads > 0
    /\ downloads' = downloads - 1
    /\ \E good, kept \in BOOLEAN :
          LET valid == good \/ (kept /\ metalink.m_ready)
              n == [metalink EXCEPT !.stored = good]
          IN  /\ metalink' = metalinkInit(n, valid)
              /\ dialogs' = IF valid THEN dialogs + 1 ELSE dialogs
    /\ UNCHANGED <<wanted, count>>

MetalinkFails ==
    /\ downloads > 0
    /\ downloads' = downloads - 1
    /\ UNCHANGED <<metalink, wanted, dialogs, count>>

-----------------------------------------------------------------------------
(* The factories *)

(* The file is open: a start that was tried goes on. *)
FactoryOpened(f) ==
    LET n == [metalink EXCEPT !.factory[f].file = "open"]
    IN  /\ metalink.factory[f].file = "opening"
        /\ metalink' = IF n.factory[f].m_startTried THEN StartFactory(n, f, FALSE) ELSE n
        /\ UNCHANGED <<wanted, downloads, dialogs, count>>

FactoryFails(f) ==
    /\ metalink.factory[f].status = "Running"
    /\ count.failures < MaxFailures
    /\ count' = [count EXCEPT !.failures = @ + 1]
    /\ metalink' = NoLongerRunning([metalink EXCEPT !.factory[f].status = "Aborted"], "Aborted")
    /\ UNCHANGED <<wanted, downloads, dialogs>>

(* The file is closed; the verifier may find it broken. *)
FactoryFinishes(f) ==
    /\ metalink.factory[f].status = "Running"
    /\ \E F \in Failing, b \in BOOLEAN :
         /\ b => count.failures + Cardinality(F) < MaxFailures
         /\ metalink' = HasFinished([metalink EXCEPT !.factory[f].status = "Finished", !.factory[f].file = "closed",
                                       !.factory[f].broken = b], F)
         /\ count' = [count EXCEPT !.failures = @ + NewlyAborted(metalink', metalink) + (IF b THEN 1 ELSE 0)]
    /\ UNCHANGED <<wanted, downloads, dialogs>>

-----------------------------------------------------------------------------
(* The user *)

(* DataSourceFactory::setDoDownload *)
setDoDownload(n, f, d) ==
    IF n.factory[f].doDownload = d THEN n
    ELSE LET o == [n EXCEPT !.factory[f].doDownload = d]
         IN  IF d /\ o.factory[f].m_startTried THEN StartFactory(o, f, FALSE)
             ELSE IF ~d /\ o.factory[f].status = "Running" THEN StopFactory(o, f)
             ELSE o

(* Metalink::filesSelected: finished files are left alone; when some are   *)
(* left to do, updateStatus runs without a factory.                        *)
NotFinished(n) == {f \in Files : n.factory[f].status # "Finished"}

filesSelected(n, S) ==
    LET Set(o, f) == IF f \in NotFinished(n) THEN setDoDownload(o, f, f \in S) ELSE o
        n1 == ForEach(Set, n, FileOrder)
    IN  IF S \cap NotFinished(n) = {} THEN n1 ELSE NoLongerRunning(n1, "Stopped")

SelectFiles(S) ==
    /\ metalink.m_ready
    /\ S \subseteq NotFinished(metalink)
    /\ count.selections < MaxSelections
    /\ count' = [count EXCEPT !.selections = @ + 1]
    /\ metalink' = filesSelected(metalink, S)
    /\ UNCHANGED <<wanted, downloads, dialogs>>

(* fileDlgFinished: whether the scheduler wants it to run or not.          *)
FileDlgFinished(S) ==
    LET n == filesSelected(metalink, S)
    IN  /\ dialogs > 0
        /\ dialogs' = dialogs - 1
        /\ S \subseteq NotFinished(metalink)
        /\ \E F \in Failing : metalink' = IF S = {} THEN [n EXCEPT !.status = "Stopped"] ELSE startMetalink(n, F)
        /\ count' = [count EXCEPT !.failures = @ + NewlyAborted(metalink', metalink)]
        /\ UNCHANGED <<wanted, downloads>>

(* Metalink::repair: the factories of broken files are no longer finished, *)
(* without a word, and start.                                              *)
Repair ==
    LET broken == {f \in Selected(metalink) : metalink.factory[f].broken}
        RepairNext(n, f) ==
            IF f \in broken
            THEN StartFactory([n EXCEPT !.factory[f].status = "Stopped", !.factory[f].broken = FALSE], f, FALSE)
            ELSE n
    IN  /\ metalink.status = "Finished"
        /\ broken # {}
        /\ metalink' = ForEach(RepairNext, metalink, FileOrder)
        /\ UNCHANGED <<wanted, downloads, dialogs, count>>

Scheduler == StartWanted \/ RestartStalled
FactoryStep == \E f \in Files : FactoryOpened(f) \/ FactoryFails(f) \/ FactoryFinishes(f)
User == Want \/ StopWanted \/ Repair \/ \E S \in SUBSET Files : SelectFiles(S) \/ FileDlgFinished(S)

MetalinkNext == Scheduler \/ MetalinkDownloaded \/ MetalinkFails \/ FactoryStep \/ User

MetalinkSpec == MetalinkInit /\ [][MetalinkNext]_metalinkVars

MetalinkFairness == WF_metalinkVars(Scheduler) /\ \A f \in Files : WF_metalinkVars(FactoryOpened(f)) /\ WF_metalinkVars(FactoryFinishes(f))

MetalinkFairSpec == MetalinkSpec /\ MetalinkFairness

-----------------------------------------------------------------------------
(* Metalink::updateStatus counts what its factories tell it, in any order; *)
(* starts, selections, failures and repairs change what is left. When the  *)
(* transfer says that it has finished, each file that the user wants is    *)
(* there, but for those a repair opens again.                              *)
FinishedIsComplete == metalink.status = "Finished" => Unfinished(metalink) \subseteq Opening(metalink)

(* The scheduler counts a stopped or an aborted transfer as nothing: then  *)
(* none of its files is being downloaded (updateStatus, stop).             *)
StoppedIsIdle == metalink.status \in {"Stopped", "Aborted"} => Running(metalink) = {}

(* However the limit of files, failures, selections and restarts mix: a    *)
(* file the user wants comes to its end, as long as the scheduler wants    *)
(* the transfer to run.                                                    *)
SelectedFileEnds ==
    \A f \in Files : (wanted /\ f \in Unfinished(metalink)) ~> (~wanted \/ f \notin Unfinished(metalink))
=============================================================================
