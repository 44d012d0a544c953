---------------------------- MODULE Destination ----------------------------
(***************************************************************************)
(* The file a transfer writes: who may delete it, and when. Transfers are  *)
(* added through the dialog for new transfers, through its handler, that   *)
(* checks what it gets with UrlChecker, or through KGet::addTransfer; each *)
(* may replace a transfer or a file. Files are deleted by the FileDeleter, *)
(* in the background, with one job per file (core/filedeleter.cpp), and a  *)
(* DataSourceFactory that finds a file where it has not begun yet deletes  *)
(* it before it starts (core/datasourcefactory.cpp).                       *)
(*                                                                         *)
(* A transfer has one factory; what it does to the file is reduced to      *)
(* opening it and to having finished. Transfers do not move.               *)
(***************************************************************************)
EXTENDS Integers, SequencesExt, FiniteSetsExt, Loops

CONSTANTS
    Transfers,      \* each is added at most once
    Sources,
    Destinations,
    NoTransfer,
    MaxFileFailures \* bound: how often a file can not be deleted, created or opened

ASSUME DestinationAssumption == NoTransfer \notin Transfers /\ MaxFileFailures \in Nat

VARIABLES
    kget,       \* the transfers, the files, and the jobs of the FileDeleter
    added,      \* the transfers that have been added so far
    dialog,     \* what the dialog for new transfers has found out, if it is open
    failures

destinationVars == <<kget, added, dialog, failures>>

NewTransfer(s, d) ==
    [m_source |-> s, m_dest |-> d, m_status |-> "Stopped", m_downloadInitialized |-> FALSE,
     m_startTried |-> FALSE, putJob |-> "none", openFailed |-> FALSE]

NoFactory == [m_status |-> "none"]

NoDialog == [open |-> FALSE]

(* A job of the FileDeleter deletes its file, and later says so; disputed  *)
(* remembers the files that two transfers were to write at a time, and     *)
(* those the dialog deleted though they were not there any more.           *)
DestinationInit ==
    /\ \E F \in SUBSET Destinations :
          kget = [list |-> {}, transfer |-> [t \in Transfers |-> NoFactory], file |-> F,
               job |-> [e \in Destinations |-> "none"], receivers |-> [e \in Destinations |-> <<>>],
               disputed |-> {}]
    /\ added = {}
    /\ dialog = NoDialog
    /\ failures = 0

findTransfer(n, s) == {t \in n.list : n.transfer[t].m_source = s}
findTransferByDestination(n, d) == {t \in n.list : n.transfer[t].m_dest = d}
isFileBeingDeleted(n, d) == n.job[d] # "none"
wouldOverwrite(n, d) == d \in n.file /\ ~isFileBeingDeleted(n, d)

-----------------------------------------------------------------------------
(* What kget becomes. *)

(* Mutant: who comes second is not told. *)
DeleteTellsFirst(n, d, receiver) ==
    IF isFileBeingDeleted(n, d) THEN n
    ELSE [n EXCEPT !.job[d] = "deletes", !.receivers[d] = <<receiver>>]

(* FileDeleter::deleteFile; the job a file has is joined.                  *)
deleteFile(n, d, receiver) ==
    [n EXCEPT !.job[d] = IF @ = "none" THEN "deletes" ELSE @,
              !.receivers[d] = Append(Among(@, Transfers \ {receiver}), receiver)]

(* The same, for files whose deletion nobody waits for.                    *)
deleteFiles(n, D) ==
    [n EXCEPT !.job = [d \in Destinations |-> IF d \in D /\ @[d] = "none" THEN "deletes" ELSE @[d]]]

(* KGet::delTransfers, with DataSourceFactory::deinit: the transfers of T, *)
(* those of U with the files they have begun.                              *)
delTransfers(n, T, U) ==
    LET begun == {t \in U : n.transfer[t].m_downloadInitialized}
        n1 == deleteFiles(n, {n.transfer[t].m_dest : t \in begun} \cap n.file)
    IN  [n1 EXCEPT !.list = @ \ T,
                   !.transfer = [t \in Transfers |-> IF t \in T THEN NoFactory ELSE @[t]],
                   !.receivers = [d \in Destinations |-> Among(@[d], Transfers \ T)]]

(* DeleteMode AutoDelete: what has finished keeps its file. *)
AutoDelete(n, T) == delTransfers(n, T, {t \in T : n.transfer[t].m_status # "Finished"})

(* KGet::createTransfers *)
createTransfers(n, T, source, dest) ==
    LET Disputed(t) == findTransferByDestination(n, dest[t]) # {} \/ \E u \in T \ {t} : dest[u] = dest[t]
    IN  [n EXCEPT !.list = @ \cup T,
                  !.transfer = [t \in Transfers |->
                                   IF t \in T THEN NewTransfer(source[t], dest[t]) ELSE @[t]],
                  !.disputed = @ \cup {dest[t] : t \in {u \in T : Disputed(u)}}]

createTransfer(n, t, s, d) == createTransfers(n, {t}, [u \in {t} |-> s], [u \in {t} |-> d])

(* Mutant: the file of another download is written over. *)
RemovesNothing(n, t) == FALSE

RemovesFirst(n, t) == ~n.transfer[t].m_downloadInitialized /\ n.transfer[t].m_dest \in n.file

(* DataSourceFactory::start *)
startFactory(n, t, fails) ==
    LET f == n.transfer[t]
        begun == [f EXCEPT !.m_startTried = TRUE, !.m_downloadInitialized = TRUE, !.openFailed = FALSE]
    IN  IF f.m_status = "Finished" THEN n
        ELSE IF RemovesFirst(n, t)
        THEN deleteFile([n EXCEPT !.transfer[t].m_startTried = TRUE], f.m_dest, t)
        ELSE IF fails THEN [n EXCEPT !.transfer[t] = [begun EXCEPT !.m_status = "Aborted"]]
        ELSE IF f.putJob = "open"
        THEN [n EXCEPT !.transfer[t] = [begun EXCEPT !.m_status = "Running", !.m_startTried = FALSE]]
        ELSE [n EXCEPT !.transfer[t] = [begun EXCEPT !.putJob = "opening"], !.file = @ \cup {f.m_dest}]

(* DataSourceFactory::slotRemovedFile *)
slotRemovedFile(n, t) ==
    IF n.transfer[t].m_startTried
    THEN startFactory([n EXCEPT !.transfer[t].m_startTried = FALSE], t, FALSE)
    ELSE n

-----------------------------------------------------------------------------
(* The download *)

StartTransfer(t) ==
    /\ t \in kget.list
    /\ kget.transfer[t].m_status \in {"Stopped", "Aborted"}
    /\ \E fails \in BOOLEAN :
         /\ kget' = startFactory(kget, t, fails)
         /\ fails => failures < MaxFileFailures /\ kget'.transfer[t].m_status = "Aborted"
         /\ failures' = IF fails THEN failures + 1 ELSE failures
    /\ UNCHANGED <<added, dialog>>

(* DataSourceFactory::stop *)
StopTransfer(t) ==
    /\ t \in kget.list
    /\ kget.transfer[t].m_status # "Finished"
    /\ kget' = [kget EXCEPT !.transfer[t].m_status = "Stopped", !.transfer[t].m_startTried = FALSE]
    /\ UNCHANGED <<added, dialog, failures>>

(* DataSourceFactory::open *)
FileOpened(t) ==
    LET n == [kget EXCEPT !.transfer[t].putJob = "open"]
    IN  /\ t \in kget.list
        /\ kget.transfer[t].putJob = "opening"
        /\ kget' = IF n.transfer[t].m_startTried THEN startFactory(n, t, FALSE) ELSE n
        /\ UNCHANGED <<added, dialog, failures>>

(* The job is gone, and nobody asks why: slotPutJobDestroyed. *)
OpenFails(t) ==
    /\ t \in kget.list
    /\ kget.transfer[t].putJob = "opening"
    /\ failures < MaxFileFailures
    /\ failures' = failures + 1
    /\ kget' = [kget EXCEPT !.transfer[t].putJob = "none", !.transfer[t].openFailed = TRUE]
    /\ UNCHANGED <<added, dialog>>

DownloadFinishes(t) ==
    /\ t \in kget.list
    /\ kget.transfer[t].m_status = "Running"
    /\ kget' = [kget EXCEPT !.transfer[t].m_status = "Finished", !.transfer[t].putJob = "none"]
    /\ UNCHANGED <<added, dialog, failures>>

Unlinked(d) ==
    /\ kget.job[d] = "deletes"
    /\ kget' = [kget EXCEPT !.job[d] = "done", !.file = @ \ {d}]
    /\ UNCHANGED <<added, dialog, failures>>

UnlinkFails(d) ==
    /\ kget.job[d] = "deletes"
    /\ failures < MaxFileFailures
    /\ failures' = failures + 1
    /\ kget' = [kget EXCEPT !.job[d] = "done"]
    /\ UNCHANGED <<added, dialog>>

(* FileDeleter::Private::slotResult forgets the job; then those that wait  *)
(* for it are told, in the order they came, whether it has failed or not.  *)
DeleteResult(d) ==
    /\ kget.job[d] = "done"
    /\ kget' = ForEach(slotRemovedFile, [kget EXCEPT !.job[d] = "none", !.receivers[d] = <<>>], kget.receivers[d])
    /\ UNCHANGED <<added, dialog, failures>>

-----------------------------------------------------------------------------
(* The user *)

RemoveTransfer(t) ==
    /\ t \in kget.list
    /\ kget' \in {delTransfers(kget, {t}, {t}), AutoDelete(kget, {t})}
    /\ UNCHANGED <<added, dialog, failures>>

(* NewTransferDialog::checkInput: a transfer of the same source is found   *)
(* first; then one with the same destination is not looked for.            *)
ExistingTransfers(n, s, d) ==
    IF findTransfer(n, s) # {} THEN findTransfer(n, s)
    ELSE IF findTransferByDestination(n, d) # {} THEN findTransferByDestination(n, d)
    ELSE {NoTransfer}

CheckInput(s, d) ==
    /\ \E t \in ExistingTransfers(kget, s, d) :
          dialog' = [open |-> TRUE, source |-> s, dest |-> d, m_existingTransfer |-> t,
                     m_overWriteSingle |-> wouldOverwrite(kget, d)]
    /\ UNCHANGED <<kget, added, failures>>

(* NewTransferDialog::dialogAccepted, with what was found when the input   *)
(* was checked. A transfer that has been removed since is not followed.    *)
DialogAccepted(t) ==
    /\ dialog.open
    /\ dialog.m_existingTransfer \in kget.list \cup {NoTransfer}
    /\ LET n1 == AutoDelete(kget, {dialog.m_existingTransfer} \ {NoTransfer})
           n2 == IF dialog.m_overWriteSingle
                 THEN deleteFiles([n1 EXCEPT !.disputed = @ \cup ({dialog.dest} \ kget.file)], {dialog.dest})
                 ELSE n1
       IN  kget' = createTransfer(n2, t, dialog.source, dialog.dest)
    /\ dialog' = NoDialog
    /\ added' = added \cup {t}
    /\ UNCHANGED failures

(* NewTransferDialogHandler::handleUrls, when the user agrees: transfers   *)
(* of the sources are removed, then existing files; a transfer with the    *)
(* same destination is not looked for. With two sources, all of this comes *)
(* before the first transfer is created.                                   *)
checkExistingFiles(n, D) == deleteFiles(n, {d \in D : wouldOverwrite(n, d)})

HandleUrls(T, source, dest) ==
    LET n1 == AutoDelete(kget, UNION {findTransfer(kget, source[t]) : t \in T})
        n2 == checkExistingFiles(n1, {dest[t] : t \in T})
    IN  /\ IsInjective(source)
        /\ kget' = createTransfers(n2, T, source, dest)
        /\ added' = added \cup T
        /\ UNCHANGED <<dialog, failures>>

(* KGet::addTransfer with isValidSource and getValidDestUrl, when the user *)
(* agrees: a finished transfer with the destination is removed; for any    *)
(* other, and for a file, another name is asked for, that is not checked.  *)
addTransfer(t, s, d) ==
    LET n1 == AutoDelete(kget, findTransfer(kget, s))
        there == findTransferByDestination(n1, d)
    IN  /\ \E n2 \in {n1, AutoDelete(n1, {e \in there : n1.transfer[e].m_status = "Finished"})} :
              kget' = createTransfer(n2, t, s, d)
        /\ added' = added \cup {t}
        /\ UNCHANGED <<dialog, failures>>

DownloadStep ==
    \/ \E t \in Transfers : StartTransfer(t) \/ StopTransfer(t) \/ FileOpened(t) \/ OpenFails(t) \/ DownloadFinishes(t)
    \/ \E d \in Destinations : Unlinked(d) \/ UnlinkFails(d) \/ DeleteResult(d)

UserStep ==
    \/ \E t \in Transfers : RemoveTransfer(t)
    \/ \E s \in Sources, d \in Destinations : CheckInput(s, d)
    \/ \E t \in Transfers \ added : DialogAccepted(t)
    \/ \E T \in kSubset(1, Transfers \ added) \cup kSubset(2, Transfers \ added) :
          \E source \in [T -> Sources], dest \in [T -> Destinations] : HandleUrls(T, source, dest)
    \/ \E t \in Transfers \ added, s \in Sources, d \in Destinations : addTransfer(t, s, d)

DestinationNext == DownloadStep \/ UserStep

DestinationSpec == DestinationInit /\ [][DestinationNext]_destinationVars

-----------------------------------------------------------------------------
(* FileDeleter works in the background, and names are used again at once:  *)
(* while a download writes its file no deletion of that name is on its     *)
(* way, but where two transfers got the same name or the dialog was late.  *)
(* DataSourceFactory::start waits for a deletion for that reason.          *)
DeletionSparesDownload ==
    \A t \in kget.list :
        /\ kget.transfer[t].m_downloadInitialized
        /\ kget.transfer[t].m_status # "Finished"
        /\ kget.transfer[t].m_dest \notin kget.disputed
        => kget.job[kget.transfer[t].m_dest] # "deletes"

(* A start that could not go on yet (m_startTried) is waited for by what   *)
(* calls start() again: the deletion of the old file, however many wait    *)
(* for it, or the opening of the file. Else the transfer failed and may be *)
(* tried again, or the file could not be opened, which nobody notices.     *)
StartIsRemembered ==
    \A t \in kget.list : kget.transfer[t].m_startTried =>
        \/ /\ t \in ToSet(kget.receivers[kget.transfer[t].m_dest])
           /\ isFileBeingDeleted(kget, kget.transfer[t].m_dest)
        \/ kget.transfer[t].putJob = "opening"
        \/ kget.transfer[t].m_status = "Aborted"
        \/ kget.transfer[t].openFailed
=============================================================================
