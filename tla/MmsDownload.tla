---------------------------- MODULE MmsDownload ----------------------------
(***************************************************************************)
(* A transfer of an MMS stream (transfer-plugins/mmsthreads): MmsTransfer  *)
(* in the main thread; MmsDownload, whose run() connects, splits the file  *)
(* and starts the threads, and whose slots run in the main thread; and one *)
(* MmsThread per part, which reads units of the file and writes them.      *)
(*                                                                         *)
(* Threads talk to the main thread by signals in one queue. The state from *)
(* which a stopped download is resumed is saved by the main thread, from   *)
(* the signals it has seen.                                                *)
(***************************************************************************)
EXTENDS Integers, Sequences, FiniteSetsExt, Functions

CONSTANTS
    Total,       \* length of the stream in units; a thread reads one at a time
    Threads      \* MmsSettings::threads

ASSUME MmsAssumption == Total \in Nat \ {0} /\ Threads \in 1..Total

VARIABLES
    transfer,    \* the MmsTransfer
    download,    \* the MmsDownload it has created, if there is one
    thread,      \* the MmsThreads that run, a function on the ends of their parts
    signals,     \* what the event loop has not delivered yet
    file,        \* the units of the destination that are written
    lost,        \* history: the units a thread has not written for its short reads
    temp         \* m_fileTemp, from which a download is resumed, or NoTemp

mmsVars == <<transfer, download, thread, signals, file, lost, temp>>

Units == 0..(Total - 1)
NoTemp == [m_mapEndIni |-> <<>>, m_downloadedSize |-> -1]
Saved(d) == [m_mapEndIni |-> d.m_mapEndIni, m_downloadedSize |-> d.m_downloadedSize]
Created(phase, n) == [phase |-> phase, m_amountThreads |-> n, m_mapEndIni |-> <<>>, m_downloadedSize |-> 0,
                      m_threadList |-> {}, fails |-> 0, successes |-> 0]
NoDownload == Created("none", 0)
Signal(n, e, i) == [name |-> n, end |-> e, ini |-> i]
Arrives(n) == signals # <<>> /\ Head(signals).name = n

MmsInit ==
    /\ transfer = [status |-> "Stopped", m_retryDownload |-> FALSE, m_amountThreads |-> Threads,
                   m_downloadedSize |-> 0]
    /\ download = NoDownload
    /\ thread = <<>>
    /\ signals = <<>>
    /\ file = {}
    /\ lost = {}
    /\ temp = NoTemp

-----------------------------------------------------------------------------
(* MmsTransfer, as the scheduler calls it *)

Start ==
    /\ download.phase = "none" /\ transfer.status # "Finished"
    /\ transfer' = [transfer EXCEPT !.status = "Running"]
    /\ download' = Created("connecting", transfer.m_amountThreads)
    /\ UNCHANGED <<thread, signals, file, lost, temp>>

(* Mutant: threads are ended wherever they are. *)
TerminateThreads ==
    thread' = [e \in DOMAIN thread |-> [thread[e] EXCEPT !.phase = "leaving", !.m_download = FALSE]]

(* MmsDownload::stopTransfer: a thread sees it before its next unit. *)
stopTransfer ==
    thread' = [e \in DOMAIN thread |-> [thread[e] EXCEPT !.m_download = @ /\ e \notin download.m_threadList]]

MayStop == transfer.status \notin {"Stopped", "Finished"}

(* While the download connects it has no threads, and goes on. *)
Stop ==
    /\ MayStop
    /\ transfer' = [transfer EXCEPT !.status = "Stopped"]
    /\ stopTransfer
    /\ UNCHANGED <<download, signals, file, lost, temp>>

-----------------------------------------------------------------------------
(* MmsDownload::run *)

(* The URL does not work: signBrokenUrl, and the thread of the download ends. *)
BrokenUrl ==
    /\ download.phase = "connecting"
    /\ download' = [download EXCEPT !.phase = "broken"]
    /\ signals' = signals \o <<Signal("brokenUrl", 0, 0), Signal("downloadEnds", 0, 0)>>
    /\ UNCHANGED <<transfer, thread, file, lost, temp>>

(* n parts of the same length, the last one with the rest; none if n < 0. *)
Split(n) ==
    LET ini(i) == (i - 1) * (Total \div n)
        end(i) == IF i = n THEN Total ELSE i * (Total \div n)
    IN  [e \in {end(i) : i \in 1..n} |-> ini(CHOOSE i \in 1..n : end(i) = e)]

(* Mutant: the size is not read back with the map. *)
SizeForgotten == 0

(* MmsDownload::unSerialization *)
SizeResumed == temp.m_downloadedSize

(* splitTransfer and startTransfer: a download of one part if the stream   *)
(* is not seekable or no connection is left, which forgets the temporary   *)
(* file, and one that is resumed from the temporary file if there is one.  *)
(* A download that is begun anew fetches again what was lost.              *)
Connected(seekable) ==
    LET one == ~seekable \/ download.m_amountThreads = 0
        n == IF one THEN 1 ELSE download.m_amountThreads
        resumed == ~one /\ temp # NoTemp
        parts == IF resumed THEN temp.m_mapEndIni ELSE Split(n)
    IN  /\ download.phase = "connecting"
        /\ download' = [download EXCEPT
               !.phase = "downloading", !.m_amountThreads = n, !.m_mapEndIni = parts,
               !.m_downloadedSize = IF resumed THEN SizeResumed ELSE 0,
               !.m_threadList = DOMAIN parts]
        /\ thread' = [e \in DOMAIN parts |->
               [phase |-> "connecting", m_begin |-> parts[e], behind |-> 0, m_download |-> TRUE]]
        /\ temp' = IF one THEN NoTemp ELSE temp
        /\ lost' = IF resumed THEN lost ELSE {}
        /\ UNCHANGED <<transfer, signals, file>>

-----------------------------------------------------------------------------
(* MmsThread::run *)

ThreadConnects(e, ok) ==
    /\ thread[e].phase = "connecting"
    /\ thread' = [thread EXCEPT ![e].phase = IF ok THEN "reading" ELSE "leaving"]
    /\ signals' = Append(signals, Signal(IF ok THEN "connected" ELSE "refused", e, 0))
    /\ UNCHANGED <<transfer, download, file, lost, temp>>

GoesOn(e) == thread[e].m_begin < e /\ thread[e].m_download

(* A unit is announced with the place behind it, ... *)
ThreadReads(e) ==
    /\ thread[e].phase = "reading" /\ GoesOn(e)
    /\ thread' = [thread EXCEPT ![e].phase = "writing", ![e].m_begin = @ + 1]
    /\ signals' = Append(signals, Signal("read", e, thread[e].m_begin + 1))
    /\ UNCHANGED <<transfer, download, file, lost, temp>>

(* ... and then written, behind what the thread has written before. A read *)
(* that was short leaves the file of the thread behind for good: the       *)
(* stream and the file go on from where they are.                          *)
ThreadWrites(e, whole) ==
    /\ thread[e].phase = "writing"
    /\ thread' = [thread EXCEPT ![e].phase = "reading", ![e].behind = IF whole THEN @ ELSE @ + 1]
    /\ file' = IF whole THEN file \cup {thread[e].m_begin - thread[e].behind - 1} ELSE file
    /\ UNCHANGED <<transfer, download, signals, lost, temp>>

(* The thread ends and emits finished(). *)
ThreadEnds(e) ==
    /\ thread[e].phase = "leaving" \/ (thread[e].phase = "reading" /\ ~GoesOn(e))
    /\ thread' = Restrict(thread, DOMAIN thread \ {e})
    /\ signals' = Append(signals, Signal("threadEnds", e, 0))
    /\ lost' = lost \cup (thread[e].m_begin - thread[e].behind)..(thread[e].m_begin - 1)
    /\ UNCHANGED <<transfer, download, file, temp>>

-----------------------------------------------------------------------------
(* The slots of MmsDownload and MmsTransfer *)

(* MmsTransfer::slotConnectionsErrors: stop(), and a restart with as many  *)
(* connections as there were, or one less if there was none, when the      *)
(* download has ended. -1 stands for every number below zero.              *)
restartDownload(connections) ==
    /\ transfer' = [transfer EXCEPT
           !.status = IF MayStop THEN "Stopped" ELSE @,
           !.m_retryDownload = TRUE,
           !.m_amountThreads = IF connections > 0 THEN connections ELSE IF @ < 0 THEN @ ELSE @ - 1]
    /\ IF MayStop THEN stopTransfer ELSE UNCHANGED thread

(* MmsDownload::slotIsThreadConnected *)
slotIsThreadConnected ==
    LET ok == Arrives("connected")
        s == download.successes + (IF ok THEN 1 ELSE 0)
        f == download.fails + (IF ok THEN 0 ELSE 1)
    IN  /\ Arrives("connected") \/ Arrives("refused")
        /\ signals' = Tail(signals)
        /\ download' = [download EXCEPT !.successes = s, !.fails = f]
        /\ IF f # 0 /\ f + s = download.m_amountThreads
           THEN restartDownload(s)
           ELSE UNCHANGED <<transfer, thread>>
        /\ UNCHANGED <<file, lost, temp>>

(* A part that is complete leaves the map. *)
Progress(map, e, ini) ==
    IF ini = e THEN Restrict(map, DOMAIN map \ {e}) ELSE [map EXCEPT ![e] = ini]

(* MmsDownload::slotRead and MmsTransfer::slotProcessedSizeAndPercent *)
slotRead ==
    LET s == Head(signals)
        d == [download EXCEPT !.m_mapEndIni = Progress(@, s.end, s.ini), !.m_downloadedSize = @ + 1]
    IN  /\ Arrives("read")
        /\ signals' = Tail(signals)
        /\ download' = d
        /\ transfer' = [transfer EXCEPT !.m_downloadedSize = d.m_downloadedSize]
        /\ UNCHANGED <<thread, file, lost, temp>>

(* Mutant: the list is looked at before the thread is removed from it. *)
IsLastOfNone(e) == download.m_threadList = {}

IsLast(e) == download.m_threadList \subseteq {e}

(* MmsDownload::slotThreadFinish *)
slotThreadFinish ==
    LET e == Head(signals).end
    IN  /\ Arrives("threadEnds")
        /\ download' = [download EXCEPT !.m_threadList = @ \ {e}, !.phase = IF IsLast(e) THEN "ended" ELSE @]
        /\ signals' = Tail(signals) \o (IF IsLast(e) THEN <<Signal("downloadEnds", 0, 0)>> ELSE <<>>)
        /\ temp' = IF IsLast(e) THEN Saved(download) ELSE temp
        /\ UNCHANGED <<transfer, thread, file, lost>>

(* MmsDownload::slotSpeedChanged: the timer saves the state. *)
SaveTimer ==
    /\ download.phase = "downloading"
    /\ temp' = Saved(download)
    /\ UNCHANGED <<transfer, download, thread, signals, file, lost>>

(* MmsTransfer::slotBrokenUrl *)
slotBrokenUrl ==
    /\ Arrives("brokenUrl")
    /\ signals' = Tail(signals)
    /\ transfer' = [transfer EXCEPT !.status = "Aborted"]
    /\ UNCHANGED <<download, thread, file, lost, temp>>

IsComplete == transfer.m_downloadedSize = Total

(* MmsTransfer::slotResult *)
slotResult ==
    LET restarts == transfer.m_retryDownload /\ ~IsComplete
    IN  /\ Arrives("downloadEnds")
        /\ signals' = Tail(signals)
        /\ transfer' = [transfer EXCEPT
               !.status = CASE IsComplete -> "Finished" [] restarts -> "Running" [] OTHER -> @,
               !.m_retryDownload = FALSE]
        /\ download' = IF restarts THEN Created("connecting", transfer.m_amountThreads) ELSE NoDownload
        /\ temp' = IF IsComplete \/ transfer.m_retryDownload THEN NoTemp ELSE temp
        /\ UNCHANGED <<thread, file, lost>>

-----------------------------------------------------------------------------
Run == BrokenUrl \/ \E seekable \in BOOLEAN : Connected(seekable)
ThreadStep == \E e \in DOMAIN thread :
    (\E ok \in BOOLEAN : ThreadConnects(e, ok)) \/ ThreadReads(e) \/ ThreadEnds(e)
    \/ \E whole \in BOOLEAN : ThreadWrites(e, whole)
Slot == slotIsThreadConnected \/ slotRead \/ slotThreadFinish \/ slotBrokenUrl \/ slotResult

MmsNext == Start \/ Stop \/ Run \/ ThreadStep \/ Slot \/ SaveTimer

MmsSpec == MmsInit /\ [][MmsNext]_mmsVars

(* Servers answer, threads run, and the event loop delivers signals. *)
Fairness == WF_mmsVars(Run) /\ WF_mmsVars(ThreadStep) /\ WF_mmsVars(Slot)

FairSpec == MmsSpec /\ Fairness

-----------------------------------------------------------------------------
(* Properties *)

Parts(map) == UNION {map[e]..(e - 1) : e \in DOMAIN map}

(* A download that was begun with less than no connections has no part and *)
(* no thread whose end it could see (mmsdownload.cpp:92).                  *)
Hangs == download.phase = "downloading" /\ download.m_threadList = {}

(* What the main thread knows of a download agrees with its threads: what  *)
(* is not downloaded are the parts of the map, and a thread is as far      *)
(* ahead of its part as it has signals in the queue, through every stop,   *)
(* resumption and restart (mmsdownload.cpp:170-182).                       *)
MmsAccountsAgree ==
    download.phase \in {"downloading", "ended"} /\ ~Hangs =>
        /\ download.m_downloadedSize + Cardinality(Parts(download.m_mapEndIni)) = Total
        /\ \A e \in DOMAIN thread :
             thread[e].m_begin = (IF e \in DOMAIN download.m_mapEndIni THEN download.m_mapEndIni[e] ELSE e)
                 + Cardinality({i \in DOMAIN signals : signals[i].name = "read" /\ signals[i].end = e})

(* A unit that will not be fetched again is on the disk, or was lost at    *)
(* the end of what a thread with short reads has written: the signal of a  *)
(* unit comes before its write, but no resumption and no end does          *)
(* (mmsthread.cpp:53-69). A stream with short reads is finished without    *)
(* the units it has lost.                                                  *)
MmsDoneIsWritten ==
    /\ download.phase = "none" /\ temp # NoTemp => Units \ Parts(temp.m_mapEndIni) \subseteq file \cup lost
    /\ transfer.status = "Finished" => Units \subseteq file \cup lost

(* A download that has connected ends, be its threads finished, stopped or *)
(* refused, and is gone or restarts; until then every start is in vain     *)
(* (mmstransfer.cpp:53). Only one that the refusals have left with less    *)
(* than no connections never ends (mmstransfer.cpp:183).                   *)
MmsDownloadEnds ==
    download.phase \notin {"none", "connecting"} ~>
        \/ download.phase \in {"none", "connecting"}
        \/ Hangs /\ transfer.m_amountThreads < 0
=============================================================================
