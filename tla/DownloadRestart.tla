--------------------------- MODULE DownloadRestart ---------------------------
(***************************************************************************)
(* A download across crashes: DataSourceFactory and TransferMultiSegKio    *)
(* write themselves into the list of transfers, the program ends at any    *)
(* time, and the next one loads them and goes on.  Memory is lost then,    *)
(* the file stays, and the write under way may get there or not.           *)
(*                                                                         *)
(* Repairs are left out: what damages a file is no crash.                  *)
(***************************************************************************)
EXTENDS Download

CONSTANTS
    MaxCrashes      \* bound: how often the program ends

ASSUME CrashesAssumption == MaxCrashes \in Nat

VARIABLES
    transfer,       \* Job::m_status of the TransferMultiSegKio
    downloaded,     \* m_downloadedSize of both, at most FileSize + 1
    saved,          \* its elements "Transfer" and "factory" in transfers.kgt
    lost,           \* what of the writes under way never got to the file
    crashes

restartVars == <<vars, transfer, downloaded, saved, lost, crashes>>

(* The first mirror of a transfer is its source. *)
MainSource == Head(MirrorOrder)

(* What a new DataSourceFactory knows after TransferMultiSegKio::init *)
NewFactory ==
    [status |-> "Stopped", file |-> "none", known |-> FALSE, sized |-> FALSE,
     startTried |-> FALSE, findTried |-> FALSE, assignTried |-> FALSE,
     done |-> FALSE, started |-> {}, finished |-> {}, unused |-> <<>>,
     write |-> NoWrite]
NoSource == [used |-> FALSE, running |-> FALSE, connections |-> MaxConnections,
             segments |-> <<>>]
NewDownload(content) ==
    addMirror([factory |-> NewFactory, source |-> [m \in Mirrors |-> NoSource],
               disk |-> content],
              MainSource, TRUE, MaxConnections)

-----------------------------------------------------------------------------
(* Saving *)

(* The bytes of chunks; the last one may be shorter. *)
BytesOf(chunks) ==
    ChunkSize * Cardinality(chunks)
        - (IF NumBits - 1 \in chunks THEN ChunkSize - LastSegSize(NumBits - 1) ELSE 0)

(* Transfer::save and DataSourceFactory::save.  complete: TotalSize is
   DownloadedSize in the element of the transfer, by which Transfer::load decides. *)
Saved ==
    [status |-> factory.status, sized |-> factory.sized,
     finished |-> factory.finished, unused |-> factory.unused,
     used |-> {m \in Mirrors : source[m].used},
     connections |-> [m \in Mirrors |-> source[m].connections],
     complete |-> factory.sized /\ downloaded = FileSize]

(* Mutant: the chunks that were begun are saved as finished. *)
SaveBegun ==
    /\ saved' = [Saved EXCEPT !.finished = factory.started]
    /\ UNCHANGED <<vars, transfer, downloaded, lost, crashes>>

Save ==
    /\ saved' = Saved
    /\ UNCHANGED <<vars, transfer, downloaded, lost, crashes>>

(* Mutant: chunks that connections of the program before had begun stay theirs. *)
LoadBegun(s, sv) ==
    init([s EXCEPT !.factory.sized = sv.sized, !.factory.finished = sv.finished,
                   !.factory.started = IF sv.sized THEN Chunks ELSE {}])

(* The chunks and the mirrors of a saved factory, into a new download *)
LoadChunks(s, sv) ==
    init([s EXCEPT !.factory.sized = sv.sized,
                   !.factory.started = sv.finished, !.factory.finished = sv.finished])
LoadMirrors(s, sv, list, used) ==
    ForEach(LAMBDA t, m : addMirror(t, m, used, sv.connections[m]), s, list)

(* DataSourceFactory::load: the status is assigned last, and told to nobody. *)
load(s, sv) ==
    LET used == LoadMirrors(LoadChunks(s, sv), sv, Among(MirrorOrder, sv.used), TRUE)
    IN  [LoadMirrors(used, sv, sv.unused, FALSE) EXCEPT !.factory.status = sv.status]

(* The program ends, with or without a save before, and the next one loads. *)
Crash ==
    /\ crashes < MaxCrashes
    /\ crashes' = crashes + 1
    /\ \E content \in {disk, AfterWrite(disk, factory.write)} :
         /\ Becomes(load(NewDownload(content), saved))
         /\ lost' = lost \cup (RightUnits(factory.write) \ content)
    /\ transfer' = IF saved.complete THEN "Finished" ELSE "Stopped"
    /\ downloaded' = BytesOf(saved.finished)
    /\ UNCHANGED saved

-----------------------------------------------------------------------------
(* The download.  The transfer follows the status of the factory when that says
   so, which after a load it has not done yet. *)

(* DataSourceFactory::start says Running when it starts the sources or the search
   for the size, and otherwise leaves m_startTried behind. *)
StartIsTold == \/ ~factory'.startTried
               \/ factory'.findTried /\ ~factory.findTried
TransferFollows == transfer' = IF StartIsTold THEN factory'.status ELSE transfer
Stays == UNCHANGED <<saved, lost, crashes>>

StartTransfer ==
    /\ transfer \notin {"Running", "Finished"}
    /\ Becomes(start(Now)) /\ TransferFollows
    /\ UNCHANGED downloaded /\ Stays

StopTransfer ==
    /\ transfer # "Stopped"
    /\ factory.status # "Finished"
    /\ StopsWithData \/ \A c \in Connections : ~Waiting(c)
    /\ Becomes(stop(Now)) /\ transfer' = "Stopped"
    /\ UNCHANGED downloaded /\ Stays

RestartStalled ==
    /\ transfer = "Running"
    /\ Restart
    /\ transfer' = factory'.status
    /\ UNCHANGED downloaded /\ Stays

Continue ==
    \/ Opened /\ TransferFollows
    \/ \E c \in Connections : SizeFound(c[1], c[2]) /\ TransferFollows
    \/ /\ \E c \in Connections : \/ Data(c[1], c[2])
                                 \/ WriteRest(c[1], c[2])
                                 \/ JobFails(c[1], c[2])
                                 \/ JobEnds(c[1], c[2])
       /\ UNCHANGED transfer
    \/ /\ \E m \in Mirrors, used \in BOOLEAN, n \in 1 .. MaxConnections :
              SetMirrors(m, used, n)
       /\ UNCHANGED transfer
Continues == Continue /\ UNCHANGED downloaded /\ Stays

(* slotDataWritten counts what was written, twice if it was fetched twice. *)
WriteEnds ==
    /\ Written
    /\ downloaded' = IF factory.done THEN FileSize
                     ELSE Min({downloaded + Len(factory.write.data), FileSize + 1})
    /\ transfer' = IF factory.done THEN "Finished" ELSE transfer
    /\ Stays

RestartInit ==
    /\ factory = NewDownload({}).factory
    /\ source = NewDownload({}).source
    /\ disk = {}
    /\ transfer = "Stopped" /\ downloaded = 0
    /\ saved = Saved
    /\ lost = {} /\ crashes = 0

RestartNext ==
    \/ StartTransfer \/ StopTransfer \/ RestartStalled \/ Continues \/ WriteEnds
    \/ Save \/ Crash

RestartSpec == RestartInit /\ [][RestartNext]_restartVars

-----------------------------------------------------------------------------
(* Properties *)

(* Whatever was saved when, and however often the program ends: a chunk that counts
   as finished is on the disk or in the write under way, but for what a write lost
   that was under way at an end (datasourcefactory.cpp:641). *)
CrashLosesOneWrite ==
    \A c \in factory.finished :
        ChunkUnits(c) \subseteq disk \cup RightUnits(factory.write) \cup lost

(* A download that was loaded and runs again has all its connections started, and at
   least one while there is a mirror and something is missing: all that was given to
   connections of the program before is given again (datasourcefactory.cpp:1017-1022). *)
RestartedIsExecuted ==
    transfer = "Running" /\ ~factory.startTried /\ factory.finished # Chunks =>
        /\ factory.status = "Running"
        /\ \A c \in Connections : HasStarted(Seg(Now, c[1], c[2]))
        /\ Used(Now) # <<>> => Connections # {}
=============================================================================
