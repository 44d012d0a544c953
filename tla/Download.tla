------------------------------ MODULE Download ------------------------------
(***************************************************************************)
(* The download of one file from several mirrors over several connections  *)
(* each: DataSourceFactory and the data sources and segments of the multi- *)
(* segment plugin.  Every action is one pass of the event loop: a command  *)
(* of the user or of the scheduler, or an answer of a KIO job or the file. *)
(***************************************************************************)
EXTENDS DownloadOps

CONSTANTS
    PieceSize,        \* Verifier::partialChunkLength, in units
    StopsWithData     \* whether a segment without a job may be stopped while it has
                      \* data: the data stay, and the next job fetches them again

ASSUME EnvironmentAssumption == PieceSize \in Nat \ {0} /\ StopsWithData \in BOOLEAN

VARIABLES
    factory,    \* the DataSourceFactory
    source,     \* the data sources, the unused mirrors included
    disk        \* the units of the file that are right

vars == <<factory, source, disk>>

Now == [factory |-> factory, source |-> source, disk |-> disk]
Becomes(s) == factory' = s.factory /\ source' = s.source /\ disk' = s.disk

Connections == UNION {{m} \X DOMAIN source[m].segments : m \in Mirrors}
Waiting(c) == Seg(Now, c[1], c[2]).timers > 0
Active(c) == Seg(Now, c[1], c[2]).job = "active"

(* A new transfer: addMirror found no chunks to assign. *)
Init ==
    /\ factory \in [status : {"Stopped"}, file : {"none"}, known : {FALSE},
                    sized : BOOLEAN, startTried : {FALSE}, findTried : {FALSE},
                    assignTried : {TRUE}, done : {FALSE}, started : {{}},
                    finished : {{}}, unused : {<<>>}, write : {NoWrite}]
    /\ source = [m \in Mirrors |->
                    [used |-> TRUE, running |-> FALSE,
                     connections |-> MaxConnections, segments |-> <<>>]]
    /\ disk = {}

-----------------------------------------------------------------------------
(* Commands: TransferMultiSegKio::start, stop, setAvailableMirrors, repair *)

Start == factory.status # "Running" /\ Becomes(start(Now))

Stop ==
    /\ factory.status # "Stopped"
    /\ StopsWithData \/ \A c \in Connections : ~Waiting(c)
    /\ Becomes(stop(Now))

(* Scheduler::timerEvent stops and starts a download whose speed is 0. *)
Stalled == /\ factory.status = "Running" /\ factory.file # "opening"
           /\ ~Blocked(Now)
           /\ \A c \in Connections : ~Active(c) /\ ~Waiting(c)
Restart == Stalled /\ Becomes(start(stop(Now)))

(* The dialog of the mirrors, with one of them changed *)
SetMirrors(m, used, n) ==
    LET mirrors == [x \in Mirrors |-> [used |-> source[x].used,
                                       connections |-> source[x].connections]]
        changed == [mirrors EXCEPT ![m] = [used |-> used, connections |-> n]]
    IN  changed # mirrors /\ Becomes(setMirrors(Now, changed))

(* A finished file was damaged and is repaired: DataSourceFactory::repair asks the
   verifier for the broken pieces, slotRepair gets them. *)
Pieces == 0 .. (FileSize + PieceSize - 1) \div PieceSize - 1
Damage(pieces) == IF pieces = {} THEN Units
                  ELSE {u \in Units : u \div PieceSize \in pieces}
Repair(pieces) ==
    /\ factory.status = "Finished"
    /\ Becomes(slotRepair([Now EXCEPT !.disk = @ \ Damage(pieces)],
                          BrokenChunks(pieces, PieceSize)))

-----------------------------------------------------------------------------
(* Answers *)

Opened == factory.file = "opening" /\ Becomes(open(Now))
Written == Blocked(Now) /\ Becomes(slotDataWritten(Now))

SizeFound(m, i) ==
    /\ Active(<<m, i>>) /\ Seg(Now, m, i).finding
    /\ Becomes(slotFoundFileSize(Now, m, i))

Data(m, i) ==
    /\ Active(<<m, i>>) /\ ~Seg(Now, m, i).finding
    /\ Seg(Now, m, i).pos < FileSize
    /\ Becomes(slotData(Now, m, i, Seg(Now, m, i).pos))

(* Segment::slotResult of a job that failed *)
JobFails(m, i) ==
    /\ Active(<<m, i>>)
    /\ Becomes(slotError(Now, m, i))

(* Segment::slotResult of a job that ended without an error before all data came:
   nothing is told to anybody, the segment stays Running without a job. *)
JobEnds(m, i) ==
    /\ Active(<<m, i>>)
    /\ StopsWithData \/ Seg(Now, m, i).buffer = <<>>
    /\ Becomes(WithSegment(Now, m, i, [Seg(Now, m, i) EXCEPT !.job = "none", !.pos = 0]))

WriteRest(m, i) ==
    /\ Waiting(<<m, i>>)
    /\ LET seg == [Seg(Now, m, i) EXCEPT !.timers = @ - 1]
       IN  Becomes(slotWriteRest(WithSegment(Now, m, i, seg), m, i))

(* What goes on by itself: KIO opens the file and writes to it, servers send sizes
   and data, timers fire, and the scheduler restarts what stalled *)
Progress ==
    \/ Opened \/ Written \/ Restart
    \/ \E c \in Connections : \/ SizeFound(c[1], c[2])
                              \/ Data(c[1], c[2])
                              \/ WriteRest(c[1], c[2])

Commands ==
    \/ Start \/ Stop
    \/ \E m \in Mirrors, used \in BOOLEAN, n \in 1 .. MaxConnections : SetMirrors(m, used, n)
    \/ \E pieces \in SUBSET Pieces : Repair(pieces)

Next ==
    \/ Progress \/ Commands
    \/ \E c \in Connections : JobFails(c[1], c[2]) \/ JobEnds(c[1], c[2])

Spec == Init /\ [][Next]_vars

-----------------------------------------------------------------------------
(* Properties *)

TypeOK ==
    /\ factory \in Factory
    /\ source \in [Mirrors -> Source]
    /\ disk \subseteq Units

(* Every chunk that was started is finished or belongs to one segment, and only
   to one: nothing is fetched twice, and nothing is left out. *)
SegmentsOf(m) == {Seg(Now, m, i) : i \in DOMAIN source[m].segments}
Assigned == {c \in Connections : ~Seg(Now, c[1], c[2]).finding}
ChunksOf(c) == Owned(Seg(Now, c[1], c[2]))
ChunksHaveOwners ==
    /\ factory.started = factory.finished \cup UNION {ChunksOf(c) : c \in Assigned}
    /\ \A c \in Assigned :
           /\ ChunksOf(c) \cap factory.finished = {}
           /\ ChunksOf(c) # {}
           /\ \A d \in Assigned \ {c} : ChunksOf(c) \cap ChunksOf(d) = {}

(* A file that is finished has all its units right, repairs included. *)
FinishedFileIsRight == factory.status = "Finished" => disk = Units

(* A chunk counts as finished once its last data is handed to the file: its data
   are on the disk or in the write that is under way. *)
ChunkUnits(c) == {u \in Units : u \div ChunkSize = c}
FinishedIsWritten ==
    /\ FinishedFileIsRight
    /\ \A c \in factory.finished :
           ChunkUnits(c) \subseteq disk \cup RightUnits(factory.write)

(* The offset, the rest of the current chunk and the rest of all chunks of a
   segment agree after every split, merge and write, the short last chunk of the
   file included; what is buffered belongs at the offset, and a job goes on behind. *)
EndOf(c) == Min({ChunkSize * (c + 1), FileSize})
OffsetsAgree ==
    \A c \in Assigned :
        LET seg == Seg(Now, c[1], c[2])
        IN  /\ ChunkSize * seg.cur <= seg.offset /\ seg.curSize > 0
            /\ seg.offset + seg.curSize = EndOf(seg.cur)
            /\ seg.offset + seg.left = EndOf(seg.end)
            /\ \A k \in DOMAIN seg.buffer : seg.buffer[k] = seg.offset + k - 1
            /\ seg.job # "none" => seg.pos = seg.offset + Len(seg.buffer)

(* While a download that is not complete runs, it has a connection as long as a
   mirror is used, and each was started, with no job that nobody resumes: whatever
   failed, was removed or was changed, what is left to do was given to somebody.
   A connection that was started may have lost its job since, because the server
   ended it early (segment.cpp:160-191) or because it gained chunks after it had all
   its data (segment.cpp:357); the restart of a stalled download revives it. *)
HasStarted(seg) == seg.status = "Running" /\ seg.job # "suspended"
WorkIsGiven ==
    factory.status = "Running" /\ ~factory.startTried /\ factory.finished # Chunks =>
        /\ \A c \in Connections : HasStarted(Seg(Now, c[1], c[2]))
        /\ Used(Now) # <<>> => Connections # {}

(* What the engine implements *)
OwnedBy(m) == UNION {Owned(seg) : seg \in {x \in SegmentsOf(m) : ~x.finding}}
OwnerOf(c) ==
    IF c \in factory.finished THEN "done"
    ELSE IF c \notin factory.started THEN "nobody"
    ELSE CHOOSE m \in Mirrors : c \in OwnedBy(m)
Store == INSTANCE ChunkStore WITH
            owner <- [c \in Chunks |-> OwnerOf(c)],
            stored <- {c \in Chunks : ChunkUnits(c) \subseteq disk},
            complete <- factory.status = "Finished"
ImplementsStore == Store!Spec
=============================================================================
