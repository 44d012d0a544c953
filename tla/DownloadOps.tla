---------------------------- MODULE DownloadOps ----------------------------
(***************************************************************************)
(* The download engine of the multi-segment plugin: what a call of         *)
(* DataSourceFactory, MultiSegKioDataSource or Segment does to a download, *)
(* the signals it emits and their slots included.  An operator takes a     *)
(* state s of the download and returns the state the call leaves behind.   *)
(*                                                                         *)
(* s.factory is the DataSourceFactory, s.source[m] the data source of the  *)
(* mirror m with its Segment objects, s.disk the units of the file that    *)
(* hold what they should.  Bytes are counted in units.                     *)
(***************************************************************************)
EXTENDS Loops, SequencesExt, FiniteSetsExt

CONSTANTS
    MirrorOrder,    \* the mirrors, in the order of the QHash m_sources
    FileSize,       \* DataSourceFactory::m_size
    ChunkSize,      \* DataSourceFactory::m_segSize
    SaveSize,       \* MultiSegKioSettings::saveSegSize
    MaxTries,       \* the 100 of Segment::slotWriteRest
    MaxConnections, \* the most parallel connections the user gives a mirror
    Resuming        \* the mirrors whose servers can start at an offset

Mirrors == ToSet(MirrorOrder)
Units == 0 .. FileSize - 1
NumBits == (FileSize + ChunkSize - 1) \div ChunkSize
Chunks == 0 .. NumBits - 1

ASSUME SizesAssumption == /\ FileSize \in Nat \ {0}
                          /\ ChunkSize \in Nat \ {0}
                          /\ SaveSize \in Nat
                          /\ MaxTries \in Nat \ {0}
                          /\ MaxConnections \in Nat \ {0}
ASSUME MirrorsAssumption == /\ MirrorOrder \in Seq(Mirrors)
                            /\ IsInjective(MirrorOrder)
                            /\ Resuming \subseteq Mirrors

NoWrite == [offset |-> 0, data |-> <<>>]

(* file: m_putJob and m_open.  done: m_finished.  known: m_startedChunks and
   m_finishedChunks exist.  sized: m_size is not 0.  write: m_tempOffset and
   m_tempData while m_blocked. *)
Factory == [status : {"Stopped", "Running", "Finished"},
            file : {"none", "opening", "open"},
            known : BOOLEAN, sized : BOOLEAN, startTried : BOOLEAN,
            findTried : BOOLEAN, assignTried : BOOLEAN, done : BOOLEAN,
            started : SUBSET Chunks, finished : SUBSET Chunks,
            unused : Seq(Mirrors),
            write : [offset : Units, data : Seq(Units)]]

(* finding: m_findFilesize.  cur, end: m_currentSegment, m_endSegment; lastSize:
   m_segSize.second; curSize, left: m_currentSegSize, m_totalBytesLeft; job:
   m_getJob, at the unit pos; timers: pending calls of slotWriteRest. *)
Segment == [finding : BOOLEAN, status : {"Stopped", "Running"},
            cur : Chunks, end : Chunks, lastSize : Nat, offset : 0 .. FileSize,
            curSize : Int, left : Int, job : {"none", "suspended", "active"},
            pos : 0 .. FileSize, canResume : BOOLEAN, buffer : Seq(Units),
            tries : Nat, timers : Nat]

(* used: the mirror is in m_sources, otherwise in m_unusedUrls. *)
Source == [used : BOOLEAN, running : BOOLEAN, connections : Nat \ {0},
           segments : Seq(Segment)]

Used(s) == Among(MirrorOrder, {m \in Mirrors : s.source[m].used})
FirstUsed(s) == Head(Used(s))
Seg(s, m, i) == s.source[m].segments[i]
Owned(seg) == seg.cur .. seg.end
Blocked(s) == s.factory.write # NoWrite

(* TransferDataSource::changeNeeded *)
changeNeeded(s, m) == s.source[m].connections - Len(s.source[m].segments)

(* DataSourceFactory::assignNeeded *)
assignNeeded(s) ==
    \A i \in 1 .. Len(Used(s)) : s.source[Used(s)[i]].segments = <<>>

(* The loops over m_sources: Call(s, m) for the used mirrors, in their order, or
   Change(m, source) where they do not see each other. *)
ForEachUsed(s, Call(_, _)) == ForEach(Call, s, Used(s))
WithSources(s, Change(_, _)) ==
    [s EXCEPT !.source = [m \in Mirrors |-> IF @[m].used THEN Change(m, @[m]) ELSE @[m]]]

WithSegments(s, m, list) == [s EXCEPT !.source[m].segments = list]
WithSegment(s, m, i, seg) ==
    WithSegments(s, m, [s.source[m].segments EXCEPT ![i] = seg])

(* Chunks that nobody fetches any more, and chunks that somebody does *)
Release(s, chunks) == [s EXCEPT !.factory.started = @ \ chunks]
Claim(s, chunks) == [s EXCEPT !.factory.started = @ \cup chunks]

-----------------------------------------------------------------------------
(* Segment *)

NewSegment(lastSize, first, last) ==
    [finding |-> FALSE, status |-> "Stopped", cur |-> first, end |-> last,
     lastSize |-> lastSize, offset |-> ChunkSize * first,
     curSize |-> IF first = last THEN lastSize ELSE ChunkSize,
     left |-> ChunkSize * (last - first) + lastSize,
     job |-> "none", pos |-> 0, canResume |-> TRUE, buffer |-> <<>>,
     tries |-> 0, timers |-> 0]

(* The segment that asks for the size of the file owns nothing yet. *)
FindingSegment ==
    [NewSegment(ChunkSize, 0, 0) EXCEPT !.finding = TRUE, !.curSize = 0, !.left = 0]

(* Segment::createTransfer: a job is created suspended, at m_offset; whether the
   server resumes there shows before the first data. *)
createTransfer(m, seg) ==
    IF seg.job # "none" THEN seg
    ELSE [seg EXCEPT !.job = "suspended", !.pos = seg.offset,
                     !.canResume = IF seg.offset = 0 THEN @ ELSE m \in Resuming]

startTransfer(m, seg) ==
    IF seg.status = "Running" THEN createTransfer(m, seg)
    ELSE [createTransfer(m, seg) EXCEPT !.status = "Running", !.job = "active"]

(* Segment::stopTransfer: a job that is killed answers with slotResult, which
   clears the buffer of a stopped segment. *)
stopTransfer(seg) ==
    IF seg.job = "none" THEN [seg EXCEPT !.status = "Stopped"]
    ELSE [seg EXCEPT !.status = "Stopped", !.job = "none", !.pos = 0,
                     !.buffer = <<>>]

countUnfinishedSegments(seg) == seg.end - seg.cur

(* Segment::split gives away the second half of the chunks, the current one
   counted; the segment no longer ends with the last chunk of the file. *)
Freed(seg) == (countUnfinishedSegments(seg) + 2) \div 2

(* Mutant: the size of the last chunk is forgotten. *)
SplitFullChunks(seg) ==
    [seg EXCEPT !.end = @ - Freed(seg), !.left = @ - ChunkSize * Freed(seg),
                !.lastSize = ChunkSize, !.job = IF @ = "none" THEN @ ELSE "active"]

splitSegment(seg) ==
    [seg EXCEPT !.end = @ - Freed(seg),
                !.left = @ - (ChunkSize * (Freed(seg) - 1) + seg.lastSize),
                !.lastSize = ChunkSize,
                !.job = IF @ = "none" THEN @ ELSE "active"]

(* Segment::merge with the range of a broken segment that begins where seg ends *)
mergeSegment(seg, broken) ==
    [seg EXCEPT !.end = broken.end, !.lastSize = broken.lastSize,
                !.left = @ + ChunkSize * (broken.end - broken.cur) + broken.lastSize]

-----------------------------------------------------------------------------
(* MultiSegKioDataSource *)

(* MultiSegKioDataSource::start *)
Started(m, src) ==
    [src EXCEPT !.running = TRUE,
                !.segments = [i \in DOMAIN @ |-> startTransfer(m, @[i])]]
startSource(s, m) == [s EXCEPT !.source[m] = Started(m, @)]

(* MultiSegKioDataSource::stop: a segment that asks for the size is dropped. *)
Staying(list) == Among(list, {seg \in ToSet(list) : ~seg.finding})
Stopped(m, src) ==
    [src EXCEPT !.running = FALSE,
                !.segments = [i \in DOMAIN Staying(@) |-> stopTransfer(Staying(@)[i])]]

(* MultiSegKioDataSource::addSegments *)
addSegment(s, m, seg) ==
    WithSegments(s, m, Append(s.source[m].segments,
                              IF s.source[m].running THEN startTransfer(m, seg) ELSE seg))

removeSegment(s, m, i) == WithSegments(s, m, RemoveAt(s.source[m].segments, i))

(* MultiSegKioDataSource::mostUnfinishedSegments: the first of those with the
   most chunks behind the current one, 0 if none has any. *)
unfinishedOf(s, m) ==
    {countUnfinishedSegments(Seg(s, m, i)) : i \in DOMAIN s.source[m].segments}
mostUnfinished(s, m) == Max(unfinishedOf(s, m) \cup {0})
mostUnfinishedSegment(s, m) ==
    IF mostUnfinished(s, m) = 0 THEN 0
    ELSE Min({i \in DOMAIN s.source[m].segments :
                 countUnfinishedSegments(Seg(s, m, i)) = mostUnfinished(s, m)})

(* MultiSegKioDataSource::removeConnection, and what DataSourceFactory::addMirror
   does with the chunks *)
removeConnection(s, m) ==
    LET i == mostUnfinishedSegment(s, m)
    IN  IF i = 0 THEN s
        ELSE Release(removeSegment(s, m, i), Owned(Seg(s, m, i)))

-----------------------------------------------------------------------------
(* DataSourceFactory: assigning chunks *)

(* BitSet::getContinuousRange: the first run of chunks nobody has started. *)
FreeChunks(s) == Chunks \ s.factory.started
FirstFree(s) == Min(FreeChunks(s))

(* Mutant: the range goes on behind chunks that have an owner. *)
LastFreeOfAll(s) == Max(FreeChunks(s))

LastFree(s) == Max({c \in FreeChunks(s) : FirstFree(s) .. c \subseteq FreeChunks(s)})

LastSegSize(last) ==
    IF last = NumBits - 1 /\ FileSize % ChunkSize # 0 THEN FileSize % ChunkSize
    ELSE ChunkSize

assignRange(s, m, first, last) ==
    addSegment(Claim(s, first .. last), m, NewSegment(LastSegSize(last), first, last))

(* The first mirror among those whose largest segment is largest, and the split
   of that segment *)
SplitTarget(s) ==
    LET most == Max({mostUnfinished(s, m) : m \in ToSet(Used(s))})
    IN  Head(Among(Used(s), {m \in Mirrors : mostUnfinished(s, m) = most}))

assignHalf(s, m) ==
    LET target == SplitTarget(s)
        i == mostUnfinishedSegment(s, target)
        seg == Seg(s, target, i)
    IN  IF i = 0 THEN s
        ELSE assignRange(WithSegment(s, target, i, splitSegment(seg)),
                         m, seg.end - Freed(seg) + 1, seg.end)

(* DataSourceFactory::assignSegments calls itself until the source has all the
   connections it may have, or nothing is left to assign. *)
assignOnce(s, m) ==
    IF s.factory.finished = Chunks \/ changeNeeded(s, m) <= 0 THEN s
    ELSE IF FreeChunks(s) = {} THEN assignHalf(s, m)
    ELSE assignRange(s, m, FirstFree(s), LastFree(s))

assignSegments(s, m) ==
    IF ~s.factory.known THEN [s EXCEPT !.factory.assignTried = TRUE]
    ELSE Repeat(LAMBDA t : assignOnce(t, m), s, s.source[m].connections)

(* DataSourceFactory::removeMirror.  The first source is given the freed chunks,
   but only if all are idle. *)
dropMirror(s, m) ==
    LET stopped == Stopped(m, s.source[m])
    IN  [Release(s, UNION {Owned(seg) : seg \in ToSet(stopped.segments)}) EXCEPT
            !.factory.unused = Append(@, m),
            !.source[m] = [stopped EXCEPT !.used = FALSE, !.segments = <<>>]]

(* Mutant: the freed chunks wait for somebody to ask. *)
RemoveAndForget(s, m) == IF s.source[m].used THEN dropMirror(s, m) ELSE s

removeMirror(s, m) ==
    LET after == IF s.source[m].used THEN dropMirror(s, m) ELSE s
    IN  IF after.factory.status = "Running" /\ assignNeeded(after) /\ Used(after) # <<>>
        THEN assignSegments(after, FirstUsed(after))
        ELSE after

removeConnections(s, m, N) == Repeat(LAMBDA t : removeConnection(t, m), s, N)

(* DataSourceFactory::addMirror, used and usedDefined *)
setConnections(s, m, n) ==
    LET after == [s EXCEPT !.source[m].connections = n]
    IN  IF changeNeeded(after, m) > 0 THEN assignSegments(after, m)
        ELSE removeConnections(after, m, -changeNeeded(after, m))

addSource(s, m, n) ==
    LET after == assignSegments(
                     [s EXCEPT !.factory.unused = Among(@, Mirrors \ {m}),
                               !.source[m] = [@ EXCEPT !.used = TRUE, !.connections = n]],
                     m)
    IN  IF /\ ~after.factory.assignTried /\ ~after.factory.startTried
           /\ after.factory.file = "open" /\ after.factory.status = "Running"
        THEN startSource(after, m)
        ELSE after

addMirror(s, m, used, n) ==
    IF used THEN IF s.source[m].used THEN setConnections(s, m, n) ELSE addSource(s, m, n)
    ELSE IF s.source[m].used THEN removeMirror(s, m)
    ELSE [s EXCEPT !.factory.unused = Append(@, m), !.source[m].connections = n]

(* start and slotRepair take the first unused mirror. *)
takeFirstUnused(s) ==
    LET m == Head(s.factory.unused)
    IN  addSource([s EXCEPT !.factory.unused = Tail(@)], m, s.source[m].connections)

(* DataSourceFactory::setMirrors: m_unusedUrls is filled anew. *)
setMirrors(s, mirrors) ==
    ForEach(LAMBDA t, m : addMirror(t, m, mirrors[m].used, mirrors[m].connections),
            [s EXCEPT !.factory.unused = <<>>], MirrorOrder)

-----------------------------------------------------------------------------
(* Data, results and errors of a connection *)

(* MultiSegKioDataSource::tryMerge *)
Neighbours(s, m, broken) ==
    {i \in DOMAIN s.source[m].segments : Seg(s, m, i).end + 1 = broken.cur}

(* DataSourceFactory::slotFreeSegments *)
slotFreeSegments(s, m, broken) ==
    assignSegments(Release(s, Owned(broken)), m)

(* DataSourceFactory::brokenSegments: before the size is known nothing happens. *)
brokenSegments(s, m, broken) ==
    IF ~s.factory.known THEN s
    ELSE removeMirror(Release(s, Owned(broken)), m)

(* Mutant: the number of connections may become 0. *)
OneLess(n) == n - 1
FewerConnections(n) == Max({n - 1, 1})

(* MultiSegKioDataSource::slotError: the last connection takes the mirror with
   it, another one leaves its chunks to its neighbour or to everybody. *)
slotError(s, m, i) ==
    LET broken == Seg(s, m, i)
        without == removeSegment(s, m, i)
        fewer == [without EXCEPT !.source[m].connections = FewerConnections(@)]
        neighbours == Neighbours(fewer, m, broken)
    IN  IF without.source[m].segments = <<>> THEN brokenSegments(without, m, broken)
        ELSE IF neighbours = {} THEN slotFreeSegments(fewer, m, broken)
        ELSE LET n == Min(neighbours)
             IN  WithSegment(fewer, m, n, mergeSegment(Seg(fewer, m, n), broken))

(* The end of Segment::writeBuffer: k more chunks after the current one are
   finished by a write if SizeAfter(seg, k), the rest of the chunk after them, is
   not positive. *)
SizeAfter(seg, k) ==
    seg.curSize + k * ChunkSize
        - (IF k > 0 /\ seg.cur + k = seg.end THEN ChunkSize - seg.lastSize ELSE 0)
Passed(seg) == {k \in 0 .. seg.end - seg.cur : SizeAfter(seg, k) <= 0}

(* DataSourceFactory::finishedSegment for all chunks a write has finished; the
   last one of a connection ends it and lets its source ask for more. *)
finishSegments(s, m, i) ==
    LET seg == Seg(s, m, i)
        n == Cardinality(Passed(seg))
        over == seg.end - seg.cur \in Passed(seg)
        marked == [s EXCEPT !.factory.finished = @ \cup {seg.cur + k : k \in Passed(seg)}]
        ended == [removeSegment(marked, m, i) EXCEPT
                      !.factory.done = marked.factory.finished = Chunks]
    IN  IF over
        THEN IF ended.factory.done THEN ended ELSE assignSegments(ended, m)
        ELSE WithSegment(marked, m, i,
                         [seg EXCEPT !.cur = seg.cur + n, !.curSize = SizeAfter(seg, n)])

(* Segment::writeBuffer while DataSourceFactory::slotWriteData accepts: one write
   at a time, into the open file. *)

(* Mutant: the write that is under way is forgotten. *)
CanWriteAnytime(s) == s.factory.file = "open"

CanWrite(s) == ~Blocked(s) /\ s.factory.file = "open"

writeBuffer(s, m, i) ==
    LET seg == Seg(s, m, i)
        n == Len(seg.buffer)
    IN  IF n = 0 \/ ~CanWrite(s) THEN s
        ELSE finishSegments(
                 WithSegment(
                     [s EXCEPT !.factory.write = [offset |-> seg.offset, data |-> seg.buffer]],
                     m, i, [seg EXCEPT !.curSize = @ - n, !.left = @ - n,
                                       !.offset = @ + n, !.buffer = <<>>]),
                 m, i)

(* Segment::slotWriteRest: a refused write is tried again in 50 ms. *)
slotWriteRest(s, m, i) ==
    LET seg == Seg(s, m, i)
    IN  IF seg.buffer = <<>> THEN s
        ELSE IF CanWrite(s)
        THEN writeBuffer(WithSegment(s, m, i, [seg EXCEPT !.tries = 0]), m, i)
        ELSE IF seg.tries + 1 >= MaxTries THEN slotError(s, m, i)
        ELSE WithSegment(s, m, i, [seg EXCEPT !.tries = @ + 1, !.timers = @ + 1])

(* Segment::slotData.  The job is killed when the buffer holds all that is left. *)
slotData(s, m, i, unit) ==
    LET seg == Seg(s, m, i)
        buffer == Append(seg.buffer, unit)
        received == WithSegment(s, m, i, [seg EXCEPT !.buffer = buffer, !.pos = unit + 1])
        full == WithSegment(s, m, i,
                    [seg EXCEPT !.buffer = SubSeq(buffer, 1, seg.left),
                                !.job = "none", !.pos = 0])
    IN  IF seg.offset # 0 /\ ~seg.canResume THEN slotError(s, m, i)
        ELSE IF seg.left # 0 /\ Len(buffer) >= seg.left THEN slotWriteRest(full, m, i)
        ELSE IF Len(buffer) > SaveSize THEN writeBuffer(received, m, i)
        ELSE received

-----------------------------------------------------------------------------
(* DataSourceFactory: start, stop, the file, repair *)

(* DataSourceFactory::init *)
init(s) == [s EXCEPT !.factory.known = @ \/ s.factory.sized]

(* DataSourceFactory::findFileSize asks the first source. *)
findFileSize(s) ==
    LET m == FirstUsed(s)
    IN  [addSegment(s, m, startTransfer(m, FindingSegment))
            EXCEPT !.factory.status = "Running"]

StartSources(s) ==
    [WithSources(s, Started) EXCEPT !.factory.startTried = FALSE,
                                    !.factory.status = "Running"]

AssignTried(s) ==
    IF ~s.factory.assignTried THEN s
    ELSE ForEachUsed([s EXCEPT !.factory.assignTried = FALSE], assignSegments)

AssignFirst(s) ==
    IF ~assignNeeded(s) THEN s
    ELSE IF Used(s) # <<>> THEN assignSegments(s, FirstUsed(s))
    ELSE IF s.factory.unused # <<>> THEN takeFirstUnused(s)
    ELSE s

LookForSize(s) ==
    IF s.factory.findTried \/ Used(s) = <<>> THEN s
    ELSE findFileSize([s EXCEPT !.factory.findTried = TRUE])

(* DataSourceFactory::start: a start before the file is open or the size is known
   is remembered in m_startTried. *)
Tried(s) == [s EXCEPT !.factory.startTried = TRUE]

start(s) ==
    IF s.factory.status = "Finished" THEN s
    ELSE IF s.factory.file = "none" THEN Tried([s EXCEPT !.factory.file = "opening"])
    ELSE IF s.factory.file = "opening" THEN Tried(init(s))
    ELSE IF ~s.factory.sized THEN Tried(LookForSize(s))
    ELSE StartSources(AssignTried(AssignFirst(init(s))))

(* DataSourceFactory::stop *)
stop(s) ==
    IF s.factory.status = "Finished" THEN s
    ELSE [WithSources(s, Stopped) EXCEPT !.factory.startTried = FALSE,
                                         !.factory.findTried = FALSE,
                                         !.factory.status = "Stopped"]

(* DataSourceFactory::open *)
open(s) ==
    LET opened == [init(s) EXCEPT !.factory.file = "open"]
    IN  IF s.factory.startTried THEN start(opened) ELSE opened

(* Segment::slotTotalSize and DataSourceFactory::slotFoundFileSize: the segment
   that found the size owns the whole file, then the start goes on. *)
slotFoundFileSize(s, m, i) ==
    LET seg == Seg(s, m, i)
        found == WithSegment(
            [s EXCEPT !.factory.sized = TRUE, !.factory.known = TRUE,
                      !.factory.started = Chunks],
            m, i, [NewSegment(LastSegSize(NumBits - 1), 0, NumBits - 1) EXCEPT
                       !.status = seg.status, !.job = seg.job])
    IN  IF s.factory.startTried THEN start(found) ELSE found

(* What a write puts into the file: the units that are right afterwards *)
WrittenUnits(write) == write.offset .. write.offset + Len(write.data) - 1
RightUnits(write) ==
    {u \in WrittenUnits(write) : write.data[u - write.offset + 1] = u}
AfterWrite(disk, write) == (disk \ WrittenUnits(write)) \cup RightUnits(write)

(* Mutant: m_blocked is not reset. *)
StayBlocked(s) == [s EXCEPT !.disk = AfterWrite(@, s.factory.write)]

(* DataSourceFactory::slotDataWritten *)
slotDataWritten(s) ==
    LET free == [s EXCEPT !.disk = AfterWrite(@, s.factory.write),
                          !.factory.write = NoWrite]
    IN  IF s.factory.done
        THEN [free EXCEPT !.factory.file = "none", !.factory.status = "Finished"]
        ELSE free

(* DataSourceFactory::slotRepair; no pieces mean that there are no checksums of
   parts.  BitSet::setRange ignores a range that leaves the bit set. *)
BrokenChunks(pieces, PieceSize) ==
    LET length == (PieceSize + ChunkSize - 1) \div ChunkSize
        first(p) == (p * PieceSize) \div ChunkSize
        range(p) == first(p) .. first(p) + length - 1
    IN  IF pieces = {} THEN Chunks
        ELSE UNION {range(p) : p \in {q \in pieces : range(q) \subseteq Chunks}}

(* Mutant: m_finishedChunks keeps the broken chunks. *)
RepairStarted(s, broken) ==
    LET reopened == [Release(s, broken) EXCEPT !.factory.done = FALSE]
        added == takeFirstUnused(ForEachUsed(reopened, removeMirror))
    IN  start([added EXCEPT !.factory.status = "Stopped"])

slotRepair(s, broken) ==
    LET reopened == [Release(s, broken) EXCEPT !.factory.done = FALSE,
                                               !.factory.finished = @ \ broken]
        added == takeFirstUnused(ForEachUsed(reopened, removeMirror))
    IN  start([added EXCEPT !.factory.status = "Stopped"])

=============================================================================
