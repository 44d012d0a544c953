--------------------------- MODULE DownloadLemmas ---------------------------
(***************************************************************************)
(* The inductive invariant of Download, and what the calls about chunks    *)
(* and connections do to it.                                               *)
(***************************************************************************)
EXTENDS Download, Recursion, FiniteSetTheorems

-----------------------------------------------------------------------------
(* What the engine keeps in order *)

(* Stops that lose nothing, and repairs that fetch all that was damaged *)
Exact == ~StopsWithData
RepairCovers ==
    \A pieces \in SUBSET Pieces : \A u \in Damage(pieces) :
        u \div ChunkSize \in BrokenChunks(pieces, PieceSize)

(* Types, without the ranges that depend on more than types *)
AnySegment == [finding : BOOLEAN, status : {"Stopped", "Running"},
               cur : Int, end : Int, lastSize : 1 .. ChunkSize, offset : Int,
               curSize : Int, left : Int, job : {"none", "suspended", "active"},
               pos : Int, canResume : BOOLEAN, buffer : Seq(Int),
               tries : Nat, timers : Nat]
AnySource == [used : BOOLEAN, running : BOOLEAN, connections : Nat \ {0},
              segments : Seq(AnySegment)]
AnyFactory == [status : {"Stopped", "Running", "Finished"},
               file : {"none", "opening", "open"},
               known : BOOLEAN, sized : BOOLEAN, startTried : BOOLEAN,
               findTried : BOOLEAN, assignTried : BOOLEAN, done : BOOLEAN,
               started : SUBSET Chunks, finished : SUBSET Chunks,
               unused : Seq(Mirrors),
               write : [offset : Int, data : Seq(Int)]]
State == [factory : AnyFactory, source : [Mirrors -> AnySource], disk : SUBSET Int]

(* The connections of a state, and their segments *)
Places(s) == {p \in Mirrors \X (Nat \ {0}) : p[2] <= Len(s.source[p[1]].segments)}
At(s, p) == s.source[p[1]].segments[p[2]]
Held(seg) == IF seg.finding THEN {} ELSE Owned(seg)

(* The chunks that were started, but for those in X and finished ones *)
Taken(s, X) == s.factory.started \ (s.factory.finished \cup X)
Fetches(s, X, seg) == /\ seg.finding \/ seg.cur <= seg.end
                      /\ Held(seg) \subseteq Taken(s, X)

(* The search for the size, before there are chunks *)
Searches(s, seg) ==
    seg.finding =>
        /\ ~s.factory.sized /\ s.factory.findTried /\ s.factory.startTried
        /\ s.factory.status = "Running" /\ s.factory.file = "open"
        /\ seg.cur = 0 /\ seg.end = 0 /\ seg.offset = 0 /\ seg.pos = 0
        /\ seg.buffer = <<>> /\ seg.timers = 0

(* The sums of a segment *)
Exactly(seg) ==
    /\ seg.lastSize = EndOf(seg.end) - ChunkSize * seg.end
    /\ ChunkSize * seg.cur <= seg.offset /\ seg.curSize > 0
    /\ seg.offset + seg.curSize = EndOf(seg.cur)
    /\ seg.offset + seg.left = EndOf(seg.end)
    /\ seg.offset + Len(seg.buffer) <= FileSize
    /\ \A k \in 1 .. Len(seg.buffer) : seg.buffer[k] = seg.offset + k - 1
    /\ seg.pos = IF seg.job = "none" THEN 0 ELSE seg.offset + Len(seg.buffer)

(* What is buffered is fetched on, or a timer will write it. *)
Waits(seg) == seg.job = "none" /\ seg.buffer # <<>> => seg.timers > 0

(* The units that are right when the write under way ends, and those in L, of which
   that is not said *)
Kept(L, s) == s.disk \cup L \cup RightUnits(s.factory.write)
Behind(L, s, seg) == \A u \in Int : ChunkSize * seg.cur <= u /\ u < seg.offset => u \in Kept(L, s)

Adds(L, s, seg) == ~seg.finding => /\ Exact => Exactly(seg) /\ Waits(seg)
                                   /\ Exact => Behind(L, s, seg)

(* A source that does not run has no jobs, and its segments will be started.  early:
   a job was taken over from the search before its source runs. *)
Rests(seg, early) ==
    ~seg.finding => /\ Exact => seg.timers = 0
                    /\ \/ seg.job = "none" /\ seg.status = "Stopped"
                       \/ early /\ seg.job = "active"

(* The segments of a source that runs were started. *)
Wakes(s, m, seg) == s.source[m].running => HasStarted(seg)

Fits(s, X, early, m, seg) == /\ Fetches(s, X, seg)
                             /\ Searches(s, seg)
                             /\ s.source[m].running \/ Rests(seg, early)
                             /\ Wakes(s, m, seg)

Recorded(L, s, X) ==
    /\ s.factory.finished \subseteq s.factory.started
    /\ X \subseteq s.factory.started \ s.factory.finished
    /\ s.factory.known => s.factory.sized
    /\ ~s.factory.known => s.factory.started = {}
    /\ s.factory.done => s.factory.finished = Chunks /\ Mirrors # {}
    /\ Exact => /\ s.disk \subseteq Units
                /\ s.factory.write.offset \in Units
                /\ s.factory.write.offset + Len(s.factory.write.data) <= FileSize
                /\ \A k \in 1 .. Len(s.factory.write.data) :
                       s.factory.write.data[k] = s.factory.write.offset + k - 1
    /\ Exact => \A c \in s.factory.finished : ChunkUnits(c) \subseteq Kept(L, s)

(* Of the mirrors in D it is open whether they are in a list. *)
Mirrored(s, D) ==
    \A m \in Mirrors :
        /\ s.source[m].running =>
               s.source[m].used /\ s.factory.status # "Stopped" /\ ~s.factory.startTried
        /\ ~s.source[m].used => s.source[m].segments = <<>>
        /\ s.source[m].used \/ m \in D \/ m \in ToSet(s.factory.unused)

(* The segments are apart and have all chunks that are taken; of the segment at e,
   that is being changed, the sums are open. *)
Fitting(L, s, X, e, early) ==
    \A p \in Places(s) : /\ Fits(s, X, early, p[1], At(s, p))
                         /\ p # e => Adds(L, s, At(s, p))
Apart(s) == \A p, q \in Places(s) : p # q =>
                ~At(s, p).finding /\ Held(At(s, p)) \cap Held(At(s, q)) = {}
Covered(s, X) == \A c \in Taken(s, X) : \E p \in Places(s) : c \in Held(At(s, p))

Nowhere == <<>>
Good(L, X, e, early, D) ==
    {s \in State : /\ Recorded(L, s, X) /\ Mirrored(s, D) /\ Fitting(L, s, X, e, early)
                   /\ Apart(s) /\ Covered(s, X)}
Orderly(L, D) == Good(L, {}, Nowhere, FALSE, D)

(* Chunks could be assigned, but were not when they could not be. *)
Postponed(s) == s.factory.known /\ s.factory.assignTried

(* The download goes on; it has a mirror; somebody has what is left to do. *)
Going(s) == s.factory.status = "Running" /\ ~s.factory.startTried
Manned(s) == \E m \in Mirrors : s.source[m].used
Attended(s) == s.factory.finished = Chunks \/ Places(s) # {}

(* A download that goes on has its chunks and its file, all its mirrors run, and
   one of them has what is left to do. *)
Lively(s) == Going(s) => /\ s.factory.known /\ ~s.factory.assignTried
                         /\ s.factory.file = "open"
                         /\ \A m \in Mirrors : s.source[m].used => s.source[m].running
                         /\ Manned(s) => Attended(s)

(* What a call about mirrors and chunks leaves alone *)
Frame(s) == [disk |-> s.disk, status |-> s.factory.status, file |-> s.factory.file,
             known |-> s.factory.known, sized |-> s.factory.sized,
             startTried |-> s.factory.startTried, findTried |-> s.factory.findTried,
             done |-> s.factory.done, finished |-> s.factory.finished,
             write |-> s.factory.write, behind |-> Postponed(s)]

(* A finished file *)
Complete(L, s) ==
    s.factory.status = "Finished" =>
        /\ s.factory.finished = Chunks /\ Mirrors # {}
        /\ Exact => Units \subseteq s.disk \cup L

(* Where repairs may leave damage behind, nothing is said of the units. *)
Excused == IF RepairCovers THEN {} ELSE Int

Inv == Now \in Orderly(Excused, {}) /\ Complete(Excused, Now) /\ Lively(Now)

-----------------------------------------------------------------------------
(* Sizes *)

LEMMA Products ==
  ASSUME NEW a \in Int, NEW b \in Int
  PROVE  /\ ChunkSize * a \in Int
         /\ ChunkSize * (a + b) = ChunkSize * a + ChunkSize * b
         /\ ChunkSize * (a + 1) = ChunkSize * a + ChunkSize
         /\ ChunkSize * (a - b) = ChunkSize * a - ChunkSize * b
         /\ a < b => ChunkSize * a + ChunkSize <= ChunkSize * b
BY SizesAssumption

LEMMA Division ==
  ASSUME NEW a \in Int, NEW q \in Int
  PROVE  a \div ChunkSize = q <=> ChunkSize * q <= a /\ a < ChunkSize * q + ChunkSize
<1> DEFINE d == a \div ChunkSize
<1>1. d \in Int /\ ChunkSize * d <= a /\ a < ChunkSize * d + ChunkSize BY SizesAssumption
<1> HIDE DEF d
<1>2. ASSUME ChunkSize * q <= a, a < ChunkSize * q + ChunkSize PROVE d = q
  <2>1. ~(d < q) BY <1>1, <1>2, Products, SizesAssumption
  <2>2. ~(q < d) BY <1>1, <1>2, Products, SizesAssumption
  <2> QED BY <1>1, <2>1, <2>2
<1> QED BY <1>1, <1>2 DEF d

LEMMA NumberOfChunks ==
  /\ NumBits \in Nat \ {0}
  /\ ChunkSize * (NumBits - 1) < FileSize /\ FileSize <= ChunkSize * (NumBits - 1) + ChunkSize
<1> DEFINE a == FileSize + ChunkSize - 1
<1>1. a \in Int /\ NumBits = a \div ChunkSize /\ a >= ChunkSize BY SizesAssumption DEF NumBits
<1>2. NumBits \in Int BY <1>1, SizesAssumption
<1>3. ChunkSize * NumBits <= a /\ a < ChunkSize * NumBits + ChunkSize
  BY <1>1, <1>2, Division
<1>4. ChunkSize * (NumBits - 1) = ChunkSize * NumBits - ChunkSize * 1
      /\ ChunkSize * 1 = ChunkSize /\ ChunkSize * NumBits \in Int
  BY <1>2, SizesAssumption, Products
<1>5. NumBits > 0
  <2>1. SUFFICES ASSUME NumBits <= 0 PROVE FALSE BY <1>2
  <2>2. ChunkSize * NumBits <= 0 BY <1>2, <2>1, SizesAssumption
  <2> QED BY <1>1, <1>3, <2>2, SizesAssumption
<1> QED BY <1>2, <1>3, <1>4, <1>5, SizesAssumption

LEMMA Ends ==
  ASSUME NEW c \in Chunks
  PROVE  /\ c \in Nat /\ c < NumBits /\ EndOf(c) \in Int
         /\ ChunkSize * c < EndOf(c) /\ EndOf(c) <= ChunkSize * c + ChunkSize
         /\ EndOf(c) <= FileSize
         /\ c < NumBits - 1 => EndOf(c) = ChunkSize * (c + 1)
         /\ c = NumBits - 1 => EndOf(c) = FileSize
<1>1. c \in Nat /\ c < NumBits BY NumberOfChunks DEF Chunks
<1> DEFINE full == ChunkSize * (c + 1)
<1>2. full \in Int /\ full = ChunkSize * c + ChunkSize /\ ChunkSize * c \in Int
  BY <1>1, Products
<1>3. EndOf(c) = IF full <= FileSize THEN full ELSE FileSize
  BY <1>2, SizesAssumption DEF EndOf, Min
<1>4. c < NumBits - 1 => full <= ChunkSize * (NumBits - 1)
  BY <1>1, <1>2, NumberOfChunks, Products
<1>5. c = NumBits - 1 => FileSize <= full
  BY <1>1, <1>2, NumberOfChunks
<1>6. ChunkSize * (NumBits - 1) \in Int BY NumberOfChunks, Products
<1>7. ChunkSize * c < FileSize
  BY <1>1, <1>2, <1>4, <1>6, NumberOfChunks, SizesAssumption
<1> HIDE DEF full
<1> QED BY <1>1, <1>2, <1>3, <1>4, <1>5, <1>6, <1>7, NumberOfChunks, SizesAssumption DEF full

LEMMA LastSizes ==
  ASSUME NEW c \in Chunks
  PROVE  LastSegSize(c) = EndOf(c) - ChunkSize * c /\ LastSegSize(c) \in 1 .. ChunkSize
<1> DEFINE q == FileSize \div ChunkSize
           r == FileSize % ChunkSize
<1>1. /\ q \in Int /\ r \in Int /\ 0 <= r /\ r < ChunkSize /\ FileSize = ChunkSize * q + r
      /\ ChunkSize * q \in Int
  BY SizesAssumption
<1> HIDE DEF q, r
<1>2. /\ c \in Nat /\ c < NumBits /\ EndOf(c) \in Int /\ ChunkSize * c \in Int
      /\ ChunkSize * (c + 1) = ChunkSize * c + ChunkSize
  BY Ends, Products
<1>3. CASE c < NumBits - 1
  <2>1. EndOf(c) = ChunkSize * (c + 1) BY <1>3, Ends
  <2> QED BY <1>2, <1>3, <2>1, SizesAssumption DEF LastSegSize
<1>4. CASE c = NumBits - 1
  <2>1. EndOf(c) = FileSize BY <1>4, Ends
  <2>2. CASE r = 0
    (* The last chunk is full. *)
    <3>1. ChunkSize * c < ChunkSize * q /\ ChunkSize * q <= ChunkSize * c + ChunkSize
      BY <1>1, <1>2, <1>4, <2>2, NumberOfChunks
    <3>2. ~(q <= c)
      <4>1. q < c => ChunkSize * q + ChunkSize <= ChunkSize * c BY <1>1, <1>2, Products
      <4> QED BY <1>1, <1>2, <3>1, <4>1, SizesAssumption
    <3>3. ~(c + 1 < q)
      <4>1. c + 1 < q => ChunkSize * (c + 1) + ChunkSize <= ChunkSize * q
        BY <1>1, <1>2, Products
      <4> QED BY <1>1, <1>2, <3>1, <4>1, SizesAssumption
    <3>4. q = c + 1 BY <1>1, <1>2, <3>2, <3>3
    <3>5. FileSize - ChunkSize * c = ChunkSize BY <1>1, <1>2, <2>2, <3>4, SizesAssumption
    <3> QED BY <1>1, <1>2, <2>1, <2>2, <3>5, SizesAssumption DEF LastSegSize, r
  <2>3. CASE r # 0
    <3>1. ChunkSize * c < ChunkSize * q + r /\ ChunkSize * q + r <= ChunkSize * c + ChunkSize
      BY <1>1, <1>2, <1>4, NumberOfChunks
    <3>2. ~(q < c)
      <4>1. q < c => ChunkSize * q + ChunkSize <= ChunkSize * c BY <1>1, <1>2, Products
      <4> QED BY <1>1, <1>2, <3>1, <4>1, SizesAssumption
    <3>3. ~(c < q)
      <4>1. c < q => ChunkSize * c + ChunkSize <= ChunkSize * q BY <1>1, <1>2, Products
      <4> QED BY <1>1, <1>2, <2>3, <3>1, <4>1, SizesAssumption
    <3>4. q = c BY <1>1, <1>2, <3>2, <3>3
    <3>5. FileSize - ChunkSize * c = r BY <1>1, <1>2, <3>4, SizesAssumption
    <3>6. LastSegSize(c) = r BY <1>4, <2>3 DEF LastSegSize, r
    <3> QED BY <1>1, <2>1, <2>3, <3>5, <3>6, SizesAssumption
  <2> QED BY <1>1, <2>2, <2>3
<1> QED BY <1>2, <1>3, <1>4, NumberOfChunks

LEMMA UnitsOfChunks ==
  /\ \A c \in Chunks : \A u \in ChunkUnits(c) :
         u \in Int /\ ChunkSize * c <= u /\ u < EndOf(c)
  /\ \A u \in Units : u \div ChunkSize \in Chunks /\ u \in ChunkUnits(u \div ChunkSize)
<1>1. ASSUME NEW c \in Chunks, NEW u \in ChunkUnits(c)
      PROVE  u \in Int /\ ChunkSize * c <= u /\ u < EndOf(c)
  <2>1. u \in Nat /\ u < FileSize /\ u \div ChunkSize = c
    BY SizesAssumption DEF ChunkUnits, Units
  <2>2. c \in Int /\ ChunkSize * c \in Int BY Ends, Products
  <2>3. ChunkSize * c <= u /\ u < ChunkSize * c + ChunkSize BY <2>1, <2>2, Division
  <2>4. ChunkSize * (c + 1) = ChunkSize * c + ChunkSize BY <2>2, Products
  <2> QED BY <2>1, <2>2, <2>3, <2>4, Ends, NumberOfChunks, SizesAssumption
<1>2. ASSUME NEW u \in Units PROVE u \div ChunkSize \in Chunks /\ u \in ChunkUnits(u \div ChunkSize)
  <2> DEFINE c == u \div ChunkSize
  <2>1. u \in Nat /\ u < FileSize /\ c \in Int BY SizesAssumption DEF Units
  <2>2. ChunkSize * c <= u /\ u < ChunkSize * c + ChunkSize /\ ChunkSize * c \in Int
    BY <2>1, Division, Products
  <2> HIDE DEF c
  <2>3. ChunkSize * 0 = 0 BY SizesAssumption
  <2>4. ~(c < 0)
    <3>1. c < 0 => ChunkSize * c + ChunkSize <= ChunkSize * 0 BY <2>1, Products
    <3> QED BY <2>1, <2>2, <2>3, <3>1, SizesAssumption
  <2>5. ~(NumBits - 1 < c)
    <3>1. NumBits - 1 < c => ChunkSize * (NumBits - 1) + ChunkSize <= ChunkSize * c
      BY <2>1, NumberOfChunks, Products
    <3>2. ChunkSize * (NumBits - 1) \in Int BY NumberOfChunks, Products
    <3> QED BY <2>1, <2>2, <3>1, <3>2, NumberOfChunks, SizesAssumption
  <2>6. c \in Chunks BY <2>1, <2>4, <2>5, NumberOfChunks DEF Chunks
  <2> QED BY <2>6 DEF ChunkUnits, c
<1> QED BY <1>1, <1>2

-----------------------------------------------------------------------------
(* Least and greatest elements, and beginnings of intervals *)

LEMMA LeastElement ==
  ASSUME NEW S, S \subseteq Nat, S # {}
  PROVE  Min(S) \in S /\ \A x \in S : Min(S) <= x
<1> DEFINE Less == {ss \in Nat \X Nat : ss[1] < ss[2]}
<1>1. IsWellFoundedOn(Less, Nat) BY NatLessThanWellFounded DEF OpToRel
<1> HIDE DEF Less
<1>2. PICK x \in S : \A y \in S : ~(<<y, x>> \in Less) BY <1>1, WFMin
<1>3. ASSUME NEW y \in S PROVE x <= y
  <2>1. x \in Nat /\ y \in Nat OBVIOUS
  <2>2. y < x => <<y, x>> \in Less BY <2>1 DEF Less
  <2> QED BY <1>2, <2>1, <2>2
<1>4. x \in S /\ \A y \in S : x =< y BY <1>3
<1> QED BY <1>4 DEF Min

LEMMA GreatestElement ==
  ASSUME NEW S, NEW b \in Int, S \subseteq Int, S # {}, \A x \in S : x <= b
  PROVE  Max(S) \in S /\ \A x \in S : x <= Max(S)
<1> DEFINE T == {b - x : x \in S}
<1>1. T \subseteq Nat /\ T # {}
  <2>1. \A x \in S : b - x \in Nat
    <3>1. ASSUME NEW x \in S PROVE b - x \in Nat
      <4>1. x \in Int /\ x <= b OBVIOUS
      <4> QED BY <4>1
    <3> QED BY <3>1
  <2> QED BY <2>1
<1> HIDE DEF T
<1>2. Min(T) \in T /\ \A y \in T : Min(T) <= y BY <1>1, LeastElement
<1>3. PICK x \in S : Min(T) = b - x BY <1>2 DEF T
<1>4. \A y \in S : y <= x
  <2>1. ASSUME NEW y \in S PROVE y <= x
    <3>1. b - y \in T BY DEF T
    <3> QED BY <1>2, <1>3, <3>1
  <2> QED BY <2>1
<1>5. \A y \in S : x >= y BY <1>4
<1> QED BY <1>5 DEF Max

LEMMA Beginning ==
  ASSUME NEW u \in Int, NEW P \in SUBSET (0 .. u),
         \A k \in P : \A j \in 0 .. k : j \in P
  PROVE  /\ Cardinality(P) \in Nat
         /\ P = 0 .. Cardinality(P) - 1
         /\ u \notin P /\ 0 <= u => Cardinality(P) \in 0 .. u
<1>1. CASE P = {}
  <2>1. Cardinality(P) = 0 BY <1>1, FS_EmptySet
  <2> QED BY <1>1, <2>1
<1>2. CASE P # {}
  <2> DEFINE m == Max(P)
  <2>1. m \in P /\ \A k \in P : k <= m
    <3>1. P \subseteq Int /\ \A k \in P : k <= u OBVIOUS
    <3> QED BY <1>2, <3>1, GreatestElement
  <2> HIDE DEF m
  <2>2. P = 0 .. m
    <3>1. \A k \in P : k \in 0 .. u BY SMT
    <3>2. \A k \in P : k \in 0 .. m BY <2>1, <3>1, SMT
    <3>3. \A k \in 0 .. m : k \in P BY <2>1
    <3> QED BY <3>2, <3>3
  <2>3. m \in Nat /\ m <= u BY <2>1
  <2>4. Cardinality(P) = m + 1 BY <2>2, <2>3, FS_Interval
  <2> QED BY <2>1, <2>2, <2>3, <2>4
<1> QED BY <1>1, <1>2


-----------------------------------------------------------------------------
(* States *)

LEMMA MirrorsInOrder ==
  /\ \A i \in 1 .. Len(MirrorOrder) : MirrorOrder[i] \in Mirrors
  /\ \A m \in Mirrors : \E i \in 1 .. Len(MirrorOrder) : MirrorOrder[i] = m
BY MirrorsAssumption DEF Mirrors, ToSet

LEMMA Parts ==
  ASSUME NEW s \in State
  PROVE  /\ s.factory \in AnyFactory /\ s.disk \in SUBSET Int
         /\ \A m \in Mirrors : /\ s.source[m] \in AnySource
                               /\ s.source[m].segments \in Seq(AnySegment)
                               /\ Len(s.source[m].segments) \in Nat
                               /\ s.source[m].connections \in Nat \ {0}
         /\ \A p \in Places(s) : /\ At(s, p) \in AnySegment /\ p[1] \in Mirrors
                                 /\ p[2] \in 1 .. Len(s.source[p[1]].segments)
                                 /\ p = <<p[1], p[2]>>
         /\ \A m \in Mirrors : \A i \in 1 .. Len(s.source[m].segments) :
                <<m, i>> \in Places(s) /\ At(s, <<m, i>>) = s.source[m].segments[i]
         /\ \A m \in Mirrors : \A i \in Nat \ {0} :
                <<m, i>> \in Places(s) <=> i <= Len(s.source[m].segments)
<1>1. s.factory \in AnyFactory /\ s.disk \in SUBSET Int /\ s.source \in [Mirrors -> AnySource]
  BY DEF State
<1>2. \A m \in Mirrors : /\ s.source[m] \in AnySource
                         /\ s.source[m].segments \in Seq(AnySegment)
                         /\ s.source[m].connections \in Nat \ {0}
  BY <1>1 DEF AnySource
<1>3. \A m \in Mirrors : Len(s.source[m].segments) \in Nat BY <1>2
<1>4. \A m \in Mirrors : \A i \in 1 .. Len(s.source[m].segments) :
          <<m, i>> \in Places(s) /\ At(s, <<m, i>>) = s.source[m].segments[i]
  BY <1>3 DEF Places, At
<1>5. ASSUME NEW p \in Places(s)
      PROVE  /\ p[1] \in Mirrors /\ p = <<p[1], p[2]>>
             /\ p[2] \in 1 .. Len(s.source[p[1]].segments) /\ At(s, p) \in AnySegment
  <2>1. p[1] \in Mirrors /\ p = <<p[1], p[2]>> /\ p[2] \in Nat \ {0}
        /\ p[2] <= Len(s.source[p[1]].segments)
    BY DEF Places
  <2>2. p[2] \in 1 .. Len(s.source[p[1]].segments) BY <1>3, <2>1
  <2>3. s.source[p[1]].segments[p[2]] \in AnySegment BY <1>2, <2>1, <2>2
  <2> QED BY <2>1, <2>2, <2>3 DEF At
<1>6. \A m \in Mirrors : \A i \in Nat \ {0} :
          <<m, i>> \in Places(s) <=> i <= Len(s.source[m].segments)
  BY <1>3 DEF Places
<1> QED BY <1>1, <1>2, <1>3, <1>4, <1>5, <1>6

(* What changes when a mirror has other segments *)
LEMMA FirstPlace ==
  ASSUME NEW s \in State, NEW m \in Mirrors, s.source[m].segments # <<>>
  PROVE  <<m, 1>> \in Places(s)
<1>1. s.source[m].segments \in Seq(AnySegment) /\ Len(s.source[m].segments) \in Nat BY Parts
<1>2. 1 <= Len(s.source[m].segments) BY <1>1
<1>3. 1 \in Nat \ {0} OBVIOUS
<1> QED BY <1>2, <1>3, Parts

LEMMA OtherSegments ==
  ASSUME NEW s \in State, NEW m \in Mirrors, NEW list \in Seq(AnySegment)
  PROVE  LET t == WithSegments(s, m, list)
         IN  /\ t \in State /\ t.factory = s.factory /\ t.disk = s.disk
             /\ \A x \in Mirrors : /\ t.source[x].used = s.source[x].used
                                   /\ t.source[x].running = s.source[x].running
                                   /\ t.source[x].connections = s.source[x].connections
                                   /\ x # m => t.source[x] = s.source[x]
             /\ t.source[m].segments = list
             /\ \A p \in Mirrors \X (Nat \ {0}) : p[1] # m =>
                    (p \in Places(t) <=> p \in Places(s)) /\ At(t, p) = At(s, p)
             /\ \A i \in Nat \ {0} : <<m, i>> \in Places(t) <=> i <= Len(list)
             /\ \A i \in Nat \ {0} : At(t, <<m, i>>) = list[i]
<1> DEFINE t == WithSegments(s, m, list)
<1>1. s.source \in [Mirrors -> AnySource] /\ s.factory \in AnyFactory /\ s.disk \in SUBSET Int
  BY DEF State
<1>2. t = [factory |-> s.factory, disk |-> s.disk,
           source |-> [s.source EXCEPT ![m] = [@ EXCEPT !.segments = list]]]
  BY DEF State, WithSegments
<1>3. s.source[m] \in AnySource BY <1>1
<1>4. [s.source[m] EXCEPT !.segments = list] \in AnySource BY <1>3 DEF AnySource
<1>5. t \in State /\ t.factory = s.factory /\ t.disk = s.disk BY <1>1, <1>2, <1>4 DEF State
<1>6. t.source = [s.source EXCEPT ![m] = [@ EXCEPT !.segments = list]] BY <1>2
<1> HIDE DEF t
<1>7. \A x \in Mirrors : x # m => t.source[x] = s.source[x] BY <1>1, <1>6
<1>8. t.source[m] = [s.source[m] EXCEPT !.segments = list] BY <1>1, <1>6
<1>9. /\ t.source[m].segments = list /\ t.source[m].used = s.source[m].used
      /\ t.source[m].running = s.source[m].running
      /\ t.source[m].connections = s.source[m].connections
  BY <1>3, <1>8 DEF AnySource
<1>10. \A p \in Mirrors \X (Nat \ {0}) : p[1] # m =>
           (p \in Places(t) <=> p \in Places(s)) /\ At(t, p) = At(s, p)
  BY <1>7 DEF Places, At
<1>11. \A i \in Nat \ {0} : (<<m, i>> \in Places(t) <=> i <= Len(list))
                            /\ At(t, <<m, i>>) = list[i]
  BY <1>9 DEF Places, At
<1> QED BY <1>5, <1>7, <1>9, <1>10, <1>11 DEF t

(* One segment is replaced. *)
LEMMA OneReplaced ==
  ASSUME NEW s \in State, NEW m \in Mirrors, NEW i \in 1 .. Len(s.source[m].segments),
         NEW seg \in AnySegment
  PROVE  LET t == WithSegment(s, m, i, seg)
         IN  /\ t \in State /\ t.factory = s.factory /\ t.disk = s.disk
             /\ \A x \in Mirrors : /\ t.source[x].used = s.source[x].used
                                   /\ t.source[x].running = s.source[x].running
                                   /\ t.source[x].connections = s.source[x].connections
                                   /\ (t.source[x].segments = <<>>) = (s.source[x].segments = <<>>)
             /\ Places(t) = Places(s) /\ <<m, i>> \in Places(s)
             /\ At(t, <<m, i>>) = seg
             /\ \A p \in Places(s) : p # <<m, i>> => At(t, p) = At(s, p)
             /\ Len(t.source[m].segments) = Len(s.source[m].segments)
<1> DEFINE old == s.source[m].segments
           list == [old EXCEPT ![i] = seg]
           t == WithSegments(s, m, list)
<1>1. old \in Seq(AnySegment) /\ Len(old) \in Nat /\ <<m, i>> \in Places(s) BY Parts
<1>2. /\ list \in Seq(AnySegment) /\ Len(list) = Len(old) /\ list[i] = seg
      /\ \A k \in 1 .. Len(old) : k # i => list[k] = old[k]
  BY <1>1
<1> HIDE DEF list, old
<1>3. /\ t \in State /\ t.factory = s.factory /\ t.disk = s.disk
      /\ \A x \in Mirrors : /\ t.source[x].used = s.source[x].used
                            /\ t.source[x].running = s.source[x].running
                            /\ t.source[x].connections = s.source[x].connections
                            /\ x # m => t.source[x] = s.source[x]
      /\ t.source[m].segments = list
      /\ \A p \in Mirrors \X (Nat \ {0}) : p[1] # m =>
             (p \in Places(t) <=> p \in Places(s)) /\ At(t, p) = At(s, p)
      /\ \A k \in Nat \ {0} : <<m, k>> \in Places(t) <=> k <= Len(list)
      /\ \A k \in Nat \ {0} : At(t, <<m, k>>) = list[k]
  BY <1>2, OtherSegments
<1> HIDE DEF t
<1>4. \A k \in Nat \ {0} : <<m, k>> \in Places(s) <=> k <= Len(old) BY Parts DEF old
<1>5. \A k \in 1 .. Len(old) : At(s, <<m, k>>) = old[k] BY Parts DEF old
<1>6. /\ \A p \in Places(t) : p[1] \in Mirrors /\ p[2] \in Nat \ {0} /\ p = <<p[1], p[2]>>
      /\ \A p \in Places(s) : p[1] \in Mirrors /\ p[2] \in Nat \ {0} /\ p = <<p[1], p[2]>>
  BY DEF Places
<1>7. \A p \in Mirrors \X (Nat \ {0}) : p \in Places(t) <=> p \in Places(s)
  <2>1. ASSUME NEW p \in Mirrors \X (Nat \ {0}) PROVE p \in Places(t) <=> p \in Places(s)
    <3>1. CASE p[1] = m
      <4>1. p = <<m, p[2]>> /\ p[2] \in Nat \ {0} BY <3>1
      <4> QED BY <1>2, <1>3, <1>4, <4>1
    <3>2. CASE p[1] # m BY <1>3, <3>2
    <3> QED BY <3>1, <3>2
  <2> QED BY <2>1
<1>8. Places(t) = Places(s) BY <1>7 DEF Places
<1>9. At(t, <<m, i>>) = seg BY <1>1, <1>2, <1>3
<1>10. ASSUME NEW p \in Places(s), p # <<m, i>> PROVE At(t, p) = At(s, p)
  <2>1. CASE p[1] = m
    <3>1. p = <<m, p[2]>> /\ p[2] \in Nat \ {0} /\ p[2] <= Len(old) /\ p[2] # i
      BY <1>4, <1>6, <1>10, <2>1
    <3>2. p[2] \in 1 .. Len(old) BY <1>1, <3>1 DEF old
    <3>3. At(t, <<m, p[2]>>) = old[p[2]] /\ At(s, <<m, p[2]>>) = old[p[2]]
      BY <1>2, <1>3, <1>5, <3>1, <3>2
    <3> QED BY <3>1, <3>3
  <2>2. CASE p[1] # m
    <3>1. p \in Mirrors \X (Nat \ {0}) BY DEF Places
    <3> QED BY <1>3, <2>2, <3>1
  <2> QED BY <2>1, <2>2
<1>11. \A x \in Mirrors : (t.source[x].segments = <<>>) = (s.source[x].segments = <<>>)
  <2>1. (list = <<>>) = (old = <<>>) BY <1>1, <1>2 DEF old
  <2> QED BY <1>3, <2>1 DEF old
<1>12. t = WithSegment(s, m, i, seg) BY DEF t, WithSegment, list, old
<1> QED BY <1>1, <1>2, <1>3, <1>8, <1>9, <1>10, <1>11, <1>12 DEF old

(* One segment is appended. *)
(* t is s with seg, at the place p of the mirror m. *)
OneMore(t, s, m, seg, p) ==
    /\ t \in State /\ t.factory = s.factory /\ t.disk = s.disk
    /\ \A x \in Mirrors : /\ t.source[x].used = s.source[x].used
                          /\ t.source[x].running = s.source[x].running
                          /\ x # m => t.source[x] = s.source[x]
    /\ Places(t) = Places(s) \cup {p} /\ p \notin Places(s)
    /\ At(t, p) = seg
    /\ \A q \in Places(s) : At(t, q) = At(s, q)

LEMMA OneAppended ==
  ASSUME NEW s \in State, NEW m \in Mirrors, NEW seg \in AnySegment
  PROVE  OneMore(WithSegments(s, m, Append(s.source[m].segments, seg)), s, m, seg,
                 <<m, Len(s.source[m].segments) + 1>>)
<1> DEFINE old == s.source[m].segments
           list == Append(old, seg)
           t == WithSegments(s, m, list)
           new == <<m, Len(old) + 1>>
<1>1. old \in Seq(AnySegment) /\ Len(old) \in Nat BY Parts
<1>2. /\ list \in Seq(AnySegment) /\ Len(list) = Len(old) + 1 /\ list[Len(old) + 1] = seg
      /\ \A k \in 1 .. Len(old) : list[k] = old[k]
  BY <1>1
<1> HIDE DEF list, old
<1>3. /\ t \in State /\ t.factory = s.factory /\ t.disk = s.disk
      /\ \A x \in Mirrors : /\ t.source[x].used = s.source[x].used
                            /\ t.source[x].running = s.source[x].running
                            /\ t.source[x].connections = s.source[x].connections
                            /\ x # m => t.source[x] = s.source[x]
      /\ t.source[m].segments = list
      /\ \A p \in Mirrors \X (Nat \ {0}) : p[1] # m =>
             (p \in Places(t) <=> p \in Places(s)) /\ At(t, p) = At(s, p)
      /\ \A k \in Nat \ {0} : <<m, k>> \in Places(t) <=> k <= Len(list)
      /\ \A k \in Nat \ {0} : At(t, <<m, k>>) = list[k]
  BY <1>2, OtherSegments, ZenonT(60)
<1> HIDE DEF t
<1>4. \A k \in Nat \ {0} : <<m, k>> \in Places(s) <=> k <= Len(old) BY Parts DEF old
<1>5. \A k \in 1 .. Len(old) : At(s, <<m, k>>) = old[k] BY Parts DEF old
<1>6. Places(t) \subseteq Mirrors \X (Nat \ {0}) /\ Places(s) \subseteq Mirrors \X (Nat \ {0})
  BY DEF Places
<1>7. \A p \in Mirrors \X (Nat \ {0}) : p \in Places(t) <=> p \in Places(s) \/ p = new
  <2>1. ASSUME NEW p \in Mirrors \X (Nat \ {0})
        PROVE  p \in Places(t) <=> p \in Places(s) \/ p = new
    <3>1. CASE p[1] = m
      <4>1. p = <<m, p[2]>> /\ p[2] \in Nat \ {0} BY <3>1
      <4>2. p = new <=> p[2] = Len(old) + 1 BY <4>1
      <4>3. <<m, p[2]>> \in Places(t) <=> p[2] <= Len(old) + 1 BY <1>2, <1>3, <4>1
      <4>4. <<m, p[2]>> \in Places(s) <=> p[2] <= Len(old) BY <1>4, <4>1
      <4>5. p[2] <= Len(old) + 1 <=> p[2] <= Len(old) \/ p[2] = Len(old) + 1 BY <1>1, <4>1
      <4> QED BY <4>1, <4>2, <4>3, <4>4, <4>5
    <3>2. CASE p[1] # m BY <1>3, <3>2
    <3> QED BY <3>1, <3>2
  <2> QED BY <2>1
<1>8. Len(old) + 1 \in Nat \ {0} /\ new \in Mirrors \X (Nat \ {0}) BY <1>1
<1>9. Places(t) = Places(s) \cup {new} BY <1>6, <1>7, <1>8
<1>10. new \notin Places(s) BY <1>1, <1>4, <1>8
<1>11. At(t, new) = seg BY <1>2, <1>3, <1>8
<1>12. ASSUME NEW p \in Places(s) PROVE At(t, p) = At(s, p)
  <2>1. CASE p[1] = m
    <3>1. p = <<m, p[2]>> /\ p[2] \in Nat \ {0} BY <1>6, <2>1
    <3>2. p[2] \in 1 .. Len(old) BY <1>1, <1>4, <3>1
    <3> QED BY <1>2, <1>3, <1>5, <3>1, <3>2
  <2>2. CASE p[1] # m BY <1>3, <1>6, <2>2
  <2> QED BY <2>1, <2>2
<1>13. OneMore(t, s, m, seg, new) BY <1>3, <1>9, <1>10, <1>11, <1>12 DEF OneMore
<1> QED BY <1>13 DEF t, list, old

(* Each segment of t comes from one of s, at the same mirror. *)
Origins(t, s) ==
    {g \in [Places(t) -> Places(s)] : /\ \A p, q \in Places(t) : g[p] = g[q] => p = q
                                     /\ \A p \in Places(t) : g[p][1] = p[1]}

LEMMA OneRemoved ==
  ASSUME NEW s \in State, NEW m \in Mirrors, NEW i \in 1 .. Len(s.source[m].segments)
  PROVE  LET t == removeSegment(s, m, i)
         IN  /\ t \in State /\ t.factory = s.factory /\ t.disk = s.disk
             /\ \A x \in Mirrors : /\ t.source[x].used = s.source[x].used
                                   /\ t.source[x].running = s.source[x].running
                                   /\ t.source[x].connections = s.source[x].connections
                                   /\ x # m => t.source[x] = s.source[x]
             /\ Len(t.source[m].segments) = Len(s.source[m].segments) - 1
             /\ \E g \in Origins(t, s) :
                    /\ \A p \in Places(t) : At(t, p) = At(s, g[p]) /\ g[p] # <<m, i>>
                    /\ \A q \in Places(s) : q # <<m, i>> => \E p \in Places(t) : g[p] = q
<1> DEFINE old == s.source[m].segments
           list == RemoveAt(old, i)
           t == WithSegments(s, m, list)
           Back(k) == IF k < i THEN k ELSE k + 1
           g == [p \in Places(t) |-> IF p[1] = m THEN <<m, Back(p[2])>> ELSE p]
<1>1. old \in Seq(AnySegment) /\ Len(old) \in Nat /\ i \in 1 .. Len(old) BY Parts
<1>2. /\ list \in Seq(AnySegment) /\ Len(list) = Len(old) - 1
      /\ \A k \in 1 .. Len(old) - 1 : list[k] = old[Back(k)]
  <2> DEFINE front == SubSeq(old, 1, i - 1)
             rest == SubSeq(old, i + 1, Len(old))
  <2> HIDE DEF old
  <2>1. /\ front \in Seq(AnySegment) /\ Len(front) = i - 1
        /\ \A k \in 1 .. i - 1 : front[k] = old[k]
    BY <1>1
  <2>2. /\ rest \in Seq(AnySegment) /\ Len(rest) = Len(old) - i
        /\ \A k \in 1 .. Len(old) - i : rest[k] = old[i + k]
    BY <1>1
  <2>3. list = front \o rest BY DEF RemoveAt
  <2> HIDE DEF front, rest, list
  <2>4. /\ list \in Seq(AnySegment) /\ Len(list) = Len(old) - 1
        /\ \A k \in 1 .. Len(old) - 1 :
               list[k] = IF k <= i - 1 THEN front[k] ELSE rest[k - (i - 1)]
    <3>1. /\ list \in Seq(AnySegment) /\ Len(list) = Len(front) + Len(rest)
          /\ \A k \in 1 .. Len(front) + Len(rest) :
                 list[k] = IF k <= Len(front) THEN front[k] ELSE rest[k - Len(front)]
      BY <2>1, <2>2, <2>3, ConcatProperties
    <3>2. Len(front) + Len(rest) = Len(old) - 1 BY <1>1, <2>1, <2>2
    <3> QED BY <2>1, <3>1, <3>2
  <2>5. ASSUME NEW k \in 1 .. Len(old) - 1 PROVE list[k] = old[Back(k)]
    <3>1. CASE k < i BY <1>1, <2>1, <2>4, <3>1
    <3>2. CASE ~(k < i)
      <4>1. k - (i - 1) \in 1 .. Len(old) - i /\ i + (k - (i - 1)) = k + 1 BY <1>1, <3>2
      <4> QED BY <1>1, <2>2, <2>4, <3>2, <4>1
    <3> QED BY <3>1, <3>2
  <2> QED BY <2>4, <2>5
<1> HIDE DEF list, old
<1>3. /\ t \in State /\ t.factory = s.factory /\ t.disk = s.disk
      /\ \A x \in Mirrors : /\ t.source[x].used = s.source[x].used
                            /\ t.source[x].running = s.source[x].running
                            /\ t.source[x].connections = s.source[x].connections
                            /\ x # m => t.source[x] = s.source[x]
      /\ t.source[m].segments = list
      /\ \A p \in Mirrors \X (Nat \ {0}) : p[1] # m =>
             (p \in Places(t) <=> p \in Places(s)) /\ At(t, p) = At(s, p)
      /\ \A k \in Nat \ {0} : <<m, k>> \in Places(t) <=> k <= Len(list)
      /\ \A k \in Nat \ {0} : At(t, <<m, k>>) = list[k]
  BY <1>2, OtherSegments, ZenonT(60)
<1> HIDE DEF t
<1>4. \A k \in Nat \ {0} : <<m, k>> \in Places(s) <=> k <= Len(old) BY Parts DEF old
<1>5. \A k \in 1 .. Len(old) : At(s, <<m, k>>) = old[k] BY Parts DEF old
<1>6. Places(t) \subseteq Mirrors \X (Nat \ {0}) /\ Places(s) \subseteq Mirrors \X (Nat \ {0})
  BY DEF Places
<1>7. ASSUME NEW p \in Places(t)
      PROVE  /\ g[p] \in Places(s) /\ g[p][1] = p[1] /\ g[p] # <<m, i>>
             /\ At(t, p) = At(s, g[p])
  <2>1. CASE p[1] = m
    <3>1. p = <<m, p[2]>> /\ p[2] \in Nat \ {0} BY <1>6, <2>1
    <3>2. p[2] \in 1 .. Len(old) - 1 BY <1>1, <1>2, <1>3, <3>1
    <3>3. Back(p[2]) \in 1 .. Len(old) /\ Back(p[2]) # i BY <1>1, <3>2
    <3>4. g[p] = <<m, Back(p[2])>> BY <2>1
    <3>5. At(t, p) = old[Back(p[2])] BY <1>2, <1>3, <3>1, <3>2, SMTT(60)
    <3> HIDE DEF Back, g
    <3>6. Back(p[2]) \in Nat \ {0} /\ Back(p[2]) <= Len(old) BY <1>1, <3>3
    <3>7. <<m, Back(p[2])>> \in Places(s) BY <1>4, <3>6
    <3> QED BY <1>5, <2>1, <3>3, <3>4, <3>5, <3>7
  <2>2. CASE p[1] # m
    <3>1. g[p] = p BY <2>2
    <3> QED BY <1>3, <1>6, <2>2, <3>1
  <2> QED BY <2>1, <2>2
<1>8. ASSUME NEW p \in Places(t), NEW q \in Places(t), g[p] = g[q] PROVE p = q
  <2>1. p[1] = q[1] BY <1>7, <1>8
  <2>2. p = <<p[1], p[2]>> /\ q = <<q[1], q[2]>> /\ p[2] \in Nat /\ q[2] \in Nat BY <1>6
  <2>3. CASE p[1] = m
    <3>1. Back(p[2]) = Back(q[2]) BY <1>8, <2>1, <2>3
    <3>2. p[2] = q[2] BY <1>1, <2>2, <3>1
    <3> QED BY <2>1, <2>2, <3>2
  <2>4. CASE p[1] # m BY <1>8, <2>1, <2>4
  <2> QED BY <2>3, <2>4
<1>9. g \in Origins(t, s)
  <2>1. g \in [Places(t) -> Places(s)] BY <1>7
  <2> HIDE DEF g
  <2> QED BY <1>7, <1>8, <2>1 DEF Origins
<1>10. ASSUME NEW q \in Places(s), q # <<m, i>> PROVE \E p \in Places(t) : g[p] = q
  <2>1. CASE q[1] = m
    <3>1. q = <<m, q[2]>> /\ q[2] \in 1 .. Len(old) /\ q[2] # i
      <4>1. q = <<m, q[2]>> /\ q[2] \in Nat \ {0} BY <1>6, <2>1
      <4> QED BY <1>1, <1>4, <1>10, <4>1
    <3> DEFINE k == IF q[2] < i THEN q[2] ELSE q[2] - 1
    <3>2. k \in Nat \ {0} /\ k <= Len(list) /\ Back(k) = q[2] BY <1>1, <1>2, <3>1
    <3> HIDE DEF k
    <3>3. <<m, k>> \in Places(t) BY <1>3, <3>2
    <3>4. g[<<m, k>>] = <<m, Back(k)>> BY <3>3
    <3> QED BY <3>1, <3>2, <3>3, <3>4
  <2>2. CASE q[1] # m
    <3>1. q \in Places(t) BY <1>3, <1>6, <2>2
    <3>2. g[q] = q BY <2>2, <3>1
    <3> QED BY <3>1, <3>2
  <2> QED BY <2>1, <2>2
<1>11. Len(t.source[m].segments) = Len(old) - 1 BY <1>2, <1>3
<1>12. t = removeSegment(s, m, i) BY DEF t, removeSegment, list, old
<1> HIDE DEF g
<1>13. /\ \A p \in Places(t) : At(t, p) = At(s, g[p]) /\ g[p] # <<m, i>>
       /\ \A q \in Places(s) : q # <<m, i>> => \E p \in Places(t) : g[p] = q
  BY <1>7, <1>10
<1> QED BY <1>3, <1>9, <1>11, <1>12, <1>13 DEF old

-----------------------------------------------------------------------------
(* Segments *)

(* A segment of chunks that nobody has started *)
LEMMA NewSegments ==
  ASSUME NEW last \in Chunks, NEW first \in Chunks, first <= last
  PROVE  LET seg == NewSegment(LastSegSize(last), first, last)
         IN  /\ seg \in AnySegment /\ ~seg.finding /\ seg.cur = first /\ seg.end = last
             /\ seg.job = "none" /\ seg.status = "Stopped"
             /\ seg.buffer = <<>> /\ seg.timers = 0
             /\ seg.offset = ChunkSize * first
             /\ Held(seg) = first .. last /\ Exactly(seg) /\ Waits(seg)
<1> DEFINE size == LastSegSize(last)
           seg == NewSegment(size, first, last)
<1>1. size \in 1 .. ChunkSize /\ size = EndOf(last) - ChunkSize * last BY LastSizes
<1>2. /\ first \in Int /\ last \in Int /\ ChunkSize * first \in Int /\ ChunkSize * last \in Int
      /\ ChunkSize * (last - first) = ChunkSize * last - ChunkSize * first
      /\ EndOf(last) \in Int /\ EndOf(first) \in Int /\ EndOf(last) <= FileSize
      /\ ChunkSize * (first + 1) = ChunkSize * first + ChunkSize
  <2>1. first \in Int /\ last \in Int /\ EndOf(last) \in Int /\ EndOf(first) \in Int
        /\ EndOf(last) <= FileSize
    BY Ends
  <2> QED BY <2>1, Products
<1>3. first < last => EndOf(first) = ChunkSize * first + ChunkSize
  <2>1. last < NumBits BY Ends
  <2>2. first < last => first < NumBits - 1 BY <1>2, <2>1, NumberOfChunks
  <2> QED BY <1>2, <2>2, Ends
<1>4. ChunkSize * first < EndOf(first) BY Ends
<1> HIDE DEF size
<1>5. /\ seg \in AnySegment /\ ~seg.finding /\ seg.cur = first /\ seg.end = last
      /\ seg.job = "none" /\ seg.buffer = <<>> /\ seg.timers = 0
      /\ seg.offset = ChunkSize * first /\ seg.lastSize = size
      /\ seg.left = ChunkSize * (last - first) + size
      /\ seg.curSize = IF first = last THEN size ELSE ChunkSize
      /\ seg.pos = 0 /\ seg.status = "Stopped"
  <2>1. ChunkSize \in Int /\ ChunkSize * (last - first) + size \in Int /\ size \in Int
    BY <1>1, <1>2, SizesAssumption
  <2> QED BY <1>1, <1>2, <2>1 DEF NewSegment, AnySegment
<1> HIDE DEF seg
<1>6. Held(seg) = first .. last BY <1>5 DEF Held, Owned
<1>7. Waits(seg) BY <1>5 DEF Waits
<1>8. Exactly(seg)
  <2>1. ChunkSize * first <= seg.offset /\ ChunkSize * first <= FileSize
    <3>1. EndOf(first) <= FileSize BY Ends
    <3> QED BY <1>2, <1>4, <1>5, <3>1, SizesAssumption
  <2>2. Len(seg.buffer) = 0 BY <1>5
  <2>3. seg.curSize > 0 /\ seg.offset + seg.curSize = EndOf(first)
    <3> DEFINE product == ChunkSize * first
    <3>1. product \in Int /\ EndOf(first) \in Int BY Ends, Products
    <3>2. seg.offset = product /\ ChunkSize \in Int /\ ChunkSize > 0
      BY <1>5, SizesAssumption
    <3>3. CASE first = last
      <4>1. seg.curSize = size /\ size > 0 /\ size = EndOf(first) - product
        BY <1>1, <1>5, <3>3
      <4> HIDE DEF product
      <4> QED BY <1>1, <3>1, <3>2, <4>1
    <3>4. CASE first # last
      <4>1. seg.curSize = ChunkSize /\ EndOf(first) = product + ChunkSize
        <5>1. first < last BY <3>4, Ends
        <5> QED BY <1>3, <1>5, <3>4, <5>1
      <4> HIDE DEF product
      <4> QED BY <3>1, <3>2, <4>1
    <3> QED BY <3>3, <3>4
  <2>4. seg.offset + seg.left = EndOf(last) BY <1>1, <1>2, <1>5
  <2>5. seg.offset + Len(seg.buffer) <= FileSize BY <1>2, <1>5, <2>1, <2>2
  <2> QED BY <1>1, <1>5, <2>1, <2>2, <2>3, <2>4, <2>5 DEF Exactly
<1> QED BY <1>5, <1>6, <1>7, <1>8 DEF seg, size

(* What a job does not change *)
Same(new, seg) == /\ new \in AnySegment /\ Held(new) = Held(seg)
                  /\ new.finding = seg.finding /\ new.cur = seg.cur /\ new.end = seg.end
                  /\ new.offset = seg.offset /\ new.timers = seg.timers
                  /\ new.lastSize = seg.lastSize

LEMMA StartedSegments ==
  ASSUME NEW seg \in AnySegment, NEW m
  PROVE  LET new == startTransfer(m, seg)
         IN  /\ Same(new, seg) /\ new.buffer = seg.buffer
             /\ new.job # "none" /\ (new.pos = seg.pos \/ new.pos = seg.offset)
             /\ Exactly(seg) /\ (seg.job = "none" => seg.buffer = <<>>) => Exactly(new)
             /\ Waits(new) /\ new.status = "Running"
             /\ seg.status = "Stopped" \/ seg.job = "active" => new.job = "active"
<1> DEFINE new == startTransfer(m, seg)
           given == createTransfer(m, seg)
<1>1. /\ given \in AnySegment /\ given.finding = seg.finding /\ given.cur = seg.cur
      /\ given.end = seg.end /\ given.offset = seg.offset /\ given.timers = seg.timers
      /\ given.buffer = seg.buffer /\ given.lastSize = seg.lastSize
      /\ given.curSize = seg.curSize /\ given.left = seg.left
      /\ given.job # "none"
      /\ IF seg.job = "none" THEN given.pos = seg.offset ELSE given.pos = seg.pos
      /\ given.status = seg.status /\ (seg.job = "active" => given.job = "active")
  <2>1. CASE seg.job = "none"
    <3> DEFINE resumes == IF seg.offset = 0 THEN seg.canResume ELSE m \in Resuming
    <3>1. resumes \in BOOLEAN
      <4>1. seg.canResume \in BOOLEAN BY DEF AnySegment
      <4>2. (m \in Resuming) \in BOOLEAN OBVIOUS
      <4> QED BY <4>1, <4>2, Zenon
    <3>2. given = [seg EXCEPT !.job = "suspended", !.pos = seg.offset, !.canResume = resumes]
      BY <2>1 DEF createTransfer, AnySegment
    <3> HIDE DEF resumes, given
    <3> QED BY <2>1, <3>1, <3>2 DEF AnySegment
  <2>2. CASE seg.job # "none" BY <2>2 DEF createTransfer, AnySegment
  <2> QED BY <2>1, <2>2
<1> HIDE DEF given
<1>2. /\ new \in AnySegment /\ new.finding = seg.finding /\ new.cur = seg.cur
      /\ new.end = seg.end /\ new.offset = seg.offset /\ new.timers = seg.timers
      /\ new.buffer = seg.buffer /\ new.lastSize = seg.lastSize
      /\ new.curSize = seg.curSize /\ new.left = seg.left
      /\ new.job # "none" /\ new.pos = given.pos /\ new.status = "Running"
      /\ seg.status = "Stopped" \/ seg.job = "active" => new.job = "active"
  BY <1>1 DEF startTransfer, given, AnySegment
<1> HIDE DEF new
<1>3. Held(new) = Held(seg) BY <1>2 DEF Held, Owned
<1>4. Waits(new) BY <1>2 DEF Waits
<1>5. ASSUME Exactly(seg), seg.job = "none" => seg.buffer = <<>> PROVE Exactly(new)
  <2>1. seg.offset \in Int BY DEF AnySegment
  <2>2. new.pos = seg.offset + Len(seg.buffer)
    <3>1. CASE seg.job = "none"
      <4>1. Len(seg.buffer) = 0 BY <1>5, <3>1
      <4> QED BY <1>1, <1>2, <2>1, <3>1, <4>1
    <3>2. CASE seg.job # "none" BY <1>1, <1>2, <1>5, <3>2 DEF Exactly
    <3> QED BY <3>1, <3>2
  <2> QED BY <1>2, <1>5, <2>2 DEF Exactly
<1> QED BY <1>1, <1>2, <1>3, <1>4, <1>5 DEF new, Same

LEMMA StoppedSegments ==
  ASSUME NEW seg \in AnySegment
  PROVE  LET new == stopTransfer(seg)
         IN  /\ Same(new, seg) /\ new.job = "none" /\ new.status = "Stopped"
             /\ Exactly(seg) => Exactly(new)
             /\ Waits(seg) => Waits(new)
<1> DEFINE new == stopTransfer(seg)
<1>1. /\ new \in AnySegment /\ new.finding = seg.finding /\ new.cur = seg.cur
      /\ new.end = seg.end /\ new.offset = seg.offset /\ new.timers = seg.timers
      /\ new.lastSize = seg.lastSize /\ new.curSize = seg.curSize /\ new.left = seg.left
      /\ new.job = "none" /\ new.status = "Stopped"
      /\ new.buffer = IF seg.job = "none" THEN seg.buffer ELSE <<>>
      /\ new.pos = IF seg.job = "none" THEN seg.pos ELSE 0
  <2>1. CASE seg.job = "none" BY <2>1 DEF stopTransfer, AnySegment
  <2>2. CASE seg.job # "none"
    <3> DEFINE empty == <<>>
               zero == 0
    <3>1. empty \in Seq(Int) /\ zero \in Int OBVIOUS
    <3>2. new = [seg EXCEPT !.status = "Stopped", !.job = "none", !.pos = zero,
                            !.buffer = empty]
      BY <2>2 DEF stopTransfer
    <3>3. new.buffer = empty /\ new.pos = zero /\ new.status = "Stopped"
      BY <3>2 DEF AnySegment
    <3> HIDE DEF empty, zero, new
    <3>4. \A b \in Seq(Int), x \in Int :
              [seg EXCEPT !.status = "Stopped", !.job = "none", !.pos = x, !.buffer = b]
                  \in AnySegment
      BY DEF AnySegment
    <3>5. new \in AnySegment BY <3>1, <3>2, <3>4
    <3> QED BY <2>2, <3>2, <3>3, <3>5 DEF AnySegment, empty, zero
  <2> QED BY <2>1, <2>2
<1> HIDE DEF new
<1>2. Held(new) = Held(seg) BY <1>1 DEF Held, Owned
<1>3. Waits(seg) => Waits(new) BY <1>1 DEF Waits
<1>4. ASSUME Exactly(seg) PROVE Exactly(new)
  <2>1. CASE seg.job = "none" BY <1>1, <1>4, <2>1 DEF Exactly
  <2>2. CASE seg.job # "none"
    <3>1. seg.offset \in Int /\ Len(seg.buffer) \in Nat /\ Len(new.buffer) = 0
      BY <1>1, <2>2 DEF AnySegment
    <3>2. seg.offset + Len(new.buffer) <= FileSize BY <1>4, <3>1, SizesAssumption DEF Exactly
    <3> QED BY <1>1, <1>4, <3>1, <3>2 DEF Exactly
  <2> QED BY <2>1, <2>2
<1> QED BY <1>1, <1>2, <1>3, <1>4 DEF new, Same

(* A segment that has chunks behind its current one gives half of them away. *)
LEMMA SplitSegments ==
  ASSUME NEW seg \in AnySegment, ~seg.finding, seg.cur < seg.end,
         seg.end \in Chunks, seg.cur \in Chunks
  PROVE  LET new == splitSegment(seg)
         IN  /\ new \in AnySegment /\ ~new.finding /\ new.cur = seg.cur
             /\ Freed(seg) \in 1 .. seg.end - seg.cur
             /\ new.end = seg.end - Freed(seg)
             /\ new.timers = seg.timers /\ new.offset = seg.offset
             /\ IF seg.job = "none" THEN new.job = "none" ELSE new.job = "active"
             /\ new.status = seg.status
             /\ Exactly(seg) => Exactly(new)
             /\ Waits(seg) => Waits(new)
<1> DEFINE new == splitSegment(seg)
           f == Freed(seg)
           e == seg.end
<1>1. f \in 1 .. e - seg.cur /\ e \in Chunks /\ e \in Int /\ seg.cur \in Int
  <2>1. e \in Int /\ seg.cur \in Int /\ seg.cur < e BY DEF AnySegment
  <2> QED BY <2>1 DEF Freed, countUnfinishedSegments
<1> HIDE DEF f
<1>2. /\ ChunkSize * (f - 1) \in Int /\ ChunkSize * e \in Int
      /\ ChunkSize * f = ChunkSize * (f - 1) + ChunkSize /\ ChunkSize * f \in Int
      /\ ChunkSize * (e - f) = ChunkSize * e - ChunkSize * f /\ ChunkSize * (e - f) \in Int
      /\ ChunkSize * ((e - f) + 1) = ChunkSize * (e - f) + ChunkSize
  <2>1. f \in Int /\ f - 1 \in Int /\ (f - 1) + 1 = f /\ e - f \in Int BY <1>1
  <2>2. ChunkSize * (f - 1) \in Int /\ ChunkSize * ((f - 1) + 1) = ChunkSize * (f - 1) + ChunkSize
    BY <2>1, Products
  <2>3. /\ ChunkSize * e \in Int /\ ChunkSize * f \in Int
        /\ ChunkSize * (e - f) = ChunkSize * e - ChunkSize * f
    BY <1>1, <2>1, Products
  <2>4. ChunkSize * (e - f) \in Int
        /\ ChunkSize * ((e - f) + 1) = ChunkSize * (e - f) + ChunkSize
    BY <2>1, Products
  <2> QED BY <2>1, <2>2, <2>3, <2>4
<1>3. /\ new \in AnySegment /\ new.finding = seg.finding /\ new.cur = seg.cur
      /\ new.end = e - f /\ new.offset = seg.offset /\ new.timers = seg.timers
      /\ new.lastSize = ChunkSize /\ new.curSize = seg.curSize
      /\ new.left = seg.left - (ChunkSize * (f - 1) + seg.lastSize)
      /\ new.job = IF seg.job = "none" THEN "none" ELSE "active"
      /\ new.buffer = seg.buffer /\ new.pos = seg.pos /\ new.status = seg.status
  <2>1. seg.left - (ChunkSize * (f - 1) + seg.lastSize) \in Int /\ e - f \in Int
        /\ ChunkSize \in 1 .. ChunkSize
    <3>1. seg.left \in Int /\ seg.lastSize \in Int BY SizesAssumption DEF AnySegment
    <3> QED BY <1>1, <1>2, <3>1, SizesAssumption
  <2> QED BY <2>1 DEF splitSegment, AnySegment, f, e
<1> HIDE DEF new
<1>4. Waits(seg) => Waits(new) BY <1>3 DEF Waits
<1>5. ASSUME Exactly(seg) PROVE Exactly(new)
  <2>1. e - f \in Chunks /\ e - f < NumBits - 1
    <3>1. e - f \in Int /\ seg.cur <= e - f /\ e - f < e BY <1>1
    <3> QED BY <1>1, <3>1, NumberOfChunks DEF Chunks
  <2>2. EndOf(e - f) = ChunkSize * (e - f) + ChunkSize BY <1>2, <2>1, Ends
  <2>3. seg.offset \in Int /\ seg.left \in Int /\ seg.lastSize \in Int /\ EndOf(e) \in Int
    BY <1>1, Ends DEF AnySegment
  <2>4. seg.offset + seg.left = EndOf(e) /\ seg.lastSize = EndOf(e) - ChunkSize * e
    BY <1>5 DEF Exactly
  <2>5. new.offset + new.left = EndOf(e - f)
    BY <1>2, <1>3, <2>2, <2>3, <2>4, SizesAssumption
  <2>6. new.lastSize = EndOf(e - f) - ChunkSize * (e - f)
    BY <1>2, <1>3, <2>2, SizesAssumption
  <2> QED BY <1>3, <1>5, <2>5, <2>6 DEF Exactly
<1> QED BY <1>1, <1>3, <1>4, <1>5 DEF new, f, e

(* A segment goes on with the chunks of the one behind it. *)
LEMMA MergedSegments ==
  ASSUME NEW seg \in AnySegment, NEW broken \in AnySegment, ~seg.finding,
         seg.cur <= seg.end, broken.cur <= broken.end, seg.end + 1 = broken.cur,
         seg.end \in Chunks, broken.cur \in Chunks, broken.end \in Chunks
  PROVE  LET new == mergeSegment(seg, broken)
         IN  /\ new \in AnySegment /\ ~new.finding /\ new.cur = seg.cur
             /\ new.end = broken.end
             /\ new.timers = seg.timers /\ new.offset = seg.offset /\ new.job = seg.job
             /\ new.status = seg.status
             /\ Exactly(seg) /\ Exactly(broken) => Exactly(new)
             /\ Waits(seg) => Waits(new)
<1> DEFINE new == mergeSegment(seg, broken)
           b == broken.cur
           e == broken.end
<1>1. /\ b \in Int /\ e \in Int /\ e - b \in Int /\ b \in Chunks /\ e \in Chunks
      /\ seg.end \in Chunks /\ seg.end = b - 1 /\ b - 1 \in Int
  <2>1. b \in Int /\ e \in Int /\ seg.end \in Int BY DEF AnySegment
  <2> QED BY <2>1
<1>2. /\ ChunkSize * (e - b) = ChunkSize * e - ChunkSize * b
      /\ ChunkSize * e \in Int /\ ChunkSize * b \in Int
      /\ ChunkSize * (b - 1) + ChunkSize = ChunkSize * b
  <2>1. (b - 1) + 1 = b BY <1>1
  <2> QED BY <1>1, <2>1, Products
<1>3. /\ new \in AnySegment /\ new.finding = seg.finding /\ new.cur = seg.cur
      /\ new.end = e /\ new.offset = seg.offset /\ new.timers = seg.timers
      /\ new.lastSize = broken.lastSize /\ new.curSize = seg.curSize
      /\ new.left = seg.left + ChunkSize * (e - b) + broken.lastSize
      /\ new.job = seg.job /\ new.buffer = seg.buffer /\ new.pos = seg.pos
      /\ new.status = seg.status
  <2>1. seg.left + ChunkSize * (e - b) + broken.lastSize \in Int
    <3>1. seg.left \in Int /\ broken.lastSize \in Int BY SizesAssumption DEF AnySegment
    <3> QED BY <1>1, <1>2, <3>1
  <2> QED BY <2>1 DEF mergeSegment, AnySegment
<1> HIDE DEF new
<1>4. Waits(seg) => Waits(new) BY <1>3 DEF Waits
<1>5. ASSUME Exactly(seg), Exactly(broken) PROVE Exactly(new)
  <2>1. b - 1 < NumBits - 1 BY <1>1, NumberOfChunks DEF Chunks
  <2>2. EndOf(b - 1) = ChunkSize * b
    <3>1. ChunkSize * ((b - 1) + 1) = ChunkSize * b BY <1>1
    <3> QED BY <1>1, <2>1, <3>1, Ends
  <2>3. seg.offset + seg.left = ChunkSize * b BY <1>1, <1>5, <2>2 DEF Exactly
  <2>4. broken.lastSize = EndOf(e) - ChunkSize * e BY <1>5 DEF Exactly
  <2>5. seg.offset \in Int /\ seg.left \in Int /\ EndOf(e) \in Int BY <1>1, Ends DEF AnySegment
  <2>6. new.offset + new.left = EndOf(e) BY <1>2, <1>3, <2>3, <2>4, <2>5
  <2> QED BY <1>3, <1>5, <2>4, <2>6 DEF Exactly
<1> QED BY <1>1, <1>3, <1>4, <1>5 DEF new

-----------------------------------------------------------------------------
(* What keeps a state in order *)

(* A state with the same files, modes and mirrors: chunks and segments differ. *)
Alike(L, t, s) ==
    /\ t.factory.status = s.factory.status /\ t.factory.file = s.factory.file
    /\ t.factory.known = s.factory.known /\ t.factory.sized = s.factory.sized
    /\ t.factory.startTried = s.factory.startTried
    /\ t.factory.findTried = s.factory.findTried
    /\ t.factory.unused = s.factory.unused
    /\ Kept(L, s) \subseteq Kept(L, t)
    /\ \A m \in Mirrors : /\ t.source[m].used = s.source[m].used
                          /\ t.source[m].running = s.source[m].running

LEMMA AlikeKeeps ==
  ASSUME NEW L, NEW s, NEW t, Alike(L, t, s)
  PROVE  /\ \A X, Y, early : \A m \in Mirrors : \A seg :
                Fits(s, X, early, m, seg) /\ Held(seg) \subseteq Taken(t, Y)
                    => Fits(t, Y, early, m, seg)
         /\ \A seg : Adds(L, s, seg) => Adds(L, t, seg)
         /\ \A D : /\ Mirrored(s, D)
                   /\ \A m \in Mirrors : s.source[m].segments = <<>> /\ ~s.source[m].used
                          => t.source[m].segments = <<>>
                   => Mirrored(t, D)
<1>1. ASSUME NEW X, NEW Y, NEW early, NEW m \in Mirrors, NEW seg,
             Fits(s, X, early, m, seg), Held(seg) \subseteq Taken(t, Y)
      PROVE  Fits(t, Y, early, m, seg)
  <2>1. Fetches(t, Y, seg) BY <1>1 DEF Fits, Fetches
  <2>2. Searches(t, seg) BY <1>1 DEF Fits, Searches, Alike
  <2>3. t.source[m].running \/ Rests(seg, early) BY <1>1 DEF Fits, Alike
  <2>4. Wakes(t, m, seg) BY <1>1 DEF Fits, Alike, Wakes
  <2> QED BY <2>1, <2>2, <2>3, <2>4 DEF Fits
<1>2. ASSUME NEW seg, Adds(L, s, seg) PROVE Adds(L, t, seg)
  <2>1. Kept(L, s) \subseteq Kept(L, t) BY DEF Alike
  <2>2. Behind(L, s, seg) => Behind(L, t, seg) BY <2>1 DEF Behind
  <2> QED BY <1>2, <2>2 DEF Adds
<1>3. ASSUME NEW D, Mirrored(s, D),
             \A m \in Mirrors : s.source[m].segments = <<>> /\ ~s.source[m].used
                                    => t.source[m].segments = <<>>
      PROVE  Mirrored(t, D)
  BY <1>3 DEF Mirrored, Alike
<1> QED BY <1>1, <1>2, <1>3

(* Another set of chunks is started or finished. *)
LEMMA OtherChunks ==
  ASSUME NEW L, NEW X, NEW Y, NEW e, NEW early, NEW D, NEW s \in Good(L, X, e, early, D),
         NEW t \in State, Alike(L, t, s), t.source = s.source,
         Recorded(L, t, Y), Taken(t, Y) = Taken(s, X)
  PROVE  t \in Good(L, Y, e, early, D)
<1>1. Mirrored(s, D) /\ Fitting(L, s, X, e, early) /\ Apart(s) /\ Covered(s, X) BY DEF Good
<1>2. Places(t) = Places(s) /\ \A p \in Places(s) : At(t, p) = At(s, p) BY DEF Places, At
<1>3. Fitting(L, t, Y, e, early)
  <2>1. ASSUME NEW p \in Places(t)
        PROVE  Fits(t, Y, early, p[1], At(t, p)) /\ (p # e => Adds(L, t, At(t, p)))
    <3>1. Fits(s, X, early, p[1], At(s, p)) /\ (p # e => Adds(L, s, At(s, p)))
      BY <1>1, <1>2 DEF Fitting
    <3>2. Held(At(s, p)) \subseteq Taken(t, Y) BY <3>1 DEF Fits, Fetches
    <3>3. p[1] \in Mirrors BY DEF Places
    <3> QED BY <1>2, <3>1, <3>2, <3>3, AlikeKeeps
  <2> QED BY <2>1 DEF Fitting
<1>4. Apart(t) BY <1>1, <1>2 DEF Apart
<1>5. Covered(t, Y) BY <1>1, <1>2 DEF Covered
<1>6. Mirrored(t, D) BY <1>1, AlikeKeeps
<1> QED BY <1>3, <1>4, <1>5, <1>6 DEF Good

LEMMA Changed ==
  ASSUME NEW L, NEW X, NEW Y, NEW e, NEW f, NEW early, NEW D, NEW s \in Good(L, X, e, early, D),
         NEW t \in State, Alike(L, t, s), Recorded(L, t, Y),
         NEW p \in Places(s), Places(t) = Places(s),
         \A q \in Places(s) : q # p => At(t, q) = At(s, q),
         e \in {Nowhere, p}, f \in {Nowhere, p}, f = Nowhere => Adds(L, t, At(t, p)),
         ~At(s, p).finding, ~At(t, p).finding, At(t, p).cur <= At(t, p).end,
         s.source[p[1]].running \/ Rests(At(t, p), early), Wakes(s, p[1], At(t, p)),
         Held(At(t, p)) \subseteq Held(At(s, p)) \cup X,
         Held(At(t, p)) \subseteq Taken(t, Y),
         Taken(s, X) \ Held(At(s, p)) \subseteq Taken(t, Y),
         Taken(t, Y) \subseteq (Taken(s, X) \ Held(At(s, p))) \cup Held(At(t, p)),
         \A m \in Mirrors : (t.source[m].segments = <<>>) = (s.source[m].segments = <<>>)
  PROVE  t \in Good(L, Y, f, early, D)
<1>1. Mirrored(s, D) /\ Fitting(L, s, X, e, early) /\ Apart(s) /\ Covered(s, X) BY DEF Good
<1>2. ASSUME NEW q \in Places(s)
      PROVE  /\ q[1] \in Mirrors /\ q # Nowhere
             /\ Fits(s, X, early, q[1], At(s, q)) /\ (q # e => Adds(L, s, At(s, q)))
             /\ Held(At(s, q)) \subseteq Taken(s, X)
             /\ q # p => Held(At(s, q)) \cap Held(At(s, p)) = {} /\ ~At(s, q).finding
             /\ q # p => Held(At(s, q)) \cap Held(At(t, p)) = {}
  <2>1. q[1] \in Mirrors /\ q # Nowhere BY DEF Places, Nowhere
  <2>2. Fits(s, X, early, q[1], At(s, q)) /\ (q # e => Adds(L, s, At(s, q)))
    BY <1>1 DEF Fitting
  <2>3. Held(At(s, q)) \subseteq Taken(s, X) BY <2>2 DEF Fits, Fetches
  <2>4. q # p => Held(At(s, q)) \cap Held(At(s, p)) = {} /\ ~At(s, q).finding
    BY <1>1 DEF Apart
  <2>5. q # p => Held(At(s, q)) \cap Held(At(t, p)) = {} BY <2>3, <2>4 DEF Taken
  <2> QED BY <2>1, <2>2, <2>3, <2>4, <2>5
<1>3. Fitting(L, t, Y, f, early)
  <2>1. ASSUME NEW q \in Places(t)
        PROVE  Fits(t, Y, early, q[1], At(t, q)) /\ (q # f => Adds(L, t, At(t, q)))
    <3>1. CASE q = p
      <4>1. Fetches(t, Y, At(t, p)) /\ Searches(t, At(t, p)) BY DEF Fetches, Searches
      <4>2. (t.source[p[1]].running \/ Rests(At(t, p), early)) /\ Wakes(t, p[1], At(t, p))
        BY <1>2 DEF Alike, Wakes
      <4>3. p # f => Adds(L, t, At(t, p)) BY DEF Nowhere
      <4> QED BY <3>1, <4>1, <4>2, <4>3 DEF Fits
    <3>2. CASE q # p
      <4>1. At(t, q) = At(s, q) /\ q \in Places(s) /\ q # e /\ q[1] \in Mirrors
        BY <1>2, <3>2
      <4>2. Held(At(s, q)) \subseteq Taken(t, Y) BY <1>2, <3>2, <4>1
      <4>3. Fits(s, X, early, q[1], At(s, q)) /\ Adds(L, s, At(s, q)) BY <1>2, <4>1
      <4> QED BY <4>1, <4>2, <4>3, AlikeKeeps
    <3> QED BY <3>1, <3>2
  <2> QED BY <2>1 DEF Fitting
<1>4. Apart(t)
  <2>1. ASSUME NEW q \in Places(t), NEW r \in Places(t), q # r
        PROVE  ~At(t, q).finding /\ Held(At(t, q)) \cap Held(At(t, r)) = {}
    <3>1. CASE q = p BY <1>2, <2>1, <3>1
    <3>2. CASE r = p BY <1>2, <2>1, <3>2
    <3>3. CASE q # p /\ r # p BY <1>1, <2>1, <3>3 DEF Apart
    <3> QED BY <3>1, <3>2, <3>3
  <2> QED BY <2>1 DEF Apart
<1>5. Covered(t, Y)
  <2>1. ASSUME NEW c \in Taken(t, Y) PROVE \E q \in Places(t) : c \in Held(At(t, q))
    <3>1. CASE c \in Held(At(t, p)) BY <3>1
    <3>2. CASE c \notin Held(At(t, p))
      <4>1. c \in Taken(s, X) /\ c \notin Held(At(s, p)) BY <2>1, <3>2
      <4>2. PICK q \in Places(s) : c \in Held(At(s, q)) BY <1>1, <4>1 DEF Covered
      <4> QED BY <4>1, <4>2
    <3> QED BY <3>1, <3>2
  <2> QED BY <2>1 DEF Covered
<1>6. Mirrored(t, D) BY <1>1, AlikeKeeps
<1> QED BY <1>3, <1>4, <1>5, <1>6 DEF Good

LEMMA Added ==
  ASSUME NEW L, NEW X, NEW Y, NEW early, NEW D, NEW s \in Good(L, X, Nowhere, early, D),
         NEW t \in State, Alike(L, t, s), Recorded(L, t, Y),
         NEW p \in Mirrors \X (Nat \ {0}), p \notin Places(s), Places(t) = Places(s) \cup {p},
         \A q \in Places(s) : At(t, q) = At(s, q),
         \A q \in Places(s) : ~At(s, q).finding,
         ~At(t, p).finding, At(t, p).cur <= At(t, p).end, Adds(L, t, At(t, p)),
         s.source[p[1]].running \/ Rests(At(t, p), early), Wakes(s, p[1], At(t, p)),
         X = Y \cup Held(At(t, p)), Y \cap Held(At(t, p)) = {},
         t.factory.started = s.factory.started, t.factory.finished = s.factory.finished,
         \A m \in Mirrors : ~s.source[m].used => t.source[m].segments = s.source[m].segments
  PROVE  t \in Good(L, Y, Nowhere, early, D)
<1>1. /\ Mirrored(s, D) /\ Fitting(L, s, X, Nowhere, early) /\ Apart(s) /\ Covered(s, X)
      /\ Recorded(L, s, X)
  BY DEF Good
<1>2. Taken(t, Y) = Taken(s, X) \cup Held(At(t, p)) /\ Held(At(t, p)) \cap Taken(s, X) = {}
  BY <1>1 DEF Taken, Recorded
<1>3. ASSUME NEW q \in Places(s)
      PROVE  /\ q[1] \in Mirrors /\ q # Nowhere /\ q # p
             /\ Fits(s, X, early, q[1], At(s, q)) /\ Adds(L, s, At(s, q))
             /\ Held(At(s, q)) \subseteq Taken(s, X)
  <2>1. q[1] \in Mirrors /\ q # Nowhere BY DEF Places, Nowhere
  <2>2. Fits(s, X, early, q[1], At(s, q)) /\ Adds(L, s, At(s, q)) BY <1>1, <2>1 DEF Fitting
  <2>3. Held(At(s, q)) \subseteq Taken(s, X) BY <2>2 DEF Fits, Fetches
  <2> QED BY <2>1, <2>2, <2>3
<1>4. Fitting(L, t, Y, Nowhere, early)
  <2>1. ASSUME NEW q \in Places(t) PROVE Fits(t, Y, early, q[1], At(t, q)) /\ Adds(L, t, At(t, q))
    <3>1. CASE q = p
      <4>1. Fetches(t, Y, At(t, p)) /\ Searches(t, At(t, p)) BY <1>2 DEF Fetches, Searches
      <4>2. (t.source[p[1]].running \/ Rests(At(t, p), early)) /\ Wakes(t, p[1], At(t, p))
        BY DEF Alike, Wakes
      <4> QED BY <3>1, <4>1, <4>2 DEF Fits
    <3>2. CASE q \in Places(s)
      <4>1. /\ Held(At(s, q)) \subseteq Taken(t, Y) /\ At(t, q) = At(s, q)
            /\ Fits(s, X, early, q[1], At(s, q)) /\ Adds(L, s, At(s, q)) /\ q[1] \in Mirrors
        BY <1>2, <1>3, <3>2
      <4> QED BY <4>1, AlikeKeeps
    <3> QED BY <3>1, <3>2
  <2> QED BY <2>1 DEF Fitting
<1>5. Apart(t)
  <2>1. ASSUME NEW q \in Places(t), NEW r \in Places(t), q # r
        PROVE  ~At(t, q).finding /\ Held(At(t, q)) \cap Held(At(t, r)) = {}
    <3>1. CASE q = p BY <1>2, <1>3, <2>1, <3>1
    <3>2. CASE r = p BY <1>2, <1>3, <2>1, <3>2
    <3>3. CASE q # p /\ r # p BY <1>1, <2>1, <3>3 DEF Apart
    <3> QED BY <3>1, <3>2, <3>3
  <2> QED BY <2>1 DEF Apart
<1>6. Covered(t, Y)
  <2>1. ASSUME NEW c \in Taken(t, Y) PROVE \E q \in Places(t) : c \in Held(At(t, q))
    <3>1. CASE c \in Held(At(t, p)) BY <3>1
    <3>2. CASE c \in Taken(s, X) BY <1>1, <3>2 DEF Covered
    <3> QED BY <1>2, <2>1, <3>1, <3>2
  <2> QED BY <2>1 DEF Covered
<1>7. Mirrored(t, D) BY <1>1, AlikeKeeps
<1> QED BY <1>4, <1>5, <1>6, <1>7 DEF Good

(* Segments go, and what they held is nobody's: the others come from those of s. *)
LEMMA Picked ==
  ASSUME NEW L, NEW X, NEW Y, NEW e, NEW early, NEW D, NEW E, NEW s \in Good(L, X, e, early, D),
         NEW t \in State, NEW g \in Origins(t, s),
         Recorded(L, t, Y), Mirrored(t, E),
         \A p \in Places(t) : /\ Held(At(t, p)) = Held(At(s, g[p]))
                              /\ At(t, p).finding = At(s, g[p]).finding
                              /\ Fits(t, Y, early, p[1], At(t, p))
                              /\ Adds(L, t, At(t, p)),
         \A c \in Taken(t, Y) : \E p \in Places(t) : c \in Held(At(t, p))
  PROVE  t \in Good(L, Y, Nowhere, early, E)
<1>1. Fitting(L, t, Y, Nowhere, early) BY DEF Fitting
<1>2. Apart(t)
  <2>1. Apart(s) BY DEF Good
  <2>2. ASSUME NEW p \in Places(t), NEW q \in Places(t), p # q
        PROVE  ~At(t, p).finding /\ Held(At(t, p)) \cap Held(At(t, q)) = {}
    <3>1. g[p] # g[q] /\ g[p] \in Places(s) /\ g[q] \in Places(s) BY <2>2 DEF Origins
    <3>2. ~At(s, g[p]).finding /\ Held(At(s, g[p])) \cap Held(At(s, g[q])) = {}
      BY <2>1, <3>1 DEF Apart
    <3> QED BY <2>2, <3>2
  <2> QED BY <2>2 DEF Apart
<1>3. Covered(t, Y) BY DEF Covered
<1> QED BY <1>1, <1>2, <1>3 DEF Good

-----------------------------------------------------------------------------
(* Calls that give and take chunks *)

(* What is not changed by calls that are only about chunks and segments *)
Steady(t, s) ==
    /\ Frame(t) = Frame(s) /\ t.factory.unused = s.factory.unused
    /\ \A m \in Mirrors : /\ t.source[m].used = s.source[m].used
                          /\ t.source[m].running = s.source[m].running

LEMMA FrameFields ==
  ASSUME NEW s, NEW t, Frame(t) = Frame(s)
  PROVE  /\ t.disk = s.disk /\ t.factory.status = s.factory.status
         /\ t.factory.file = s.factory.file /\ t.factory.known = s.factory.known
         /\ t.factory.sized = s.factory.sized /\ t.factory.startTried = s.factory.startTried
         /\ t.factory.findTried = s.factory.findTried /\ t.factory.done = s.factory.done
         /\ t.factory.finished = s.factory.finished /\ t.factory.write = s.factory.write
         /\ (\A L : Kept(L, t) = Kept(L, s)) /\ Postponed(t) = Postponed(s)
<1> DEFINE f == Frame(s)
           g == Frame(t)
<1>1. /\ f.disk = s.disk /\ f.status = s.factory.status /\ f.file = s.factory.file
      /\ f.known = s.factory.known /\ f.sized = s.factory.sized
      /\ f.startTried = s.factory.startTried /\ f.findTried = s.factory.findTried
      /\ f.done = s.factory.done /\ f.finished = s.factory.finished
      /\ f.write = s.factory.write /\ f.behind = Postponed(s)
  BY DEF Frame, Postponed
<1>2. /\ g.disk = t.disk /\ g.status = t.factory.status /\ g.file = t.factory.file
      /\ g.known = t.factory.known /\ g.sized = t.factory.sized
      /\ g.startTried = t.factory.startTried /\ g.findTried = t.factory.findTried
      /\ g.done = t.factory.done /\ g.finished = t.factory.finished
      /\ g.write = t.factory.write /\ g.behind = Postponed(t)
  BY DEF Frame, Postponed
<1>3. f = g OBVIOUS
<1> HIDE DEF f, g
<1> QED BY <1>1, <1>2, <1>3 DEF Kept

LEMMA SteadyAlike ==
  ASSUME NEW L, NEW s, NEW t, Steady(t, s)
  PROVE  Alike(L, t, s)
BY FrameFields DEF Steady, Alike

LEMMA SteadySteps ==
  /\ \A s : Steady(s, s)
  /\ \A s, t, u : Steady(t, s) /\ Steady(u, t) => Steady(u, s)
BY DEF Steady

(* Another set of chunks is started. *)
LEMMA OtherStarted ==
  ASSUME NEW s \in State, NEW S \in SUBSET Chunks
  PROVE  LET t == [s EXCEPT !.factory.started = S]
         IN  /\ t \in State /\ Steady(t, s) /\ t.source = s.source
             /\ t.factory.started = S
<1> DEFINE t == [s EXCEPT !.factory.started = S]
<1>1. s.factory \in AnyFactory BY DEF State
<1>2. t = [factory |-> [s.factory EXCEPT !.started = S], source |-> s.source, disk |-> s.disk]
  BY DEF State
<1>3. [s.factory EXCEPT !.started = S] \in AnyFactory BY <1>1 DEF AnyFactory
<1>4. t \in State BY <1>2, <1>3 DEF State
<1>5. t.factory = [s.factory EXCEPT !.started = S] /\ t.source = s.source /\ t.disk = s.disk
  BY <1>2
<1> HIDE DEF t
<1>6. t.factory.started = S BY <1>1, <1>5 DEF AnyFactory
<1>7. /\ t.factory.status = s.factory.status /\ t.factory.file = s.factory.file
      /\ t.factory.known = s.factory.known /\ t.factory.sized = s.factory.sized
      /\ t.factory.startTried = s.factory.startTried
      /\ t.factory.findTried = s.factory.findTried /\ t.factory.done = s.factory.done
      /\ t.factory.finished = s.factory.finished /\ t.factory.write = s.factory.write
      /\ t.factory.unused = s.factory.unused
      /\ t.factory.assignTried = s.factory.assignTried
  BY <1>1, <1>5 DEF AnyFactory
<1>8. Steady(t, s) BY <1>5, <1>7 DEF Steady, Frame, Postponed
<1> QED BY <1>4, <1>5, <1>6, <1>8 DEF t

LEMMA SteadyRecords ==
  ASSUME NEW L, NEW s, NEW t, NEW X, NEW Y, Recorded(L, s, X), Steady(t, s),
         s.factory.finished \subseteq t.factory.started,
         Y \subseteq t.factory.started \ s.factory.finished,
         t.factory.started = {} \/ s.factory.known
  PROVE  Recorded(L, t, Y)
<1>1. Frame(t) = Frame(s) BY DEF Steady
<1>2. /\ t.factory.known = s.factory.known /\ t.factory.sized = s.factory.sized
      /\ t.factory.done = s.factory.done /\ t.factory.finished = s.factory.finished
      /\ t.factory.write = s.factory.write /\ Kept(L, t) = Kept(L, s) /\ t.disk = s.disk
  BY <1>1, FrameFields
<1> QED BY <1>2 DEF Recorded

LEMMA Released ==
  ASSUME NEW L, NEW X, NEW e, NEW early, NEW D, NEW s \in Good(L, X, e, early, D)
  PROVE  /\ Release(s, X) \in Good(L, {}, e, early, D) /\ Steady(Release(s, X), s)
         /\ Release(s, X).source = s.source
<1> DEFINE S == s.factory.started \ X
           t == [s EXCEPT !.factory.started = S]
<1>1. s \in State /\ Recorded(L, s, X) BY DEF Good
<1>2. S \in SUBSET Chunks BY <1>1 DEF State, AnyFactory
<1>3. t = Release(s, X) BY DEF Release
<1> HIDE DEF S
<1>4. t \in State /\ Steady(t, s) /\ t.source = s.source /\ t.factory.started = S
  BY <1>1, <1>2, OtherStarted
<1> HIDE DEF t
<1>5. Recorded(L, t, {})
  <2>1. s.factory.finished \subseteq t.factory.started BY <1>1, <1>4 DEF S, Recorded
  <2>2. t.factory.started = {} \/ s.factory.known BY <1>1, <1>4 DEF S, Recorded
  <2> QED BY <1>1, <1>4, <2>1, <2>2, SteadyRecords
<1>6. Taken(t, {}) = Taken(s, X)
  <2>1. t.factory.finished = s.factory.finished BY <1>4, FrameFields DEF Steady
  <2> QED BY <1>1, <1>4, <2>1 DEF Taken, S, Recorded
<1>7. t \in Good(L, {}, e, early, D) BY <1>4, <1>5, <1>6, OtherChunks, SteadyAlike
<1> QED BY <1>3, <1>4, <1>7

LEMMA Claimed ==
  ASSUME NEW L, NEW X \in SUBSET Chunks, NEW Y \in SUBSET X, NEW e, NEW early, NEW D,
         NEW s \in Good(L, Y, e, early, D), s.factory.known,
         (X \ Y) \cap s.factory.started = {}
  PROVE  /\ Claim(s, X) \in Good(L, X, e, early, D) /\ Steady(Claim(s, X), s)
         /\ Claim(s, X).source = s.source
<1> DEFINE S == s.factory.started \cup X
           t == [s EXCEPT !.factory.started = S]
<1>1. s \in State /\ Recorded(L, s, Y) BY DEF Good
<1>2. S \in SUBSET Chunks BY <1>1 DEF State, AnyFactory
<1>3. t = Claim(s, X) BY DEF Claim
<1> HIDE DEF S
<1>4. t \in State /\ Steady(t, s) /\ t.source = s.source /\ t.factory.started = S
  BY <1>1, <1>2, OtherStarted
<1> HIDE DEF t
<1>5. Recorded(L, t, X)
  <2>1. s.factory.finished \subseteq t.factory.started BY <1>1, <1>4 DEF S, Recorded
  <2>2. X \subseteq t.factory.started \ s.factory.finished BY <1>1, <1>4 DEF S, Recorded
  <2> QED BY <1>1, <1>4, <2>1, <2>2, SteadyRecords
<1>6. Taken(t, X) = Taken(s, Y)
  <2>1. t.factory.finished = s.factory.finished BY <1>4, FrameFields DEF Steady
  <2> QED BY <1>1, <1>4, <2>1 DEF Taken, S, Recorded
<1>7. t \in Good(L, X, e, early, D) BY <1>4, <1>5, <1>6, OtherChunks, SteadyAlike
<1> QED BY <1>3, <1>4, <1>7

LEMMA NobodySearches ==
  ASSUME NEW L, NEW X, NEW e, NEW early, NEW D, NEW s \in Good(L, X, e, early, D),
         s.factory.known
  PROVE  \A p \in Places(s) : ~At(s, p).finding
<1>1. s.factory.sized BY DEF Good, Recorded
<1>2. ASSUME NEW p \in Places(s) PROVE ~At(s, p).finding
  <2>1. Searches(s, At(s, p)) BY DEF Good, Fitting, Fits
  <2> QED BY <1>1, <2>1 DEF Searches
<1> QED BY <1>2

(* The chunks in X get a segment. *)
LEMMA AddedSegment ==
  ASSUME NEW L, NEW first \in Chunks, NEW last \in Chunks, first <= last, NEW early, NEW D,
         NEW s \in Good(L, first .. last, Nowhere, early, D), s.factory.known,
         NEW m \in Mirrors, s.source[m].used
  PROVE  LET t == addSegment(s, m, NewSegment(LastSegSize(last), first, last))
         IN  t \in Good(L, {}, Nowhere, early, D) /\ Steady(t, s) /\ Places(t) # {}
<1> DEFINE X == first .. last
           new == NewSegment(LastSegSize(last), first, last)
           seg == IF s.source[m].running THEN startTransfer(m, new) ELSE new
           t == WithSegments(s, m, Append(s.source[m].segments, seg))
           p == <<m, Len(s.source[m].segments) + 1>>
<1>1. s \in State /\ Recorded(L, s, X) BY DEF Good
<1>2. /\ new \in AnySegment /\ ~new.finding /\ new.cur = first /\ new.end = last
      /\ new.job = "none" /\ new.status = "Stopped"
      /\ new.buffer = <<>> /\ new.timers = 0
      /\ new.offset = ChunkSize * first
      /\ Held(new) = X /\ Exactly(new) /\ Waits(new)
  BY NewSegments
<1> HIDE DEF new
<1>3. /\ seg \in AnySegment /\ ~seg.finding /\ seg.cur = first /\ seg.end = last
      /\ seg.timers = 0 /\ seg.offset = ChunkSize * first
      /\ Held(seg) = X /\ Exactly(seg) /\ Waits(seg)
      /\ s.source[m].running \/ (seg.job = "none" /\ seg.status = "Stopped")
      /\ Wakes(s, m, seg)
  <2> USE DEF Wakes, HasStarted
  <2>1. CASE s.source[m].running
    <3> DEFINE begun == startTransfer(m, new)
    <3>1. /\ Same(begun, new) /\ Exactly(begun) /\ Waits(begun)
          /\ begun.status = "Running" /\ begun.job = "active"
      BY <1>2, StartedSegments
    <3>2. seg = begun BY <2>1
    <3> HIDE DEF begun, seg
    <3> QED BY <1>2, <2>1, <3>1, <3>2 DEF Same
  <2>2. CASE ~s.source[m].running
    <3>1. seg = new BY <2>2
    <3> HIDE DEF seg
    <3> QED BY <1>2, <2>2, <3>1
  <2> QED BY <2>1, <2>2
<1>4. t = addSegment(s, m, new) BY DEF addSegment
<1> HIDE DEF seg
<1>5. /\ t \in State /\ t.factory = s.factory /\ t.disk = s.disk
      /\ \A x \in Mirrors : /\ t.source[x].used = s.source[x].used
                            /\ t.source[x].running = s.source[x].running
                            /\ x # m => t.source[x] = s.source[x]
      /\ Places(t) = Places(s) \cup {p} /\ p \notin Places(s)
      /\ At(t, p) = seg
      /\ \A q \in Places(s) : At(t, q) = At(s, q)
  <2>1. OneMore(t, s, m, seg, p) BY <1>1, <1>3, OneAppended
  <2> HIDE DEF t, p
  <2> QED BY <2>1 DEF OneMore
<1>6. Len(s.source[m].segments) \in Nat BY <1>1, Parts
<1>7. p \in Mirrors \X (Nat \ {0}) /\ p[1] = m BY <1>6
<1> HIDE DEF t, p
<1>8. Steady(t, s) BY <1>5 DEF Steady, Frame, Postponed
<1>9. Recorded(L, t, {})
  <2>1. t.factory.started = s.factory.started BY <1>5
  <2>2. s.factory.finished \subseteq t.factory.started BY <1>1, <2>1 DEF Recorded
  <2>3. {} \subseteq t.factory.started \ s.factory.finished OBVIOUS
  <2> QED BY <1>1, <1>8, <2>2, <2>3, SteadyRecords
<1>10. Adds(L, t, At(t, p))
  <2>1. Behind(L, t, seg)
    <3>1. ChunkSize * seg.cur = seg.offset /\ seg.offset \in Int BY <1>3 DEF AnySegment
    <3> QED BY <3>1 DEF Behind
  <2> QED BY <1>3, <1>5, <2>1 DEF Adds
<1>11. (s.source[p[1]].running \/ Rests(At(t, p), early)) /\ Wakes(s, p[1], At(t, p))
  BY <1>3, <1>5, <1>7 DEF Rests, Wakes
<1>12. \A q \in Places(s) : ~At(s, q).finding BY NobodySearches
<1>13. \A x \in Mirrors : ~s.source[x].used => t.source[x].segments = s.source[x].segments
  BY <1>5
<1>14. X = {} \cup Held(At(t, p)) /\ {} \cap Held(At(t, p)) = {} BY <1>3, <1>5
<1>15. ~At(t, p).finding /\ At(t, p).cur <= At(t, p).end BY <1>3, <1>5
<1>16. t.factory.started = s.factory.started /\ t.factory.finished = s.factory.finished
  BY <1>5
<1> HIDE DEF X
<1>17. t \in Good(L, {}, Nowhere, early, D)
  BY <1>5, <1>7, <1>8, <1>9, <1>10, <1>11, <1>12, <1>13, <1>14, <1>15, <1>16, Added, SteadyAlike
     DEF X
<1>18. Places(t) # {} BY <1>5
<1> QED BY <1>4, <1>8, <1>17, <1>18 DEF new

(* Nobody fetches any more what a segment that is removed had. *)
Others(t, s, p) ==
    /\ t.factory = s.factory
    /\ \A q \in Places(t) : \E r \in Places(s) :
           r # p /\ r[1] = q[1] /\ At(t, q) = At(s, r)

LEMMA RemovedSegment ==
  ASSUME NEW L, NEW early, NEW D, NEW m \in Mirrors, NEW i \in Nat \ {0},
         NEW e \in {Nowhere, <<m, i>>}, NEW s \in Good(L, {}, e, early, D),
         <<m, i>> \in Places(s)
  PROVE  LET t == removeSegment(s, m, i)
         IN  /\ t \in Good(L, Held(At(s, <<m, i>>)), Nowhere, early, D) /\ Steady(t, s)
             /\ Others(t, s, <<m, i>>)
             /\ \A x \in Mirrors : t.source[x].connections = s.source[x].connections
             /\ Len(t.source[m].segments) = Len(s.source[m].segments) - 1
<1> DEFINE p == <<m, i>>
           X == Held(At(s, p))
           t == removeSegment(s, m, i)
<1>1. /\ s \in State /\ Recorded(L, s, {}) /\ Mirrored(s, D) /\ Fitting(L, s, {}, e, early)
      /\ Apart(s) /\ Covered(s, {})
  BY DEF Good
<1>2. i \in 1 .. Len(s.source[m].segments)
  <2>1. i <= Len(s.source[m].segments) /\ Len(s.source[m].segments) \in Nat BY <1>1, Parts
  <2> QED BY <2>1
<1>3. /\ t \in State /\ t.factory = s.factory /\ t.disk = s.disk
      /\ \A x \in Mirrors : /\ t.source[x].used = s.source[x].used
                            /\ t.source[x].running = s.source[x].running
                            /\ t.source[x].connections = s.source[x].connections
                            /\ x # m => t.source[x] = s.source[x]
      /\ Len(t.source[m].segments) = Len(s.source[m].segments) - 1
      /\ \E g \in Origins(t, s) :
             /\ \A q \in Places(t) : At(t, q) = At(s, g[q]) /\ g[q] # <<m, i>>
             /\ \A q \in Places(s) : q # <<m, i>> => \E r \in Places(t) : g[r] = q
  BY <1>1, <1>2, OneRemoved, ZenonT(60)
<1> HIDE DEF t
<1>4. PICK g \in Origins(t, s) :
             /\ \A q \in Places(t) : At(t, q) = At(s, g[q]) /\ g[q] # <<m, i>>
             /\ \A q \in Places(s) : q # <<m, i>> => \E r \in Places(t) : g[r] = q
  BY <1>3
<1>5. Steady(t, s) BY <1>3 DEF Steady, Frame, Postponed
<1>6. X \subseteq Taken(s, {}) BY <1>1 DEF Fitting, Fits, Fetches
<1>7. Recorded(L, t, X)
  <2>1. t.factory.started = s.factory.started BY <1>3
  <2>2. s.factory.finished \subseteq t.factory.started BY <1>1, <2>1 DEF Recorded
  <2>3. X \subseteq t.factory.started \ s.factory.finished BY <1>6, <2>1 DEF Taken
  <2>4. t.factory.started = {} \/ s.factory.known BY <1>1, <2>1 DEF Recorded
  <2> QED BY <1>1, <1>5, <2>2, <2>3, <2>4, SteadyRecords
<1>8. Taken(t, X) = Taken(s, {}) \ X BY <1>3 DEF Taken
<1>9. Mirrored(t, D)
  <2>1. s.source[m].segments # <<>> BY <1>1, <1>2
  <2>2. \A x \in Mirrors : s.source[x].segments = <<>> => t.source[x].segments = <<>>
    BY <1>3, <2>1
  <2> QED BY <1>1, <1>5, <2>2, AlikeKeeps, SteadyAlike
<1>10. ASSUME NEW q \in Places(t)
       PROVE  /\ Held(At(t, q)) = Held(At(s, g[q])) /\ At(t, q).finding = At(s, g[q]).finding
              /\ Fits(t, X, early, q[1], At(t, q)) /\ Adds(L, t, At(t, q))
  <2>1. g[q] \in Places(s) /\ g[q] # p /\ g[q][1] = q[1] /\ At(t, q) = At(s, g[q])
        /\ q[1] \in Mirrors
    BY <1>4, SMTT(60) DEF Origins, Places
  <2>2. Held(At(s, g[q])) \cap X = {} /\ Held(At(s, g[q])) \subseteq Taken(s, {})
    BY <1>1, <2>1 DEF Apart, Fitting, Fits, Fetches
  <2>3. g[q] # Nowhere BY <2>1 DEF Places, Nowhere
  <2>4. Fits(s, {}, early, q[1], At(s, g[q])) /\ Adds(L, s, At(s, g[q]))
    BY <1>1, <2>1, <2>3 DEF Fitting
  <2>5. Held(At(s, g[q])) \subseteq Taken(t, X) BY <1>8, <2>2
  <2> QED BY <1>5, <2>1, <2>4, <2>5, AlikeKeeps, SteadyAlike
<1>11. ASSUME NEW c \in Taken(t, X) PROVE \E q \in Places(t) : c \in Held(At(t, q))
  <2>1. PICK q \in Places(s) : c \in Held(At(s, q)) BY <1>1, <1>8, <1>11 DEF Covered
  <2>2. q # p BY <1>8, <1>11, <2>1
  <2>3. PICK r \in Places(t) : g[r] = q BY <1>4, <2>1, <2>2
  <2> QED BY <1>4, <2>1, <2>3
<1> HIDE DEF X
<1>12. t \in Good(L, X, Nowhere, early, D)
  BY <1>3, <1>4, <1>7, <1>9, <1>10, <1>11, Picked
<1>13. Others(t, s, <<m, i>>) BY <1>3, <1>4 DEF Origins, Others
<1> QED BY <1>3, <1>5, <1>12, <1>13 DEF t, X

-----------------------------------------------------------------------------
(* Which chunks are assigned *)

LEMMA ChunkFacts ==
  ASSUME NEW L, NEW X, NEW e, NEW early, NEW D, NEW s \in Good(L, X, e, early, D), NEW p \in Places(s)
  PROVE  /\ At(s, p) \in AnySegment /\ p[1] \in Mirrors /\ s.source[p[1]].used
         /\ ~At(s, p).finding => /\ At(s, p).cur \in Chunks /\ At(s, p).end \in Chunks
                                 /\ At(s, p).cur <= At(s, p).end
                                 /\ Held(At(s, p)) = At(s, p).cur .. At(s, p).end
                                 /\ Held(At(s, p)) \subseteq Taken(s, X)
         /\ At(s, p).finding => At(s, p).cur = 0 /\ At(s, p).end = 0
<1> DEFINE seg == At(s, p)
<1>1. s \in State /\ Recorded(L, s, X) /\ Mirrored(s, D) BY DEF Good
<1>2. seg \in AnySegment /\ p[1] \in Mirrors BY <1>1, Parts
<1>3. Fetches(s, X, seg) /\ Searches(s, seg) BY DEF Good, Fitting, Fits
<1>4. s.source[p[1]].segments # <<>>
  <2>1. p[2] \in 1 .. Len(s.source[p[1]].segments) BY <1>1, Parts
  <2> QED BY <2>1
<1>5. s.source[p[1]].used BY <1>1, <1>2, <1>4 DEF Mirrored
<1>6. Taken(s, X) \subseteq Chunks BY <1>1 DEF Taken, State, AnyFactory
<1>7. ASSUME ~seg.finding
      PROVE  /\ seg.cur \in Chunks /\ seg.end \in Chunks /\ seg.cur <= seg.end
             /\ Held(seg) = seg.cur .. seg.end /\ Held(seg) \subseteq Taken(s, X)
  <2>1. seg.cur <= seg.end /\ Held(seg) = seg.cur .. seg.end /\ Held(seg) \subseteq Taken(s, X)
    BY <1>3, <1>7 DEF Fetches, Held, Owned
  <2>2. seg.cur \in Int /\ seg.end \in Int BY <1>2 DEF AnySegment
  <2>3. seg.cur \in Held(seg) /\ seg.end \in Held(seg) BY <2>1, <2>2
  <2> QED BY <1>6, <2>1, <2>3
<1>8. seg.finding => seg.cur = 0 /\ seg.end = 0 BY <1>3 DEF Searches
<1> QED BY <1>2, <1>5, <1>7, <1>8

LEMMA MostChunks ==
  ASSUME NEW S \in SUBSET (0 .. NumBits), S # {}
  PROVE  Max(S) \in S /\ \A x \in S : x <= Max(S)
<1>1. NumBits \in Int /\ S \subseteq Int /\ \A x \in S : x <= NumBits BY NumberOfChunks
<1> QED BY <1>1, GreatestElement

LEMMA FreeRange ==
  ASSUME NEW s, FreeChunks(s) # {}
  PROVE  /\ FirstFree(s) \in Chunks /\ LastFree(s) \in Chunks /\ FirstFree(s) <= LastFree(s)
         /\ FirstFree(s) .. LastFree(s) \subseteq FreeChunks(s)
<1> DEFINE F == FreeChunks(s)
           a == FirstFree(s)
           S == {c \in F : a .. c \subseteq F}
<1>1. F \subseteq Chunks /\ F \subseteq Nat BY NumberOfChunks DEF FreeChunks, Chunks
<1>2. a \in F /\ \A c \in F : a <= c BY <1>1, LeastElement DEF FirstFree
<1> HIDE DEF a, F
<1>3. a .. a = {a} BY <1>1, <1>2
<1>4. a \in S BY <1>2, <1>3
<1>5. S \in SUBSET (0 .. NumBits)
  <2>1. \A c \in Chunks : c \in 0 .. NumBits BY NumberOfChunks DEF Chunks
  <2> QED BY <1>1, <2>1
<1> HIDE DEF S
<1>6. Max(S) \in S BY <1>4, <1>5, MostChunks
<1>7. Max(S) = LastFree(s) BY DEF LastFree, S, a, F
<1>8. Max(S) \in F /\ a .. Max(S) \subseteq F BY <1>6 DEF S
<1> QED BY <1>1, <1>2, <1>7, <1>8 DEF a, F

LEMMA UsedMirrors ==
  ASSUME NEW s
  PROVE  /\ Used(s) \in Seq(Mirrors)
         /\ \A i \in 1 .. Len(Used(s)) : Used(s)[i] \in Mirrors /\ s.source[Used(s)[i]].used
         /\ \A m \in Mirrors : s.source[m].used => \E i \in 1 .. Len(Used(s)) : Used(s)[i] = m
         /\ Used(s) # <<>> => FirstUsed(s) \in Mirrors /\ s.source[FirstUsed(s)].used
<1> DEFINE U == {m \in Mirrors : s.source[m].used}
<1>1. MirrorOrder \in Seq(Mirrors) BY MirrorsAssumption
<1>2. Used(s) \in Seq(Mirrors) BY <1>1, AmongFacts DEF Used
<1>3. \A i \in 1 .. Len(Used(s)) : Used(s)[i] \in Mirrors /\ s.source[Used(s)[i]].used
  <2>1. \A i \in 1 .. Len(Among(MirrorOrder, U)) : Among(MirrorOrder, U)[i] \in U
    BY <1>1, AmongElements
  <2> QED BY <2>1 DEF Used
<1>4. ASSUME NEW m \in Mirrors, s.source[m].used
      PROVE  \E i \in 1 .. Len(Used(s)) : Used(s)[i] = m
  <2>1. PICK k \in 1 .. Len(MirrorOrder) : MirrorOrder[k] = m BY MirrorsInOrder
  <2>2. MirrorOrder[k] \in U BY <1>4, <2>1
  <2> HIDE DEF U
  <2>3. \E i \in 1 .. Len(Among(MirrorOrder, U)) : Among(MirrorOrder, U)[i] = MirrorOrder[k]
    BY <1>1, <2>2, AmongElements
  <2> QED BY <2>1, <2>3 DEF Used, U
<1>5. ASSUME Used(s) # <<>> PROVE FirstUsed(s) \in Mirrors /\ s.source[FirstUsed(s)].used
  <2>1. FirstUsed(s) = Used(s)[1] /\ 1 \in 1 .. Len(Used(s)) BY <1>2, <1>5 DEF FirstUsed
  <2> QED BY <1>3, <2>1
<1> QED BY <1>2, <1>3, <1>4, <1>5

(* The segment of a mirror with the most chunks behind the current one *)
LEMMA MostUnfinished ==
  ASSUME NEW L, NEW X, NEW e, NEW early, NEW D, NEW s \in Good(L, X, e, early, D), NEW m \in Mirrors
  PROVE  /\ mostUnfinished(s, m) \in 0 .. NumBits
         /\ \/ mostUnfinishedSegment(s, m) = 0
            \/ LET i == mostUnfinishedSegment(s, m)
               IN  /\ i \in Nat \ {0} /\ <<m, i>> \in Places(s)
                   /\ Seg(s, m, i) = At(s, <<m, i>>)
                   /\ ~Seg(s, m, i).finding /\ Seg(s, m, i).cur < Seg(s, m, i).end
<1> DEFINE list == s.source[m].segments
           S == unfinishedOf(s, m)
           I == {i \in DOMAIN list : countUnfinishedSegments(Seg(s, m, i)) = mostUnfinished(s, m)}
<1>1. s \in State BY DEF Good
<1>2. /\ list \in Seq(AnySegment) /\ DOMAIN list = 1 .. Len(list)
      /\ \A i \in 1 .. Len(list) : <<m, i>> \in Places(s) /\ At(s, <<m, i>>) = list[i]
  BY <1>1, Parts
<1>3. ASSUME NEW i \in DOMAIN list
      PROVE  /\ <<m, i>> \in Places(s) /\ Seg(s, m, i) = At(s, <<m, i>>)
             /\ countUnfinishedSegments(Seg(s, m, i)) \in 0 .. NumBits
             /\ countUnfinishedSegments(Seg(s, m, i)) # 0 =>
                    ~Seg(s, m, i).finding /\ Seg(s, m, i).cur < Seg(s, m, i).end
  <2> DEFINE seg == Seg(s, m, i)
  <2>1. <<m, i>> \in Places(s) /\ seg = At(s, <<m, i>>) BY <1>2 DEF Seg
  <2>2. /\ ~seg.finding => seg.cur \in Chunks /\ seg.end \in Chunks /\ seg.cur <= seg.end
        /\ seg.finding => seg.cur = 0 /\ seg.end = 0
    BY <2>1, ChunkFacts
  <2> HIDE DEF seg
  <2>3. CASE seg.finding BY <2>1, <2>2, <2>3, NumberOfChunks DEF countUnfinishedSegments, seg
  <2>4. CASE ~seg.finding
    <3>1. seg.cur \in Nat /\ seg.end \in Nat /\ seg.end < NumBits BY <2>2, <2>4, Ends
    <3>2. countUnfinishedSegments(seg) = seg.end - seg.cur BY DEF countUnfinishedSegments
    <3>3. countUnfinishedSegments(seg) \in 0 .. NumBits BY <2>2, <2>4, <3>1, <3>2, NumberOfChunks
    <3>4. countUnfinishedSegments(seg) # 0 => seg.cur < seg.end BY <2>2, <2>4, <3>1, <3>2
    <3> QED BY <2>1, <2>4, <3>3, <3>4 DEF seg
  <2> QED BY <2>3, <2>4
<1>4. mostUnfinished(s, m) \in S \cup {0} /\ \A x \in S \cup {0} : x <= mostUnfinished(s, m)
  <2> DEFINE T == S \cup {0}
  <2>1. \A x \in S : x \in 0 .. NumBits BY <1>3 DEF unfinishedOf
  <2>2. 0 \in 0 .. NumBits BY NumberOfChunks
  <2>3. T \in SUBSET (0 .. NumBits) /\ T # {} BY <2>1, <2>2
  <2> HIDE DEF T
  <2>4. Max(T) \in T /\ \A x \in T : x <= Max(T) BY <2>3, MostChunks
  <2> QED BY <2>4 DEF mostUnfinished, T
<1>5. mostUnfinished(s, m) \in 0 .. NumBits
  <2>1. \A x \in S : x \in 0 .. NumBits BY <1>3 DEF unfinishedOf
  <2>2. 0 \in 0 .. NumBits BY NumberOfChunks
  <2> QED BY <1>4, <2>1, <2>2
<1>6. ASSUME mostUnfinished(s, m) # 0
      PROVE  LET i == mostUnfinishedSegment(s, m)
             IN  /\ i \in Nat \ {0} /\ <<m, i>> \in Places(s)
                 /\ Seg(s, m, i) = At(s, <<m, i>>)
                 /\ ~Seg(s, m, i).finding /\ Seg(s, m, i).cur < Seg(s, m, i).end
  <2>1. I # {} BY <1>4, <1>6 DEF unfinishedOf
  <2>2. I \subseteq Nat BY <1>2
  <2> HIDE DEF I
  <2>3. Min(I) \in I BY <2>1, <2>2, LeastElement
  <2>4. mostUnfinishedSegment(s, m) = Min(I) BY <1>6 DEF mostUnfinishedSegment, I
  <2>5. Min(I) \in DOMAIN list /\ countUnfinishedSegments(Seg(s, m, Min(I))) # 0
    BY <1>6, <2>3 DEF I
  <2>6. Min(I) \in Nat \ {0} BY <1>2, <2>5
  <2> HIDE DEF list
  <2> QED BY <1>3, <2>4, <2>5, <2>6
<1>7. mostUnfinished(s, m) = 0 => mostUnfinishedSegment(s, m) = 0 BY DEF mostUnfinishedSegment
<1> QED BY <1>5, <1>6, <1>7

LEMMA SplitTargets ==
  ASSUME NEW L, NEW X, NEW e, NEW early, NEW D, NEW s \in Good(L, X, e, early, D),
         NEW m \in Mirrors, s.source[m].used
  PROVE  SplitTarget(s) \in Mirrors
<1> DEFINE U == ToSet(Used(s))
           S == {mostUnfinished(s, x) : x \in U}
           most == Max(S)
           T == {x \in Mirrors : mostUnfinished(s, x) = most}
           q == Among(Used(s), T)
<1>1. Used(s) \in Seq(Mirrors) /\ U = {Used(s)[i] : i \in 1 .. Len(Used(s))}
  BY UsedMirrors, SMTT(60) DEF ToSet
<1>2. m \in U /\ U \subseteq Mirrors
  <2>1. \E i \in 1 .. Len(Used(s)) : Used(s)[i] = m BY UsedMirrors
  <2>2. \A i \in 1 .. Len(Used(s)) : Used(s)[i] \in Mirrors BY <1>1
  <2> HIDE DEF U
  <2> QED BY <1>1, <2>1, <2>2
<1>3. S # {} /\ S \in SUBSET (0 .. NumBits)
  <2>1. \A x \in Mirrors : mostUnfinished(s, x) \in 0 .. NumBits BY MostUnfinished
  <2> HIDE DEF U
  <2> QED BY <1>2, <2>1
<1> HIDE DEF S
<1>4. most \in S BY <1>3, MostChunks
<1> HIDE DEF most
<1>5. PICK x \in U : mostUnfinished(s, x) = most BY <1>4 DEF S
<1>6. PICK k \in 1 .. Len(Used(s)) : Used(s)[k] = x BY <1>1, <1>5
<1>7. Used(s)[k] \in T BY <1>2, <1>5, <1>6
<1> HIDE DEF T
<1>8. q \in Seq(Mirrors) /\ \E i \in 1 .. Len(q) : q[i] = Used(s)[k]
  BY <1>1, <1>7, AmongFacts, AmongElements
<1>9. q # <<>> BY <1>8
<1> HIDE DEF q
<1>10. Head(q) \in Mirrors BY <1>8, <1>9
<1> QED BY <1>10 DEF SplitTarget, q, T, most, S, U

(* The chunks in first .. last are free, or were just freed. *)
LEMMA AssignedRange ==
  ASSUME NEW L, NEW first \in Chunks, NEW last \in Chunks, first <= last, NEW early, NEW D,
         NEW Y \in SUBSET (first .. last),
         NEW s \in Good(L, Y, Nowhere, early, D), s.factory.known,
         ((first .. last) \ Y) \cap s.factory.started = {},
         NEW m \in Mirrors, s.source[m].used
  PROVE  /\ assignRange(s, m, first, last) \in Good(L, {}, Nowhere, early, D)
         /\ Steady(assignRange(s, m, first, last), s)
         /\ Places(assignRange(s, m, first, last)) # {}
<1> DEFINE X == first .. last
           t == Claim(s, X)
           new == NewSegment(LastSegSize(last), first, last)
           u == addSegment(t, m, new)
<1>1. X \in SUBSET Chunks
  <2>1. first \in Nat /\ last \in Nat /\ last < NumBits BY Ends
  <2> QED BY <2>1, NumberOfChunks DEF Chunks
<1>2. t \in Good(L, X, Nowhere, early, D) /\ Steady(t, s) /\ t.source = s.source
  <2>1. Y \in SUBSET X /\ (X \ Y) \cap s.factory.started = {} OBVIOUS
  <2> HIDE DEF X
  <2> QED BY <1>1, <2>1, Claimed
<1> HIDE DEF t
<1>3. t.factory.known BY <1>2, FrameFields DEF Steady
<1>4. u \in Good(L, {}, Nowhere, early, D) /\ Steady(u, t) /\ Places(u) # {} BY <1>2, <1>3, AddedSegment
<1>5. u = assignRange(s, m, first, last) BY DEF assignRange, t
<1> HIDE DEF u
<1> QED BY <1>2, <1>4, <1>5, SteadySteps

LEMMA AssignedHalf ==
  ASSUME NEW L, NEW early, NEW D, NEW s \in Good(L, {}, Nowhere, early, D), s.factory.known,
         NEW m \in Mirrors, s.source[m].used
  PROVE  /\ assignHalf(s, m) \in Good(L, {}, Nowhere, early, D) /\ Steady(assignHalf(s, m), s)
         /\ Places(s) # {} => Places(assignHalf(s, m)) # {}
<1> DEFINE x == SplitTarget(s)
           i == mostUnfinishedSegment(s, x)
           seg == Seg(s, x, i)
           new == splitSegment(seg)
           t == WithSegment(s, x, i, new)
           p == <<x, i>>
           first == seg.end - Freed(seg) + 1
           Y == first .. seg.end
<1>1. s \in State /\ Recorded(L, s, {}) BY DEF Good
<1>2. x \in Mirrors BY SplitTargets
<1>3. CASE i = 0 BY <1>3, SteadySteps DEF assignHalf
<1>4. CASE i # 0
  <2>1. /\ i \in Nat \ {0} /\ p \in Places(s) /\ seg = At(s, p) /\ ~seg.finding
        /\ seg.cur < seg.end
    BY <1>2, <1>4, MostUnfinished
  <2>2. /\ seg \in AnySegment /\ seg.cur \in Chunks /\ seg.end \in Chunks
        /\ Held(seg) = seg.cur .. seg.end /\ Held(seg) \subseteq Taken(s, {})
    BY <2>1, ChunkFacts
  <2>3. assignHalf(s, m) = assignRange(t, m, first, seg.end) BY <1>4 DEF assignHalf
  <2>4. i \in 1 .. Len(s.source[x].segments)
    <3>1. i <= Len(s.source[x].segments) /\ Len(s.source[x].segments) \in Nat
      BY <1>1, <1>2, <2>1, Parts
    <3> QED BY <2>1, <3>1
  <2> HIDE DEF x, i, seg
  <2>5. /\ new \in AnySegment /\ ~new.finding /\ new.cur = seg.cur
        /\ Freed(seg) \in 1 .. seg.end - seg.cur
        /\ new.end = seg.end - Freed(seg)
        /\ new.timers = seg.timers /\ new.offset = seg.offset
        /\ IF seg.job = "none" THEN new.job = "none" ELSE new.job = "active"
        /\ new.status = seg.status
        /\ Exactly(seg) => Exactly(new)
        /\ Waits(seg) => Waits(new)
    BY <2>1, <2>2, SplitSegments
  <2> HIDE DEF new
  <2>6. /\ t \in State /\ t.factory = s.factory /\ t.disk = s.disk
        /\ \A y \in Mirrors : /\ t.source[y].used = s.source[y].used
                              /\ t.source[y].running = s.source[y].running
                              /\ (t.source[y].segments = <<>>) = (s.source[y].segments = <<>>)
        /\ Places(t) = Places(s) /\ At(t, p) = new
        /\ \A q \in Places(s) : q # p => At(t, q) = At(s, q)
    BY <1>1, <1>2, <2>4, <2>5, OneReplaced
  <2> HIDE DEF t
  <2>7. Steady(t, s) BY <2>6 DEF Steady, Frame, Postponed
  <2>8. /\ seg.cur \in Int /\ seg.end \in Int /\ Freed(seg) \in Int
        /\ Held(new) = seg.cur .. seg.end - Freed(seg)
        /\ Held(new) \cup Y = Held(seg) /\ Held(new) \cap Y = {} /\ Y # {}
        /\ first \in Held(seg) /\ first <= seg.end /\ new.cur <= new.end
    <3>1. seg.cur \in Int /\ seg.end \in Int BY <2>2 DEF AnySegment
    <3>2. Held(new) = seg.cur .. seg.end - Freed(seg) BY <2>5 DEF Held, Owned
    <3> QED BY <2>2, <2>5, <3>1, <3>2
  <2>9. first \in Chunks BY <1>1, <2>2, <2>8 DEF Taken, State, AnyFactory
  <2> HIDE DEF first, Y
  <2>10. Recorded(L, t, Y)
    <3>1. t.factory.started = s.factory.started BY <2>6
    <3>2. Y \subseteq t.factory.started \ s.factory.finished BY <2>2, <2>6, <2>8 DEF Taken
    <3>3. /\ s.factory.finished \subseteq t.factory.started
          /\ t.factory.started = {} \/ s.factory.known
      BY <1>1, <3>1 DEF Recorded
    <3> QED BY <1>1, <2>7, <3>2, <3>3, SteadyRecords
  <2>11. Taken(t, Y) = Taken(s, {}) \ Y BY <2>6 DEF Taken
  <2>12. /\ Fits(s, {}, early, x, seg) /\ Adds(L, s, seg)
    <3>1. p[1] = x /\ p # Nowhere BY DEF Nowhere
    <3> QED BY <2>1, <3>1 DEF Good, Fitting
  <2>13. Adds(L, t, new)
    <3>1. Kept(L, t) = Kept(L, s) BY <2>6 DEF Kept
    <3>2. Behind(L, s, seg) => Behind(L, t, new) BY <2>5, <3>1 DEF Behind
    <3> QED BY <2>1, <2>5, <2>12, <3>2 DEF Adds
  <2>14. (s.source[x].running \/ Rests(new, early)) /\ Wakes(s, x, new)
    BY <2>1, <2>5, <2>12 DEF Fits, Rests, Wakes, HasStarted
  <2>15. /\ Held(new) \subseteq Held(seg) \cup {} /\ Held(new) \subseteq Taken(t, Y)
         /\ Taken(s, {}) \ Held(seg) \subseteq Taken(t, Y)
         /\ Taken(t, Y) \subseteq (Taken(s, {}) \ Held(seg)) \cup Held(new)
    BY <2>2, <2>8, <2>11
  <2>16. p[1] = x OBVIOUS
  <2> HIDE DEF p
  <2>17. Nowhere \in {Nowhere, p} OBVIOUS
  <2>18. t \in Good(L, Y, Nowhere, early, D)
    BY <2>1, <2>5, <2>6, <2>7, <2>8, <2>10, <2>13, <2>14, <2>15, <2>16, <2>17,
       SteadyAlike, Changed
  <2>19. t.factory.known /\ t.source[m].used BY <2>6
  <2>20. assignRange(t, m, first, seg.end) \in Good(L, {}, Nowhere, early, D)
         /\ Steady(assignRange(t, m, first, seg.end), t)
         /\ Places(assignRange(t, m, first, seg.end)) # {}
    <3>1. Y = first .. seg.end BY DEF Y
    <3>2. ((first .. seg.end) \ Y) \cap t.factory.started = {} BY <3>1
    <3> QED BY <2>2, <2>8, <2>9, <2>18, <2>19, <3>1, <3>2, AssignedRange
  <2> QED BY <2>3, <2>7, <2>20, SteadySteps
<1> QED BY <1>3, <1>4

(* A source that is given something to do leaves nothing undone. *)
LEMMA AssignedOnce ==
  ASSUME NEW L, NEW early, NEW D, NEW s \in Good(L, {}, Nowhere, early, D), s.factory.known,
         NEW m \in Mirrors, s.source[m].used
  PROVE  /\ assignOnce(s, m) \in Good(L, {}, Nowhere, early, D) /\ Steady(assignOnce(s, m), s)
         /\ Attended(assignOnce(s, m))
<1>1. CASE s.factory.finished = Chunks \/ changeNeeded(s, m) <= 0
  <2>1. assignOnce(s, m) = s BY <1>1 DEF assignOnce
  <2>2. Attended(s)
    <3>1. CASE s.factory.finished = Chunks BY <3>1 DEF Attended
    <3>2. CASE changeNeeded(s, m) <= 0
      <4>1. s \in State BY DEF Good
      <4>2. /\ s.source[m].connections \in Nat \ {0} /\ Len(s.source[m].segments) \in Nat
            /\ s.source[m].segments \in Seq(AnySegment)
        BY <4>1, Parts
      <4>3. Len(s.source[m].segments) >= 1 BY <3>2, <4>2 DEF changeNeeded
      <4>4. s.source[m].segments # <<>> BY <4>2, <4>3
      <4> QED BY <4>1, <4>4, FirstPlace DEF Attended
    <3> QED BY <1>1, <3>1, <3>2
  <2> QED BY <2>1, <2>2, SteadySteps
<1>2. CASE ~(s.factory.finished = Chunks \/ changeNeeded(s, m) <= 0) /\ FreeChunks(s) = {}
  <2>1. assignOnce(s, m) = assignHalf(s, m) BY <1>2 DEF assignOnce
  <2>2. Places(s) # {}
    <3>1. s \in State /\ Covered(s, {}) BY DEF Good
    <3>2. s.factory.finished \subseteq Chunks BY <3>1 DEF State, AnyFactory
    <3>3. PICK c \in Chunks : c \notin s.factory.finished BY <1>2, <3>2
    <3>4. c \in Taken(s, {}) BY <1>2, <3>3 DEF FreeChunks, Taken
    <3> QED BY <3>1, <3>4 DEF Covered
  <2> QED BY <2>1, <2>2, AssignedHalf DEF Attended
<1>3. CASE ~(s.factory.finished = Chunks \/ changeNeeded(s, m) <= 0) /\ FreeChunks(s) # {}
  <2> DEFINE first == FirstFree(s)
             last == LastFree(s)
  <2>1. first \in Chunks /\ last \in Chunks /\ first <= last
        /\ first .. last \subseteq FreeChunks(s)
    BY <1>3, FreeRange
  <2>2. assignOnce(s, m) = assignRange(s, m, first, last) BY <1>3 DEF assignOnce
  <2> HIDE DEF first, last
  <2>3. ((first .. last) \ {}) \cap s.factory.started = {} BY <2>1 DEF FreeChunks
  <2>4. {} \in SUBSET (first .. last) OBVIOUS
  <2> QED BY <2>1, <2>2, <2>3, <2>4, AssignedRange DEF Attended
<1> QED BY <1>1, <1>2, <1>3

(* The states a call leaves alone but for chunks and segments *)
Around(L, s, early, D) == {t \in Good(L, {}, Nowhere, early, D) : Steady(t, s)}

LEMMA AssignedSegments ==
  ASSUME NEW L, NEW early, NEW D, NEW s \in Good(L, {}, Nowhere, early, D),
         NEW m \in Mirrors, s.source[m].used
  PROVE  /\ assignSegments(s, m) \in Good(L, {}, Nowhere, early, D)
         /\ Steady(assignSegments(s, m), s)
         /\ s.factory.known => Attended(assignSegments(s, m))
<1>1. s \in State /\ Recorded(L, s, {}) BY DEF Good
<1>2. CASE ~s.factory.known
  <2> DEFINE b == TRUE
             t == [s EXCEPT !.factory.assignTried = b]
  <2>1. s.factory \in AnyFactory /\ b \in BOOLEAN BY <1>1 DEF State
  <2>2. t = assignSegments(s, m) BY <1>2 DEF assignSegments
  <2> HIDE DEF b
  <2>3. t = [factory |-> [s.factory EXCEPT !.assignTried = b],
             source |-> s.source, disk |-> s.disk]
    BY <1>1 DEF State
  <2>4. [s.factory EXCEPT !.assignTried = b] \in AnyFactory BY <2>1 DEF AnyFactory
  <2>5. t.factory = [s.factory EXCEPT !.assignTried = b] /\ t.source = s.source
        /\ t.disk = s.disk
    BY <2>3
  <2>6. t \in State BY <1>1, <2>3, <2>4 DEF State
  <2> HIDE DEF t
  <2>7. Steady(t, s) /\ t.factory.started = s.factory.started
    <3>1. /\ t.factory.known = s.factory.known /\ t.factory.started = s.factory.started
          /\ t.factory.status = s.factory.status /\ t.factory.file = s.factory.file
          /\ t.factory.sized = s.factory.sized /\ t.factory.startTried = s.factory.startTried
          /\ t.factory.findTried = s.factory.findTried /\ t.factory.done = s.factory.done
          /\ t.factory.finished = s.factory.finished /\ t.factory.write = s.factory.write
          /\ t.factory.unused = s.factory.unused
      BY <2>1, <2>5 DEF AnyFactory
    <3>2. Postponed(t) = FALSE /\ Postponed(s) = FALSE BY <1>2, <3>1 DEF Postponed
    <3> QED BY <2>5, <3>1, <3>2 DEF Steady, Frame
  <2>8. Recorded(L, t, {})
    <3>1. t.factory.started = {} BY <1>1, <1>2, <2>7 DEF Recorded
    <3>2. s.factory.finished \subseteq t.factory.started
          /\ {} \subseteq t.factory.started \ s.factory.finished
      BY <1>1, <2>7 DEF Recorded
    <3> QED BY <1>1, <2>7, <3>1, <3>2, SteadyRecords
  <2>9. Taken(t, {}) = Taken(s, {}) BY <2>7, FrameFields DEF Taken, Steady
  <2>10. t \in Good(L, {}, Nowhere, early, D)
    BY <2>5, <2>6, <2>7, <2>8, <2>9, OtherChunks, SteadyAlike
  <2> QED BY <1>2, <2>2, <2>7, <2>10
<1>3. CASE s.factory.known
  <2> DEFINE N == s.source[m].connections
             A == Around(L, s, early, D)
             Loop(f) == f = [n \in 0 .. N |-> IF n = 0 THEN s ELSE assignOnce(f[n - 1], m)]
             after == CHOOSE f : Loop(f)
             step == [q \in A \X (1 .. N) |-> assignOnce(q[1], m)]
  <2>1. N \in Nat /\ N # 0 BY <1>1, Parts
  <2>2. s \in A BY <1>3, SteadySteps DEF Around
  <2>3. ASSUME NEW t \in A PROVE assignOnce(t, m) \in A /\ Attended(assignOnce(t, m))
    <3>1. t \in Good(L, {}, Nowhere, early, D) /\ Steady(t, s) BY DEF Around
    <3>2. t.factory.known /\ t.source[m].used BY <1>3, <3>1, FrameFields DEF Steady
    <3>3. assignOnce(t, m) \in Good(L, {}, Nowhere, early, D) /\ Steady(assignOnce(t, m), t)
          /\ Attended(assignOnce(t, m))
      BY <3>1, <3>2, AssignedOnce
    <3> QED BY <1>3, <3>1, <3>3, SteadySteps DEF Around
  <2> HIDE DEF A, N
  <2>4. step \in [A \X (1 .. N) -> A] BY <2>3
  <2>5. \A t \in A, n \in 1 .. N : step[<<t, n>>] = assignOnce(t, m) OBVIOUS
  <2> HIDE DEF step
  <2>6. Iterations(A, s, N, step) # {} BY <2>1, <2>2, <2>4, IterationsExist
  <2>7. PICK g : Loop(g)
    <3>1. PICK g \in Iterations(A, s, N, step) : TRUE BY <2>6
    <3>2. \A n \in 1 .. N : n - 1 \in 0 .. N BY <2>1
    <3>3. \A n \in 1 .. N : g[n] = assignOnce(g[n - 1], m) BY <2>5, <3>2 DEF Iterations
    <3>4. Loop(g) BY <2>1, <3>3 DEF Iterations
    <3> QED BY <3>4
  <2>8. Loop(after) BY <2>7
  <2> HIDE DEF after
  <2>9. after[0] = s BY <2>1, <2>8
  <2>10. \A n \in 1 .. N : after[n] = assignOnce(after[n - 1], m) BY <2>1, <2>8
  <2>11. \A n \in 0 .. N : after[n] \in A BY <2>1, <2>2, <2>3, <2>9, <2>10, IterationsStay
  <2>12. after[N] \in A BY <2>1, <2>11
  <2>13. assignSegments(s, m) = after[N] BY <1>3 DEF assignSegments, Repeat, after, N
  <2>14. Attended(after[N])
    <3>1. N \in 1 .. N /\ N - 1 \in 0 .. N BY <2>1
    <3> QED BY <2>3, <2>10, <2>11, <3>1
  <2> QED BY <2>12, <2>13, <2>14 DEF A, Around
<1> QED BY <1>2, <1>3

-----------------------------------------------------------------------------
(* Mirrors that are changed, added and removed *)

LEMMA OtherMirror ==
  ASSUME NEW s \in State, NEW f \in AnyFactory, NEW m \in Mirrors, NEW x \in AnySource
  PROVE  LET t == [factory |-> f, source |-> [s.source EXCEPT ![m] = x], disk |-> s.disk]
         IN  /\ t \in State /\ t.factory = f /\ t.disk = s.disk
             /\ t.source[m] = x /\ \A y \in Mirrors : y # m => t.source[y] = s.source[y]
BY DEF State

(* Sources differ, but not their segments and what runs. *)
LEMMA OtherMirrors ==
  ASSUME NEW L, NEW X, NEW e, NEW early, NEW D, NEW E, NEW s \in Good(L, X, e, early, D),
         NEW t \in State, Frame(t) = Frame(s), t.factory.started = s.factory.started,
         \A m \in Mirrors : /\ t.source[m].segments = s.source[m].segments
                            /\ t.source[m].running = s.source[m].running,
         Mirrored(t, E)
  PROVE  t \in Good(L, X, e, early, E)
<1>1. Recorded(L, s, X) /\ Fitting(L, s, X, e, early) /\ Apart(s) /\ Covered(s, X) BY DEF Good
<1>2. /\ t.disk = s.disk /\ t.factory.status = s.factory.status
      /\ t.factory.file = s.factory.file /\ t.factory.known = s.factory.known
      /\ t.factory.sized = s.factory.sized /\ t.factory.startTried = s.factory.startTried
      /\ t.factory.findTried = s.factory.findTried /\ t.factory.done = s.factory.done
      /\ t.factory.finished = s.factory.finished /\ t.factory.write = s.factory.write
      /\ Kept(L, t) = Kept(L, s)
  BY FrameFields
<1>3. Places(t) = Places(s) BY DEF Places
<1>4. \A p \in Places(s) : At(t, p) = At(s, p) /\ p[1] \in Mirrors BY DEF Places, At
<1>5. Taken(t, X) = Taken(s, X) BY <1>2 DEF Taken
<1>6. Recorded(L, t, X) BY <1>1, <1>2 DEF Recorded
<1>7. Fitting(L, t, X, e, early)
  <2>1. ASSUME NEW p \in Places(t)
        PROVE  Fits(t, X, early, p[1], At(t, p)) /\ (p # e => Adds(L, t, At(t, p)))
    <3>1. Fits(s, X, early, p[1], At(s, p)) /\ (p # e => Adds(L, s, At(s, p)))
      BY <1>1, <1>3 DEF Fitting
    <3>2. Fits(t, X, early, p[1], At(s, p))
      BY <1>2, <1>3, <1>4, <1>5, <3>1 DEF Fits, Fetches, Searches, Wakes
    <3>3. p # e => Adds(L, t, At(s, p)) BY <1>2, <3>1 DEF Adds, Behind
    <3> QED BY <1>3, <1>4, <3>2, <3>3
  <2> QED BY <2>1 DEF Fitting
<1>8. Apart(t) BY <1>1, <1>3, <1>4 DEF Apart
<1>9. Covered(t, X) BY <1>1, <1>3, <1>4, <1>5 DEF Covered
<1> QED BY <1>6, <1>7, <1>8, <1>9 DEF Good

LEMMA RemovedConnection ==
  ASSUME NEW L, NEW early, NEW D, NEW s \in Good(L, {}, Nowhere, early, D), NEW m \in Mirrors
  PROVE  /\ removeConnection(s, m) \in Good(L, {}, Nowhere, early, D)
         /\ Steady(removeConnection(s, m), s)
         /\ Len(removeConnection(s, m).source[m].segments) >= Len(s.source[m].segments) - 1
<1> DEFINE i == mostUnfinishedSegment(s, m)
           X == Held(At(s, <<m, i>>))
           t == removeSegment(s, m, i)
<1>0. s \in State /\ Len(s.source[m].segments) \in Nat BY Parts DEF Good
<1>1. CASE i = 0
  <2>1. removeConnection(s, m) = s BY <1>1 DEF removeConnection
  <2> QED BY <1>0, <2>1, SteadySteps
<1>2. CASE i # 0
  <2>1. /\ i \in Nat \ {0} /\ <<m, i>> \in Places(s) /\ Seg(s, m, i) = At(s, <<m, i>>)
        /\ ~Seg(s, m, i).finding
    BY <1>2, MostUnfinished
  <2>2. X = Owned(Seg(s, m, i)) BY <2>1 DEF Held
  <2>3. removeConnection(s, m) = Release(t, X) BY <1>2, <2>2 DEF removeConnection
  <2> HIDE DEF i
  <2>4. t \in Good(L, X, Nowhere, early, D) /\ Steady(t, s)
        /\ Len(t.source[m].segments) = Len(s.source[m].segments) - 1
    BY <2>1, RemovedSegment
  <2> HIDE DEF t, X
  <2> DEFINE u == Release(t, X)
  <2>5. u \in Good(L, {}, Nowhere, early, D) /\ Steady(u, t) /\ u.source = t.source
    BY <2>4, Released
  <2> HIDE DEF u
  <2>6. Len(u.source[m].segments) >= Len(s.source[m].segments) - 1 BY <1>0, <2>4, <2>5
  <2>7. removeConnection(s, m) = u BY <2>3 DEF u
  <2> QED BY <2>4, <2>5, <2>6, <2>7, SteadySteps
<1> QED BY <1>1, <1>2

LEMMA RemovedConnections ==
  ASSUME NEW L, NEW early, NEW D, NEW s \in Good(L, {}, Nowhere, early, D), NEW m \in Mirrors,
         NEW N \in Nat
  PROVE  /\ removeConnections(s, m, N) \in Good(L, {}, Nowhere, early, D)
         /\ Steady(removeConnections(s, m, N), s)
         /\ Len(removeConnections(s, m, N).source[m].segments) >= Len(s.source[m].segments) - N
<1> DEFINE l(t) == Len(t.source[m].segments)
           A == Around(L, s, early, D)
           Loop(f) == f = [n \in 0 .. N |-> IF n = 0 THEN s ELSE removeConnection(f[n - 1], m)]
           after == CHOOSE f : Loop(f)
           step == [q \in A \X (1 .. N) |-> removeConnection(q[1], m)]
<1>1. s \in A BY SteadySteps DEF Around
<1>2. \A t \in A : removeConnection(t, m) \in A BY RemovedConnection, SteadySteps DEF Around
<1>12. \A t \in A : l(t) \in Nat /\ l(removeConnection(t, m)) >= l(t) - 1
  <2>1. ASSUME NEW t \in A PROVE l(t) \in Nat /\ l(removeConnection(t, m)) >= l(t) - 1
    <3>1. t \in Good(L, {}, Nowhere, early, D) /\ t \in State BY DEF Around, Good
    <3> QED BY <3>1, RemovedConnection, Parts
  <2> QED BY <2>1
<1> HIDE DEF A
<1>3. step \in [A \X (1 .. N) -> A] BY <1>2
<1>4. \A t \in A, n \in 1 .. N : step[<<t, n>>] = removeConnection(t, m) OBVIOUS
<1> HIDE DEF step
<1>5. Iterations(A, s, N, step) # {} BY <1>1, <1>3, IterationsExist
<1>6. PICK g : Loop(g)
  <2>1. PICK g \in Iterations(A, s, N, step) : TRUE BY <1>5
  <2>2. \A n \in 1 .. N : n - 1 \in 0 .. N OBVIOUS
  <2>3. \A n \in 1 .. N : g[n] = removeConnection(g[n - 1], m) BY <1>4, <2>2 DEF Iterations
  <2>4. Loop(g) BY <2>3 DEF Iterations
  <2> QED BY <2>4
<1>7. Loop(after) BY <1>6
<1> HIDE DEF after
<1>8. after[0] = s BY <1>7
<1>9. \A n \in 1 .. N : after[n] = removeConnection(after[n - 1], m) BY <1>7
<1>10. \A n \in 0 .. N : after[n] \in A BY <1>1, <1>2, <1>8, <1>9, IterationsStay
<1>11. after[N] \in A BY <1>10
<1> DEFINE S == [n \in 0 .. N |-> {t \in A : l(t) >= l(s) - n}]
<1> HIDE DEF l
<1>13. l(s) \in Nat BY <1>1, <1>12
<1>14. \A n \in 0 .. N : \A t : t \in S[n] <=> t \in A /\ l(t) >= l(s) - n OBVIOUS
<1> HIDE DEF S
<1>15. after[0] \in S[0] BY <1>1, <1>8, <1>13, <1>14
<1>16. ASSUME NEW n \in 1 .. N, after[n - 1] \in S[n - 1] PROVE after[n] \in S[n]
  <2> DEFINE a == after[n - 1]
  <2>1. n \in 0 .. N /\ n - 1 \in 0 .. N OBVIOUS
  <2>2. a \in A /\ l(a) >= l(s) - (n - 1) BY <1>14, <1>16, <2>1
  <2> HIDE DEF a
  <2>3. l(a) \in Nat /\ l(removeConnection(a, m)) \in Nat /\ removeConnection(a, m) \in A
        /\ l(removeConnection(a, m)) >= l(a) - 1
    BY <1>2, <1>12, <2>2
  <2>4. after[n] = removeConnection(a, m) BY <1>9 DEF a
  <2>5. l(removeConnection(a, m)) >= l(s) - n BY <1>13, <2>2, <2>3
  <2> QED BY <1>14, <2>1, <2>3, <2>4, <2>5
<1>17. \A n \in 0 .. N : after[n] \in S[n] BY <1>15, <1>16, IterationsAdvance
<1>18. l(after[N]) >= l(s) - N BY <1>14, <1>17
<1> QED BY <1>11, <1>18 DEF l, removeConnections, Repeat, after, A, Around

(* The number of connections of a mirror *)
LEMMA OtherConnections ==
  ASSUME NEW L, NEW X, NEW e, NEW early, NEW D, NEW s \in Good(L, X, e, early, D), NEW m \in Mirrors,
         NEW n \in Nat \ {0}
  PROVE  LET t == [s EXCEPT !.source[m].connections = n]
         IN  /\ t \in Good(L, X, e, early, D) /\ Steady(t, s) /\ t.factory = s.factory
             /\ \A x \in Mirrors : t.source[x].segments = s.source[x].segments
             /\ Places(t) = Places(s) /\ \A p \in Places(s) : At(t, p) = At(s, p)
<1> DEFINE x == [s.source[m] EXCEPT !.connections = n]
           t == [factory |-> s.factory, source |-> [s.source EXCEPT ![m] = x],
                 disk |-> s.disk]
<1>1. s \in State /\ Mirrored(s, D) BY DEF Good
<1>2. s.source[m] \in AnySource /\ s.factory \in AnyFactory BY <1>1, Parts
<1>3. /\ x \in AnySource /\ x.segments = s.source[m].segments
      /\ x.used = s.source[m].used /\ x.running = s.source[m].running
  BY <1>2 DEF AnySource
<1>4. t = [s EXCEPT !.source[m].connections = n] BY <1>1 DEF State
<1> HIDE DEF x
<1>5. /\ t \in State /\ t.factory = s.factory /\ t.disk = s.disk
      /\ t.source[m] = x /\ \A y \in Mirrors : y # m => t.source[y] = s.source[y]
  BY <1>1, <1>2, <1>3, OtherMirror
<1> HIDE DEF t
<1>6. \A y \in Mirrors : /\ t.source[y].segments = s.source[y].segments
                         /\ t.source[y].used = s.source[y].used
                         /\ t.source[y].running = s.source[y].running
  BY <1>3, <1>5
<1>7. Steady(t, s) BY <1>5, <1>6 DEF Steady, Frame, Postponed
<1>8. Mirrored(t, D) BY <1>1, <1>6, <1>7, AlikeKeeps, SteadyAlike
<1>9. t \in Good(L, X, e, early, D) BY <1>5, <1>6, <1>7, <1>8, OtherMirrors DEF Steady
<1>10. Places(t) = Places(s) /\ \A p \in Places(s) : At(t, p) = At(s, p)
  BY <1>6 DEF Places, At
<1> QED BY <1>4, <1>5, <1>6, <1>7, <1>9, <1>10

LEMMA SetConnections ==
  ASSUME NEW L, NEW early, NEW D, NEW s \in Good(L, {}, Nowhere, early, D), NEW m \in Mirrors,
         s.source[m].used, NEW n \in Nat \ {0}
  PROVE  /\ setConnections(s, m, n) \in Good(L, {}, Nowhere, early, D)
         /\ Steady(setConnections(s, m, n), s)
         /\ s.factory.known => Attended(setConnections(s, m, n))
<1> DEFINE t == [s EXCEPT !.source[m].connections = n]
<1>1. t \in Good(L, {}, Nowhere, early, D) /\ Steady(t, s) /\ t.factory = s.factory
  BY OtherConnections
<1>2. t \in State BY <1>1 DEF Good
<1>3. t.source[m].used BY <1>1 DEF Steady
<1>4. changeNeeded(t, m) \in Int
  <2> HIDE DEF t
  <2>1. t.source[m].connections \in Nat /\ Len(t.source[m].segments) \in Nat BY <1>2, Parts
  <2> QED BY <2>1 DEF changeNeeded
<1>5. CASE changeNeeded(t, m) > 0
  <2>1. setConnections(s, m, n) = assignSegments(t, m) BY <1>5 DEF setConnections
  <2> HIDE DEF t
  <2> QED BY <1>1, <1>3, <2>1, AssignedSegments, SteadySteps
<1>6. CASE ~(changeNeeded(t, m) > 0)
  <2> DEFINE N == -changeNeeded(t, m)
  <2>1. setConnections(s, m, n) = removeConnections(t, m, N) BY <1>6 DEF setConnections
  <2>2. N \in Nat BY <1>4, <1>6
  <2>3. t.source[m].connections = n
    <3>1. s \in State /\ s.source[m] \in AnySource BY Parts DEF Good
    <3> QED BY <3>1 DEF State, AnySource
  <2> DEFINE u == removeConnections(t, m, N)
             l == Len(t.source[m].segments)
  <2>4. l \in Nat /\ N = l - n
    <3> HIDE DEF t
    <3>1. l \in Nat BY <1>2, Parts
    <3> QED BY <2>3, <3>1 DEF changeNeeded
  <2> HIDE DEF t, N
  <2>5. u \in Good(L, {}, Nowhere, early, D) /\ Steady(u, t)
        /\ Len(u.source[m].segments) >= l - N
    BY <1>1, <2>2, RemovedConnections
  <2> HIDE DEF u, l
  <2>6. u \in State BY <2>5 DEF Good
  <2>7. u.source[m].segments \in Seq(AnySegment) /\ Len(u.source[m].segments) \in Nat
    BY <2>6, Parts
  <2>8. Len(u.source[m].segments) >= 1 BY <2>4, <2>5, <2>7
  <2>9. u.source[m].segments # <<>> BY <2>7, <2>8
  <2>10. Attended(u) BY <2>6, <2>9, FirstPlace DEF Attended
  <2>11. setConnections(s, m, n) = u BY <2>1 DEF u
  <2> QED BY <1>1, <2>5, <2>10, <2>11, SteadySteps
<1> QED BY <1>5, <1>6

(* Sources begin to run. *)
LEMMA StartedMirrors ==
  ASSUME NEW L, NEW X, NEW early, NEW after, NEW D, NEW s \in Good(L, X, Nowhere, early, D),
         NEW t \in State, Recorded(L, t, X),
         t.factory.started = s.factory.started, t.factory.finished = s.factory.finished,
         t.factory.unused = s.factory.unused, Kept(L, t) = Kept(L, s),
         t.factory.status = "Running", ~t.factory.startTried,
         \A p \in Places(s) : ~At(s, p).finding,
         \A m \in Mirrors :
             \/ t.source[m] = s.source[m]
             \/ /\ ~s.source[m].running /\ s.source[m].used
                /\ t.source[m] = Started(m, s.source[m]),
         early = after \/ \A m \in Mirrors : s.source[m].used => t.source[m].running
  PROVE  t \in Good(L, X, Nowhere, after, D)
<1>1. /\ Mirrored(s, D) /\ Fitting(L, s, X, Nowhere, early) /\ Apart(s) /\ Covered(s, X)
      /\ s \in State
  BY DEF Good
<1>2. ASSUME NEW m \in Mirrors
      PROVE  /\ t.source[m].used = s.source[m].used
             /\ s.source[m].running => t.source[m] = s.source[m]
             /\ t.source[m].running => s.source[m].used
             /\ Len(t.source[m].segments) = Len(s.source[m].segments)
             /\ s.source[m].segments = <<>> => t.source[m].segments = <<>>
             /\ \A i \in 1 .. Len(s.source[m].segments) :
                    \/ t.source[m] = s.source[m]
                    \/ /\ t.source[m].running /\ ~s.source[m].running
                       /\ t.source[m].segments[i] = startTransfer(m, s.source[m].segments[i])
  <2> DEFINE list == s.source[m].segments
             map == [i \in DOMAIN list |-> startTransfer(m, list[i])]
  <2>1. s.source[m] \in AnySource /\ list \in Seq(AnySegment) BY <1>1, Parts
  <2>2. CASE t.source[m] = s.source[m] BY <1>1, <2>2 DEF Mirrored
  <2>3. CASE /\ ~s.source[m].running /\ s.source[m].used
             /\ t.source[m] = Started(m, s.source[m])
    <3>1. \A seg \in AnySegment : startTransfer(m, seg) \in AnySegment
      BY StartedSegments DEF Same
    <3>2. DOMAIN list = 1 .. Len(list) /\ Len(list) \in Nat
          /\ \A i \in 1 .. Len(list) : list[i] \in AnySegment
      BY <2>1
    <3>3. map \in Seq(AnySegment) /\ Len(map) = Len(list)
      <4>1. map \in [1 .. Len(list) -> AnySegment] BY <3>1, <3>2
      <4> HIDE DEF map
      <4> QED BY <3>2, <4>1, SeqDef, LenProperties
    <3>4. \A i \in 1 .. Len(list) : map[i] = startTransfer(m, list[i]) BY <3>2
    <3>5. t.source[m] = [s.source[m] EXCEPT !.running = TRUE, !.segments = map]
      BY <2>3 DEF Started
    <3> HIDE DEF map
    <3>6. t.source[m].segments = map /\ t.source[m].running
          /\ t.source[m].used = s.source[m].used
      BY <2>1, <3>5 DEF AnySource
    <3>7. list = <<>> => map = <<>> BY <3>2, <3>3
    <3> QED BY <2>3, <3>3, <3>4, <3>6, <3>7
  <2> QED BY <2>2, <2>3
<1>3. Places(t) = Places(s) BY <1>2 DEF Places
<1>4. ASSUME NEW p \in Places(s)
      PROVE  /\ At(s, p) \in AnySegment /\ p[1] \in Mirrors /\ p # Nowhere
             /\ Fits(s, X, early, p[1], At(s, p)) /\ Adds(L, s, At(s, p))
             /\ \/ At(t, p) = At(s, p) /\ t.source[p[1]] = s.source[p[1]]
                \/ /\ t.source[p[1]].running /\ ~s.source[p[1]].running
                   /\ At(t, p) = startTransfer(p[1], At(s, p))
  <2>1. At(s, p) \in AnySegment /\ p[1] \in Mirrors /\ p[2] \in 1 .. Len(s.source[p[1]].segments)
    BY <1>1, Parts
  <2>2. p # Nowhere BY DEF Places, Nowhere
  <2> QED BY <1>1, <1>2, <2>1, <2>2 DEF Fitting, At
<1>5. Taken(t, X) = Taken(s, X) BY DEF Taken
<1>6. ASSUME NEW p \in Places(s)
      PROVE  /\ Held(At(t, p)) = Held(At(s, p)) /\ ~At(t, p).finding
             /\ Fits(t, X, after, p[1], At(t, p)) /\ Adds(L, t, At(t, p))
  <2> DEFINE old == At(s, p)
             new == At(t, p)
             m == p[1]
  <2>1. /\ old \in AnySegment /\ m \in Mirrors /\ ~old.finding
        /\ Fits(s, X, early, m, old) /\ Adds(L, s, old)
    BY <1>4
  <2>2. s.source[m].used BY <1>4, ChunkFacts
  <2>3. CASE new = old /\ t.source[m] = s.source[m]
    <3>1. Fetches(t, X, new) /\ Searches(t, new)
      BY <1>5, <2>1, <2>3 DEF Fits, Fetches, Searches
    <3>2. (t.source[m].running \/ Rests(new, after)) /\ Wakes(t, m, new)
      BY <2>1, <2>2, <2>3 DEF Fits, Wakes
    <3>3. Adds(L, t, new) BY <2>1, <2>3 DEF Adds, Behind
    <3> QED BY <2>1, <2>3, <3>1, <3>2, <3>3 DEF Fits
  <2>4. CASE t.source[m].running /\ ~s.source[m].running /\ new = startTransfer(m, old)
    <3>1. /\ Same(new, old) /\ Waits(new) /\ Wakes(t, m, new)
          /\ Exactly(old) /\ (old.job = "none" => old.buffer = <<>>) => Exactly(new)
      <4>1. old.status = "Stopped" \/ old.job = "active" BY <2>1, <2>4 DEF Fits, Rests
      <4> QED BY <2>1, <2>4, <4>1, StartedSegments DEF Wakes, HasStarted
    <3>2. Fetches(t, X, new) /\ Searches(t, new)
      BY <1>5, <2>1, <3>1 DEF Fits, Fetches, Searches, Same
    <3>3. Exact => Exactly(old) /\ Waits(old) /\ old.timers = 0
      BY <2>1, <2>4 DEF Fits, Adds, Rests
    <3>4. Exact => Exactly(new) BY <3>1, <3>3 DEF Waits
    <3>5. Exact => Behind(L, t, new) BY <2>1, <3>1 DEF Adds, Behind, Same
    <3>6. Adds(L, t, new) BY <3>1, <3>4, <3>5 DEF Adds
    <3> QED BY <2>1, <2>4, <3>1, <3>2, <3>6 DEF Fits, Same
  <2> QED BY <1>4, <2>3, <2>4
<1>7. Fitting(L, t, X, Nowhere, after) BY <1>3, <1>6 DEF Fitting
<1>8. Apart(t) BY <1>1, <1>3, <1>6 DEF Apart
<1>9. Covered(t, X) BY <1>1, <1>3, <1>5, <1>6 DEF Covered
<1>10. Mirrored(t, D) BY <1>1, <1>2 DEF Mirrored
<1> QED BY <1>7, <1>8, <1>9, <1>10 DEF Good

LEMMA StartedType ==
  ASSUME NEW src \in AnySource, NEW m
  PROVE  LET new == Started(m, src)
         IN  new \in AnySource /\ new.used = src.used /\ new.running
             /\ Len(new.segments) = Len(src.segments)
<1> DEFINE list == src.segments
           map == [i \in DOMAIN list |-> startTransfer(m, list[i])]
           b == TRUE
<1>1. list \in Seq(AnySegment) /\ DOMAIN list = 1 .. Len(list) /\ Len(list) \in Nat
  BY DEF AnySource
<1>2. map \in Seq(AnySegment) /\ Len(map) = Len(list)
  <2>1. \A seg \in AnySegment : startTransfer(m, seg) \in AnySegment
    BY StartedSegments DEF Same
  <2>2. map \in [1 .. Len(list) -> AnySegment] BY <1>1, <2>1
  <2> HIDE DEF map
  <2> QED BY <1>1, <2>2, SeqDef, LenProperties
<1>3. Started(m, src) = [src EXCEPT !.running = b, !.segments = map] BY DEF Started
<1>4. b \in BOOLEAN /\ b OBVIOUS
<1> HIDE DEF map, b
<1> QED BY <1>2, <1>3, <1>4 DEF AnySource

LEMMA StartedSource ==
  ASSUME NEW L, NEW X, NEW early, NEW D, NEW s \in Good(L, X, Nowhere, early, D),
         NEW m \in Mirrors, s.source[m].used, ~s.source[m].running,
         s.factory.status = "Running", ~s.factory.startTried
  PROVE  LET t == startSource(s, m)
         IN  /\ t \in Good(L, X, Nowhere, early, D) /\ t.factory = s.factory /\ t.disk = s.disk
             /\ t.source[m].used /\ t.source[m].running /\ Places(t) = Places(s)
             /\ \A y \in Mirrors : y # m => t.source[y] = s.source[y]
<1> DEFINE src == Started(m, s.source[m])
           t == [factory |-> s.factory, source |-> [s.source EXCEPT ![m] = src],
                 disk |-> s.disk]
<1>1. s \in State /\ Recorded(L, s, X) BY DEF Good
<1>2. s.source[m] \in AnySource /\ s.factory \in AnyFactory BY <1>1, Parts
<1>6. src \in AnySource /\ src.used = s.source[m].used /\ src.running
      /\ Len(src.segments) = Len(s.source[m].segments)
  BY <1>2, StartedType
<1> HIDE DEF src
<1>7. t = startSource(s, m) BY <1>1 DEF startSource, State, src
<1>8. /\ t \in State /\ t.factory = s.factory /\ t.disk = s.disk
      /\ t.source[m] = src /\ \A y \in Mirrors : y # m => t.source[y] = s.source[y]
  <2>1. src \in AnySource /\ s \in State /\ s.factory \in AnyFactory BY <1>1, <1>2, <1>6
  <2> QED BY <2>1, OtherMirror
<1> HIDE DEF t
<1>9. \A p \in Places(s) : ~At(s, p).finding
  <2>1. \A p \in Places(s) : Searches(s, At(s, p)) BY DEF Good, Fitting, Fits
  <2> QED BY <2>1 DEF Searches
<1>10. Recorded(L, t, X) BY <1>1, <1>8 DEF Recorded, Kept
<1>11. Kept(L, t) = Kept(L, s) BY <1>8 DEF Kept
<1>12. \A y \in Mirrors :
           \/ t.source[y] = s.source[y]
           \/ /\ ~s.source[y].running /\ s.source[y].used
              /\ t.source[y] = Started(y, s.source[y])
  BY <1>8 DEF src
<1>13. t \in Good(L, X, Nowhere, early, D)
  BY <1>8, <1>9, <1>10, <1>11, <1>12, StartedMirrors
<1>14. Places(t) = Places(s)
  <2>1. \A y \in Mirrors : Len(t.source[y].segments) = Len(s.source[y].segments) BY <1>6, <1>8
  <2> QED BY <2>1 DEF Places
<1> QED BY <1>6, <1>7, <1>8, <1>13, <1>14

(* What t changes in the use of mirrors is about m. *)
OthersStay(t, s, m) ==
    \A x \in Mirrors : x # m => /\ t.source[x].used = s.source[x].used
                                /\ t.source[x].running = s.source[x].running

LEMMA AddedSource ==
  ASSUME NEW L, NEW early, NEW D, NEW s \in Good(L, {}, Nowhere, early, D), NEW m \in Mirrors,
         ~s.source[m].used, NEW n \in Nat \ {0}
  PROVE  LET t == addSource(s, m, n)
         IN  /\ t \in Good(L, {}, Nowhere, early, D \ {m}) /\ Frame(t) = Frame(s)
             /\ t.source[m].used
             /\ t.source[m].running => Going(s) /\ s.factory.file = "open"
             /\ OthersStay(t, s, m)
             /\ s.factory.known => Attended(t)
             /\ Going(s) /\ s.factory.known /\ ~s.factory.assignTried /\ s.factory.file = "open"
                    => t.source[m].running
<1> DEFINE E == D \ {m}
           T == Mirrors \ {m}
           unused == Among(s.factory.unused, T)
           b == TRUE
           f == [s.factory EXCEPT !.unused = unused]
           src == [s.source[m] EXCEPT !.used = b, !.connections = n]
           t == [factory |-> f, source |-> [s.source EXCEPT ![m] = src], disk |-> s.disk]
           u == assignSegments(t, m)
<1>1. s \in State /\ Mirrored(s, D) BY DEF Good
<1>2. /\ s.source[m] \in AnySource /\ s.factory \in AnyFactory
      /\ s.factory.unused \in Seq(Mirrors)
  BY <1>1, Parts DEF AnyFactory
<1>3. t = [s EXCEPT !.factory.unused = Among(@, Mirrors \ {m}),
                    !.source[m] = [@ EXCEPT !.used = TRUE, !.connections = n]]
  <2> HIDE DEF unused, src
  <2>1. [s EXCEPT !.factory.unused = unused] =
            [factory |-> f, source |-> s.source, disk |-> s.disk]
    BY <1>1 DEF State
  <2>2. [[factory |-> f, source |-> s.source, disk |-> s.disk] EXCEPT !.source[m] = src] = t
    OBVIOUS
  <2>3. t = [s EXCEPT !.factory.unused = unused, !.source[m] = src] BY <2>1, <2>2
  <2> QED BY <2>3 DEF unused, src
<1>4. unused \in Seq(Mirrors) /\ b \in BOOLEAN BY <1>2, AmongFacts
<1>5. ASSUME NEW y \in Mirrors, y # m, y \in ToSet(s.factory.unused)
      PROVE  y \in ToSet(unused)
  <2> DEFINE q == s.factory.unused
  <2>1. q \in Seq(Mirrors) BY <1>2
  <2>2. PICK k \in 1 .. Len(q) : q[k] = y BY <1>5, <2>1 DEF ToSet
  <2>3. q[k] \in T BY <1>5, <2>2
  <2> HIDE DEF q, T
  <2>4. \E i \in 1 .. Len(Among(q, T)) : Among(q, T)[i] = q[k] BY <2>1, <2>3, AmongElements
  <2>5. unused = Among(q, T) BY DEF q
  <2> HIDE DEF unused
  <2> QED BY <1>4, <2>2, <2>4, <2>5 DEF ToSet
<1>6. b OBVIOUS
<1> HIDE DEF unused, b
<1>7. /\ f \in AnyFactory /\ f.unused = unused /\ f.started = s.factory.started
      /\ f.status = s.factory.status /\ f.file = s.factory.file
      /\ f.known = s.factory.known /\ f.sized = s.factory.sized
      /\ f.startTried = s.factory.startTried
      /\ f.findTried = s.factory.findTried /\ f.done = s.factory.done
      /\ f.finished = s.factory.finished /\ f.write = s.factory.write
      /\ f.assignTried = s.factory.assignTried
  BY <1>2, <1>4 DEF AnyFactory
<1>8. /\ src \in AnySource /\ src.used = b /\ src.segments = s.source[m].segments
      /\ src.running = s.source[m].running
  BY <1>2, <1>4 DEF AnySource
<1> HIDE DEF f, src
<1>9. /\ t \in State /\ t.factory = f /\ t.disk = s.disk
      /\ t.source[m] = src /\ \A y \in Mirrors : y # m => t.source[y] = s.source[y]
  BY <1>1, <1>7, <1>8, OtherMirror
<1>10. addSource(s, m, n) =
           IF /\ ~u.factory.assignTried /\ ~u.factory.startTried
              /\ u.factory.file = "open" /\ u.factory.status = "Running"
           THEN startSource(u, m) ELSE u
  BY <1>3 DEF addSource
<1> HIDE DEF t
<1>11. Frame(t) = Frame(s) BY <1>7, <1>9 DEF Frame, Postponed
<1>12. ~s.source[m].running /\ s.source[m].segments = <<>> BY <1>1 DEF Mirrored
<1>13. Mirrored(t, E)
  <2>1. ASSUME NEW y \in Mirrors
        PROVE  /\ t.source[y].running => /\ t.source[y].used /\ t.factory.status # "Stopped"
                                         /\ ~t.factory.startTried
               /\ ~t.source[y].used => t.source[y].segments = <<>>
               /\ t.source[y].used \/ y \in E \/ y \in ToSet(t.factory.unused)
    <3>1. CASE y = m BY <1>6, <1>8, <1>9, <1>12, <3>1
    <3>2. CASE y # m
      <4>1. /\ s.source[y].running => /\ s.source[y].used /\ s.factory.status # "Stopped"
                                      /\ ~s.factory.startTried
            /\ ~s.source[y].used => s.source[y].segments = <<>>
            /\ s.source[y].used \/ y \in D \/ y \in ToSet(s.factory.unused)
        BY <1>1 DEF Mirrored
      <4> QED BY <1>5, <1>7, <1>9, <3>2, <4>1
    <3> QED BY <3>1, <3>2
  <2> QED BY <2>1 DEF Mirrored
<1> HIDE DEF E
<1>14. t \in Good(L, {}, Nowhere, early, E)
  <2>1. \A y \in Mirrors : t.source[y].segments = s.source[y].segments
                           /\ t.source[y].running = s.source[y].running
    BY <1>8, <1>9
  <2>2. t.factory.started = s.factory.started BY <1>7, <1>9
  <2> QED BY <1>9, <1>11, <1>13, <2>1, <2>2, OtherMirrors
<1>15. t.source[m].used /\ ~t.source[m].running
       /\ \A x \in Mirrors : x # m => /\ t.source[x].used = s.source[x].used
                                      /\ t.source[x].running = s.source[x].running
  BY <1>6, <1>8, <1>9, <1>12
<1>16. u \in Good(L, {}, Nowhere, early, E) /\ Steady(u, t) /\ (t.factory.known => Attended(u))
  BY <1>14, <1>15, AssignedSegments
<1> HIDE DEF u
<1>17. u.source[m].used /\ ~u.source[m].running /\ Frame(u) = Frame(s)
       /\ \A x \in Mirrors : x # m => /\ u.source[x].used = s.source[x].used
                                      /\ u.source[x].running = s.source[x].running
  BY <1>11, <1>15, <1>16 DEF Steady
<1>20. s.factory.known => Attended(u) BY <1>11, <1>16, FrameFields
<1>21. Going(s) /\ s.factory.known /\ ~s.factory.assignTried /\ s.factory.file = "open" =>
           /\ ~u.factory.assignTried /\ ~u.factory.startTried
           /\ u.factory.file = "open" /\ u.factory.status = "Running"
  BY <1>17, FrameFields DEF Going, Postponed
<1>18. CASE /\ addSource(s, m, n) = u
            /\ ~(/\ ~u.factory.assignTried /\ ~u.factory.startTried
                 /\ u.factory.file = "open" /\ u.factory.status = "Running")
  BY <1>16, <1>17, <1>18, <1>20, <1>21 DEF E, OthersStay
<1>19. CASE /\ addSource(s, m, n) = startSource(u, m)
            /\ u.factory.status = "Running" /\ ~u.factory.startTried
            /\ u.factory.file = "open"
  <2> DEFINE v == startSource(u, m)
  <2>1. /\ v \in Good(L, {}, Nowhere, early, E) /\ v.factory = u.factory /\ v.disk = u.disk
        /\ v.source[m].used /\ v.source[m].running /\ Places(v) = Places(u)
        /\ \A y \in Mirrors : y # m => v.source[y] = u.source[y]
    BY <1>16, <1>17, <1>19, StartedSource
  <2> HIDE DEF v
  <2>2. Frame(v) = Frame(u) BY <2>1 DEF Frame, Postponed
  <2>3. Going(s) /\ s.factory.file = "open" BY <1>17, <1>19, FrameFields DEF Going
  <2>4. s.factory.known => Attended(v) BY <1>20, <2>1 DEF Attended
  <2> QED BY <1>17, <1>19, <2>1, <2>2, <2>3, <2>4 DEF E, v, OthersStay
<1> QED BY <1>10, <1>18, <1>19

LEMMA MoreOpen ==
  ASSUME NEW L, NEW X, NEW e, NEW early, NEW D, NEW E, D \subseteq E
  PROVE  Good(L, X, e, early, D) \subseteq Good(L, X, e, early, E)
<1>1. \A s : Mirrored(s, D) => Mirrored(s, E) BY DEF Mirrored
<1> QED BY <1>1 DEF Good

(* Stopped keeps, in a list, what does not ask for the size. *)
Remains(kept, list) ==
    {g \in [1 .. Len(kept) -> 1 .. Len(list)] :
        /\ \A i, j \in 1 .. Len(kept) : g[i] = g[j] => i = j
        /\ \A i \in 1 .. Len(kept) : kept[i] = stopTransfer(list[g[i]]) /\ ~list[g[i]].finding
        /\ \A k \in 1 .. Len(list) : ~list[k].finding => \E i \in 1 .. Len(kept) : g[i] = k}

LEMMA StoppedSource ==
  ASSUME NEW src \in AnySource, NEW m
  PROVE  LET new == Stopped(m, src)
         IN  /\ new \in AnySource /\ new.used = src.used /\ ~new.running
             /\ Remains(new.segments, src.segments) # {}
<1> DEFINE list == src.segments
           S == {seg \in ToSet(list) : ~seg.finding}
           left == Among(list, S)
           kept == [i \in DOMAIN left |-> stopTransfer(left[i])]
           b == FALSE
<1>1. list \in Seq(AnySegment) /\ Len(list) \in Nat BY DEF AnySource
<1>2. left \in Seq(AnySegment) /\ Positions(list, left, Len(list), S) # {}
  BY <1>1, AmongFacts
<1>3. PICK g \in Positions(list, left, Len(list), S) : TRUE BY <1>2
<1>4. left = Staying(list) BY DEF Staying
<1>5. \A k \in 1 .. Len(list) : list[k] \in S <=> ~list[k].finding BY <1>1 DEF ToSet
<1> HIDE DEF S, left
<1>6. /\ g \in [1 .. Len(left) -> 1 .. Len(list)]
      /\ \A i, j \in 1 .. Len(left) : i < j => g[i] < g[j]
      /\ \A i \in 1 .. Len(left) : left[i] = list[g[i]] /\ list[g[i]] \in S
      /\ \A k \in 1 .. Len(list) : list[k] \in S => \E i \in 1 .. Len(left) : g[i] = k
  BY <1>3 DEF Positions
<1>7. DOMAIN left = 1 .. Len(left) /\ Len(left) \in Nat
      /\ \A i \in 1 .. Len(left) : left[i] \in AnySegment
  BY <1>2
<1>8. kept \in Seq(AnySegment) /\ Len(kept) = Len(left)
  <2>1. \A seg \in AnySegment : stopTransfer(seg) \in AnySegment BY StoppedSegments DEF Same
  <2>2. kept \in [1 .. Len(left) -> AnySegment] BY <1>7, <2>1
  <2> HIDE DEF kept
  <2> QED BY <1>7, <2>2, SeqDef, LenProperties
<1>9. \A i \in 1 .. Len(left) : kept[i] = stopTransfer(left[i]) BY <1>7
<1>10. Stopped(m, src) = [src EXCEPT !.running = b, !.segments = kept]
  BY <1>4 DEF Stopped
<1>11. b \in BOOLEAN /\ ~b OBVIOUS
<1> HIDE DEF b, kept, list
<1>12. /\ Stopped(m, src) \in AnySource /\ Stopped(m, src).segments = kept
       /\ Stopped(m, src).used = src.used /\ Stopped(m, src).running = b
  BY <1>8, <1>10, <1>11 DEF AnySource
<1>13. \A i, j \in 1 .. Len(left) : g[i] = g[j] => i = j
  <2>1. ASSUME NEW i \in 1 .. Len(left), NEW j \in 1 .. Len(left), g[i] = g[j] PROVE i = j
    <3>1. ~(i < j) /\ ~(j < i)
      <4>1. g[i] \in 1 .. Len(list) /\ g[j] \in 1 .. Len(list) BY <1>6
      <4>2. ~(g[i] < g[j]) /\ ~(g[j] < g[i]) BY <2>1, <4>1
      <4> QED BY <1>6, <4>2
    <3> QED BY <1>7, <3>1
  <2> QED BY <2>1
<1>14. \A i \in 1 .. Len(left) : kept[i] = stopTransfer(list[g[i]]) /\ ~list[g[i]].finding
  BY <1>5, <1>6, <1>9
<1>15. \A k \in 1 .. Len(list) : ~list[k].finding => \E i \in 1 .. Len(left) : g[i] = k
  BY <1>5, <1>6
<1>16. g \in Remains(kept, list)
  <2>1. g \in [1 .. Len(kept) -> 1 .. Len(list)] BY <1>6, <1>8
  <2>2. /\ \A i, j \in 1 .. Len(kept) : g[i] = g[j] => i = j
        /\ \A i \in 1 .. Len(kept) : kept[i] = stopTransfer(list[g[i]]) /\ ~list[g[i]].finding
        /\ \A k \in 1 .. Len(list) : ~list[k].finding => \E i \in 1 .. Len(kept) : g[i] = k
    BY <1>8, <1>13, <1>14, <1>15
  <2> QED BY <2>1, <2>2 DEF Remains
<1> QED BY <1>11, <1>12, <1>16 DEF list

LEMMA NowhereIsNoPlace ==
  ASSUME NEW s, NEW p \in Places(s)
  PROVE  p # Nowhere
<1>1. \A a, b : <<a, b>> # <<>> OBVIOUS
<1>2. p = <<p[1], p[2]>> BY DEF Places
<1> QED BY <1>1, <1>2 DEF Nowhere

LEMMA NowListed ==
  ASSUME NEW q \in Seq(Mirrors), NEW m \in Mirrors
  PROVE  Append(q, m) \in Seq(Mirrors) /\ ToSet(Append(q, m)) = ToSet(q) \cup {m}
<1> DEFINE n == Len(q)
           r == Append(q, m)
<1>1. /\ n \in Nat /\ r \in Seq(Mirrors) /\ Len(r) = n + 1 /\ r[n + 1] = m
      /\ \A i \in 1 .. n : r[i] = q[i]
  OBVIOUS
<1> HIDE DEF r
<1>2. \A x : x \in ToSet(r) <=> \E i \in 1 .. n + 1 : x = r[i] BY <1>1 DEF ToSet
<1>3. \A x : x \in ToSet(q) <=> \E i \in 1 .. n : x = q[i] BY DEF ToSet
<1>4. \A i : i \in 1 .. n + 1 <=> i \in 1 .. n \/ i = n + 1 BY <1>1
<1> HIDE DEF n
<1>5. ASSUME NEW x PROVE x \in ToSet(r) <=> x \in ToSet(q) \/ x = m
  <2>1. ASSUME x \in ToSet(r) PROVE x \in ToSet(q) \/ x = m
    <3>1. PICK i \in 1 .. n + 1 : x = r[i] BY <1>2, <2>1
    <3> QED BY <1>1, <1>3, <1>4, <3>1
  <2>2. ASSUME x \in ToSet(q) PROVE x \in ToSet(r)
    <3>1. PICK i \in 1 .. n : x = q[i] BY <1>3, <2>2
    <3> QED BY <1>1, <1>2, <1>4, <3>1
  <2>3. m \in ToSet(r) BY <1>1, <1>2, <1>4
  <2> QED BY <2>1, <2>2, <2>3
<1> QED BY <1>1, <1>5 DEF r

(* A mirror is dropped with its segments. *)
LEMMA DroppedMirror ==
  ASSUME NEW L, NEW early, NEW D, NEW s \in Good(L, {}, Nowhere, early, D), NEW m \in Mirrors
  PROVE  LET t == dropMirror(s, m)
         IN  /\ t \in Good(L, {}, Nowhere, early, D \ {m}) /\ Frame(t) = Frame(s)
             /\ ~t.source[m].used
             /\ \A x \in Mirrors : x # m => t.source[x] = s.source[x]
<1> DEFINE E == D \ {m}
           src == s.source[m]
           list == src.segments
           stopped == Stopped(m, src)
           kept == stopped.segments
           gone == UNION {Owned(seg) : seg \in ToSet(kept)}
           b == FALSE
           none == <<>>
           S == s.factory.started \ gone
           unused == Append(s.factory.unused, m)
           f == [s.factory EXCEPT !.started = S, !.unused = unused]
           new == [stopped EXCEPT !.used = b, !.segments = none]
           t == [factory |-> f, source |-> [s.source EXCEPT ![m] = new], disk |-> s.disk]
<1>1. /\ s \in State /\ Mirrored(s, D) /\ Recorded(L, s, {}) /\ Fitting(L, s, {}, Nowhere, early)
      /\ Apart(s) /\ Covered(s, {})
  BY DEF Good
<1>2. /\ src \in AnySource /\ s.factory \in AnyFactory /\ s.factory.unused \in Seq(Mirrors)
      /\ s.factory.started \in SUBSET Chunks
  BY <1>1, Parts DEF AnyFactory
<1>3. t = dropMirror(s, m)
  <2> HIDE DEF new, gone, unused
  <2>1. Release(s, gone) = [factory |-> [s.factory EXCEPT !.started = S],
                            source |-> s.source, disk |-> s.disk]
    <3>1. Release(s, gone) = [s EXCEPT !.factory.started = S] BY DEF Release
    <3> HIDE DEF S
    <3> QED BY <1>1, <3>1 DEF State
  <2> DEFINE r == Release(s, gone)
  <2>2. r.factory = [s.factory EXCEPT !.started = S] /\ r.factory.unused = s.factory.unused
    BY <1>2, <2>1 DEF AnyFactory
  <2>3. [r EXCEPT !.factory.unused = unused] =
            [factory |-> f, source |-> s.source, disk |-> s.disk]
    <3>1. [r.factory EXCEPT !.unused = unused] = f BY <2>2
    <3> HIDE DEF f
    <3> QED BY <2>1, <3>1
  <2>4. [[factory |-> f, source |-> s.source, disk |-> s.disk] EXCEPT !.source[m] = new] = t
    OBVIOUS
  <2>5. t = [r EXCEPT !.factory.unused = unused, !.source[m] = new] BY <2>3, <2>4
  <2>6. unused = Append(r.factory.unused, m) BY <2>2 DEF unused
  <2> HIDE DEF t, r
  <2>7. t = [r EXCEPT !.factory.unused = Append(@, m), !.source[m] = new] BY <2>5, <2>6
  <2> QED BY <2>7 DEF dropMirror, new, r, gone
<1>4. /\ list \in Seq(AnySegment) /\ Len(list) \in Nat
      /\ \A k \in 1 .. Len(list) : <<m, k>> \in Places(s) /\ At(s, <<m, k>>) = list[k]
  BY <1>1, Parts
<1>5. stopped \in AnySource /\ stopped.used = src.used /\ ~stopped.running
      /\ kept \in Seq(AnySegment)
  BY <1>2, StoppedSource DEF AnySource
<1>6. PICK g \in [1 .. Len(kept) -> 1 .. Len(list)] :
          /\ \A i \in 1 .. Len(kept) : kept[i] = stopTransfer(list[g[i]]) /\ ~list[g[i]].finding
          /\ \A k \in 1 .. Len(list) : ~list[k].finding => \E i \in 1 .. Len(kept) : g[i] = k
  <2>1. Remains(kept, list) # {} BY <1>2, StoppedSource
  <2> HIDE DEF kept, list
  <2>2. PICK g : g \in Remains(kept, list) BY <2>1
  <2> QED BY <2>2 DEF Remains
<1> HIDE DEF stopped, list
<1>7. \A c : c \in gone <=> \E k \in 1 .. Len(list) : c \in Held(list[k])
  <2>1. \A i \in 1 .. Len(kept) : Owned(kept[i]) = Held(list[g[i]])
    <3>1. ASSUME NEW i \in 1 .. Len(kept) PROVE Owned(kept[i]) = Held(list[g[i]])
      <4>1. g[i] \in 1 .. Len(list) /\ list[g[i]] \in AnySegment BY <1>4, <1>6
      <4>2. Same(kept[i], list[g[i]]) BY <1>6, <4>1, StoppedSegments
      <4>3. ~list[g[i]].finding BY <1>6
      <4> QED BY <4>2, <4>3 DEF Same, Held, Owned
    <3> QED BY <3>1
  <2>2. \A c : c \in gone <=> \E i \in 1 .. Len(kept) : c \in Owned(kept[i])
    BY <1>5 DEF ToSet
  <2> HIDE DEF gone, kept
  <2>3. ASSUME NEW c, NEW k \in 1 .. Len(list), c \in Held(list[k]) PROVE c \in gone
    <3>1. ~list[k].finding BY <2>3 DEF Held
    <3>2. PICK i \in 1 .. Len(kept) : g[i] = k BY <1>6, <3>1
    <3> QED BY <2>1, <2>2, <2>3, <3>2
  <2>4. ASSUME NEW c \in gone PROVE \E k \in 1 .. Len(list) : c \in Held(list[k])
    BY <1>6, <2>1, <2>2
  <2> QED BY <2>3, <2>4
<1>8. b \in BOOLEAN /\ ~b /\ none \in Seq(AnySegment) /\ none = <<>> /\ Len(none) = 0 OBVIOUS
<1>9. unused \in Seq(Mirrors) /\ ToSet(unused) = ToSet(s.factory.unused) \cup {m}
  BY <1>2, NowListed
<1> HIDE DEF b, none, unused, gone
<1>10. /\ f \in AnyFactory /\ f.unused = unused /\ f.started = S
       /\ f.status = s.factory.status /\ f.file = s.factory.file
       /\ f.known = s.factory.known /\ f.sized = s.factory.sized
       /\ f.startTried = s.factory.startTried
       /\ f.findTried = s.factory.findTried /\ f.done = s.factory.done
       /\ f.finished = s.factory.finished /\ f.write = s.factory.write
       /\ f.assignTried = s.factory.assignTried
  BY <1>2, <1>9 DEF AnyFactory
<1>11. new \in AnySource /\ new.used = b /\ new.segments = none /\ new.running = stopped.running
  BY <1>5, <1>8 DEF AnySource
<1> HIDE DEF f, new
<1>12. /\ t \in State /\ t.factory = f /\ t.disk = s.disk
       /\ t.source[m] = new /\ \A y \in Mirrors : y # m => t.source[y] = s.source[y]
  BY <1>1, <1>10, <1>11, OtherMirror
<1> HIDE DEF t
<1>13. Frame(t) = Frame(s) BY <1>10, <1>12 DEF Frame, Postponed
<1>14. /\ t.disk = s.disk /\ t.factory.status = s.factory.status
       /\ t.factory.file = s.factory.file /\ t.factory.known = s.factory.known
       /\ t.factory.sized = s.factory.sized /\ t.factory.startTried = s.factory.startTried
       /\ t.factory.findTried = s.factory.findTried /\ t.factory.done = s.factory.done
       /\ t.factory.finished = s.factory.finished /\ t.factory.write = s.factory.write
       /\ Kept(L, t) = Kept(L, s)
  BY <1>13, FrameFields
<1>15. \A p \in Mirrors \X (Nat \ {0}) :
           p \in Places(t) <=> p \in Places(s) /\ p[1] # m
  <2>1. ASSUME NEW p \in Mirrors \X (Nat \ {0})
        PROVE  p \in Places(t) <=> p \in Places(s) /\ p[1] # m
    <3>1. CASE p[1] = m
      <4>1. Len(t.source[m].segments) = 0 BY <1>8, <1>11, <1>12
      <4> QED BY <3>1, <4>1 DEF Places
    <3>2. CASE p[1] # m BY <1>12, <3>2 DEF Places
    <3> QED BY <3>1, <3>2
  <2> QED BY <2>1
<1>16. ASSUME NEW p \in Places(t)
       PROVE  p \in Places(s) /\ p[1] \in Mirrors /\ p[1] # m /\ At(t, p) = At(s, p)
              /\ t.source[p[1]] = s.source[p[1]] /\ p # Nowhere
  <2>1. p \in Mirrors \X (Nat \ {0}) BY DEF Places
  <2>2. p # Nowhere BY NowhereIsNoPlace
  <2>3. p \in Places(s) /\ p[1] # m BY <1>15, <2>1
  <2> QED BY <1>12, <2>1, <2>2, <2>3 DEF At
<1>17. gone \subseteq Taken(s, {}) /\ \A p \in Places(s) : p[1] # m => Held(At(s, p)) \cap gone = {}
  <2>1. \A p \in Places(s) : Held(At(s, p)) \subseteq Taken(s, {})
    BY <1>1 DEF Fitting, Fits, Fetches
  <2>2. gone \subseteq Taken(s, {}) BY <1>4, <1>7, <2>1
  <2>3. ASSUME NEW p \in Places(s), p[1] # m, NEW c \in gone PROVE c \notin Held(At(s, p))
    <3>1. PICK k \in 1 .. Len(list) : c \in Held(list[k]) BY <1>7
    <3>2. <<m, k>> \in Places(s) /\ c \in Held(At(s, <<m, k>>)) /\ p # <<m, k>>
      BY <1>4, <2>3, <3>1
    <3> QED BY <1>1, <3>2 DEF Apart
  <2> QED BY <2>2, <2>3
<1>18. Taken(t, {}) = Taken(s, {}) \ gone BY <1>10, <1>12 DEF Taken
<1>19. Recorded(L, t, {})
  <2>1. t.factory.started = S BY <1>10, <1>12
  <2>2. s.factory.finished \subseteq t.factory.started /\ t.factory.started \subseteq s.factory.started
    BY <1>1, <1>17, <2>1 DEF Recorded, Taken
  <2> QED BY <1>1, <1>14, <2>2 DEF Recorded
<1>20. Mirrored(t, E)
  <2>1. ASSUME NEW y \in Mirrors
        PROVE  /\ t.source[y].running => /\ t.source[y].used /\ t.factory.status # "Stopped"
                                         /\ ~t.factory.startTried
               /\ ~t.source[y].used => t.source[y].segments = <<>>
               /\ t.source[y].used \/ y \in E \/ y \in ToSet(t.factory.unused)
    <3>1. CASE y = m BY <1>5, <1>8, <1>9, <1>10, <1>11, <1>12, <3>1
    <3>2. CASE y # m
      <4>1. /\ s.source[y].running => /\ s.source[y].used /\ s.factory.status # "Stopped"
                                      /\ ~s.factory.startTried
            /\ ~s.source[y].used => s.source[y].segments = <<>>
            /\ s.source[y].used \/ y \in D \/ y \in ToSet(s.factory.unused)
        BY <1>1 DEF Mirrored
      <4> QED BY <1>9, <1>10, <1>12, <1>14, <3>2, <4>1
    <3> QED BY <3>1, <3>2
  <2> QED BY <2>1 DEF Mirrored
<1> HIDE DEF E
<1> DEFINE h == [p \in Places(t) |-> p]
<1>21. h \in Origins(t, s) /\ \A p \in Places(t) : h[p] = p BY <1>16 DEF Origins
<1> HIDE DEF h
<1>22. ASSUME NEW p \in Places(t)
       PROVE  Fits(t, {}, early, p[1], At(t, p)) /\ Adds(L, t, At(t, p))
  <2>1. Fits(s, {}, early, p[1], At(s, p)) /\ Adds(L, s, At(s, p))
        /\ Held(At(s, p)) \subseteq Taken(t, {})
    BY <1>1, <1>16, <1>17, <1>18 DEF Fitting, Fits, Fetches
  <2>2. Fits(t, {}, early, p[1], At(s, p))
    BY <1>14, <1>16, <2>1 DEF Fits, Fetches, Searches, Wakes
  <2>3. Adds(L, t, At(s, p)) BY <1>14, <2>1 DEF Adds, Behind
  <2> QED BY <1>16, <2>2, <2>3
<1>23. ASSUME NEW c \in Taken(t, {}) PROVE \E p \in Places(t) : c \in Held(At(t, p))
  <2>1. PICK p \in Places(s) : c \in Held(At(s, p)) BY <1>1, <1>18 DEF Covered
  <2>2. p[1] # m
    <3>1. CASE p[1] = m
      <4>1. p[2] \in 1 .. Len(list) /\ p = <<m, p[2]>> BY <1>1, <3>1, Parts DEF list
      <4>2. At(s, p) = list[p[2]] BY <1>4, <4>1
      <4> QED BY <1>7, <1>18, <2>1, <4>1, <4>2
    <3> QED BY <3>1
  <2>3. p \in Mirrors \X (Nat \ {0}) BY DEF Places
  <2>4. p \in Places(t) BY <1>15, <2>2, <2>3
  <2> QED BY <1>16, <2>1, <2>4
<1>24. \A p \in Places(t) : /\ Held(At(t, p)) = Held(At(s, h[p]))
                            /\ At(t, p).finding = At(s, h[p]).finding
                            /\ Fits(t, {}, early, p[1], At(t, p))
                            /\ Adds(L, t, At(t, p))
  BY <1>16, <1>21, <1>22
<1>25. t \in Good(L, {}, Nowhere, early, E)
  BY <1>12, <1>19, <1>20, <1>21, <1>23, <1>24, Picked
<1>26. ~t.source[m].used BY <1>8, <1>11, <1>12
<1> QED BY <1>3, <1>12, <1>13, <1>25, <1>26 DEF E

LEMMA RemovedMirror ==
  ASSUME NEW L, NEW early, NEW D, NEW s \in Good(L, {}, Nowhere, early, D), NEW m \in Mirrors
  PROVE  LET t == removeMirror(s, m)
         IN  /\ t \in Good(L, {}, Nowhere, early, D) /\ Frame(t) = Frame(s)
             /\ s.source[m].used => t \in Good(L, {}, Nowhere, early, D \ {m})
             /\ ~t.source[m].used
             /\ OthersStay(t, s, m)
             /\ s.factory.known /\ Going(t) /\ Manned(t) => Attended(t)
<1> DEFINE E == IF s.source[m].used THEN D \ {m} ELSE D
           t == IF s.source[m].used THEN dropMirror(s, m) ELSE s
<1>1. /\ t \in Good(L, {}, Nowhere, early, E) /\ Frame(t) = Frame(s)
      /\ ~t.source[m].used
      /\ \A x \in Mirrors : x # m => t.source[x] = s.source[x]
  <2>1. CASE s.source[m].used
    <3> DEFINE u == dropMirror(s, m)
    <3>1. /\ u \in Good(L, {}, Nowhere, early, D \ {m}) /\ Frame(u) = Frame(s)
          /\ ~u.source[m].used
          /\ \A x \in Mirrors : x # m => u.source[x] = s.source[x]
      BY DroppedMirror
    <3> HIDE DEF u
    <3>2. t = u /\ E = D \ {m} BY <2>1 DEF u
    <3> QED BY <3>1, <3>2
  <2>2. CASE ~s.source[m].used BY <2>2
  <2> QED BY <2>1, <2>2
<1>2. removeMirror(s, m) =
          IF t.factory.status = "Running" /\ assignNeeded(t) /\ Used(t) # <<>>
          THEN assignSegments(t, FirstUsed(t)) ELSE t
  BY DEF removeMirror
<1> HIDE DEF t
<1>3. /\ removeMirror(s, m) \in Good(L, {}, Nowhere, early, E)
      /\ Steady(removeMirror(s, m), t)
      /\ s.factory.known /\ Going(removeMirror(s, m)) /\ Manned(removeMirror(s, m))
             => Attended(removeMirror(s, m))
  <2>1. CASE /\ removeMirror(s, m) = t
             /\ ~(t.factory.status = "Running" /\ assignNeeded(t) /\ Used(t) # <<>>)
    <3>1. Going(t) /\ Manned(t) => Attended(t)
      <4>1. SUFFICES ASSUME Going(t), Manned(t) PROVE Attended(t) OBVIOUS
      <4>2. PICK x \in Mirrors : t.source[x].used BY <4>1 DEF Manned
      <4>3. Used(t) \in Seq(Mirrors) /\ \E i \in 1 .. Len(Used(t)) : Used(t)[i] = x
        BY <4>2, UsedMirrors
      <4>4. Used(t) # <<>> BY <4>3
      <4>5. PICK i \in 1 .. Len(Used(t)) : t.source[Used(t)[i]].segments # <<>>
        BY <2>1, <4>1, <4>4 DEF Going, assignNeeded
      <4>6. Used(t)[i] \in Mirrors BY <4>3
      <4>7. t \in State BY <1>1 DEF Good
      <4> QED BY <4>5, <4>6, <4>7, FirstPlace DEF Attended
    <3> QED BY <1>1, <2>1, <3>1, SteadySteps
  <2>2. CASE removeMirror(s, m) = assignSegments(t, FirstUsed(t)) /\ Used(t) # <<>>
    <3>1. FirstUsed(t) \in Mirrors /\ t.source[FirstUsed(t)].used BY <2>2, UsedMirrors
    <3>2. t.factory.known = s.factory.known BY <1>1, FrameFields
    <3> QED BY <1>1, <2>2, <3>1, <3>2, AssignedSegments
  <2> QED BY <1>2, <2>1, <2>2
<1>4. removeMirror(s, m) \in Good(L, {}, Nowhere, early, D)
  <2>1. E \subseteq D OBVIOUS
  <2> HIDE DEF E
  <2> QED BY <1>3, <2>1, MoreOpen
<1> QED BY <1>1, <1>3, <1>4 DEF Steady, OthersStay
=============================================================================
