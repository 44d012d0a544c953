------------------------------ MODULE MmsProofs ------------------------------
(***************************************************************************)
(* What the main thread knows of an MMS download agrees with its threads,  *)
(* and what it will not fetch again is written or lost by a short read,    *)
(* for streams of any length and any number of threads.                    *)
(***************************************************************************)
EXTENDS MmsDownload, FiniteSetTheorems, SequenceTheorems, TLAPS

Maps == UNION {[D -> Nat] : D \in SUBSET (1..Total)}

Transfers ==
    [status : {"Stopped", "Running", "Aborted", "Finished"}, m_retryDownload : BOOLEAN,
     m_amountThreads : -1..Total, m_downloadedSize : Nat]
Downloads ==
    [phase : {"none", "connecting", "broken", "downloading", "ended"},
     m_amountThreads : -1..Total, m_mapEndIni : Maps, m_downloadedSize : Nat,
     m_threadList : SUBSET (1..Total), fails : Nat, successes : Nat]
ThreadStates ==
    [phase : {"connecting", "reading", "writing", "leaving"}, m_begin : Nat, behind : Nat, m_download : BOOLEAN]

(* The objects are of their types. *)
TransferOK ==
    /\ transfer \in Transfers
    /\ download \in Downloads
    /\ temp = NoTemp \/ temp \in [m_mapEndIni : Maps, m_downloadedSize : Nat]
    /\ file \subseteq Units /\ lost \subseteq Units

ThreadsOK ==
    /\ DOMAIN thread \subseteq 1..Total
    /\ thread \in [DOMAIN thread -> ThreadStates]
    /\ \A e \in DOMAIN thread :
         /\ thread[e].behind <= thread[e].m_begin /\ thread[e].m_begin <= e
         /\ thread[e].phase = "writing" => thread[e].behind < thread[e].m_begin

-----------------------------------------------------------------------------
(* What is left of the stream: parts that are disjoint and not empty. *)
Parted(map) ==
    /\ map \in Maps
    /\ \A e \in DOMAIN map : map[e] < e
    /\ \A e, g \in DOMAIN map : g < e => g <= map[e]

(* A size and the map that is saved with it tell the same. *)
Whole(d) ==
    /\ Parted(d.m_mapEndIni)
    /\ d.m_downloadedSize + Cardinality(Parts(d.m_mapEndIni)) = Total

(* What a thread has read and not written: the unit it is about to write,  *)
(* and those that its short reads have left out.                           *)
Pending(e) ==
    (thread[e].m_begin - thread[e].behind - (IF thread[e].phase = "writing" THEN 1 ELSE 0))..(thread[e].m_begin - 1)

(* A unit is on the disk or lost, or in the hands of a thread. *)
Done(u) == u \in file \cup lost \/ \E e \in DOMAIN thread : u \in Pending(e)

Written(map) == \A u \in Units \ Parts(map) : Done(u)

-----------------------------------------------------------------------------
(* The signals of the threads *)

Messages == [name : {"connected", "refused", "read", "threadEnds"}, end : 1..Total, ini : Nat]
Named(q, N) == {i \in DOMAIN q : q[i].name \in N}
Ends(q, N) == {q[i].end : i \in Named(q, N)}
ReadsOf(q, e) == {i \in DOMAIN q : q[i].name = "read" /\ q[i].end = e}
Announced(q, e) == {q[i].ini : i \in ReadsOf(q, e)}

Answers == {"connected", "refused"}

(* A thread answers once, announces its units one after the other, and     *)
(* says nothing after its end.                                             *)
InOrder(q) ==
    \A i, j \in DOMAIN q : i < j /\ q[i].end = q[j].end =>
        /\ q[i].name # "threadEnds"
        /\ ~(q[i].name \in Answers /\ q[j].name \in Answers)
        /\ q[i].name = "read" /\ q[j].name = "read" => q[i].ini < q[j].ini

(* The place from which a part is to be fetched, for all that is known. *)
Place(map, e) == IF e \in DOMAIN map THEN map[e] ELSE e

(* A thread has announced all that it has read from there on, and no more. *)
Follows(e) ==
    \E b \in Place(download.m_mapEndIni, e)..e :
        /\ e \in DOMAIN thread => b = thread[e].m_begin
        /\ Announced(signals, e) = (Place(download.m_mapEndIni, e) + 1)..b
        /\ \A u \in Place(download.m_mapEndIni, e)..(b - 1) : Done(u)

(* The threads that have not said yet whether they are connected. *)
Connecting == {e \in DOMAIN thread : thread[e].phase = "connecting"}

(* Between the start of the threads and the signal of the last one's end. *)
Downloading ==
    /\ signals \in Seq(Messages)
    /\ InOrder(signals)
    /\ download.m_threadList = DOMAIN thread \cup Ends(signals, {"threadEnds"})
    /\ DOMAIN thread \cap Ends(signals, {"threadEnds"}) = {}
    /\ \A i \in DOMAIN signals : signals[i].end \in download.m_threadList \ Connecting
    /\ \A e \in download.m_threadList : Follows(e)

Quiet ==
    /\ DOMAIN thread = {}
    /\ CASE download.phase \in {"none", "connecting"} -> signals = <<>>
         [] download.phase = "broken" ->
               \/ signals = <<Signal("brokenUrl", 0, 0), Signal("downloadEnds", 0, 0)>>
               \/ signals = <<Signal("downloadEnds", 0, 0)>>
         [] OTHER -> signals = <<Signal("downloadEnds", 0, 0)>>

(* What is saved may be resumed, once the download has ended. *)
Resumable ==
    temp # NoTemp =>
        /\ Whole(temp)
        /\ Written(temp.m_mapEndIni)
        /\ download.phase # "ended" => DOMAIN temp.m_mapEndIni # {}

Busy == download.phase \in {"downloading", "ended"} /\ ~Hangs

(* The transfer knows the end of the stream when its download does. *)
Known ==
    IF Busy
    THEN /\ Whole(download)
         /\ Written(download.m_mapEndIni)
         /\ transfer.m_downloadedSize = Total <=> download.m_downloadedSize = Total
    ELSE /\ ~transfer.m_retryDownload
         /\ transfer.m_downloadedSize = Total => transfer.status = "Finished"

MmsInv ==
    /\ TransferOK
    /\ ThreadsOK
    /\ download.phase = "downloading" => Downloading
    /\ download.phase # "downloading" => Quiet /\ Resumable
    /\ download.phase = "ended" => temp = Saved(download)
    /\ Known
    /\ transfer.status = "Finished" => Units \subseteq file \cup lost /\ download.phase = "none"

-----------------------------------------------------------------------------
(* A map of parts, and what slotRead does to it. *)

LEMMA MapType ==
  ASSUME NEW map
  PROVE  map \in Maps <=> DOMAIN map \subseteq 1..Total /\ map \in [DOMAIN map -> Nat]
<1>1. ASSUME map \in Maps PROVE DOMAIN map \subseteq 1..Total /\ map \in [DOMAIN map -> Nat]
  <2>1. PICK D \in SUBSET (1..Total) : map \in [D -> Nat] BY <1>1 DEF Maps
  <2> QED BY <2>1
<1>2. ASSUME DOMAIN map \subseteq 1..Total, map \in [DOMAIN map -> Nat] PROVE map \in Maps
  BY <1>2 DEF Maps
<1> QED BY <1>1, <1>2

LEMMA PartsAreUnits ==
  ASSUME NEW map, Parted(map)
  PROVE  /\ Parts(map) \subseteq Units
         /\ IsFiniteSet(Parts(map)) /\ Cardinality(Parts(map)) \in Nat
         /\ Cardinality(Parts(map)) = 0 <=> DOMAIN map = {}
<1>1. DOMAIN map \subseteq 1..Total /\ map \in [DOMAIN map -> Nat] BY MapType DEF Parted
<1>2. Total \in Nat BY MmsAssumption
<1>3. ASSUME NEW u \in Parts(map) PROVE u \in Units
  <2>1. PICK e \in DOMAIN map : u \in map[e]..(e - 1) BY DEF Parts
  <2>2. e \in 1..Total /\ map[e] \in Nat BY <1>1
  <2> QED BY <1>2, <2>1, <2>2 DEF Units
<1>4. IsFiniteSet(Units) BY <1>2, FS_Interval DEF Units
<1>5. IsFiniteSet(Parts(map)) BY <1>3, <1>4, FS_Subset
<1>6. ASSUME NEW e \in DOMAIN map PROVE map[e] \in Parts(map)
  <2>1. e \in 1..Total /\ map[e] \in Nat /\ map[e] < e BY <1>1 DEF Parted
  <2>2. map[e] \in map[e]..(e - 1) BY <2>1
  <2> QED BY <2>2 DEF Parts
<1>7. Parts(map) = {} <=> DOMAIN map = {} BY <1>6 DEF Parts
<1> QED BY <1>3, <1>5, <1>7, FS_CardinalityType, FS_EmptySet

LEMMA ProgressOfPart ==
  ASSUME NEW map, Parted(map), NEW e \in DOMAIN map
  PROVE  LET new == Progress(map, e, map[e] + 1)
         IN  /\ Parted(new)
             /\ DOMAIN new \subseteq DOMAIN map
             /\ map[e] \in Parts(map)
             /\ Parts(new) = Parts(map) \ {map[e]}
             /\ Place(new, e) = map[e] + 1
             /\ \A g : g # e => Place(new, g) = Place(map, g)
<1> DEFINE new == Progress(map, e, map[e] + 1)
<1>1. DOMAIN map \subseteq 1..Total /\ map \in [DOMAIN map -> Nat] BY MapType DEF Parted
<1>2. e \in 1..Total /\ map[e] \in Nat /\ map[e] < e BY <1>1 DEF Parted
<1>3. e \in Int /\ map[e] \in Int BY <1>2
<1>4. map[e] \in Parts(map)
  <2>1. map[e] \in map[e]..(e - 1) BY <1>2, <1>3
  <2> QED BY <2>1 DEF Parts
<1>5. ASSUME NEW g \in DOMAIN map, g # e, NEW u \in map[g]..(g - 1) PROVE u # map[e]
  <2>1. g \in 1..Total /\ map[g] \in Nat /\ map[g] < g BY <1>1, <1>5 DEF Parted
  <2>2. g \in Int /\ map[g] \in Int BY <2>1
  <2>3. CASE g < e
    <3>1. g <= map[e] BY <2>3, <1>5 DEF Parted
    <3> QED BY <3>1, <2>2, <1>3
  <2>4. CASE e < g
    <3>1. e <= map[g] BY <2>4, <1>5 DEF Parted
    <3> QED BY <3>1, <2>2, <1>3, <1>2
  <2> QED BY <2>2, <2>3, <2>4, <1>3, <1>5
<1>6. CASE map[e] + 1 = e
  <2>1. new = [x \in DOMAIN map \ {e} |-> map[x]] BY <1>6 DEF Progress, Restrict
  <2> HIDE DEF new
  <2>2. DOMAIN new = DOMAIN map \ {e} BY <2>1
  <2>3. \A g \in DOMAIN new : new[g] = map[g] BY <2>1, <2>2
  <2>4. new \in [DOMAIN new -> Nat] BY <1>1, <2>1, <2>2, <2>3
  <2>5. Parted(new) BY <1>1, <2>2, <2>3, <2>4, MapType DEF Parted
  <2>6. ASSUME NEW u \in Parts(new) PROVE u \in Parts(map) \ {map[e]}
    <3>1. PICK g \in DOMAIN new : u \in new[g]..(g - 1) BY DEF Parts
    <3>2. u \in map[g]..(g - 1) /\ g \in DOMAIN map /\ g # e BY <2>2, <2>3, <3>1
    <3> QED BY <1>5, <3>2 DEF Parts
  <2>7. ASSUME NEW u \in Parts(map), u # map[e] PROVE u \in Parts(new)
    <3>1. PICK g \in DOMAIN map : u \in map[g]..(g - 1) BY DEF Parts
    <3>2. g # e BY <3>1, <2>7, <1>3, <1>6
    <3>3. g \in DOMAIN new /\ new[g] = map[g] BY <2>2, <2>3, <3>2
    <3> QED BY <3>1, <3>3 DEF Parts
  <2>8. Place(new, e) = map[e] + 1 BY <2>2, <1>6 DEF Place
  <2>9. \A g : g # e => Place(new, g) = Place(map, g) BY <2>2, <2>3 DEF Place
  <2> QED BY <1>4, <2>2, <2>5, <2>6, <2>7, <2>8, <2>9 DEF new
<1>7. CASE map[e] + 1 # e
  <2>1. new = [map EXCEPT ![e] = map[e] + 1] BY <1>7 DEF Progress
  <2> HIDE DEF new
  <2>2. DOMAIN new = DOMAIN map BY <2>1
  <2>3. new[e] = map[e] + 1 /\ \A g \in DOMAIN new : g # e => new[g] = map[g] BY <2>1, <2>2
  <2>4. new \in [DOMAIN new -> Nat] BY <1>1, <1>2, <2>1, <2>2
  <2>5. \A g \in DOMAIN new : new[g] < g
    <3>1. new[e] < e BY <1>2, <1>3, <1>7, <2>3
    <3> QED BY <2>2, <2>3, <3>1 DEF Parted
  <2>6. \A g, h \in DOMAIN new : h < g => h <= new[g]
    <3>1. \A h \in DOMAIN new : h < e => h <= new[e]
      <4>1. \A h \in DOMAIN map : h < e => h <= map[e] BY DEF Parted
      <4>2. \A h \in DOMAIN map : h \in Int BY <1>1
      <4> QED BY <4>1, <4>2, <1>3, <2>2, <2>3
    <3> QED BY <2>2, <2>3, <3>1 DEF Parted
  <2>7. Parted(new) BY <1>1, <2>2, <2>4, <2>5, <2>6, MapType DEF Parted
  <2>8. ASSUME NEW u \in Parts(new) PROVE u \in Parts(map) \ {map[e]}
    <3>1. PICK g \in DOMAIN new : u \in new[g]..(g - 1) BY DEF Parts
    <3>2. CASE g = e
      <4>1. u \in map[e]..(e - 1) /\ u # map[e] BY <1>3, <2>3, <3>1, <3>2
      <4> QED BY <4>1 DEF Parts
    <3>3. CASE g # e
      <4>1. u \in map[g]..(g - 1) /\ g \in DOMAIN map BY <2>2, <2>3, <3>1, <3>3
      <4> QED BY <1>5, <3>3, <4>1 DEF Parts
    <3> QED BY <3>2, <3>3
  <2>9. ASSUME NEW u \in Parts(map), u # map[e] PROVE u \in Parts(new)
    <3>1. PICK g \in DOMAIN map : u \in map[g]..(g - 1) BY DEF Parts
    <3>2. u \in new[g]..(g - 1)
      <4>1. CASE g = e BY <4>1, <3>1, <2>3, <2>9, <1>3
      <4>2. CASE g # e BY <4>2, <3>1, <2>2, <2>3
      <4> QED BY <4>1, <4>2
    <3> QED BY <3>2, <2>2 DEF Parts
  <2>10. Place(new, e) = map[e] + 1 BY <2>2, <2>3 DEF Place
  <2>11. \A g : g # e => Place(new, g) = Place(map, g) BY <2>2, <2>3 DEF Place
  <2> QED BY <1>4, <2>2, <2>7, <2>8, <2>9, <2>10, <2>11 DEF new
<1> QED BY <1>6, <1>7

-----------------------------------------------------------------------------
(* n parts cover the stream. *)

LEMMA SplitCovers ==
  ASSUME NEW n \in 1..Total
  PROVE  /\ Parted(Split(n))
         /\ Parts(Split(n)) = Units
         /\ Cardinality(DOMAIN Split(n)) <= n
<1> DEFINE part == Total \div n
           ini(i) == (i - 1) * part
           end(i) == IF i = n THEN Total ELSE i * part
           map == Split(n)
<1>1. Total \in Nat /\ n \in Nat /\ 1 <= n /\ n <= Total BY MmsAssumption
<1>2. part \in Nat /\ part >= 1 /\ n * part <= Total BY <1>1
<1>3. ASSUME NEW i \in 1..n
      PROVE  /\ ini(i) \in Nat /\ end(i) \in Nat
             /\ ini(i) < end(i) /\ end(i) <= Total
             /\ end(i) >= i * part
  <2>1. i \in Nat /\ 1 <= i /\ i <= n BY <1>1
  <2>2. i * part <= n * part BY <1>1, <1>2, <2>1
  <2>3. i * part \in Nat /\ (i - 1) * part = i * part - part /\ part <= i * part
    BY <1>2, <2>1
  <2> QED BY <1>1, <1>2, <2>1, <2>2, <2>3
<1>4. ASSUME NEW i \in 1..n, NEW j \in 1..n, i < j PROVE end(i) <= ini(j) /\ end(i) < end(j)
  <2>1. i \in Nat /\ j \in Nat /\ i <= j - 1 /\ i # n BY <1>1, <1>4
  <2>2. i * part <= (j - 1) * part BY <1>2, <2>1
  <2>3. end(i) = i * part BY <2>1
  <2>4. end(i) <= ini(j) BY <2>2, <2>3
  <2>5. ini(j) < end(j) BY <1>3
  <2>6. ini(j) \in Nat /\ end(i) \in Nat /\ end(j) \in Nat BY <1>3
  <2> QED BY <2>4, <2>5, <2>6
<1>5. map = [e \in {end(i) : i \in 1..n} |-> ini(CHOOSE i \in 1..n : end(i) = e)] BY DEF Split
<1> HIDE DEF part, ini, end, map
<1>6. DOMAIN map = {end(i) : i \in 1..n} BY <1>5
<1>7. ASSUME NEW i \in 1..n, NEW j \in 1..n, end(i) = end(j) PROVE i = j
  <2>1. ~(i < j) /\ ~(j < i)
    <3>1. end(i) \in Nat /\ end(j) \in Nat BY <1>3
    <3> QED BY <1>4, <1>7, <3>1
  <2> QED BY <1>1, <2>1
<1>8. ASSUME NEW i \in 1..n PROVE end(i) \in DOMAIN map /\ map[end(i)] = ini(i)
  <2>1. (CHOOSE j \in 1..n : end(j) = end(i)) = i BY <1>7
  <2> QED BY <1>5, <1>6, <2>1
<1>9. ASSUME NEW e \in DOMAIN map PROVE \E i \in 1..n : e = end(i) /\ map[e] = ini(i)
  <2>1. PICK i \in 1..n : e = end(i) BY <1>6
  <2> QED BY <1>8, <2>1
<1>10. Parted(map)
  <2>1. \A e \in DOMAIN map : e \in 1..Total /\ map[e] \in Nat /\ map[e] < e
    BY <1>1, <1>3, <1>9
  <2>2. map \in [DOMAIN map -> Nat] BY <1>5, <1>6, <2>1
  <2>3. ASSUME NEW e \in DOMAIN map, NEW g \in DOMAIN map, g < e PROVE g <= map[e]
    <3>1. PICK i \in 1..n : e = end(i) /\ map[e] = ini(i) BY <1>9
    <3>2. PICK j \in 1..n : g = end(j) /\ map[g] = ini(j) BY <1>9
    <3>3. end(i) \in Nat /\ end(j) \in Nat BY <1>3
    <3>4. j < i
      <4>1. i # j BY <2>3, <3>1, <3>2, <3>3
      <4>2. ~(i < j) BY <1>4, <2>3, <3>1, <3>2, <3>3
      <4> QED BY <1>1, <4>1, <4>2
    <3> QED BY <1>4, <3>1, <3>2, <3>4
  <2> QED BY <2>1, <2>2, <2>3, MapType DEF Parted
<1>11. ASSUME NEW u \in Units PROVE u \in Parts(map)
  <2>1. u \in Nat /\ u < Total BY <1>1, <1>11 DEF Units
  <2>2. \E i \in 1..n : ini(i) <= u /\ u < end(i)
    <3>1. CASE u >= (n - 1) * part
      <4>1. n \in 1..n BY <1>1
      <4>2. ini(n) <= u /\ u < end(n) BY <2>1, <3>1 DEF ini, end
      <4> QED BY <4>1, <4>2
    <3>2. CASE u < (n - 1) * part
      <4> DEFINE i == (u \div part) + 1
      <4>1. u \div part \in Nat /\ (u \div part) * part <= u /\ u < (u \div part) * part + part
        BY <1>2, <2>1
      <4>2. i \in Nat /\ i >= 1 BY <4>1
      <4>3. (i - 1) * part <= u /\ u < i * part
        <5>1. i - 1 = u \div part BY <4>1
        <5>2. i * part = (u \div part) * part + part BY <1>2, <4>1
        <5> QED BY <4>1, <5>1, <5>2
      <4>4. i < n
        <5>1. (i - 1) * part < (n - 1) * part BY <1>1, <1>2, <2>1, <3>2, <4>2, <4>3
        <5>2. ~(n - 1 <= i - 1)
          <6> HIDE DEF i
          <6>1. SUFFICES ASSUME n - 1 <= i - 1 PROVE FALSE OBVIOUS
          <6>2. (n - 1) * part <= (i - 1) * part BY <6>1, <1>1, <1>2, <4>2
          <6> QED BY <5>1, <6>2, <1>1, <1>2, <4>2
        <5> QED BY <5>2, <1>1, <4>2
      <4>5. i \in 1..n /\ i # n BY <1>1, <4>2, <4>4
      <4>6. ini(i) <= u /\ u < end(i) BY <4>3, <4>5 DEF ini, end
      <4> QED BY <4>5, <4>6
    <3>3. (n - 1) * part \in Int BY <1>1, <1>2
    <3> QED BY <2>1, <3>1, <3>2, <3>3
  <2>3. PICK i \in 1..n : ini(i) <= u /\ u < end(i) BY <2>2
  <2>4. end(i) \in Nat /\ ini(i) \in Nat /\ end(i) \in DOMAIN map /\ map[end(i)] = ini(i) BY <1>3, <1>8
  <2>5. u \in map[end(i)]..(end(i) - 1) BY <2>1, <2>3, <2>4
  <2> QED BY <2>4, <2>5 DEF Parts
<1>12. Parts(map) = Units BY <1>10, <1>11, PartsAreUnits
<1>13. Cardinality(DOMAIN map) <= n
  <2>1. IsFiniteSet(1..n) /\ Cardinality(1..n) = n BY <1>1, FS_Interval
  <2> DEFINE f == [i \in 1..n |-> end(i)]
  <2>2. f \in Surjection(1..n, DOMAIN map) BY <1>6 DEF Surjection
  <2> HIDE DEF f
  <2>3. Cardinality(DOMAIN map) <= Cardinality(1..n) BY <2>1, <2>2, FS_Surjection
  <2> QED BY <2>1, <2>3
<1> QED BY <1>10, <1>12, <1>13 DEF map

LEMMA SplitOfNone ==
  Parted(Split(-1)) /\ DOMAIN Split(-1) = {}
<1> DEFINE end(i) == IF i = -1 THEN Total ELSE i * (Total \div (-1))
<1>1. 1..-1 = {} OBVIOUS
<1>2. DOMAIN Split(-1) = {end(i) : i \in 1..-1} BY DEF Split
<1> HIDE DEF end
<1>3. DOMAIN Split(-1) = {} BY <1>1, <1>2
<1>4. Split(-1) \in [DOMAIN Split(-1) -> Nat] BY <1>3 DEF Split
<1> QED BY <1>3, <1>4, MapType DEF Parted

-----------------------------------------------------------------------------
(* The queue of signals, when one is delivered and when one is emitted. *)

LEMMA Delivered ==
  ASSUME NEW q \in Seq(Messages), q # <<>>
  PROVE  /\ Head(q) = q[1] /\ 1 \in DOMAIN q /\ q[1] \in Messages
         /\ Tail(q) \in Seq(Messages)
         /\ \A i \in DOMAIN Tail(q) : i + 1 \in DOMAIN q /\ Tail(q)[i] = q[i + 1] /\ i \in Nat /\ i >= 1
         /\ \A i \in DOMAIN q : i # 1 => i - 1 \in DOMAIN Tail(q) /\ Tail(q)[i - 1] = q[i]
<1>1. Head(q) \in Messages /\ Tail(q) \in Seq(Messages) /\ Len(Tail(q)) = Len(q) - 1
  BY HeadTailProperties
<1>2. Len(q) \in Nat /\ Len(q) # 0 BY EmptySeq
<1>3. DOMAIN q = 1..Len(q) /\ DOMAIN Tail(q) = 1..(Len(q) - 1) BY <1>1, <1>2
<1>4. Head(q) = q[1] BY <1>2
<1>5. \A i \in 1..(Len(q) - 1) : Tail(q)[i] = q[i + 1] BY <1>2
<1> QED BY <1>1, <1>2, <1>3, <1>4, <1>5

LEMMA OrderAfterDelivery ==
  ASSUME NEW q \in Seq(Messages), q # <<>>, InOrder(q)
  PROVE  InOrder(Tail(q))
<1>1. SUFFICES ASSUME NEW i \in DOMAIN Tail(q), NEW j \in DOMAIN Tail(q), i < j, Tail(q)[i].end = Tail(q)[j].end
      PROVE  /\ Tail(q)[i].name # "threadEnds"
             /\ ~(Tail(q)[i].name \in Answers /\ Tail(q)[j].name \in Answers)
             /\ Tail(q)[i].name = "read" /\ Tail(q)[j].name = "read" => Tail(q)[i].ini < Tail(q)[j].ini
  BY DEF InOrder
<1>2. i \in Nat /\ j \in Nat /\ i + 1 \in DOMAIN q /\ j + 1 \in DOMAIN q
      /\ Tail(q)[i] = q[i + 1] /\ Tail(q)[j] = q[j + 1]
  BY Delivered
<1>3. i + 1 < j + 1 BY <1>1, <1>2
<1> QED BY <1>1, <1>2, <1>3 DEF InOrder

LEMMA EndsAfterDelivery ==
  ASSUME NEW q \in Seq(Messages), q # <<>>, NEW N
  PROVE  /\ Ends(q, N) = (IF q[1].name \in N THEN Ends(Tail(q), N) \cup {q[1].end} ELSE Ends(Tail(q), N))
         /\ \A i \in DOMAIN Tail(q) : \E j \in DOMAIN q : Tail(q)[i] = q[j]
<1>1. ASSUME NEW x \in Ends(q, N) PROVE x \in Ends(Tail(q), N) \/ (q[1].name \in N /\ x = q[1].end)
  <2>1. PICK i \in DOMAIN q : q[i].name \in N /\ q[i].end = x BY DEF Ends, Named
  <2>2. CASE i = 1 BY <2>1, <2>2
  <2>3. CASE i # 1
    <3>1. i - 1 \in DOMAIN Tail(q) /\ Tail(q)[i - 1] = q[i] BY <2>3, Delivered
    <3> QED BY <2>1, <3>1 DEF Ends, Named
  <2> QED BY <2>2, <2>3
<1>2. ASSUME NEW x \in Ends(Tail(q), N) PROVE x \in Ends(q, N)
  <2>1. PICK i \in DOMAIN Tail(q) : Tail(q)[i].name \in N /\ Tail(q)[i].end = x BY DEF Ends, Named
  <2>2. i + 1 \in DOMAIN q /\ Tail(q)[i] = q[i + 1] BY Delivered
  <2> QED BY <2>1, <2>2 DEF Ends, Named
<1>3. ASSUME q[1].name \in N PROVE q[1].end \in Ends(q, N)
  <2>1. 1 \in DOMAIN q BY Delivered
  <2> QED BY <1>3, <2>1 DEF Ends, Named
<1>4. \A i \in DOMAIN Tail(q) : \E j \in DOMAIN q : Tail(q)[i] = q[j] BY Delivered
<1> QED BY <1>1, <1>2, <1>3, <1>4

LEMMA AnnouncedAfterDelivery ==
  ASSUME NEW q \in Seq(Messages), q # <<>>, InOrder(q), NEW e
  PROVE  /\ ~(q[1].name = "read" /\ q[1].end = e) => Announced(Tail(q), e) = Announced(q, e)
         /\ q[1].name = "read" /\ q[1].end = e =>
              /\ q[1].ini \in Announced(q, e)
              /\ Announced(Tail(q), e) = Announced(q, e) \ {q[1].ini}
              /\ \A x \in Announced(q, e) : q[1].ini <= x
<1>1. ASSUME NEW x \in Announced(Tail(q), e)
      PROVE  /\ x \in Announced(q, e)
             /\ q[1].name = "read" /\ q[1].end = e => q[1].ini < x
  <2>1. PICK i \in DOMAIN Tail(q) : Tail(q)[i].name = "read" /\ Tail(q)[i].end = e /\ Tail(q)[i].ini = x
    BY DEF Announced, ReadsOf
  <2>2. i + 1 \in DOMAIN q /\ Tail(q)[i] = q[i + 1] /\ 1 < i + 1 /\ 1 \in DOMAIN q BY Delivered
  <2> QED BY <2>1, <2>2 DEF Announced, ReadsOf, InOrder
<1>2. ASSUME NEW x \in Announced(q, e)
      PROVE  x \in Announced(Tail(q), e) \/ (q[1].name = "read" /\ q[1].end = e /\ x = q[1].ini)
  <2>1. PICK i \in DOMAIN q : q[i].name = "read" /\ q[i].end = e /\ q[i].ini = x
    BY DEF Announced, ReadsOf
  <2>2. CASE i = 1 BY <2>1, <2>2
  <2>3. CASE i # 1
    <3>1. i - 1 \in DOMAIN Tail(q) /\ Tail(q)[i - 1] = q[i] BY <2>3, Delivered
    <3> QED BY <2>1, <3>1 DEF Announced, ReadsOf
  <2> QED BY <2>2, <2>3
<1>3. 1 \in DOMAIN q /\ q[1] \in Messages BY Delivered
<1>4. q[1].ini \in Nat BY <1>3 DEF Messages
<1>5. ASSUME q[1].name = "read", q[1].end = e
      PROVE  /\ q[1].ini \in Announced(q, e)
             /\ \A x \in Announced(q, e) : q[1].ini <= x
             /\ q[1].ini \notin Announced(Tail(q), e)
  <2>1. q[1].ini \in Announced(q, e) BY <1>3, <1>5 DEF Announced, ReadsOf
  <2>2. \A x \in Announced(q, e) : x \in Nat
    <3>1. \A i \in DOMAIN q : q[i] \in Messages BY ElementOfSeq
    <3> QED BY <3>1 DEF Announced, ReadsOf, Messages
  <2>3. \A x \in Announced(q, e) : q[1].ini <= x BY <1>1, <1>2, <1>4, <1>5, <2>2
  <2> QED BY <1>1, <1>4, <1>5, <2>1, <2>3
<1> QED BY <1>1, <1>2, <1>5

LEMMA Emitted ==
  ASSUME NEW q \in Seq(Messages), NEW m \in Messages, NEW r, r = Append(q, m)
  PROVE  /\ r \in Seq(Messages)
         /\ DOMAIN r = 1..(Len(q) + 1) /\ Len(q) \in Nat /\ DOMAIN q = 1..Len(q)
         /\ r[Len(q) + 1] = m
         /\ \A i \in DOMAIN q : i \in DOMAIN r /\ r[i] = q[i]
         /\ \A i \in DOMAIN r : i \in DOMAIN q \/ i = Len(q) + 1
<1>1. r \in Seq(Messages) /\ Len(r) = Len(q) + 1 /\ Len(q) \in Nat BY AppendProperties
<1>2. DOMAIN r = 1..(Len(q) + 1) /\ DOMAIN q = 1..Len(q) BY <1>1
<1>3. r[Len(q) + 1] = m /\ \A i \in DOMAIN q : i \in DOMAIN r /\ r[i] = q[i] BY <1>1, <1>2, AppendProperties
<1>4. \A i \in DOMAIN r : i \in DOMAIN q \/ i = Len(q) + 1 BY <1>1, <1>2
<1> QED BY <1>1, <1>2, <1>3, <1>4

LEMMA EndsAfterSignal ==
  ASSUME NEW q \in Seq(Messages), NEW m \in Messages, NEW N, m.name \in N
  PROVE  Ends(Append(q, m), N) = Ends(q, N) \cup {m.end}
<1> DEFINE r == Append(q, m)
<1>1. Len(q) + 1 \in DOMAIN r /\ r[Len(q) + 1] = m /\ (\A i \in DOMAIN q : i \in DOMAIN r /\ r[i] = q[i])
      /\ \A i \in DOMAIN r : i \in DOMAIN q \/ i = Len(q) + 1
  BY Emitted
<1> HIDE DEF r
<1>2. Ends(r, N) = Ends(q, N) \cup {m.end}
  BY <1>1 DEF Ends, Named
<1> QED BY <1>2 DEF r

LEMMA EndsAfterOther ==
  ASSUME NEW q \in Seq(Messages), NEW m \in Messages, NEW N, m.name \notin N
  PROVE  Ends(Append(q, m), N) = Ends(q, N)
<1> DEFINE r == Append(q, m)
<1>1. Len(q) + 1 \in DOMAIN r /\ r[Len(q) + 1] = m /\ (\A i \in DOMAIN q : i \in DOMAIN r /\ r[i] = q[i])
      /\ \A i \in DOMAIN r : i \in DOMAIN q \/ i = Len(q) + 1
  BY Emitted
<1> HIDE DEF r
<1>2. Ends(r, N) = Ends(q, N)
  BY <1>1 DEF Ends, Named
<1> QED BY <1>2 DEF r

LEMMA AnnouncedAfterSignal ==
  ASSUME NEW q \in Seq(Messages), NEW m \in Messages, NEW e, m.name = "read", m.end = e
  PROVE  Announced(Append(q, m), e) = Announced(q, e) \cup {m.ini}
<1> DEFINE r == Append(q, m)
<1>1. Len(q) + 1 \in DOMAIN r /\ r[Len(q) + 1] = m /\ (\A i \in DOMAIN q : i \in DOMAIN r /\ r[i] = q[i])
      /\ \A i \in DOMAIN r : i \in DOMAIN q \/ i = Len(q) + 1
  BY Emitted
<1> HIDE DEF r
<1>2. Announced(r, e) = Announced(q, e) \cup {m.ini}
  BY <1>1 DEF Announced, ReadsOf
<1> QED BY <1>2 DEF r

LEMMA AnnouncedAfterOther ==
  ASSUME NEW q \in Seq(Messages), NEW m \in Messages, NEW e, m.name # "read" \/ m.end # e
  PROVE  Announced(Append(q, m), e) = Announced(q, e)
<1> DEFINE r == Append(q, m)
<1>1. Len(q) + 1 \in DOMAIN r /\ r[Len(q) + 1] = m /\ (\A i \in DOMAIN q : i \in DOMAIN r /\ r[i] = q[i])
      /\ \A i \in DOMAIN r : i \in DOMAIN q \/ i = Len(q) + 1
  BY Emitted
<1> HIDE DEF r
<1>2. Announced(r, e) = Announced(q, e)
  BY <1>1 DEF Announced, ReadsOf
<1> QED BY <1>2 DEF r

LEMMA OrderAfterSignal ==
  ASSUME NEW q \in Seq(Messages), NEW m \in Messages, NEW r, r = Append(q, m), InOrder(q),
         m.end \notin Ends(q, {"threadEnds"}),
         m.name \in Answers => m.end \notin Ends(q, Answers),
         m.name = "read" => \A x \in Announced(q, m.end) : x < m.ini
  PROVE  InOrder(r)
<1>1. SUFFICES ASSUME NEW i \in DOMAIN r, NEW j \in DOMAIN r, i < j, r[i].end = r[j].end
      PROVE  /\ r[i].name # "threadEnds"
             /\ ~(r[i].name \in Answers /\ r[j].name \in Answers)
             /\ r[i].name = "read" /\ r[j].name = "read" => r[i].ini < r[j].ini
  BY DEF InOrder
<1>2. i \in DOMAIN q /\ r[i] = q[i]
  <2>1. Len(q) \in Nat /\ i \in 1..(Len(q) + 1) /\ j \in 1..(Len(q) + 1) BY Emitted
  <2>2. i \in 1..Len(q) BY <1>1, <2>1
  <2> QED BY <2>2, Emitted
<1>3. CASE j \in DOMAIN q
  <2>1. r[j] = q[j] BY <1>3, Emitted
  <2> QED BY <1>1, <1>2, <1>3, <2>1 DEF InOrder
<1>4. CASE j \notin DOMAIN q
  <2>1. r[j] = m
    <3>1. j = Len(q) + 1 BY <1>4, Emitted
    <3> QED BY <3>1, Emitted
  <2>2. q[i].end = m.end BY <1>1, <1>2, <2>1
  <2>3. q[i].name # "threadEnds" BY <1>2, <2>2 DEF Ends, Named
  <2>4. ~(q[i].name \in Answers /\ m.name \in Answers) BY <1>2, <2>2 DEF Ends, Named
  <2>5. q[i].name = "read" /\ m.name = "read" => q[i].ini < m.ini BY <1>2, <2>2 DEF Announced, ReadsOf
  <2> QED BY <1>2, <2>1, <2>3, <2>4, <2>5
<1> QED BY <1>3, <1>4

(* As many signals of reads as there are units announced *)
LEMMA AnnouncedOnce ==
  ASSUME NEW q \in Seq(Messages), InOrder(q), NEW e
  PROVE  Cardinality(ReadsOf(q, e)) = Cardinality(Announced(q, e))
<1> DEFINE f == [i \in ReadsOf(q, e) |-> q[i].ini]
<1>1. Len(q) \in Nat /\ DOMAIN q = 1..Len(q) BY EmptySeq
<1>2. IsFiniteSet(ReadsOf(q, e))
  <2>1. IsFiniteSet(1..Len(q)) BY <1>1, FS_Interval
  <2>2. ReadsOf(q, e) \subseteq 1..Len(q) BY <1>1 DEF ReadsOf
  <2> QED BY <2>1, <2>2, FS_Subset
<1>3. \A i \in DOMAIN q : q[i] \in Messages BY ElementOfSeq
<1>4. ASSUME NEW i \in ReadsOf(q, e), NEW j \in ReadsOf(q, e), q[i].ini = q[j].ini PROVE i = j
  <2>1. i \in DOMAIN q /\ j \in DOMAIN q /\ q[i].ini \in Nat /\ q[j].ini \in Nat
        /\ q[i].end = q[j].end /\ q[i].name = "read" /\ q[j].name = "read"
    BY <1>3 DEF ReadsOf, Messages
  <2>2. ~(i < j) /\ ~(j < i) BY <1>4, <2>1 DEF InOrder
  <2>3. i \in Nat /\ j \in Nat BY <1>1, <2>1
  <2> QED BY <2>2, <2>3
<1>5. f \in Bijection(ReadsOf(q, e), Announced(q, e))
  <2>1. f \in [ReadsOf(q, e) -> Announced(q, e)] BY DEF Announced
  <2>2. \A i, j \in ReadsOf(q, e) : f[i] = f[j] => i = j BY <1>4
  <2>3. \A x \in Announced(q, e) : \E i \in ReadsOf(q, e) : f[i] = x BY DEF Announced
  <2>4. DOMAIN f = ReadsOf(q, e) OBVIOUS
  <2> HIDE DEF f
  <2>5. f \in Injection(ReadsOf(q, e), Announced(q, e)) BY <2>1, <2>2, <2>4 DEF Injection, IsInjective
  <2>6. f \in Surjection(ReadsOf(q, e), Announced(q, e)) BY <2>1, <2>3 DEF Surjection
  <2> QED BY <2>5, <2>6 DEF Bijection
<1> HIDE DEF f
<1>6. ExistsBijection(ReadsOf(q, e), Announced(q, e)) BY <1>5 DEF ExistsBijection
<1> QED BY <1>2, <1>6, FS_Bijection

-----------------------------------------------------------------------------
(* The first state *)

LEMMA NothingThere ==
  /\ <<>> \in Maps
  /\ DOMAIN <<>> = {}
  /\ NoTemp \notin [m_mapEndIni : Maps, m_downloadedSize : Nat]
  /\ NoTemp.m_downloadedSize = -1
  /\ \A n \in -1..Total : \A p \in {"none", "connecting"} :
        Created(p, n) \in Downloads
<1>1. DOMAIN <<>> = {} OBVIOUS
<1>2. <<>> \in [DOMAIN <<>> -> Nat] OBVIOUS
<1>3. <<>> \in Maps BY <1>1, <1>2, MapType
<1>4. NoTemp \notin [m_mapEndIni : Maps, m_downloadedSize : Nat] BY DEF NoTemp
<1>5. NoTemp.m_downloadedSize = -1 BY DEF NoTemp
<1>6. ASSUME NEW n \in -1..Total, NEW p \in {"none", "connecting"}
      PROVE  Created(p, n) \in Downloads
  BY <1>3 DEF Created, Downloads
<1> QED BY <1>1, <1>3, <1>4, <1>5, <1>6

LEMMA InitInv ==
  ASSUME MmsInit
  PROVE  MmsInv
<1>1. Total \in Nat /\ Total # 0 /\ Threads \in 1..Total BY MmsAssumption
<1>2. TransferOK
  <2>1. transfer \in Transfers
    BY <1>1 DEF MmsInit, Transfers
  <2>2. download = Created("none", 0) BY DEF MmsInit, NoDownload
  <2>3. download \in Downloads
    BY <1>1, <2>2, NothingThere
  <2>4. temp = NoTemp /\ file \subseteq Units /\ lost \subseteq Units BY DEF MmsInit
  <2> QED BY <2>1, <2>3, <2>4 DEF TransferOK, Transfers, Downloads
<1>3. DOMAIN thread = {} /\ thread = <<>> /\ signals = <<>> BY NothingThere DEF MmsInit
<1>4. ThreadsOK BY <1>3 DEF ThreadsOK
<1>5. download.phase = "none" BY DEF MmsInit, NoDownload, Created
<1>6. Quiet BY <1>3, <1>5 DEF Quiet
<1>7. Resumable BY DEF Resumable, MmsInit
<1>8. Known BY <1>1, <1>5 DEF Known, Busy, MmsInit
<1>9. transfer.status # "Finished" BY DEF MmsInit
<1> QED BY <1>2, <1>4, <1>5, <1>6, <1>7, <1>8, <1>9 DEF MmsInv

-----------------------------------------------------------------------------
(* What is written stays so. *)

LEMMA SameDone ==
  ASSUME file \cup lost \subseteq file' \cup lost',
         \A e \in DOMAIN thread : \A u \in Pending(e) :
            u \in file' \cup lost' \/ (e \in DOMAIN thread' /\ u \in Pending(e)')
  PROVE  \A u : Done(u) => Done(u)'
BY DEF Done

LEMMA NothingDone ==
  ASSUME file' = file, lost' = lost, thread' = thread
  PROVE  \A u : Done(u) => Done(u)'
BY DEF Done, Pending

LEMMA StillResumable ==
  ASSUME Resumable, temp' = temp, \A u : Done(u) => Done(u)',
         download'.phase = "ended" \/ download.phase # "ended"
  PROVE  Resumable'
<1>1. Written(temp.m_mapEndIni) => Written(temp.m_mapEndIni)' BY DEF Written
<1> QED BY <1>1 DEF Resumable

-----------------------------------------------------------------------------
(* While no thread runs *)

LEMMA LastSignals ==
  ASSUME Quiet, signals # <<>>
  PROVE  \/ /\ download.phase = "broken" /\ Head(signals).name = "brokenUrl"
            /\ Tail(signals) = <<Signal("downloadEnds", 0, 0)>>
         \/ /\ download.phase \notin {"none", "connecting"} /\ Head(signals).name = "downloadEnds"
            /\ Tail(signals) = <<>>
<1>1. \A a, b : Head(<<a, b>>) = a /\ Tail(<<a, b>>) = <<b>> OBVIOUS
<1>2. \A a : Head(<<a>>) = a /\ Tail(<<a>>) = <<>> OBVIOUS
<1>3. Signal("brokenUrl", 0, 0).name = "brokenUrl" /\ Signal("downloadEnds", 0, 0).name = "downloadEnds"
  BY DEF Signal
<1>4. download.phase \notin {"none", "connecting"} BY DEF Quiet
<1>5. CASE signals = <<Signal("downloadEnds", 0, 0)>> BY <1>2, <1>3, <1>4, <1>5
<1>6. CASE signals = <<Signal("brokenUrl", 0, 0), Signal("downloadEnds", 0, 0)>> /\ download.phase = "broken"
  BY <1>1, <1>3, <1>6
<1> QED BY <1>4, <1>5, <1>6 DEF Quiet

LEMMA StartInv ==
  ASSUME MmsInv, Start
  PROVE  MmsInv'
<1> USE DEF MmsInv
<1>1. download.phase = "none" /\ transfer.status # "Finished" BY DEF Start
<1>2. transfer' = [transfer EXCEPT !.status = "Running"]
      /\ download' = Created("connecting", transfer.m_amountThreads)
      /\ thread' = thread /\ signals' = signals /\ file' = file /\ lost' = lost /\ temp' = temp
  BY DEF Start
<1>3. transfer.m_amountThreads \in -1..Total
  BY MmsAssumption DEF TransferOK, Transfers, Downloads
<1>4. download'.phase = "connecting" BY <1>2 DEF Created
<1>5. transfer'.status = "Running" /\ transfer'.m_retryDownload = transfer.m_retryDownload
      /\ transfer'.m_downloadedSize = transfer.m_downloadedSize
  BY <1>2 DEF TransferOK, Transfers, Downloads
<1>6. TransferOK'
  <2>1. transfer' \in Transfers
    BY <1>2 DEF TransferOK, Transfers, Downloads
  <2>2. download' \in Downloads BY <1>2, <1>3, NothingThere
  <2> QED BY <1>2, <2>1, <2>2 DEF TransferOK
<1>7. ThreadsOK' BY <1>2 DEF ThreadsOK
<1>8. Quiet' BY <1>1, <1>2, <1>4 DEF Quiet
<1>9. \A u : Done(u) => Done(u)' BY <1>2, NothingDone
<1>10. Resumable' BY <1>1, <1>2, <1>5, <1>9, StillResumable
<1>11. Known' BY <1>1, <1>4, <1>5 DEF Known, Busy
<1> QED BY <1>4, <1>5, <1>6, <1>7, <1>8, <1>10, <1>11

LEMMA BrokenUrlInv ==
  ASSUME MmsInv, BrokenUrl
  PROVE  MmsInv'
<1> USE DEF MmsInv
<1>1. download.phase = "connecting" BY DEF BrokenUrl
<1>2. download' = [download EXCEPT !.phase = "broken"]
      /\ thread' = thread /\ transfer' = transfer /\ file' = file /\ lost' = lost /\ temp' = temp
  BY DEF BrokenUrl
<1>3. signals' = <<Signal("brokenUrl", 0, 0), Signal("downloadEnds", 0, 0)>>
  BY <1>1 DEF BrokenUrl, Quiet
<1>4. TransferOK' BY <1>2 DEF TransferOK, Transfers, Downloads
<1>5. download'.phase = "broken" BY <1>2 DEF TransferOK, Transfers, Downloads
<1>6. ThreadsOK' BY <1>2 DEF ThreadsOK
<1>7. Quiet' BY <1>1, <1>2, <1>3, <1>5 DEF Quiet
<1>8. \A u : Done(u) => Done(u)' BY <1>2, NothingDone
<1>9. Resumable' BY <1>1, <1>2, <1>8, StillResumable
<1>10. Known' BY <1>1, <1>2, <1>5 DEF Known, Busy
<1> QED BY <1>1, <1>2, <1>4, <1>5, <1>6, <1>7, <1>9, <1>10

LEMMA SlotBrokenUrlInv ==
  ASSUME MmsInv, slotBrokenUrl
  PROVE  MmsInv'
<1> USE DEF MmsInv
<1>1. signals # <<>> /\ Head(signals).name = "brokenUrl" BY DEF slotBrokenUrl, Arrives
<1>2. signals' = Tail(signals) /\ transfer' = [transfer EXCEPT !.status = "Aborted"]
      /\ download' = download /\ thread' = thread /\ file' = file /\ lost' = lost /\ temp' = temp
  BY DEF slotBrokenUrl
<1>3. download.phase # "downloading"
  <2>1. SUFFICES ASSUME download.phase = "downloading" PROVE FALSE OBVIOUS
  <2>2. signals \in Seq(Messages) BY <2>1 DEF Downloading
  <2>3. Head(signals) \in Messages BY <1>1, <2>2, HeadTailProperties
  <2> QED BY <1>1, <2>3 DEF Messages
<1>4. download.phase = "broken" /\ signals' = <<Signal("downloadEnds", 0, 0)>>
  BY <1>1, <1>2, <1>3, LastSignals
<1>5. TransferOK' BY <1>2 DEF TransferOK, Transfers, Downloads
<1>6. transfer'.status = "Aborted" /\ transfer'.m_retryDownload = transfer.m_retryDownload
      /\ transfer'.m_downloadedSize = transfer.m_downloadedSize
  BY <1>2 DEF TransferOK, Transfers, Downloads
<1>7. ThreadsOK' BY <1>2 DEF ThreadsOK
<1>8. Quiet' BY <1>2, <1>3, <1>4 DEF Quiet
<1>9. \A u : Done(u) => Done(u)' BY <1>2, NothingDone
<1>10. Resumable' BY <1>2, <1>4, <1>6, <1>9, StillResumable
<1>11. Known' BY <1>2, <1>4, <1>6 DEF Known, Busy
<1> QED BY <1>2, <1>4, <1>5, <1>6, <1>7, <1>8, <1>10, <1>11

LEMMA SlotResultInv ==
  ASSUME MmsInv, slotResult
  PROVE  MmsInv'
<1> USE DEF MmsInv
<1> DEFINE restarts == transfer.m_retryDownload /\ ~IsComplete
<1>1. signals # <<>> /\ Head(signals).name = "downloadEnds" BY DEF slotResult, Arrives
<1>2. signals' = Tail(signals) /\ thread' = thread /\ file' = file /\ lost' = lost
      /\ transfer' = [transfer EXCEPT
               !.status = CASE IsComplete -> "Finished" [] restarts -> "Running" [] OTHER -> @,
               !.m_retryDownload = FALSE]
      /\ download' = (IF restarts THEN Created("connecting", transfer.m_amountThreads) ELSE NoDownload)
      /\ temp' = (IF IsComplete \/ transfer.m_retryDownload THEN NoTemp ELSE temp)
  BY DEF slotResult
<1>3. download.phase # "downloading"
  <2>1. SUFFICES ASSUME download.phase = "downloading" PROVE FALSE OBVIOUS
  <2>2. signals \in Seq(Messages) BY <2>1 DEF Downloading
  <2>3. Head(signals) \in Messages BY <1>1, <2>2, HeadTailProperties
  <2> QED BY <1>1, <2>3 DEF Messages
<1>4. download.phase \in {"broken", "ended"} /\ signals' = <<>>
  BY <1>1, <1>2, <1>3, LastSignals DEF TransferOK, Transfers, Downloads
<1>5. DOMAIN thread = {} BY <1>3 DEF Quiet
<1>6. transfer.m_amountThreads \in -1..Total /\ 0 \in -1..Total
      /\ transfer.m_downloadedSize \in Nat /\ Total \in Nat
  BY MmsAssumption DEF TransferOK, Transfers, Downloads
<1>7. download'.phase = (IF restarts THEN "connecting" ELSE "none")
  BY <1>2 DEF Created, NoDownload
<1>8. /\ transfer'.m_retryDownload = FALSE
      /\ transfer'.m_downloadedSize = transfer.m_downloadedSize
      /\ transfer'.status = (IF IsComplete THEN "Finished" ELSE IF restarts THEN "Running" ELSE transfer.status)
  BY <1>2 DEF TransferOK, Transfers, Downloads
<1>9. TransferOK'
  <2>1. transfer' \in Transfers
    BY <1>2 DEF TransferOK, Transfers, Downloads
  <2>2. download' \in Downloads
    <3>1. CASE restarts BY <3>1, <1>2, <1>6, NothingThere
    <3>2. CASE ~restarts BY <3>2, <1>2, <1>6, NothingThere DEF NoDownload
    <3> QED BY <3>1, <3>2
  <2>3. temp' = NoTemp \/ temp' \in [m_mapEndIni : Maps, m_downloadedSize : Nat] BY <1>2 DEF TransferOK, Transfers, Downloads
  <2>4. file' \subseteq Units /\ lost' \subseteq Units BY <1>2 DEF TransferOK, Transfers, Downloads
  <2> QED BY <2>1, <2>2, <2>3, <2>4 DEF TransferOK, Transfers, Downloads
<1>10. ThreadsOK' BY <1>2 DEF ThreadsOK
<1>11. Quiet' BY <1>2, <1>4, <1>5, <1>7 DEF Quiet
<1>12. \A u : Done(u) => Done(u)' BY <1>2, NothingDone
<1>13. IsComplete => download.phase = "ended" /\ Parts(download.m_mapEndIni) = {}
  <2>1. SUFFICES ASSUME IsComplete PROVE download.phase = "ended" /\ Parts(download.m_mapEndIni) = {}
    OBVIOUS
  <2>2. transfer.m_downloadedSize = Total BY <2>1 DEF IsComplete
  <2>3. transfer.status # "Finished" BY <1>4
  <2>4. Busy BY <2>2, <2>3 DEF Known
  <2>5. download.m_downloadedSize = Total /\ Whole(download) BY <2>2, <2>4 DEF Known
  <2>6. Cardinality(Parts(download.m_mapEndIni)) \in Nat BY <2>5, PartsAreUnits DEF Whole
  <2>7. Cardinality(Parts(download.m_mapEndIni)) = 0 BY <1>6, <2>5, <2>6 DEF Whole
  <2>8. Parts(download.m_mapEndIni) = {} BY <2>5, <2>7, PartsAreUnits, FS_EmptySet DEF Whole
  <2> QED BY <1>4, <2>4, <2>8 DEF Busy
<1>14. IsComplete => Units \subseteq file \cup lost
  <2>1. SUFFICES ASSUME IsComplete PROVE Units \subseteq file \cup lost OBVIOUS
  <2>2. Written(download.m_mapEndIni) BY <1>13, <2>1 DEF Known, Busy, Hangs
  <2>3. \A u \in Units : u \in file \cup lost BY <1>5, <1>13, <2>1, <2>2 DEF Written, Done
  <2> QED BY <2>3
<1>15. ~IsComplete /\ ~transfer.m_retryDownload /\ temp # NoTemp => DOMAIN temp.m_mapEndIni # {}
  <2>1. SUFFICES ASSUME ~IsComplete, temp # NoTemp, download.phase = "ended", DOMAIN temp.m_mapEndIni = {}
                 PROVE  FALSE
    BY <1>3, <1>4 DEF Resumable
  <2>2. temp = Saved(download) BY <2>1
  <2>3. DOMAIN download.m_mapEndIni = {} BY <2>1, <2>2 DEF Saved
  <2>4. Known /\ Busy BY <2>1 DEF Busy, Hangs
  <2>5. Whole(download) /\ (transfer.m_downloadedSize = Total <=> download.m_downloadedSize = Total)
    BY <2>4 DEF Known
  <2>6. Cardinality(Parts(download.m_mapEndIni)) = 0 BY <2>3, <2>5, PartsAreUnits DEF Whole
  <2>7. download.m_downloadedSize \in Nat BY DEF TransferOK, Transfers, Downloads
  <2>8. download.m_downloadedSize = Total BY <1>6, <2>5, <2>6, <2>7 DEF Whole
  <2> QED BY <2>1, <2>5, <2>8 DEF IsComplete
<1>16. Resumable'
  <2>1. SUFFICES ASSUME temp' # NoTemp
                 PROVE  /\ Whole(temp') /\ Written(temp.m_mapEndIni)'
                        /\ DOMAIN temp'.m_mapEndIni # {}
    BY DEF Resumable
  <2>2. temp' = temp /\ ~IsComplete /\ ~transfer.m_retryDownload BY <1>2, <2>1
  <2>3. Resumable /\ temp # NoTemp BY <1>3, <2>1, <2>2
  <2>4. Whole(temp) /\ Written(temp.m_mapEndIni) BY <2>2, <2>3 DEF Resumable
  <2>5. Written(temp.m_mapEndIni)' BY <1>12, <2>2, <2>4 DEF Written
  <2> QED BY <1>15, <2>2, <2>3, <2>4, <2>5
<1>17. Known'
  <2>1. download'.phase \notin {"downloading", "ended"} BY <1>7
  <2> QED BY <1>8, <2>1 DEF Known, Busy, IsComplete
<1>18. transfer'.status = "Finished" => Units \subseteq file' \cup lost' /\ download'.phase = "none"
  <2>1. transfer.status # "Finished" BY <1>4
  <2> QED BY <1>2, <1>7, <1>8, <1>14, <2>1
<1>19. download'.phase \in {"connecting", "none"} BY <1>7
<1>20. TransferOK' /\ ThreadsOK' /\ Quiet' /\ Resumable' /\ Known' BY <1>9, <1>10, <1>11, <1>16, <1>17
<1> QED BY <1>7, <1>8, <1>18, <1>19, <1>20

-----------------------------------------------------------------------------
(* The threads are started. *)

LEMMA NoSignals ==
  /\ <<>> \in Seq(Messages)
  /\ InOrder(<<>>)
  /\ \A N : Ends(<<>>, N) = {}
  /\ \A e : Announced(<<>>, e) = {}
<1>1. DOMAIN <<>> = {} OBVIOUS
<1>2. <<>> \in Seq(Messages) OBVIOUS
<1>3. InOrder(<<>>) BY <1>1 DEF InOrder
<1>4. \A N : Ends(<<>>, N) = {} BY <1>1 DEF Ends, Named
<1>5. \A e : Announced(<<>>, e) = {} BY <1>1 DEF Announced, ReadsOf
<1> QED BY <1>2, <1>3, <1>4, <1>5

LEMMA ConnectedInv ==
  ASSUME MmsInv, NEW seekable \in BOOLEAN, Connected(seekable)
  PROVE  MmsInv'
<1> USE DEF MmsInv
<1> DEFINE one == ~seekable \/ download.m_amountThreads = 0
           n == IF one THEN 1 ELSE download.m_amountThreads
           resumed == ~one /\ temp # NoTemp
           parts == IF resumed THEN temp.m_mapEndIni ELSE Split(n)
           size == IF resumed THEN temp.m_downloadedSize ELSE 0
           works == resumed \/ n # -1
<1>1. download.phase = "connecting" BY DEF Connected
<1>2. /\ download' = [download EXCEPT
               !.phase = "downloading", !.m_amountThreads = n, !.m_mapEndIni = parts,
               !.m_downloadedSize = size, !.m_threadList = DOMAIN parts]
      /\ thread' = [e \in DOMAIN parts |->
               [phase |-> "connecting", m_begin |-> parts[e], behind |-> 0, m_download |-> TRUE]]
      /\ temp' = (IF one THEN NoTemp ELSE temp)
      /\ lost' = (IF resumed THEN lost ELSE {})
      /\ transfer' = transfer /\ signals' = signals /\ file' = file
  BY DEF Connected, SizeResumed
<1>3. signals = <<>> /\ DOMAIN thread = {} BY <1>1 DEF Quiet
<1>4. Total \in Nat /\ Total # 0 BY MmsAssumption
<1>5. n \in -1..Total /\ (n # -1 => n \in 1..Total)
  <2>1. download.m_amountThreads \in -1..Total BY DEF TransferOK, Downloads
  <2>2. CASE one BY <2>2, <1>4
  <2>3. CASE ~one BY <2>1, <2>3, <1>4
  <2> QED BY <2>2, <2>3
<1>6. resumed => Whole(temp) /\ Written(temp.m_mapEndIni) /\ DOMAIN temp.m_mapEndIni # {}
                 /\ temp \in [m_mapEndIni : Maps, m_downloadedSize : Nat]
  BY <1>1 DEF Resumable, TransferOK
<1>7. Parted(parts)
  <2>1. CASE resumed BY <2>1, <1>6 DEF Whole
  <2>2. CASE ~resumed /\ n # -1 BY <2>2, <1>5, SplitCovers
  <2>3. CASE ~resumed /\ n = -1 BY <2>3, SplitOfNone
  <2> QED BY <2>1, <2>2, <2>3
<1>8. size \in Nat /\ (works => size + Cardinality(Parts(parts)) = Total)
  <2>1. CASE resumed BY <2>1, <1>6 DEF Whole
  <2>2. CASE ~resumed
    <3>1. SUFFICES ASSUME n # -1 PROVE Cardinality(Parts(parts)) = Total
      BY <1>4, <2>2
    <3>2. Parts(parts) = 0..(Total - 1) BY <2>2, <3>1, <1>5, SplitCovers DEF Units
    <3>3. Cardinality(0..(Total - 1)) = Total BY <1>4, FS_Interval
    <3> QED BY <3>2, <3>3
  <2> QED BY <2>1, <2>2
<1>9. works => \A u \in Units \ Parts(parts) : u \in file' \cup lost'
  <2>1. CASE resumed BY <2>1, <1>2, <1>3, <1>6 DEF Written, Done
  <2>2. CASE ~resumed
    <3>1. SUFFICES ASSUME n # -1 PROVE \A u \in Units \ Parts(parts) : u \in file' \cup lost' BY <2>2
    <3>2. Parts(parts) = Units BY <2>2, <3>1, <1>5, SplitCovers
    <3> QED BY <3>2
  <2> QED BY <2>1, <2>2
<1>10. parts \in Maps /\ DOMAIN parts \subseteq 1..Total
       /\ \A e \in DOMAIN parts : parts[e] \in Nat /\ parts[e] < e
  <2>1. parts \in Maps BY <1>7 DEF Parted
  <2>2. DOMAIN parts \subseteq 1..Total /\ parts \in [DOMAIN parts -> Nat] BY <2>1, MapType
  <2> QED BY <1>7, <2>1, <2>2 DEF Parted
<1>11. ~works => DOMAIN parts = {}
  <2>1. SUFFICES ASSUME ~resumed, n = -1 PROVE DOMAIN parts = {} OBVIOUS
  <2> QED BY <2>1, SplitOfNone
<1>12. temp' \in {temp, NoTemp} /\ lost' \subseteq lost BY <1>2
<1>w. works => size = 0 \/ DOMAIN parts # {} BY <1>6
<1> HIDE DEF one, n, resumed, parts, size, works
<1>p. works => DOMAIN parts # {}
  <2>1. SUFFICES ASSUME works, size = 0 PROVE DOMAIN parts # {} BY <1>w
  <2>2. Cardinality(Parts(parts)) # 0 BY <2>1, <1>4, <1>7, <1>8, PartsAreUnits
  <2> QED BY <2>2, <1>7, PartsAreUnits
<1>13. /\ download'.phase = "downloading"
       /\ download'.m_mapEndIni = parts /\ download'.m_downloadedSize = size
       /\ download'.m_threadList = DOMAIN parts
  BY <1>1, <1>2 DEF TransferOK, Downloads
<1>14. DOMAIN thread' = DOMAIN parts
       /\ \A e \in DOMAIN parts :
             thread'[e] = [phase |-> "connecting", m_begin |-> parts[e], behind |-> 0, m_download |-> TRUE]
  BY <1>2
<1>15. TransferOK'
  <2>1. download' \in Downloads
    BY <1>2, <1>5, <1>8, <1>10 DEF TransferOK, Downloads
  <2> QED BY <1>2, <1>12, <2>1 DEF TransferOK
<1>16. ThreadsOK'
  <2>1. \A e \in DOMAIN thread' :
          /\ thread'[e] \in ThreadStates
          /\ thread'[e].behind <= thread'[e].m_begin /\ thread'[e].m_begin <= e /\ thread'[e].phase # "writing"
    <3>1. SUFFICES ASSUME NEW e \in DOMAIN parts
          PROVE  /\ thread'[e] \in ThreadStates
                 /\ thread'[e].behind <= thread'[e].m_begin
                 /\ thread'[e].m_begin <= e /\ thread'[e].phase # "writing"
      BY <1>14
    <3>2. e \in Int /\ parts[e] \in Nat /\ parts[e] < e BY <1>10
    <3>3. parts[e] <= e /\ 0 <= parts[e] /\ "connecting" # "writing" BY <3>2
    <3>4. thread'[e] = [phase |-> "connecting", m_begin |-> parts[e], behind |-> 0, m_download |-> TRUE]
      BY <1>14
    <3> QED BY <3>2, <3>3, <3>4 DEF ThreadStates
  <2>2. thread' \in [DOMAIN thread' -> ThreadStates]
    BY <1>2, <1>14, <2>1
  <2> QED BY <1>10, <1>14, <2>1, <2>2 DEF ThreadsOK
<1>17. Connecting' = DOMAIN parts BY <1>14 DEF Connecting
<1>18. Downloading'
  <2>1. signals' = <<>> BY <1>2, <1>3
  <2>2. signals' \in Seq(Messages) /\ InOrder(signals') /\ \A N : Ends(signals', N) = {} BY <2>1, NoSignals
  <2>3. \A i \in DOMAIN signals' : FALSE BY <2>1, NothingThere
  <2>4. ASSUME NEW e \in DOMAIN parts PROVE Follows(e)'
    <3>1. e \in Int /\ parts[e] \in Nat /\ parts[e] < e BY <1>10
    <3>2. parts[e] \in parts[e]..e /\ (parts[e] + 1)..parts[e] = {} /\ parts[e]..(parts[e] - 1) = {} BY <3>1
    <3>3. Place(download.m_mapEndIni, e)' = parts[e] BY <1>13 DEF Place
    <3>4. Announced(signals', e) = {} BY <2>1, NoSignals
    <3>5. thread'[e].m_begin = parts[e] BY <1>14
    <3> QED BY <3>2, <3>3, <3>4, <3>5 DEF Follows
  <2> QED BY <1>13, <1>14, <2>2, <2>3, <2>4 DEF Downloading
<1>19. Known'
  <2>1. ~Busy /\ Known BY <1>1 DEF Busy
  <2>2. transfer.m_downloadedSize # Total BY <1>1, <2>1 DEF Known
  <2>3. CASE works
    <3>1. Busy' BY <1>13, <1>p, <2>3 DEF Busy, Hangs
    <3>2. Whole(download') BY <1>7, <1>8, <1>13, <2>3 DEF Whole
    <3>3. Written(download.m_mapEndIni)' BY <1>9, <1>13, <2>3 DEF Written, Done
    <3>4. download'.m_downloadedSize # Total
      <4>1. Cardinality(Parts(parts)) \in Nat /\ Cardinality(Parts(parts)) # 0 BY <1>7, <1>p, <2>3, PartsAreUnits
      <4> QED BY <1>4, <1>8, <1>13, <2>3, <4>1
    <3> QED BY <1>2, <2>2, <3>1, <3>2, <3>3, <3>4 DEF Known
  <2>4. CASE ~works
    <3>1. ~Busy' BY <1>11, <1>13, <2>4 DEF Busy, Hangs
    <3> QED BY <1>2, <2>1, <3>1 DEF Known
  <2> QED BY <2>3, <2>4
<1>20. transfer'.status # "Finished" BY <1>1, <1>2
<1> QED BY <1>13, <1>15, <1>16, <1>18, <1>19, <1>20

-----------------------------------------------------------------------------
(* While the threads run *)

LEMMA FollowsKept ==
  ASSUME NEW e, Follows(e), Announced(signals', e) = Announced(signals, e),
         Place(download.m_mapEndIni, e)' = Place(download.m_mapEndIni, e),
         e \in DOMAIN thread' => e \in DOMAIN thread /\ thread'[e].m_begin = thread[e].m_begin,
         \A u : Done(u) => Done(u)'
  PROVE  Follows(e)'
<1>1. PICK b \in Place(download.m_mapEndIni, e)..e :
        /\ e \in DOMAIN thread => b = thread[e].m_begin
        /\ Announced(signals, e) = (Place(download.m_mapEndIni, e) + 1)..b
        /\ \A u \in Place(download.m_mapEndIni, e)..(b - 1) : Done(u)
  BY DEF Follows
<1>2. b \in Place(download.m_mapEndIni, e)'..e BY <1>1
<1>3. e \in DOMAIN thread' => b = thread'[e].m_begin BY <1>1
<1>4. Announced(signals', e) = (Place(download.m_mapEndIni, e)' + 1)..b BY <1>1
<1>5. \A u \in Place(download.m_mapEndIni, e)'..(b - 1) : Done(u)' BY <1>1
<1> QED BY <1>2, <1>3, <1>4, <1>5 DEF Follows

(* What slots and threads leave of the download, when they do not announce *)
(* a unit and do not learn of one.                                         *)
LEMMA WorkKept ==
  ASSUME Known, Busy, Busy',
         download'.m_mapEndIni = download.m_mapEndIni,
         download'.m_downloadedSize = download.m_downloadedSize,
         transfer'.m_downloadedSize = transfer.m_downloadedSize,
         \A u : Done(u) => Done(u)'
  PROVE  Known'
<1>1. Whole(download') BY DEF Known, Whole
<1>2. Written(download.m_mapEndIni)' BY DEF Known, Written
<1> QED BY <1>1, <1>2 DEF Known

LEMMA ThreadStepKeeps ==
  ASSUME MmsInv, download.phase = "downloading", TransferOK', ThreadsOK', Downloading', Known',
         download'.phase = "downloading", transfer'.status # "Finished"
  PROVE  MmsInv'
BY DEF MmsInv

(* A thread says whether it is connected. *)
LEMMA RunningThread ==
  ASSUME MmsInv, NEW e \in DOMAIN thread
  PROVE  /\ download.phase = "downloading" /\ Downloading /\ Busy
         /\ transfer.status # "Finished"
         /\ e \in 1..Total /\ e \in download.m_threadList
         /\ thread[e] \in ThreadStates
         /\ e \notin Ends(signals, {"threadEnds"})
<1>1. download.phase = "downloading"
  <2>1. SUFFICES ASSUME download.phase # "downloading" PROVE FALSE OBVIOUS
  <2> QED BY <2>1 DEF MmsInv, Quiet
<1>2. Downloading BY <1>1 DEF MmsInv
<1>3. e \in download.m_threadList BY <1>2 DEF Downloading
<1> QED BY <1>1, <1>2, <1>3 DEF MmsInv, Downloading, Busy, Hangs, ThreadsOK

LEMMA ThreadConnectsInv ==
  ASSUME MmsInv, NEW e \in DOMAIN thread, NEW ok \in BOOLEAN, ThreadConnects(e, ok)
  PROVE  MmsInv'
<1> DEFINE m == Signal(IF ok THEN "connected" ELSE "refused", e, 0)
<1>1. thread[e].phase = "connecting" /\ e \in Connecting BY DEF ThreadConnects, Connecting
<1>2. /\ thread' = [thread EXCEPT ![e].phase = IF ok THEN "reading" ELSE "leaving"]
      /\ signals' = Append(signals, m)
      /\ transfer' = transfer /\ download' = download /\ file' = file /\ lost' = lost /\ temp' = temp
  BY DEF ThreadConnects
<1>3. download.phase = "downloading" /\ Downloading /\ Busy /\ transfer.status # "Finished"
      /\ e \in 1..Total /\ e \in download.m_threadList /\ e \notin Ends(signals, {"threadEnds"})
  BY RunningThread
<1>4. TransferOK /\ ThreadsOK /\ Known BY DEF MmsInv
<1>5. m \in Messages /\ m.end = e /\ m.name \in Answers /\ m.name # "read" /\ m.name # "threadEnds"
      /\ m.name = (IF ok THEN "connected" ELSE "refused")
  BY <1>3 DEF Messages, Signal, Answers
<1> HIDE DEF m
<1>6. signals \in Seq(Messages) /\ InOrder(signals) BY <1>3 DEF Downloading
<1>7. TransferOK' BY <1>2, <1>4 DEF TransferOK, Transfers, Downloads
<1>8. /\ DOMAIN thread' = DOMAIN thread
      /\ \A g \in DOMAIN thread : /\ thread'[g].m_begin = thread[g].m_begin
                                  /\ thread'[g].behind = thread[g].behind
                                  /\ g # e => thread'[g] = thread[g]
      /\ thread'[e].phase \in {"reading", "leaving"}
  <2>1. thread[e] \in ThreadStates BY RunningThread
  <2>2. thread'[e] = [thread[e] EXCEPT !.phase = IF ok THEN "reading" ELSE "leaving"] BY <1>2
  <2>3. /\ thread'[e].m_begin = thread[e].m_begin /\ thread'[e].behind = thread[e].behind
        /\ thread'[e].phase \in {"reading", "leaving"}
    BY <2>1, <2>2 DEF ThreadStates
  <2> QED BY <1>2, <2>3
<1>9. ThreadsOK'
  <2>1. thread' \in [DOMAIN thread' -> ThreadStates]
    <3>1. \A g \in DOMAIN thread : thread[g] \in ThreadStates BY <1>4 DEF ThreadsOK
    <3>2. [thread[e] EXCEPT !.phase = IF ok THEN "reading" ELSE "leaving"] \in ThreadStates
      BY <3>1 DEF ThreadStates
    <3> QED BY <1>2, <1>8, <3>1, <3>2
  <2>2. \A g \in DOMAIN thread' : /\ thread'[g].behind <= thread'[g].m_begin /\ thread'[g].m_begin <= g
                                  /\ thread'[g].phase = "writing" => thread'[g].behind < thread'[g].m_begin
    BY <1>4, <1>8 DEF ThreadsOK
  <2> QED BY <1>4, <1>8, <2>1, <2>2 DEF ThreadsOK
<1>10. \A u : Done(u) => Done(u)'
  <2>1. \A g \in DOMAIN thread : Pending(g)' = Pending(g) BY <1>1, <1>8 DEF Pending
  <2> QED BY <1>2, <1>8, <2>1, SameDone
<1>11. Connecting' = Connecting \ {e} BY <1>1, <1>8 DEF Connecting
<1>12. \A i \in DOMAIN signals : signals[i].end \in download.m_threadList \ Connecting
  BY <1>3 DEF Downloading
<1>13. \A N : e \notin Ends(signals, N) BY <1>1, <1>12 DEF Ends, Named
<1>14. InOrder(signals') BY <1>2, <1>5, <1>6, <1>13, OrderAfterSignal
<1>15. /\ signals' \in Seq(Messages)
       /\ Ends(signals', {"threadEnds"}) = Ends(signals, {"threadEnds"})
       /\ Ends(signals', Answers) = Ends(signals, Answers) \cup {e}
       /\ \A g : Announced(signals', g) = Announced(signals, g)
  <2>1. signals' \in Seq(Messages) BY <1>2, <1>5, <1>6, Emitted
  <2>2. Ends(signals', {"threadEnds"}) = Ends(signals, {"threadEnds"})
    <3>1. m.name \notin {"threadEnds"} BY <1>5
    <3> QED BY <1>2, <1>5, <1>6, <3>1, EndsAfterOther
  <2>3. Ends(signals', Answers) = Ends(signals, Answers) \cup {e} BY <1>2, <1>5, <1>6, EndsAfterSignal
  <2>4. \A g : Announced(signals', g) = Announced(signals, g)
    BY <1>2, <1>5, <1>6, AnnouncedAfterOther
  <2> QED BY <2>1, <2>2, <2>3, <2>4
<1>16. \A i \in DOMAIN signals' : signals'[i].end \in download'.m_threadList \ Connecting'
  <2>1. SUFFICES ASSUME NEW i \in DOMAIN signals'
                 PROVE  signals'[i].end \in download.m_threadList \ (Connecting \ {e})
    BY <1>2, <1>11
  <2>2. (i \in DOMAIN signals /\ signals'[i] = signals[i]) \/ signals'[i] = m BY <1>2, <1>5, <1>6, Emitted
  <2> QED BY <1>3, <1>5, <1>12, <2>2
<1>17. ASSUME NEW g \in download'.m_threadList PROVE Follows(g)'
  <2>1. Follows(g) BY <1>2, <1>3 DEF Downloading
  <2>2. Place(download.m_mapEndIni, g)' = Place(download.m_mapEndIni, g) BY <1>2
  <2> QED BY <1>8, <1>10, <1>15, <2>1, <2>2, FollowsKept
<1>20. Downloading'
  <2>1. download.m_threadList = DOMAIN thread \cup Ends(signals, {"threadEnds"})
        /\ DOMAIN thread \cap Ends(signals, {"threadEnds"}) = {}
    BY <1>3 DEF Downloading
  <2>2. download'.m_threadList = DOMAIN thread' \cup Ends(signals, {"threadEnds"})'
        /\ DOMAIN thread' \cap Ends(signals, {"threadEnds"})' = {}
    BY <1>2, <1>8, <1>15, <2>1
  <2> QED BY <1>14, <1>15, <1>16, <1>17, <2>2 DEF Downloading
<1>21. Known' BY <1>2, <1>3, <1>4, <1>10, WorkKept DEF Busy, Hangs
<1> QED BY <1>2, <1>3, <1>7, <1>9, <1>20, <1>21, ThreadStepKeeps

(* A thread reads a unit and announces it. *)
LEMMA ThreadReadsInv ==
  ASSUME MmsInv, NEW e \in DOMAIN thread, ThreadReads(e)
  PROVE  MmsInv'
<1>b. PICK b : b = thread[e].m_begin OBVIOUS
<1>p. PICK p : p = Place(download.m_mapEndIni, e) OBVIOUS
<1> DEFINE m == Signal("read", e, b + 1)
<1>1. thread[e].phase = "reading" /\ b < e BY <1>b DEF ThreadReads, GoesOn
<1>2. /\ thread' = [thread EXCEPT ![e].phase = "writing", ![e].m_begin = @ + 1]
      /\ signals' = Append(signals, m)
      /\ transfer' = transfer /\ download' = download /\ file' = file /\ lost' = lost /\ temp' = temp
  BY <1>b DEF ThreadReads
<1>3. download.phase = "downloading" /\ Downloading /\ Busy /\ transfer.status # "Finished"
      /\ e \in 1..Total /\ e \in download.m_threadList /\ e \notin Ends(signals, {"threadEnds"})
      /\ thread[e] \in ThreadStates
  BY RunningThread
<1>4. TransferOK /\ ThreadsOK /\ Known BY DEF MmsInv
<1>5. b \in Nat /\ e \in Nat /\ Total \in Nat BY <1>3, <1>b, MmsAssumption DEF ThreadStates
<1>6. m \in Messages /\ m.end = e /\ m.name = "read" /\ m.ini = b + 1
  BY <1>3, <1>5 DEF Messages, Signal
<1>7. /\ DOMAIN thread' = DOMAIN thread
      /\ \A g \in DOMAIN thread : g # e => thread'[g] = thread[g]
      /\ thread'[e].phase = "writing" /\ thread'[e].m_begin = b + 1 /\ thread'[e] \in ThreadStates
      /\ thread'[e].behind = thread[e].behind /\ thread[e].behind \in Nat /\ thread[e].behind <= b
  <2>1. thread'[e] = [thread[e] EXCEPT !.phase = "writing", !.m_begin = b + 1] BY <1>2, <1>b
  <2>2. b + 1 \in Nat BY <1>5
  <2>3. thread[e] \in [phase : {"connecting", "reading", "writing", "leaving"},
                      m_begin : Nat, behind : Nat, m_download : BOOLEAN]
    BY <1>3 DEF ThreadStates
  <2>4. thread'[e].phase = "writing" /\ thread'[e].m_begin = b + 1 /\ thread'[e].behind = thread[e].behind
    BY <2>1, <2>3
  <2>6. thread[e].behind \in Nat /\ thread[e].behind <= b BY <1>4, <1>b, <2>3 DEF ThreadsOK
  <2>5. thread'[e] \in ThreadStates BY <2>1, <2>2, <2>3 DEF ThreadStates
  <2> QED BY <1>2, <2>4, <2>5, <2>6
<1> HIDE DEF m
<1>8. signals \in Seq(Messages) /\ InOrder(signals) /\ Follows(e) BY <1>3 DEF Downloading
<1>9. TransferOK' BY <1>2, <1>4 DEF TransferOK
<1>10. ThreadsOK'
  <2>1. \A g \in DOMAIN thread' : thread'[g] \in ThreadStates BY <1>4, <1>7 DEF ThreadsOK
  <2>2. thread' \in [DOMAIN thread' -> ThreadStates] BY <1>2, <1>7, <2>1
  <2>3. b + 1 <= e /\ thread[e].behind < b + 1 /\ thread[e].behind <= b + 1 BY <1>1, <1>5, <1>7
  <2>4. \A g \in DOMAIN thread' : /\ thread'[g].behind <= thread'[g].m_begin /\ thread'[g].m_begin <= g
                                  /\ thread'[g].phase = "writing" => thread'[g].behind < thread'[g].m_begin
    BY <1>4, <1>7, <2>3 DEF ThreadsOK
  <2> QED BY <1>4, <1>7, <2>2, <2>4 DEF ThreadsOK
<1>11. (\A u : Done(u) => Done(u)') /\ Done(b)'
  <2>1. \A g \in DOMAIN thread : g # e => Pending(g)' = Pending(g) BY <1>7 DEF Pending
  <2>2. Pending(e) = (b - thread[e].behind)..(b - 1) BY <1>1, <1>5, <1>7, <1>b DEF Pending
  <2>3. Pending(e)' = (b - thread[e].behind)..b BY <1>5, <1>7 DEF Pending
  <2>4. \A u \in Pending(e) : u \in Pending(e)' BY <1>5, <1>7, <2>2, <2>3
  <2>5. b \in Pending(e)' BY <1>5, <1>7, <2>3
  <2>6. \A u : Done(u) => Done(u)' BY <1>2, <1>7, <2>1, <2>4, SameDone
  <2> QED BY <1>7, <2>5, <2>6 DEF Done
<1>12. Done(b)' BY <1>11
<1>13. Connecting' = Connecting /\ e \notin Connecting BY <1>1, <1>7 DEF Connecting
<1>14. PICK c \in p..e :
        /\ c = b
        /\ Announced(signals, e) = (p + 1)..b
        /\ \A u \in p..(b - 1) : Done(u)
  BY <1>8, <1>b, <1>p DEF Follows
<1>15. p \in Int /\ p <= b
  <2>1. p \in Int
    <3>1. download.m_mapEndIni \in Maps BY <1>4 DEF TransferOK, Downloads
    <3>2. e \in DOMAIN download.m_mapEndIni => download.m_mapEndIni[e] \in Nat BY <3>1, MapType
    <3> QED BY <1>5, <3>2, <1>p DEF Place
  <2> QED BY <1>5, <1>14, <2>1
<1>17. InOrder(signals')
  <2>1. \A x \in Announced(signals, m.end) : x < m.ini BY <1>5, <1>6, <1>14, <1>15
  <2>2. m.name \notin Answers /\ m.end \notin Ends(signals, {"threadEnds"}) BY <1>3, <1>6 DEF Answers
  <2> QED BY <1>2, <1>6, <1>8, <2>1, <2>2, OrderAfterSignal
<1>18. signals' \in Seq(Messages) BY <1>2, <1>6, <1>8, Emitted
<1>19. Ends(signals', {"threadEnds"}) = Ends(signals, {"threadEnds"})
  <2>1. m.name \notin {"threadEnds"} BY <1>6
  <2> QED BY <1>2, <1>6, <1>8, <2>1, EndsAfterOther
<1>20. Ends(signals', Answers) = Ends(signals, Answers)
  <2>1. m.name \notin Answers BY <1>6 DEF Answers
  <2> QED BY <1>2, <1>6, <1>8, <2>1, EndsAfterOther
<1>21. Announced(signals', e) = Announced(signals, e) \cup {b + 1}
  BY <1>2, <1>6, <1>8, AnnouncedAfterSignal
<1>22. \A g : g # e => Announced(signals', g) = Announced(signals, g)
  BY <1>2, <1>6, <1>8, AnnouncedAfterOther
<1>23. \A i \in DOMAIN signals' : signals'[i].end \in download'.m_threadList \ Connecting'
  <2>1. SUFFICES ASSUME NEW i \in DOMAIN signals'
                 PROVE  signals'[i].end \in download.m_threadList \ Connecting
    BY <1>2, <1>13
  <2>2. (i \in DOMAIN signals /\ signals'[i] = signals[i]) \/ signals'[i] = m BY <1>2, <1>6, <1>8, Emitted
  <2>3. \A n \in DOMAIN signals : signals[n].end \in download.m_threadList \ Connecting
    BY <1>3 DEF Downloading
  <2> QED BY <1>3, <1>6, <1>13, <2>2, <2>3
<1>24. Follows(e)'
  <2>1. b + 1 \in p..e BY <1>1, <1>5, <1>15
  <2>2. Announced(signals', e) = (p + 1)..(b + 1) BY <1>5, <1>14, <1>15, <1>21
  <2>3. ASSUME NEW u \in p..b PROVE Done(u)'
    <3>1. CASE u = b BY <3>1, <1>12
    <3>2. CASE u # b
      <4>1. u \in p..(b - 1) BY <3>2, <1>5, <1>15
      <4> QED BY <4>1, <1>11, <1>14
    <3> QED BY <3>1, <3>2
  <2>4. Place(download.m_mapEndIni, e)' = p BY <1>2, <1>p
  <2>5. (b + 1) - 1 = b BY <1>5
  <2>6. \A u \in p..((b + 1) - 1) : Done(u)' BY <2>3, <2>5
  <2> QED BY <1>7, <2>1, <2>2, <2>4, <2>6 DEF Follows
<1>25. ASSUME NEW g \in download'.m_threadList PROVE Follows(g)'
  <2>1. CASE g = e BY <2>1, <1>24
  <2>2. CASE g # e
    <3>1. Follows(g) BY <1>2, <1>3 DEF Downloading
    <3>2. Place(download.m_mapEndIni, g)' = Place(download.m_mapEndIni, g) BY <1>2
    <3>3. g \in DOMAIN thread' => g \in DOMAIN thread /\ thread'[g].m_begin = thread[g].m_begin BY <2>2, <1>7
    <3>4. Announced(signals', g) = Announced(signals, g) BY <2>2, <1>22
    <3> QED BY <1>11, <3>1, <3>2, <3>3, <3>4, FollowsKept
  <2> QED BY <2>1, <2>2
<1>28. Downloading'
  <2>1. /\ download.m_threadList = DOMAIN thread \cup Ends(signals, {"threadEnds"})
        /\ DOMAIN thread \cap Ends(signals, {"threadEnds"}) = {}
    BY <1>3 DEF Downloading
  <2>2. /\ download'.m_threadList = DOMAIN thread' \cup Ends(signals, {"threadEnds"})'
        /\ DOMAIN thread' \cap Ends(signals, {"threadEnds"})' = {}
    BY <1>2, <1>7, <1>19, <2>1
  <2> QED BY <1>17, <1>18, <1>23, <1>25, <2>2 DEF Downloading
<1>29. Known' BY <1>2, <1>3, <1>4, <1>11, WorkKept DEF Busy, Hangs
<1> QED BY <1>2, <1>3, <1>9, <1>10, <1>28, <1>29, ThreadStepKeeps

(* A thread writes what it has read. *)
LEMMA ThreadWritesInv ==
  ASSUME MmsInv, NEW e \in DOMAIN thread, NEW whole \in BOOLEAN, ThreadWrites(e, whole)
  PROVE  MmsInv'
<1>b. PICK b : b = thread[e].m_begin OBVIOUS
<1>l. PICK l : l = thread[e].behind OBVIOUS
<1>1. thread[e].phase = "writing" BY DEF ThreadWrites
<1>2. /\ thread' = [thread EXCEPT ![e].phase = "reading", ![e].behind = IF whole THEN @ ELSE @ + 1]
      /\ file' = (IF whole THEN file \cup {b - l - 1} ELSE file)
      /\ lost' = lost
      /\ transfer' = transfer /\ download' = download /\ signals' = signals /\ temp' = temp
  BY <1>b, <1>l DEF ThreadWrites
<1>3. download.phase = "downloading" /\ Downloading /\ Busy /\ transfer.status # "Finished"
      /\ e \in 1..Total /\ thread[e] \in ThreadStates
  BY RunningThread
<1>4. TransferOK /\ ThreadsOK /\ Known BY DEF MmsInv
<1>5. b \in Nat /\ l \in Nat /\ l < b /\ b <= e /\ Total \in Nat /\ e \in Nat
  BY <1>b, <1>l, <1>1, <1>3, <1>4, MmsAssumption DEF ThreadStates, ThreadsOK
<1>6. b - l - 1 \in Units BY <1>3, <1>5 DEF Units
<1>7. /\ DOMAIN thread' = DOMAIN thread
      /\ \A g \in DOMAIN thread : g # e => thread'[g] = thread[g]
      /\ thread'[e].phase = "reading" /\ thread'[e].m_begin = b
      /\ thread'[e].behind = (IF whole THEN l ELSE l + 1) /\ thread'[e] \in ThreadStates
  <2>1. thread'[e] = [thread[e] EXCEPT !.phase = "reading", !.behind = IF whole THEN l ELSE l + 1] BY <1>2, <1>l
  <2>2. (IF whole THEN l ELSE l + 1) \in Nat BY <1>5
  <2>3. /\ thread'[e].phase = "reading" /\ thread'[e].m_begin = b
        /\ thread'[e].behind = (IF whole THEN l ELSE l + 1) /\ thread'[e] \in ThreadStates
    BY <1>3, <1>b, <2>1, <2>2 DEF ThreadStates
  <2> QED BY <1>2, <2>3
<1>8. TransferOK' BY <1>2, <1>4, <1>6 DEF TransferOK
<1>9. ThreadsOK'
  <2>1. \A g \in DOMAIN thread' : thread'[g] \in ThreadStates BY <1>4, <1>7 DEF ThreadsOK
  <2>2. thread' \in [DOMAIN thread' -> ThreadStates] BY <1>2, <1>7, <2>1
  <2>3. (IF whole THEN l ELSE l + 1) <= b BY <1>5
  <2>4. \A g \in DOMAIN thread' : /\ thread'[g].behind <= thread'[g].m_begin /\ thread'[g].m_begin <= g
                                  /\ thread'[g].phase = "writing" => thread'[g].behind < thread'[g].m_begin
    BY <1>4, <1>5, <1>7, <2>3 DEF ThreadsOK
  <2> QED BY <1>4, <1>7, <2>2, <2>4 DEF ThreadsOK
<1>10. \A u : Done(u) => Done(u)'
  <2>1. \A g \in DOMAIN thread : g # e => Pending(g)' = Pending(g) BY <1>7 DEF Pending
  <2>2. Pending(e) = (b - l - 1)..(b - 1) BY <1>1, <1>b, <1>l DEF Pending
  <2>3. Pending(e)' = (b - (IF whole THEN l ELSE l + 1) - 0)..(b - 1) BY <1>7 DEF Pending
  <2>4. ASSUME NEW u \in Pending(e) PROVE u \in file' \/ u \in Pending(e)'
    <3>1. CASE whole BY <3>1, <1>2, <1>5, <2>2, <2>3
    <3>2. CASE ~whole BY <3>2, <1>5, <2>2, <2>3
    <3> QED BY <3>1, <3>2
  <2> QED BY <1>2, <1>7, <2>1, <2>4, SameDone
<1>11. Connecting' = Connecting BY <1>1, <1>7 DEF Connecting
<1>12. \A g \in DOMAIN thread : thread'[g].m_begin = thread[g].m_begin BY <1>7, <1>b
<1>13. ASSUME NEW g \in download'.m_threadList PROVE Follows(g)'
  <2>1. Follows(g) BY <1>2, <1>3 DEF Downloading
  <2>2. Place(download.m_mapEndIni, g)' = Place(download.m_mapEndIni, g) BY <1>2
  <2>3. Announced(signals', g) = Announced(signals, g) BY <1>2
  <2> QED BY <1>7, <1>10, <1>12, <2>1, <2>2, <2>3, FollowsKept
<1>14. Downloading'
  <2> QED BY <1>2, <1>3, <1>7, <1>11, <1>13 DEF Downloading
<1>15. Known' BY <1>2, <1>3, <1>4, <1>10, WorkKept DEF Busy, Hangs
<1> QED BY <1>2, <1>3, <1>8, <1>9, <1>14, <1>15, ThreadStepKeeps

(* A thread ends. *)
LEMMA ThreadEndsInv ==
  ASSUME MmsInv, NEW e \in DOMAIN thread, ThreadEnds(e)
  PROVE  MmsInv'
<1> DEFINE m == Signal("threadEnds", e, 0)
<1>1. thread[e].phase \in {"leaving", "reading"} BY DEF ThreadEnds
<1>2. /\ thread' = Restrict(thread, DOMAIN thread \ {e})
      /\ signals' = Append(signals, m)
      /\ lost' = lost \cup (thread[e].m_begin - thread[e].behind)..(thread[e].m_begin - 1)
      /\ transfer' = transfer /\ download' = download /\ file' = file /\ temp' = temp
  BY DEF ThreadEnds
<1>3. download.phase = "downloading" /\ Downloading /\ Busy /\ transfer.status # "Finished"
      /\ e \in 1..Total /\ e \in download.m_threadList /\ e \notin Ends(signals, {"threadEnds"})
  BY RunningThread
<1>4. TransferOK /\ ThreadsOK /\ Known BY DEF MmsInv
<1>5. m \in Messages /\ m.end = e /\ m.name = "threadEnds"
  BY <1>3 DEF Messages, Signal
<1>6. thread' = [g \in DOMAIN thread \ {e} |-> thread[g]] BY <1>2 DEF Restrict
<1>7. DOMAIN thread' = DOMAIN thread \ {e} /\ \A g \in DOMAIN thread' : thread'[g] = thread[g] BY <1>6
<1> HIDE DEF m
<1>8. signals \in Seq(Messages) /\ InOrder(signals) BY <1>3 DEF Downloading
<1>p. lost' = lost \cup Pending(e) /\ Pending(e) \subseteq Units
  <2>1. Pending(e) = (thread[e].m_begin - thread[e].behind)..(thread[e].m_begin - 1)
    <3>1. /\ thread[e].m_begin \in Nat /\ thread[e].behind \in Nat
      BY <1>4 DEF ThreadsOK, ThreadStates
    <3>2. Pending(e) = (thread[e].m_begin - thread[e].behind - 0)..(thread[e].m_begin - 1) BY <1>1 DEF Pending
    <3> QED BY <3>1, <3>2
  <2>2. /\ thread[e].m_begin \in Nat /\ thread[e].behind \in Nat
        /\ thread[e].behind <= thread[e].m_begin /\ thread[e].m_begin <= e /\ e <= Total /\ Total \in Nat /\ e \in Nat
    BY <1>3, <1>4, MmsAssumption DEF ThreadsOK, ThreadStates
  <2>3. \A u \in Pending(e) : u \in Units BY <2>1, <2>2 DEF Units
  <2> QED BY <1>2, <2>1, <2>3
<1>9. TransferOK' BY <1>2, <1>4, <1>p DEF TransferOK
<1>10. ThreadsOK'
  <2>1. \A g \in DOMAIN thread' : thread'[g] \in ThreadStates BY <1>4, <1>7 DEF ThreadsOK
  <2>2. thread' \in [DOMAIN thread' -> ThreadStates] BY <1>6, <1>7, <2>1
  <2> QED BY <1>4, <1>7, <2>2 DEF ThreadsOK
<1>11. \A u : Done(u) => Done(u)'
  <2>1. \A g \in DOMAIN thread : g # e => g \in DOMAIN thread' /\ Pending(g)' = Pending(g) BY <1>7 DEF Pending
  <2> QED BY <1>2, <1>p, <2>1, SameDone
<1>12. Connecting' = Connecting /\ e \notin Connecting BY <1>1, <1>7 DEF Connecting
<1>13. InOrder(signals')
  <2>1. m.name \notin Answers /\ m.name # "read" /\ m.end \notin Ends(signals, {"threadEnds"})
    BY <1>3, <1>5 DEF Answers
  <2> QED BY <1>2, <1>5, <1>8, <2>1, OrderAfterSignal
<1>14. signals' \in Seq(Messages) BY <1>2, <1>5, <1>8, Emitted
<1>15. Ends(signals', {"threadEnds"}) = Ends(signals, {"threadEnds"}) \cup {e}
  <2>1. m.name \in {"threadEnds"} BY <1>5
  <2> QED BY <1>2, <1>5, <1>8, <2>1, EndsAfterSignal
<1>16. Ends(signals', Answers) = Ends(signals, Answers)
  <2>1. m.name \notin Answers BY <1>5 DEF Answers
  <2> QED BY <1>2, <1>5, <1>8, <2>1, EndsAfterOther
<1>17. \A g : Announced(signals', g) = Announced(signals, g)
  BY <1>2, <1>5, <1>8, AnnouncedAfterOther
<1>18. \A i \in DOMAIN signals' : signals'[i].end \in download'.m_threadList \ Connecting'
  <2>1. SUFFICES ASSUME NEW i \in DOMAIN signals'
                 PROVE  signals'[i].end \in download.m_threadList \ Connecting
    BY <1>2, <1>12
  <2>2. (i \in DOMAIN signals /\ signals'[i] = signals[i]) \/ signals'[i] = m BY <1>2, <1>5, <1>8, Emitted
  <2>3. \A n \in DOMAIN signals : signals[n].end \in download.m_threadList \ Connecting
    BY <1>3 DEF Downloading
  <2> QED BY <1>3, <1>5, <1>12, <2>2, <2>3
<1>19. ASSUME NEW g \in download'.m_threadList PROVE Follows(g)'
  <2>1. Follows(g) BY <1>2, <1>3 DEF Downloading
  <2>2. Place(download.m_mapEndIni, g)' = Place(download.m_mapEndIni, g) BY <1>2
  <2>3. g \in DOMAIN thread' => g \in DOMAIN thread /\ thread'[g].m_begin = thread[g].m_begin BY <1>7
  <2> QED BY <1>11, <1>17, <2>1, <2>2, <2>3, FollowsKept
<1>22. Downloading'
  <2>1. /\ download.m_threadList = DOMAIN thread \cup Ends(signals, {"threadEnds"})
        /\ DOMAIN thread \cap Ends(signals, {"threadEnds"}) = {}
    BY <1>3 DEF Downloading
  <2>2. /\ download'.m_threadList = DOMAIN thread' \cup Ends(signals, {"threadEnds"})'
        /\ DOMAIN thread' \cap Ends(signals, {"threadEnds"})' = {}
    BY <1>2, <1>7, <1>15, <2>1
  <2> QED BY <1>13, <1>14, <1>18, <1>19, <2>2 DEF Downloading
<1>23. Known' BY <1>2, <1>3, <1>4, <1>11, WorkKept DEF Busy, Hangs
<1> QED BY <1>2, <1>3, <1>9, <1>10, <1>22, <1>23, ThreadStepKeeps

-----------------------------------------------------------------------------
(* Slots *)

(* Stopped or not, threads stay where they are. *)
LEMMA SamePlaces ==
  ASSUME ThreadsOK, stopTransfer \/ thread' = thread
  PROVE  /\ ThreadsOK'
         /\ DOMAIN thread' = DOMAIN thread
         /\ \A e \in DOMAIN thread : thread'[e].phase = thread[e].phase
            /\ thread'[e].m_begin = thread[e].m_begin /\ thread'[e].behind = thread[e].behind
         /\ Connecting' = Connecting
<1>1. CASE thread' = thread BY <1>1 DEF ThreadsOK, Connecting
<1>2. CASE stopTransfer
  <2>1. thread' = [e \in DOMAIN thread |-> [thread[e] EXCEPT !.m_download = @ /\ e \notin download.m_threadList]]
    BY <1>2 DEF stopTransfer
  <2>2. DOMAIN thread' = DOMAIN thread BY <2>1
  <2>3. ASSUME NEW e \in DOMAIN thread
        PROVE  /\ thread'[e] \in ThreadStates
               /\ thread'[e].phase = thread[e].phase
               /\ thread'[e].m_begin = thread[e].m_begin /\ thread'[e].behind = thread[e].behind
    <3>1. thread[e] \in [phase : {"connecting", "reading", "writing", "leaving"},
                         m_begin : Nat, behind : Nat, m_download : BOOLEAN]
      BY DEF ThreadsOK, ThreadStates
    <3>2. thread'[e] = [thread[e] EXCEPT !.m_download = thread[e].m_download /\ e \notin download.m_threadList]
      BY <2>1
    <3>3. (thread[e].m_download /\ e \notin download.m_threadList) \in BOOLEAN OBVIOUS
    <3>4. /\ thread'[e].phase = thread[e].phase
          /\ thread'[e].m_begin = thread[e].m_begin /\ thread'[e].behind = thread[e].behind
      BY <3>1, <3>2
    <3>5. thread'[e] \in ThreadStates BY <3>1, <3>2, <3>3 DEF ThreadStates
    <3> QED BY <3>4, <3>5
  <2>4. thread' \in [DOMAIN thread' -> ThreadStates] BY <2>1, <2>2, <2>3
  <2>5. ThreadsOK' BY <2>2, <2>3, <2>4 DEF ThreadsOK
  <2> QED BY <2>2, <2>3, <2>5 DEF Connecting
<1> QED BY <1>1, <1>2

LEMMA PlacesAreDone ==
  ASSUME DOMAIN thread' = DOMAIN thread, file' = file, lost' = lost,
         \A e \in DOMAIN thread : thread'[e].phase = thread[e].phase
            /\ thread'[e].m_begin = thread[e].m_begin /\ thread'[e].behind = thread[e].behind
  PROVE  \A u : Done(u) => Done(u)'
<1>1. \A e \in DOMAIN thread : Pending(e)' = Pending(e) BY DEF Pending
<1> QED BY <1>1, SameDone

LEMMA StopInv ==
  ASSUME MmsInv, Stop
  PROVE  MmsInv'
<1>1. /\ transfer' = [transfer EXCEPT !.status = "Stopped"]
      /\ stopTransfer
      /\ download' = download /\ signals' = signals /\ file' = file /\ lost' = lost /\ temp' = temp
  BY DEF Stop
<1>2. TransferOK /\ ThreadsOK /\ Known BY DEF MmsInv
<1>3. /\ transfer'.status = "Stopped" /\ transfer'.m_retryDownload = transfer.m_retryDownload
      /\ transfer'.m_downloadedSize = transfer.m_downloadedSize
  BY <1>1, <1>2 DEF TransferOK, Transfers
<1>4. TransferOK' BY <1>1, <1>2 DEF TransferOK, Transfers
<1>5. /\ ThreadsOK'
      /\ DOMAIN thread' = DOMAIN thread
      /\ \A e \in DOMAIN thread : thread'[e].phase = thread[e].phase
            /\ thread'[e].m_begin = thread[e].m_begin /\ thread'[e].behind = thread[e].behind
      /\ Connecting' = Connecting
  BY <1>1, <1>2, SamePlaces
<1>6. \A u : Done(u) => Done(u)' BY <1>1, <1>5, PlacesAreDone
<1>7. download.phase = "downloading" => Downloading'
  <2>1. SUFFICES ASSUME Downloading PROVE Downloading' BY DEF MmsInv
  <2>2. ASSUME NEW g \in download'.m_threadList PROVE Follows(g)'
    <3>1. Follows(g) BY <1>1, <2>1 DEF Downloading
    <3>2. Place(download.m_mapEndIni, g)' = Place(download.m_mapEndIni, g) BY <1>1
    <3>3. Announced(signals', g) = Announced(signals, g) BY <1>1
    <3> QED BY <1>5, <1>6, <3>1, <3>2, <3>3, FollowsKept
  <2> QED BY <1>1, <1>5, <2>1, <2>2 DEF Downloading
<1>8. download.phase # "downloading" => Quiet' /\ Resumable'
  <2>1. SUFFICES ASSUME Quiet, Resumable PROVE Quiet' /\ Resumable' BY DEF MmsInv
  <2>2. Quiet' BY <1>1, <1>5, <2>1 DEF Quiet
  <2>3. Resumable' BY <1>1, <1>3, <1>6, <2>1, StillResumable
  <2> QED BY <2>2, <2>3
<1>9. Known'
  <2>1. CASE Busy
    <3>1. Busy' BY <1>1, <2>1 DEF Busy, Hangs
    <3> QED BY <1>1, <1>2, <1>3, <1>6, <2>1, <3>1, WorkKept
  <2>2. CASE ~Busy
    <3>1. ~Busy' BY <1>1, <2>2 DEF Busy, Hangs
    <3>2. transfer.status # "Finished" BY DEF Stop, MayStop
    <3> QED BY <1>2, <1>3, <2>2, <3>1, <3>2 DEF Known
  <2> QED BY <2>1, <2>2
<1>10. download.phase = "ended" => temp = Saved(download) BY DEF MmsInv
<1> QED BY <1>1, <1>3, <1>4, <1>5, <1>7, <1>8, <1>9, <1>10 DEF MmsInv

LEMMA SaveTimerInv ==
  ASSUME MmsInv, SaveTimer
  PROVE  MmsInv'
<1>1. /\ download.phase = "downloading"
      /\ temp' = Saved(download)
      /\ download' = download /\ signals' = signals /\ file' = file /\ lost' = lost
      /\ thread' = thread /\ transfer' = transfer
  BY DEF SaveTimer
<1>2. TransferOK /\ ThreadsOK /\ Known /\ Downloading /\ transfer.status # "Finished" BY <1>1 DEF MmsInv
<1>3. Saved(download) \in [m_mapEndIni : Maps, m_downloadedSize : Nat]
  BY <1>2 DEF Saved, TransferOK, Downloads
<1>4. TransferOK' BY <1>1, <1>2, <1>3 DEF TransferOK
<1>5. ThreadsOK' BY <1>1, <1>2 DEF ThreadsOK
<1>6. Connecting' = Connecting BY <1>1 DEF Connecting
<1>7. \A u : Done(u) => Done(u)' BY <1>1, NothingDone
<1>8. Downloading'
  <2>1. ASSUME NEW g \in download'.m_threadList PROVE Follows(g)'
    <3>1. Follows(g) BY <1>1, <1>2 DEF Downloading
    <3>2. Place(download.m_mapEndIni, g)' = Place(download.m_mapEndIni, g) BY <1>1
    <3>3. Announced(signals', g) = Announced(signals, g) BY <1>1
    <3> QED BY <1>1, <1>7, <3>1, <3>2, <3>3, FollowsKept
  <2> QED BY <1>1, <1>2, <1>6, <2>1 DEF Downloading
<1>9. Busy' = Busy BY <1>1 DEF Busy, Hangs
<1>10. Known'
  <2>1. CASE Busy BY <1>1, <1>2, <1>7, <1>9, <2>1, WorkKept
  <2>2. CASE ~Busy BY <1>1, <1>2, <1>9, <2>2 DEF Known
  <2> QED BY <2>1, <2>2
<1> QED BY <1>1, <1>2, <1>4, <1>5, <1>8, <1>10, ThreadStepKeeps

LEMMA FirstSignal ==
  ASSUME MmsInv, signals # <<>>, Head(signals).name \in {"connected", "refused", "read", "threadEnds"}
  PROVE  /\ download.phase = "downloading" /\ Downloading /\ Busy
         /\ transfer.status # "Finished"
         /\ signals \in Seq(Messages) /\ InOrder(signals)
         /\ Head(signals) = signals[1] /\ signals[1] \in Messages /\ 1 \in DOMAIN signals
         /\ signals[1].end \in download.m_threadList /\ signals[1].end \notin Connecting
<1>1. download.phase = "downloading"
  <2>1. SUFFICES ASSUME download.phase # "downloading" PROVE FALSE OBVIOUS
  <2>2. Quiet BY <2>1 DEF MmsInv
  <2> QED BY <2>2, LastSignals
<1>2. Downloading /\ transfer.status # "Finished" BY <1>1 DEF MmsInv
<1>3. signals \in Seq(Messages) /\ InOrder(signals) BY <1>2 DEF Downloading
<1>4. Head(signals) = signals[1] /\ signals[1] \in Messages /\ 1 \in DOMAIN signals BY <1>3, Delivered
<1>5. signals[1].end \in download.m_threadList /\ signals[1].end \notin Connecting BY <1>2, <1>4 DEF Downloading
<1> QED BY <1>1, <1>2, <1>3, <1>4, <1>5 DEF Busy, Hangs

LEMMA LaterSignals ==
  ASSUME Downloading, signals # <<>>
  PROVE  /\ Tail(signals) \in Seq(Messages) /\ InOrder(Tail(signals))
         /\ \A i \in DOMAIN Tail(signals) : Tail(signals)[i].end \in download.m_threadList \ Connecting
         /\ signals[1].name = "threadEnds" =>
              \A i \in DOMAIN Tail(signals) : Tail(signals)[i].end # signals[1].end
         /\ signals[1].name \in Answers => signals[1].end \notin Ends(Tail(signals), Answers)
<1>1. signals \in Seq(Messages) /\ InOrder(signals) BY DEF Downloading
<1>2. Tail(signals) \in Seq(Messages) /\ InOrder(Tail(signals)) BY <1>1, Delivered, OrderAfterDelivery
<1>3. ASSUME NEW i \in DOMAIN Tail(signals)
      PROVE  /\ Tail(signals)[i].end \in download.m_threadList \ Connecting
             /\ signals[1].name = "threadEnds" => Tail(signals)[i].end # signals[1].end
             /\ signals[1].name \in Answers /\ Tail(signals)[i].name \in Answers
                   => Tail(signals)[i].end # signals[1].end
  <2>1. i + 1 \in DOMAIN signals /\ Tail(signals)[i] = signals[i + 1] /\ 1 < i + 1 /\ 1 \in DOMAIN signals
    BY <1>1, Delivered
  <2> QED BY <1>1, <2>1 DEF Downloading, InOrder
<1>4. signals[1].name \in Answers => signals[1].end \notin Ends(Tail(signals), Answers)
  BY <1>3 DEF Ends, Named
<1> QED BY <1>2, <1>3, <1>4

(* A thread has answered, and with the last one the download may restart. *)
LEMMA SlotIsThreadConnectedInv ==
  ASSUME MmsInv, slotIsThreadConnected
  PROVE  MmsInv'
<1> DEFINE ok == Arrives("connected")
           s == download.successes + (IF ok THEN 1 ELSE 0)
           f == download.fails + (IF ok THEN 0 ELSE 1)
           retries == f # 0 /\ f + s = download.m_amountThreads
<1>1. signals # <<>> /\ Head(signals).name \in {"connected", "refused"}
  BY DEF slotIsThreadConnected, Arrives
<1>2. /\ signals' = Tail(signals)
      /\ download' = [download EXCEPT !.successes = s, !.fails = f]
      /\ IF retries THEN restartDownload(s) ELSE transfer' = transfer /\ thread' = thread
      /\ file' = file /\ lost' = lost /\ temp' = temp
  BY DEF slotIsThreadConnected
<1>3. download.phase = "downloading" /\ Downloading /\ Busy /\ transfer.status # "Finished"
      /\ signals \in Seq(Messages) /\ InOrder(signals) /\ Head(signals) = signals[1]
      /\ signals[1] \in Messages /\ 1 \in DOMAIN signals
      /\ signals[1].end \in download.m_threadList /\ signals[1].end \notin Connecting
  BY <1>1, FirstSignal
<1>4. TransferOK /\ ThreadsOK /\ Known BY DEF MmsInv
<1>5. Total \in Nat BY MmsAssumption
<1>6. ok <=> signals[1].name = "connected" BY <1>1, <1>3 DEF Arrives
<1>7. download.successes \in Nat /\ download.fails \in Nat /\ download.m_amountThreads \in -1..Total
  BY <1>4 DEF TransferOK, Downloads
<1>8. s \in Nat /\ f \in Nat /\ s + f = download.successes + download.fails + 1 BY <1>7
<1> HIDE DEF ok, s, f
<1>10. /\ download'.phase = "downloading" /\ download'.successes = s /\ download'.fails = f
       /\ download'.m_threadList = download.m_threadList
       /\ download'.m_mapEndIni = download.m_mapEndIni
       /\ download'.m_downloadedSize = download.m_downloadedSize
       /\ download'.m_amountThreads = download.m_amountThreads
       /\ download' \in Downloads
  BY <1>2, <1>3, <1>4, <1>8 DEF TransferOK, Downloads
<1>11. stopTransfer \/ thread' = thread BY <1>2 DEF restartDownload
<1>12. /\ ThreadsOK'
       /\ DOMAIN thread' = DOMAIN thread
       /\ \A e \in DOMAIN thread : thread'[e].phase = thread[e].phase
            /\ thread'[e].m_begin = thread[e].m_begin /\ thread'[e].behind = thread[e].behind
       /\ Connecting' = Connecting
  BY <1>4, <1>11, SamePlaces
<1>13. \A u : Done(u) => Done(u)' BY <1>2, <1>12, PlacesAreDone
<1>14. /\ signals' \in Seq(Messages) /\ InOrder(signals')
       /\ \A i \in DOMAIN signals' : signals'[i].end \in download.m_threadList \ Connecting
       /\ signals[1].end \notin Ends(signals', Answers)
  <2>1. signals[1].name \in Answers BY <1>1, <1>3 DEF Answers
  <2> QED BY <1>1, <1>2, <1>3, <2>1, LaterSignals
<1>15. Ends(signals, {"threadEnds"}) = Ends(signals', {"threadEnds"})
  <2>1. signals[1].name \notin {"threadEnds"} BY <1>1, <1>3
  <2> QED BY <1>1, <1>2, <1>3, <2>1, EndsAfterDelivery
<1>16. Ends(signals, Answers) = Ends(signals', Answers) \cup {signals[1].end}
  <2>1. signals[1].name \in Answers BY <1>1, <1>3 DEF Answers
  <2> QED BY <1>1, <1>2, <1>3, <2>1, EndsAfterDelivery
<1>17. \A g : Announced(signals', g) = Announced(signals, g)
  <2>1. signals[1].name # "read" BY <1>1, <1>3
  <2> QED BY <1>1, <1>2, <1>3, <2>1, AnnouncedAfterDelivery
<1>18. ASSUME NEW g \in download'.m_threadList PROVE Follows(g)'
  <2>1. Follows(g) BY <1>3, <1>10 DEF Downloading
  <2>2. Place(download.m_mapEndIni, g)' = Place(download.m_mapEndIni, g) BY <1>10
  <2> QED BY <1>12, <1>13, <1>17, <2>1, <2>2, FollowsKept
<1>22. retries => s \in -1..Total
  <2>1. SUFFICES ASSUME retries PROVE s \in -1..Total OBVIOUS
  <2> QED BY <1>5, <1>7, <1>8, <2>1
<1>23. /\ transfer' \in Transfers
       /\ transfer'.m_downloadedSize = transfer.m_downloadedSize
       /\ transfer'.status # "Finished"
  <2>1. CASE retries
    <3>1. transfer' = [transfer EXCEPT
              !.status = IF MayStop THEN "Stopped" ELSE @,
              !.m_retryDownload = TRUE,
              !.m_amountThreads = IF s > 0 THEN s ELSE IF @ < 0 THEN @ ELSE @ - 1]
      BY <1>2, <2>1 DEF restartDownload
    <3>2. transfer.m_amountThreads \in -1..Total BY <1>4 DEF TransferOK, Transfers
    <3>3. (IF s > 0 THEN s ELSE IF transfer.m_amountThreads < 0 THEN transfer.m_amountThreads
                                ELSE transfer.m_amountThreads - 1) \in -1..Total
      BY <1>5, <1>8, <1>22, <2>1, <3>2
    <3> QED BY <1>3, <1>4, <3>1, <3>3 DEF TransferOK, Transfers
  <2>2. CASE ~retries BY <1>2, <1>3, <1>4, <2>2 DEF TransferOK
  <2> QED BY <2>1, <2>2
<1>24. TransferOK' BY <1>2, <1>4, <1>10, <1>23 DEF TransferOK
<1>25. Downloading'
  <2>1. /\ download.m_threadList = DOMAIN thread \cup Ends(signals, {"threadEnds"})
        /\ DOMAIN thread \cap Ends(signals, {"threadEnds"}) = {}
    BY <1>3 DEF Downloading
  <2>2. /\ download'.m_threadList = DOMAIN thread' \cup Ends(signals, {"threadEnds"})'
        /\ DOMAIN thread' \cap Ends(signals, {"threadEnds"})' = {}
    BY <1>10, <1>12, <1>15, <2>1
  <2>3. \A i \in DOMAIN signals' : signals'[i].end \in download'.m_threadList \ Connecting'
    BY <1>10, <1>12, <1>14
  <2> QED BY <1>14, <1>18, <2>2, <2>3 DEF Downloading
<1>26. Busy' BY <1>3, <1>10 DEF Busy, Hangs
<1>27. Known' BY <1>3, <1>4, <1>10, <1>13, <1>23, <1>26, WorkKept
<1> QED BY <1>3, <1>10, <1>12, <1>23, <1>24, <1>25, <1>27, ThreadStepKeeps

(* A unit of a thread is known to be read. *)
LEMMA SlotReadInv ==
  ASSUME MmsInv, slotRead
  PROVE  MmsInv'
<1>e. PICK e : e = signals[1].end OBVIOUS
<1>p. PICK p : p = Place(download.m_mapEndIni, e) OBVIOUS
<1>d. PICK map : map = download.m_mapEndIni OBVIOUS
<1>1. signals # <<>> /\ Head(signals).name = "read" BY DEF slotRead, Arrives
<1>3. download.phase = "downloading" /\ Downloading /\ Busy /\ transfer.status # "Finished"
      /\ signals \in Seq(Messages) /\ InOrder(signals) /\ Head(signals) = signals[1]
      /\ signals[1] \in Messages /\ 1 \in DOMAIN signals
      /\ e \in download.m_threadList /\ e \notin Connecting /\ signals[1].name = "read"
  BY <1>1, <1>e, FirstSignal
<1>4. TransferOK /\ ThreadsOK /\ Known BY DEF MmsInv
<1>5. Total \in Nat /\ e \in 1..Total BY <1>3, <1>e, MmsAssumption DEF Messages
<1>6. Whole(download) /\ Written(map) /\ Parted(map) BY <1>3, <1>4, <1>d DEF Known, Whole
<1>7. DOMAIN map \subseteq 1..Total /\ map \in [DOMAIN map -> Nat] BY <1>6, MapType DEF Parted
<1>8. p \in Nat
  <2>1. p = (IF e \in DOMAIN map THEN map[e] ELSE e) BY <1>p, <1>d DEF Place
  <2> QED BY <1>5, <1>7, <2>1
<1>9. PICK b \in p..e :
        /\ e \in DOMAIN thread => b = thread[e].m_begin
        /\ Announced(signals, e) = (p + 1)..b
        /\ \A u \in p..(b - 1) : Done(u)
  BY <1>3, <1>p DEF Downloading, Follows
<1>10. b \in Int /\ p < b /\ b <= e /\ signals[1].ini = p + 1 /\ Announced(Tail(signals), e) = (p + 2)..b
  <2>1. /\ signals[1].ini \in Announced(signals, e)
        /\ Announced(Tail(signals), e) = Announced(signals, e) \ {signals[1].ini}
        /\ \A x \in Announced(signals, e) : signals[1].ini <= x
    BY <1>1, <1>3, <1>e, AnnouncedAfterDelivery
  <2>2. b \in Int /\ b <= e BY <1>5, <1>8, <1>9
  <2>3. signals[1].ini \in (p + 1)..b BY <1>9, <2>1
  <2>4. p < b /\ p + 1 \in (p + 1)..b BY <1>8, <2>2, <2>3
  <2>5. signals[1].ini <= p + 1 BY <1>9, <2>1, <2>4
  <2>6. signals[1].ini = p + 1 BY <1>8, <2>2, <2>3, <2>5
  <2>7. ((p + 1)..b) \ {p + 1} = (p + 2)..b BY <1>8, <2>2
  <2> QED BY <1>9, <2>1, <2>2, <2>4, <2>6, <2>7
<1>11. e \in DOMAIN map /\ map[e] = p
  <2>1. p = (IF e \in DOMAIN map THEN map[e] ELSE e) BY <1>p, <1>d DEF Place
  <2>2. p # e BY <1>5, <1>8, <1>10
  <2> QED BY <2>1, <2>2
<1>12. PICK new : new = Progress(map, e, p + 1) OBVIOUS
<1>13. /\ Parted(new)
       /\ DOMAIN new \subseteq DOMAIN map
       /\ p \in Parts(map)
       /\ Parts(new) = Parts(map) \ {p}
       /\ Place(new, e) = p + 1
       /\ \A g : g # e => Place(new, g) = Place(map, g)
  BY <1>6, <1>11, <1>12, ProgressOfPart
<1>14. /\ download' = [download EXCEPT !.m_mapEndIni = new, !.m_downloadedSize = @ + 1]
       /\ signals' = Tail(signals)
       /\ transfer' = [transfer EXCEPT !.m_downloadedSize = download'.m_downloadedSize]
       /\ thread' = thread /\ file' = file /\ lost' = lost /\ temp' = temp
  BY <1>3, <1>10, <1>12, <1>d, <1>e DEF slotRead
<1>15. download.m_downloadedSize \in Nat BY <1>4 DEF TransferOK, Downloads
<1>16. /\ download'.phase = "downloading"
       /\ download'.m_mapEndIni = new /\ download'.m_downloadedSize = download.m_downloadedSize + 1
       /\ download'.m_threadList = download.m_threadList
       /\ download' \in Downloads
  <2>1. new \in Maps BY <1>13 DEF Parted
  <2>2. download.m_downloadedSize + 1 \in Nat BY <1>15
  <2> QED BY <1>3, <1>4, <1>14, <2>1, <2>2 DEF TransferOK, Downloads
<1>17. /\ transfer' \in Transfers
       /\ transfer'.m_downloadedSize = download'.m_downloadedSize
       /\ transfer'.status = transfer.status
  <2>1. download'.m_downloadedSize \in Nat BY <1>15, <1>16
  <2> QED BY <1>4, <1>14, <2>1 DEF TransferOK, Transfers
<1>18. TransferOK' BY <1>4, <1>14, <1>16, <1>17 DEF TransferOK
<1>19. ThreadsOK' BY <1>4, <1>14 DEF ThreadsOK
<1>20. \A u : Done(u) => Done(u)' BY <1>14, NothingDone
<1>21. Connecting' = Connecting BY <1>14 DEF Connecting
<1>22. /\ signals' \in Seq(Messages) /\ InOrder(signals')
       /\ \A i \in DOMAIN signals' : signals'[i].end \in download.m_threadList \ Connecting
  BY <1>1, <1>3, <1>14, LaterSignals
<1>23. Ends(signals, {"threadEnds"}) = Ends(signals', {"threadEnds"})
  <2>1. signals[1].name \notin {"threadEnds"} BY <1>3
  <2> QED BY <1>1, <1>3, <1>14, <2>1, EndsAfterDelivery
<1>26. Follows(e)'
  <2>1. Place(download.m_mapEndIni, e)' = p + 1 BY <1>13, <1>16
  <2>2. b \in (p + 1)..e /\ (p + 1) + 1 = p + 2 BY <1>5, <1>8, <1>10
  <2>3. Announced(signals', e) = ((p + 1) + 1)..b BY <1>10, <1>14, <2>2
  <2>4. \A u \in (p + 1)..(b - 1) : Done(u)'
    <3>1. \A u \in (p + 1)..(b - 1) : u \in p..(b - 1) BY <1>8, <1>10
    <3> QED BY <1>9, <1>20, <3>1
  <2>5. e \in DOMAIN thread' => b = thread'[e].m_begin BY <1>9, <1>14
  <2> QED BY <2>1, <2>2, <2>3, <2>4, <2>5 DEF Follows
<1>27. ASSUME NEW g \in download'.m_threadList PROVE Follows(g)'
  <2>1. CASE g = e BY <2>1, <1>26
  <2>2. CASE g # e
    <3>1. Follows(g) BY <1>3, <1>16 DEF Downloading
    <3>2. Place(download.m_mapEndIni, g)' = Place(download.m_mapEndIni, g) BY <2>2, <1>13, <1>16, <1>d
    <3>3. Announced(signals', g) = Announced(signals, g)
      <4>1. ~(signals[1].name = "read" /\ signals[1].end = g) BY <2>2, <1>e
      <4> QED BY <1>1, <1>3, <1>14, <4>1, AnnouncedAfterDelivery
    <3> QED BY <1>14, <1>20, <3>1, <3>2, <3>3, FollowsKept
  <2> QED BY <2>1, <2>2
<1>28. Downloading'
  <2>1. /\ download.m_threadList = DOMAIN thread \cup Ends(signals, {"threadEnds"})
        /\ DOMAIN thread \cap Ends(signals, {"threadEnds"}) = {}
    BY <1>3 DEF Downloading
  <2>2. /\ download'.m_threadList = DOMAIN thread' \cup Ends(signals, {"threadEnds"})'
        /\ DOMAIN thread' \cap Ends(signals, {"threadEnds"})' = {}
    BY <1>14, <1>16, <1>23, <2>1
  <2>3. \A i \in DOMAIN signals' : signals'[i].end \in download'.m_threadList \ Connecting'
    BY <1>16, <1>21, <1>22
  <2> QED BY <1>22, <1>27, <2>2, <2>3 DEF Downloading
<1>29. Known'
  <2>1. Whole(download')
    <3>1. IsFiniteSet(Parts(map)) /\ Cardinality(Parts(map)) \in Nat BY <1>6, PartsAreUnits
    <3>2. Cardinality(Parts(new)) = Cardinality(Parts(map)) - 1 BY <1>13, <3>1, FS_RemoveElement
    <3>3. download.m_downloadedSize + Cardinality(Parts(map)) = Total BY <1>6, <1>d DEF Whole
    <3>4. (download.m_downloadedSize + 1) + Cardinality(Parts(new)) = Total BY <1>5, <1>15, <3>1, <3>2, <3>3
    <3> QED BY <1>13, <1>16, <3>4 DEF Whole
  <2>2. Written(download.m_mapEndIni)'
    <3>1. p \in p..(b - 1) BY <1>8, <1>10
    <3>2. Done(p)' BY <1>9, <1>20, <3>1
    <3>3. \A u \in Units \ Parts(new) : Done(u)' BY <1>6, <1>13, <1>20, <3>2 DEF Written
    <3> QED BY <1>16, <3>3 DEF Written
  <2>3. Busy' BY <1>3, <1>16 DEF Busy, Hangs
  <2> QED BY <1>3, <1>4, <1>16, <1>17, <2>1, <2>2, <2>3 DEF Known
<1> QED BY <1>3, <1>16, <1>17, <1>18, <1>19, <1>28, <1>29, ThreadStepKeeps

(* A thread is known to have ended, and with the last one the download has. *)
LEMMA SlotThreadFinishInv ==
  ASSUME MmsInv, slotThreadFinish
  PROVE  MmsInv'
<1>e. PICK e : e = signals[1].end OBVIOUS
<1>1. signals # <<>> /\ Head(signals).name = "threadEnds" BY DEF slotThreadFinish, Arrives
<1>2. download.phase = "downloading" /\ Downloading /\ Busy /\ transfer.status # "Finished"
      /\ signals \in Seq(Messages) /\ InOrder(signals) /\ Head(signals) = signals[1]
      /\ signals[1] \in Messages /\ 1 \in DOMAIN signals
      /\ e \in download.m_threadList /\ e \notin Connecting /\ signals[1].name = "threadEnds"
  BY <1>1, <1>e, FirstSignal
<1>3. TransferOK /\ ThreadsOK /\ Known BY DEF MmsInv
<1>4. /\ download' = [download EXCEPT !.m_threadList = @ \ {e}, !.phase = IF IsLast(e) THEN "ended" ELSE @]
      /\ signals' = Tail(signals) \o (IF IsLast(e) THEN <<Signal("downloadEnds", 0, 0)>> ELSE <<>>)
      /\ temp' = (IF IsLast(e) THEN Saved(download) ELSE temp)
      /\ transfer' = transfer /\ thread' = thread /\ file' = file /\ lost' = lost
  BY <1>2, <1>e DEF slotThreadFinish
<1>5. /\ download'.phase = (IF IsLast(e) THEN "ended" ELSE "downloading")
      /\ download'.m_threadList = download.m_threadList \ {e}
      /\ download'.m_mapEndIni = download.m_mapEndIni
      /\ download'.m_downloadedSize = download.m_downloadedSize
      /\ download' \in Downloads
  BY <1>2, <1>3, <1>4 DEF TransferOK, Downloads
<1>6. Saved(download) \in [m_mapEndIni : Maps, m_downloadedSize : Nat]
  BY <1>3 DEF Saved, TransferOK, Downloads
<1>7. TransferOK' BY <1>3, <1>4, <1>5, <1>6 DEF TransferOK
<1>8. ThreadsOK' BY <1>3, <1>4 DEF ThreadsOK
<1>9. \A u : Done(u) => Done(u)' BY <1>4, NothingDone
<1>10. Busy' BY <1>2, <1>5 DEF Busy, Hangs, IsLast
<1>11. Known' BY <1>2, <1>3, <1>4, <1>5, <1>9, <1>10, WorkKept
<1>12. /\ Tail(signals) \in Seq(Messages) /\ InOrder(Tail(signals))
       /\ \A i \in DOMAIN Tail(signals) : Tail(signals)[i].end \in (download.m_threadList \ {e}) \ Connecting
  BY <1>1, <1>2, <1>e, LaterSignals
<1>13. /\ download.m_threadList = DOMAIN thread \cup Ends(signals, {"threadEnds"})
       /\ DOMAIN thread \cap Ends(signals, {"threadEnds"}) = {}
  BY <1>2 DEF Downloading
<1>14. Ends(signals, {"threadEnds"}) = Ends(Tail(signals), {"threadEnds"}) \cup {e}
  <2>1. signals[1].name \in {"threadEnds"} BY <1>2
  <2> QED BY <1>1, <1>2, <1>e, <2>1, EndsAfterDelivery
<1>15. e \notin DOMAIN thread /\ e \notin Ends(Tail(signals), {"threadEnds"})
  <2>1. e \notin Ends(Tail(signals), {"threadEnds"}) BY <1>12 DEF Ends, Named
  <2> QED BY <1>13, <1>14, <2>1
<1>16. CASE ~IsLast(e)
  <2>1. signals' = Tail(signals)
    <3>1. Tail(signals) \o <<>> = Tail(signals) BY <1>12
    <3> QED BY <1>4, <1>16, <3>1
  <2>2. Connecting' = Connecting BY <1>4 DEF Connecting
  <2>5. \A g : Announced(signals', g) = Announced(signals, g)
    <3>1. signals[1].name # "read" BY <1>2
    <3> QED BY <1>1, <1>2, <2>1, <3>1, AnnouncedAfterDelivery
  <2>6. ASSUME NEW g \in download'.m_threadList PROVE Follows(g)'
    <3>1. Follows(g) BY <1>2, <1>5 DEF Downloading
    <3>2. Place(download.m_mapEndIni, g)' = Place(download.m_mapEndIni, g) BY <1>5
    <3> QED BY <1>4, <1>9, <2>5, <3>1, <3>2, FollowsKept
  <2>9. /\ download'.m_threadList = DOMAIN thread' \cup Ends(signals, {"threadEnds"})'
        /\ DOMAIN thread' \cap Ends(signals, {"threadEnds"})' = {}
    BY <1>4, <1>5, <1>13, <1>14, <1>15, <2>1
  <2>12. \A i \in DOMAIN signals' : signals'[i].end \in download'.m_threadList \ Connecting'
    BY <1>5, <1>12, <2>1, <2>2
  <2>13. signals' \in Seq(Messages) /\ InOrder(signals') BY <1>12, <2>1
  <2>14. Downloading' BY <2>6, <2>9, <2>12, <2>13 DEF Downloading
  <2>15. download'.phase = "downloading" /\ transfer'.status # "Finished" BY <1>2, <1>4, <1>5, <1>16
  <2> QED BY <1>2, <1>7, <1>8, <1>11, <2>14, <2>15, ThreadStepKeeps
<1>17. CASE IsLast(e)
  <2>1. download.m_threadList = {e} BY <1>2, <1>17 DEF IsLast
  <2>2. DOMAIN thread = {} BY <1>13, <1>15, <2>1
  <2>3. Tail(signals) = <<>>
    <3>1. DOMAIN Tail(signals) = {} BY <1>12, <2>1
    <3>2. Tail(signals) \in Seq(Messages) BY <1>12
    <3>3. Len(Tail(signals)) = 0
      <4>1. Len(Tail(signals)) \in Nat /\ DOMAIN Tail(signals) = 1..Len(Tail(signals)) BY <3>2
      <4>2. ASSUME NEW n \in Nat, 1..n = {} PROVE n = 0
        <5>1. 1 \notin 1..n BY <4>2
        <5> QED BY <5>1
      <4>3. 1..Len(Tail(signals)) = {} BY <3>1, <4>1, Zenon
      <4> QED BY <4>1, <4>2, <4>3, Zenon
    <3> QED BY <3>2, <3>3, EmptySeq
  <2>4. signals' = <<Signal("downloadEnds", 0, 0)>>
    <3>1. \A x : <<>> \o <<x>> = <<x>> OBVIOUS
    <3> QED BY <1>4, <1>17, <2>3, <3>1
  <2>5. temp' = Saved(download) /\ Saved(download') = Saved(download) BY <1>4, <1>5, <1>17 DEF Saved
  <2>6. download'.phase = "ended" BY <1>5, <1>17
  <2>7. Quiet' BY <1>4, <2>2, <2>4, <2>6 DEF Quiet
  <2>8. Resumable'
    <3>1. temp'.m_mapEndIni = download'.m_mapEndIni /\ temp'.m_downloadedSize = download'.m_downloadedSize
      BY <1>5, <2>5 DEF Saved
    <3>2. Whole(download') /\ Written(download.m_mapEndIni)'
      BY <1>10, <1>11 DEF Known
    <3>3. Whole(temp') BY <3>1, <3>2 DEF Whole
    <3>4. Written(temp.m_mapEndIni)' BY <3>1, <3>2 DEF Written
    <3> QED BY <2>6, <3>1, <3>2, <3>3, <3>4 DEF Resumable
  <2>9. transfer'.status # "Finished" BY <1>2, <1>4
  <2> QED BY <1>7, <1>8, <1>11, <2>5, <2>6, <2>7, <2>8, <2>9 DEF MmsInv
<1> QED BY <1>16, <1>17

-----------------------------------------------------------------------------
LEMMA InvNext ==
  ASSUME MmsInv, [MmsNext]_mmsVars
  PROVE  MmsInv'
<1>1. CASE Start BY <1>1, StartInv
<1>2. CASE Stop BY <1>2, StopInv
<1>3. CASE Run BY <1>3, BrokenUrlInv, ConnectedInv DEF Run
<1>4. CASE ThreadStep
  <2>1. PICK e \in DOMAIN thread :
           \/ \E ok \in BOOLEAN : ThreadConnects(e, ok)
           \/ ThreadReads(e) \/ ThreadEnds(e)
           \/ \E whole \in BOOLEAN : ThreadWrites(e, whole)
    BY <1>4 DEF ThreadStep
  <2>2. ASSUME NEW ok \in BOOLEAN, ThreadConnects(e, ok) PROVE MmsInv' BY <2>2, ThreadConnectsInv
  <2>3. CASE ThreadReads(e) BY <2>3, ThreadReadsInv
  <2>4. ASSUME NEW whole \in BOOLEAN, ThreadWrites(e, whole) PROVE MmsInv' BY <2>4, ThreadWritesInv
  <2>5. CASE ThreadEnds(e) BY <2>5, ThreadEndsInv
  <2> QED BY <2>1, <2>2, <2>3, <2>4, <2>5
<1>5. CASE Slot
  BY <1>5, SlotIsThreadConnectedInv, SlotReadInv, SlotThreadFinishInv, SlotBrokenUrlInv, SlotResultInv DEF Slot
<1>6. CASE SaveTimer BY <1>6, SaveTimerInv
<1>7. CASE UNCHANGED mmsVars
  <2>1. /\ transfer' = transfer /\ download' = download /\ thread' = thread
        /\ signals' = signals /\ file' = file /\ lost' = lost /\ temp' = temp
    BY <1>7 DEF mmsVars
  <2>2. \A u : Done(u)' = Done(u) BY <2>1 DEF Done, Pending
  <2>3. Connecting' = Connecting BY <2>1 DEF Connecting
  <2>4. \A g : Follows(g)' = Follows(g) BY <2>1, <2>2 DEF Follows
  <2>5. Downloading' = Downloading BY <2>1, <2>3, <2>4 DEF Downloading
  <2>6. Known' = Known BY <2>1, <2>2 DEF Known, Busy, Hangs, Written
  <2>7. Resumable' = Resumable BY <2>1, <2>2 DEF Resumable, Written
  <2>8. TransferOK' = TransferOK /\ ThreadsOK' = ThreadsOK /\ Quiet' = Quiet
    BY <2>1 DEF TransferOK, ThreadsOK, Quiet
  <2> QED BY <2>1, <2>5, <2>6, <2>7, <2>8 DEF MmsInv
<1> QED BY <1>1, <1>2, <1>3, <1>4, <1>5, <1>6, <1>7 DEF MmsNext

(* The accounts of the main thread follow: what is left of the size are    *)
(* the units of the parts, and a thread is ahead by what it has announced. *)
LEMMA AccountsFollow ==
  ASSUME MmsInv
  PROVE  MmsAccountsAgree
<1>1. SUFFICES ASSUME Busy
      PROVE  /\ download.m_downloadedSize + Cardinality(Parts(download.m_mapEndIni)) = Total
             /\ \A e \in DOMAIN thread :
                   thread[e].m_begin = Place(download.m_mapEndIni, e)
                       + Cardinality({i \in DOMAIN signals : signals[i].name = "read" /\ signals[i].end = e})
  BY DEF MmsAccountsAgree, Busy, Place
<1>2. Whole(download) /\ TransferOK BY <1>1 DEF MmsInv, Known
<1>3. ASSUME NEW e \in DOMAIN thread
      PROVE  thread[e].m_begin = Place(download.m_mapEndIni, e) + Cardinality(ReadsOf(signals, e))
  <2>1. Downloading /\ e \in 1..Total /\ e \in download.m_threadList BY RunningThread
  <2>2. Total \in Nat BY MmsAssumption
  <2>3. PICK p : p = Place(download.m_mapEndIni, e) OBVIOUS
  <2>4. p \in Nat
    <3>1. download.m_mapEndIni \in Maps BY <1>2 DEF TransferOK, Downloads
    <3>2. e \in DOMAIN download.m_mapEndIni => download.m_mapEndIni[e] \in Nat BY <3>1, MapType
    <3> QED BY <2>1, <2>2, <2>3, <3>2 DEF Place
  <2>5. PICK b \in p..e : b = thread[e].m_begin /\ Announced(signals, e) = (p + 1)..b
    BY <2>1, <2>3 DEF Downloading, Follows
  <2>6. Cardinality(ReadsOf(signals, e)) = Cardinality((p + 1)..b)
    BY <2>1, <2>5, AnnouncedOnce DEF Downloading
  <2>7. b \in Nat /\ p <= b BY <2>1, <2>2, <2>4, <2>5
  <2>8. Cardinality((p + 1)..b) = b - p
    <3>1. p + 1 \in Int /\ b \in Int BY <2>4, <2>7
    <3>2. Cardinality((p + 1)..b) = IF p + 1 > b THEN 0 ELSE b - (p + 1) + 1 BY <3>1, FS_Interval
    <3> QED BY <2>4, <2>7, <3>2
  <2> QED BY <2>3, <2>4, <2>5, <2>6, <2>7, <2>8
<1> QED BY <1>2, <1>3 DEF Whole, ReadsOf

LEMMA DoneFollows ==
  ASSUME MmsInv
  PROVE  MmsDoneIsWritten
<1>1. ASSUME download.phase = "none", temp # NoTemp
      PROVE  Units \ Parts(temp.m_mapEndIni) \subseteq file \cup lost
  <2>1. DOMAIN thread = {} /\ Written(temp.m_mapEndIni) BY <1>1 DEF MmsInv, Quiet, Resumable
  <2> QED BY <2>1 DEF Written, Done
<1>2. transfer.status = "Finished" => Units \subseteq file \cup lost BY DEF MmsInv
<1> QED BY <1>1, <1>2 DEF MmsDoneIsWritten

(* What the main thread knows of a download, and with what it resumes one, *)
(* agrees with its threads, however signals are delayed, threads are       *)
(* stopped or refused, and downloads restart with fewer of them.           *)
THEOREM MmsAccountsAgreeAlways ==
  MmsSpec => []MmsAccountsAgree
<1>1. MmsInit => MmsInv BY InitInv
<1>2. MmsInv /\ [MmsNext]_mmsVars => MmsInv' BY InvNext
<1>3. MmsInv => MmsAccountsAgree BY AccountsFollow
<1> QED BY <1>1, <1>2, <1>3, PTL DEF MmsSpec

(* A unit that is not fetched again, after a stop, a restart or the end,   *)
(* is on the disk, though its signal comes before its write, or is one of  *)
(* those a thread was behind with when it ended, for its short reads.      *)
THEOREM MmsDoneIsWrittenAlways ==
  MmsSpec => []MmsDoneIsWritten
<1>1. MmsInit => MmsInv BY InitInv
<1>2. MmsInv /\ [MmsNext]_mmsVars => MmsInv' BY InvNext
<1>3. MmsInv => MmsDoneIsWritten BY DoneFollows
<1> QED BY <1>1, <1>2, <1>3, PTL DEF MmsSpec
=============================================================================
