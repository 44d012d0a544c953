------------------------- MODULE VerificationProofs -------------------------
(***************************************************************************)
(* Where the requests of verifications are as long as no search for broken *)
(* pieces has met them in the lists, and that what is called verified is   *)
(* right unless a repair has overlapped it, for every set of types, every  *)
(* number of pieces and every number of requests.                          *)
(***************************************************************************)
EXTENDS Verification, TLAPS

Kinds == Types \cup {"none"}
Taken == [type : Kinds, checksum : Sums, right : BOOLEAN, overlapped : BOOLEAN]
Places == {"off", "started", "counting", "taking", "hashing", "hashed", "pieces", "comparing",
           "leaving", "crashed"}

(* The objects are of their types. *)
VerificationTypeOK ==
    /\ m_types \in Seq(Kinds)
    /\ m_checksums \in Seq(Sums)
    /\ m_files \in Nat
    /\ m_type \in {"Nothing", "Verify", "BrokenPieces"}
    /\ m_abort \in BOOLEAN
    /\ worker \in Places
    /\ taken \in Taken
    /\ events \in Seq(Signal)
    /\ status \in {"NoResult", "Verified", "NotVerified"}
    /\ questions \in Nat
    /\ repairing \in BOOLEAN
    /\ damaged \in SUBSET Pieces /\ missing \in SUBSET Pieces
    /\ owed \in Seq(Request)
    /\ mixed \in BOOLEAN /\ doubtful \in BOOLEAN

(* The worker finds a request when it comes for one; before the first      *)
(* there is nothing, and the worker looks for pieces only as long as the   *)
(* lists hold that search.                                                 *)
WorkerFindsRequest ==
    /\ worker \in {"started", "taking", "pieces"} => m_files > 0
    /\ m_type = "Nothing" =>
         worker = "off" /\ m_types = <<>> /\ m_checksums = <<>> /\ owed = <<>> /\ ~mixed
    /\ m_type = "Verify" /\ ~mixed => worker # "pieces"

(* The three parts of RequestsAreKept; the second goes as far as the       *)
(* destructor.                                                             *)
SameLength == Len(m_types) = m_files
Verifications == m_type = "Verify" /\ ~mixed
InStep ==
    /\ Len(m_checksums) = m_files
    /\ Len(owed) = InHand + m_files
    /\ \A i \in 1..m_files : owed[InHand + i] = [type |-> m_types[i], checksum |-> m_checksums[i]]
    /\ InHand = 1 => owed[1] = [type |-> taken.type, checksum |-> taken.checksum]
SearchAlone ==
    /\ ~Verifying /\ owed = <<>>
    /\ \/ m_types = <<>> /\ m_checksums = <<>>
       \/ \E t \in Kinds : m_types = <<t>> /\ m_checksums \in {<<>>, PieceSums(t)}

ListsInv ==
    /\ WorkerFindsRequest
    /\ SameLength
    /\ Verifications /\ ~m_abort => InStep
    /\ m_type = "BrokenPieces" /\ ~mixed => SearchAlone

(* What no repair has overlapped: none is under way, and what was found    *)
(* right is right.                                                         *)
Trusted(overlapped, right) == ~overlapped => ~UnderRepair /\ (right => damaged = {})

RightInv ==
    /\ InHand = 1 => Trusted(taken.overlapped, taken.right)
    /\ \A i \in 1..Len(events) :
         events[i].name = "verified" => Trusted(events[i].overlapped, events[i].right)
    /\ status = "Verified" => Trusted(doubtful, TRUE)

VerificationInv == VerificationTypeOK /\ ListsInv /\ RightInv

-----------------------------------------------------------------------------
(* Sequences. *)

(* What follows the first element of a sequence. *)
LEMMA TailOfSeq ==
    ASSUME NEW S, NEW s \in Seq(S), s # <<>>
    PROVE  /\ Tail(s) \in Seq(S) /\ Head(s) \in S /\ Head(s) = s[1]
           /\ Len(s) \in Nat \ {0} /\ Len(Tail(s)) = Len(s) - 1
           /\ \A i \in 1..Len(s) - 1 : Tail(s)[i] = s[i + 1]
  OBVIOUS

LEMMA RestOfSeq ==
    ASSUME NEW S, NEW s \in Seq(S)
    PROVE  /\ Rest(s) \in Seq(S)
           /\ s # <<>> => /\ Len(Rest(s)) = Len(s) - 1
                          /\ \A i \in 1..Len(s) - 1 : Rest(s)[i] = s[i + 1]
  BY TailOfSeq DEF Rest

LEMMA AppendToSeq ==
    ASSUME NEW S, NEW s \in Seq(S), NEW e \in S
    PROVE  /\ Append(s, e) \in Seq(S) /\ Len(Append(s, e)) = Len(s) + 1
           /\ Append(s, e)[Len(s) + 1] = e
           /\ \A i \in 1..Len(s) : Append(s, e)[i] = s[i]
           /\ \A i \in 1..Len(s) + 1 : i \in 1..Len(s) \/ i = Len(s) + 1
  OBVIOUS

LEMMA PieceSumsAreSums == ASSUME NEW t \in Kinds PROVE PieceSums(t) \in Seq(Sums)
<1>1. PieceSums(t) \in [1..NumPieces -> Sums]
  BY DEF PieceSums, Pieces, Sums, Sum, Kinds
<1>2. NumPieces \in Nat
  BY VerificationAssumption
<1> QED
  BY <1>1, <1>2

LEMMA NoSumIsSum == NoSum \in Sums /\ Nothing \in Taken
  BY DEF NoSum, Sum, Sums, Nothing, Taken, Kinds

(* An event is taken out, or posted. *)
LEMMA TailOfEvents ==
    ASSUME VerificationTypeOK, RightInv, events # <<>>
    PROVE  /\ Tail(events) \in Seq(Signal) /\ Head(events) \in Signal
           /\ Head(events).name = "verified" => Trusted(Head(events).overlapped, Head(events).right)
           /\ \A i \in 1..Len(Tail(events)) :
                Tail(events)[i].name = "verified" => Trusted(Tail(events)[i].overlapped, Tail(events)[i].right)
<1>1. /\ Tail(events) \in Seq(Signal) /\ Head(events) \in Signal /\ Head(events) = events[1]
      /\ Len(events) \in Nat \ {0} /\ Len(Tail(events)) = Len(events) - 1
      /\ \A i \in 1..Len(events) - 1 : Tail(events)[i] = events[i + 1]
  BY TailOfSeq DEF VerificationTypeOK
<1>2. 1 \in 1..Len(events)
  BY <1>1
<1>3. ASSUME NEW i \in 1..Len(Tail(events))
      PROVE  i + 1 \in 1..Len(events) /\ Tail(events)[i] = events[i + 1]
  BY <1>1, <1>3
<1> QED
  BY <1>1, <1>2, <1>3 DEF RightInv

LEMMA PostEvent ==
    ASSUME VerificationTypeOK, RightInv, NEW e \in Signal,
           e.name = "verified" => Trusted(e.overlapped, e.right)
    PROVE  /\ Append(events, e) \in Seq(Signal)
           /\ \A i \in 1..Len(Append(events, e)) :
                Append(events, e)[i].name = "verified"
                    => Trusted(Append(events, e)[i].overlapped, Append(events, e)[i].right)
<1>1. /\ Append(events, e) \in Seq(Signal) /\ Len(Append(events, e)) = Len(events) + 1
      /\ Append(events, e)[Len(events) + 1] = e
      /\ \A i \in 1..Len(events) : Append(events, e)[i] = events[i]
      /\ \A i \in 1..Len(events) + 1 : i \in 1..Len(events) \/ i = Len(events) + 1
  BY AppendToSeq DEF VerificationTypeOK
<1> QED
  BY <1>1 DEF RightInv

-----------------------------------------------------------------------------
LEMMA Initially == Init => VerificationInv
<1> SUFFICES ASSUME Init PROVE VerificationInv
  OBVIOUS
<1> USE DEF Init
<1>1. <<>> \in Seq(Kinds) /\ <<>> \in Seq(Sums) /\ <<>> \in Seq(Signal) /\ <<>> \in Seq(Request)
  OBVIOUS
<1>2. VerificationTypeOK
  BY <1>1, NoSumIsSum DEF VerificationTypeOK, Places
<1>3. ListsInv
  BY DEF ListsInv, WorkerFindsRequest, SameLength, Verifications
<1>4. RightInv
  BY DEF RightInv, InHand
<1> QED
  BY <1>2, <1>3, <1>4 DEF VerificationInv

-----------------------------------------------------------------------------
(* The main thread. *)

LEMMA VerifyKeeps ==
    ASSUME VerificationInv, NEW t \in Kinds, Verify(t)
    PROVE  VerificationInv'
<1> DEFINE r == [type |-> t, checksum |-> Sum(t, WholeFile)]
<1> USE DEF VerificationInv
<1>1. /\ ~m_abort /\ worker # "crashed"
      /\ m_types' = Append(m_types, t) /\ m_checksums' = Append(m_checksums, Sum(t, WholeFile))
      /\ m_files' = m_files + 1 /\ m_type' = "Verify"
      /\ worker' = (IF worker = "off" THEN "started" ELSE worker)
      /\ mixed' = (mixed \/ (m_type = "BrokenPieces" /\ m_files > 0))
      /\ owed' = (IF mixed' THEN <<>> ELSE Append(owed, r))
      /\ UNCHANGED <<m_abort, taken, events, status, questions, repairing, damaged, missing, doubtful>>
  BY DEF Verify, appendRequest, startThread, Lives, fileVars
<1>2. Sum(t, WholeFile) \in Sums /\ r \in Request
  BY DEF Sum, Sums, Request, Kinds
<1>3. /\ m_types' \in Seq(Kinds) /\ Len(m_types') = Len(m_types) + 1 /\ m_types'[Len(m_types) + 1] = t
      /\ \A i \in 1..Len(m_types) : m_types'[i] = m_types[i]
  BY <1>1, AppendToSeq DEF VerificationTypeOK
<1>4. /\ m_checksums' \in Seq(Sums) /\ Len(m_checksums') = Len(m_checksums) + 1
      /\ m_checksums'[Len(m_checksums) + 1] = Sum(t, WholeFile)
      /\ \A i \in 1..Len(m_checksums) : m_checksums'[i] = m_checksums[i]
  BY <1>1, <1>2, AppendToSeq DEF VerificationTypeOK
<1>5. /\ Append(owed, r) \in Seq(Request) /\ Len(Append(owed, r)) = Len(owed) + 1
      /\ Append(owed, r)[Len(owed) + 1] = r
      /\ \A i \in 1..Len(owed) : Append(owed, r)[i] = owed[i]
  BY <1>2, AppendToSeq DEF VerificationTypeOK
<1> HIDE DEF r
<1>6. VerificationTypeOK'
  <2>1. owed' \in Seq(Request)
    <3>1. <<>> \in Seq(Request)
      OBVIOUS
    <3> QED
      BY <1>1, <1>5, <3>1
  <2> QED
    BY <1>1, <1>3, <1>4, <2>1 DEF VerificationTypeOK, Places
<1>7. RightInv'
  BY <1>1 DEF RightInv, Trusted, UnderRepair, InHand
<1>8. InHand \in {0, 1} /\ InHand' = InHand /\ Len(m_types) \in Nat /\ Len(owed) \in Nat
  BY <1>1 DEF InHand, VerificationTypeOK
<1>9. ASSUME ~mixed' PROVE InStep /\ (worker # "pieces")
  <2>1. CASE m_type = "Verify"
    BY <1>1, <1>9, <2>1 DEF ListsInv, Verifications, WorkerFindsRequest
  <2>2. CASE m_type = "Nothing"
    BY <1>1, <1>9, <2>2 DEF ListsInv, WorkerFindsRequest, SameLength, InStep, InHand
  <2>3. CASE m_type = "BrokenPieces"
    <3>a. ~mixed /\ ~(m_files > 0)
      BY <1>1, <1>9, <2>3, Zenon
    <3>1. m_files = 0 /\ ~mixed
      BY <3>a DEF VerificationTypeOK
    <3>2. SearchAlone /\ Len(m_types) = 0 /\ worker # "pieces"
      BY <2>3, <3>1 DEF ListsInv, SameLength, WorkerFindsRequest
    <3>3. m_types = <<>> /\ m_checksums = <<>> /\ owed = <<>> /\ InHand = 0
      BY <3>2 DEF SearchAlone, InHand, Verifying
    <3> QED
      BY <3>1, <3>2, <3>3 DEF InStep
  <2> QED
    BY <2>1, <2>2, <2>3 DEF VerificationTypeOK
<1>10. ASSUME ~mixed' PROVE InStep'
  <2>1. /\ Len(m_checksums) = m_files /\ Len(m_types) = m_files /\ Len(owed) = InHand + m_files
        /\ owed' = Append(owed, r)
    BY <1>1, <1>9, <1>10 DEF InStep, ListsInv, SameLength
  <2>2. ASSUME NEW i \in 1..m_files'
        PROVE  owed'[InHand' + i] = [type |-> m_types'[i], checksum |-> m_checksums'[i]]
    <3>1. CASE i = m_files + 1
      <4>1. InHand' + i = Len(owed) + 1
        BY <1>8, <2>1, <3>1
      <4> QED
        BY <1>3, <1>4, <1>5, <2>1, <3>1, <4>1 DEF r
    <3>2. CASE i # m_files + 1
      <4>1. i \in 1..m_files
        BY <1>1, <2>2, <3>2 DEF VerificationTypeOK
      <4>2. InHand + i \in 1..Len(owed) /\ i \in 1..Len(m_types) /\ i \in 1..Len(m_checksums)
        BY <1>8, <2>1, <4>1
      <4> QED
        BY <1>3, <1>4, <1>5, <1>8, <1>9, <1>10, <2>1, <4>1, <4>2 DEF InStep
    <3> QED
      BY <3>1, <3>2
  <2>3. ASSUME InHand = 1 PROVE owed'[1] = owed[1]
    <3>1. 1 \in 1..Len(owed)
      BY <1>8, <2>1, <2>3 DEF VerificationTypeOK
    <3> QED
      BY <1>5, <2>1, <3>1
  <2>4. InHand' = 1 => owed'[1] = [type |-> taken'.type, checksum |-> taken'.checksum]
    BY <1>1, <1>8, <1>9, <1>10, <2>3 DEF InStep
  <2>5. Len(m_checksums') = m_files' /\ Len(owed') = InHand' + m_files'
    BY <1>1, <1>4, <1>5, <1>8, <2>1 DEF VerificationTypeOK
  <2> QED
    BY <2>2, <2>4, <2>5 DEF InStep
<1>11. ListsInv'
  <2>1. SameLength'
    BY <1>1, <1>3 DEF ListsInv, SameLength
  <2>2. WorkerFindsRequest'
    BY <1>1, <1>9 DEF WorkerFindsRequest, VerificationTypeOK
  <2> QED
    BY <1>1, <1>10, <2>1, <2>2 DEF ListsInv, Verifications
<1> QED
  BY <1>6, <1>7, <1>11

LEMMA VerifiedArrivesKeeps ==
    ASSUME VerificationInv, VerifiedArrives
    PROVE  VerificationInv'
<1> USE DEF VerificationInv
<1>1. /\ events # <<>> /\ Head(events).name = "verified" /\ events' = Tail(events)
      /\ status' = (IF Head(events).right THEN "Verified" ELSE "NotVerified")
      /\ questions' = (IF Head(events).right THEN questions ELSE questions + 1)
      /\ doubtful' = Head(events).overlapped
      /\ UNCHANGED <<m_types, m_checksums, m_files, m_type, m_abort, worker, taken, repairing, damaged,
                     missing, owed, mixed>>
  BY DEF VerifiedArrives, Signals, queueVars, workerVars
<1>2. /\ Tail(events) \in Seq(Signal) /\ Head(events) \in Signal
      /\ Trusted(Head(events).overlapped, Head(events).right)
      /\ \A i \in 1..Len(Tail(events)) :
           Tail(events)[i].name = "verified" => Trusted(Tail(events)[i].overlapped, Tail(events)[i].right)
  BY <1>1, TailOfEvents
<1>3. VerificationTypeOK'
  BY <1>1, <1>2 DEF VerificationTypeOK, Signal
<1>4. ListsInv'
  BY <1>1 DEF ListsInv, WorkerFindsRequest, SameLength, Verifications, InStep, SearchAlone, Verifying, InHand
<1>5. RightInv'
  BY <1>1, <1>2 DEF RightInv, Trusted, UnderRepair, InHand
<1> QED
  BY <1>3, <1>4, <1>5

LEMMA RefuseRepairKeeps ==
    ASSUME VerificationInv, RefuseRepair
    PROVE  VerificationInv'
<1> USE DEF VerificationInv
<1>1. /\ questions > 0 /\ questions' = questions - 1
      /\ UNCHANGED <<m_types, m_checksums, m_files, m_type, m_abort, worker, taken, events, status, repairing,
                     damaged, missing, owed, mixed, doubtful>>
  BY DEF RefuseRepair, queueVars, workerVars, historyVars
<1>2. VerificationTypeOK'
  BY <1>1 DEF VerificationTypeOK
<1>3. ListsInv' /\ RightInv'
  BY <1>1 DEF ListsInv, WorkerFindsRequest, SameLength, Verifications, InStep, SearchAlone, Verifying, InHand,
              RightInv, Trusted, UnderRepair
<1> QED
  BY <1>2, <1>3

(* A search replaces the lists and what is owed; it is alone in them       *)
(* unless the thread is in doVerify.                                       *)
LEMMA BrokenPiecesKeeps ==
    ASSUME VerificationInv, Lives, brokenPieces, m_abort' = m_abort
    PROVE  /\ ListsInv'
           /\ m_types' \in Seq(Kinds) /\ m_checksums' \in Seq(Sums) /\ m_files' \in Nat
           /\ m_type' = "BrokenPieces" /\ worker' \in Places /\ owed' \in Seq(Request) /\ mixed' \in BOOLEAN
           /\ InHand' = InHand
<1> USE DEF VerificationInv
<1>1. PICK t \in Kinds : \E list \in {<<>>, PieceSums(t)} : findBrokenPieces(t, list)
  BY DEF brokenPieces, Kinds
<1>a. PICK sums \in {<<>>, PieceSums(t)} : findBrokenPieces(t, sums)
  BY <1>1
<1>2. /\ m_types' = <<t>> /\ m_checksums' = sums /\ m_files' = 1 /\ m_type' = "BrokenPieces"
      /\ worker' = (IF worker = "off" THEN "started" ELSE worker)
      /\ owed' = <<>> /\ mixed' = Verifying
  BY <1>a DEF findBrokenPieces, startThread
<1>3. <<t>> \in Seq(Kinds) /\ Len(<<t>>) = 1 /\ <<>> \in Seq(Sums) /\ <<>> \in Seq(Request)
  OBVIOUS
<1>4. sums \in Seq(Sums)
  BY <1>3, PieceSumsAreSums
<1>5. worker' \in Places /\ InHand' = InHand /\ Verifying' = Verifying
  BY <1>2 DEF Places, VerificationTypeOK, InHand, Verifying
<1>6. mixed' \/ SearchAlone'
  BY <1>2, <1>5 DEF SearchAlone
<1>7. ListsInv'
  BY <1>2, <1>3, <1>6 DEF ListsInv, WorkerFindsRequest, SameLength, Verifications
<1> QED
  BY <1>2, <1>3, <1>4, <1>5, <1>7 DEF Verifying

(* A repair begins with a bad answer, and marks all it overlaps. *)
LEMMA RepairKeeps ==
    ASSUME VerificationInv, Lives, MayRepair, repair, questions' \in Nat,
           UNCHANGED <<m_abort, status, damaged, missing, doubtful>>
    PROVE  VerificationInv'
<1> USE DEF VerificationInv
<1>1. /\ repairing' = TRUE /\ brokenPieces
      /\ taken' = [taken EXCEPT !.overlapped = InHand = 1]
      /\ events' = [i \in 1..Len(events) |-> [events[i] EXCEPT !.overlapped = TRUE]]
  BY DEF repair
<1>2. /\ ListsInv'
      /\ m_types' \in Seq(Kinds) /\ m_checksums' \in Seq(Sums) /\ m_files' \in Nat
      /\ m_type' = "BrokenPieces" /\ worker' \in Places /\ owed' \in Seq(Request) /\ mixed' \in BOOLEAN
      /\ InHand' = InHand
  BY <1>1, BrokenPiecesKeeps
<1>3. taken' \in Taken /\ (InHand = 1 => taken'.overlapped)
  <2>1. (InHand = 1) \in BOOLEAN
    OBVIOUS
  <2> QED
    BY <1>1, <2>1 DEF VerificationTypeOK, Taken
<1>4. events' \in Seq(Signal) /\ Len(events') = Len(events) /\ \A i \in 1..Len(events) : events'[i].overlapped
  <2>1. Len(events) \in Nat /\ \A i \in 1..Len(events) : events[i] \in Signal
    BY DEF VerificationTypeOK
  <2>2. \A i \in 1..Len(events) : [events[i] EXCEPT !.overlapped = TRUE] \in Signal
    BY <2>1 DEF Signal
  <2>3. events' \in Seq(Signal) /\ Len(events') = Len(events)
    BY <1>1, <2>1, <2>2
  <2>4. \A i \in 1..Len(events) : events'[i].overlapped
    BY <1>1, <2>1 DEF Signal
  <2> QED
    BY <2>3, <2>4
<1>5. VerificationTypeOK'
  BY <1>1, <1>2, <1>3, <1>4 DEF VerificationTypeOK
<1>6. RightInv'
  BY <1>2, <1>3, <1>4 DEF RightInv, Trusted, MayRepair
<1> QED
  BY <1>2, <1>5, <1>6

LEMMA AcceptRepairKeeps ==
    ASSUME VerificationInv, AcceptRepair
    PROVE  VerificationInv'
<1>1. /\ Lives /\ questions > 0 /\ questions' = questions - 1
      /\ UNCHANGED <<m_abort, status, damaged, missing, doubtful>>
  BY DEF AcceptRepair
<1>2. questions' \in Nat
  BY <1>1 DEF VerificationInv, VerificationTypeOK
<1>3. CASE MayRepair
  BY <1>1, <1>2, <1>3, RepairKeeps DEF AcceptRepair
<1>4. CASE ~MayRepair
  <2>1. UNCHANGED <<m_types, m_checksums, m_files, m_type, worker, taken, repairing, events, owed, mixed>>
    BY <1>4 DEF AcceptRepair, queueVars, workerVars
  <2>2. VerificationTypeOK'
    BY <1>1, <1>2, <2>1 DEF VerificationInv, VerificationTypeOK
  <2>3. ListsInv' /\ RightInv'
    BY <1>1, <2>1 DEF VerificationInv, ListsInv, WorkerFindsRequest, SameLength, Verifications, InStep, SearchAlone,
                      Verifying, InHand, RightInv, Trusted, UnderRepair
  <2> QED
    BY <2>2, <2>3 DEF VerificationInv
<1> QED
  BY <1>3, <1>4

LEMMA AskForRepairKeeps ==
    ASSUME VerificationInv, AskForRepair
    PROVE  VerificationInv'
<1>1. questions' \in Nat
  BY DEF AskForRepair, VerificationInv, VerificationTypeOK
<1> QED
  BY <1>1, RepairKeeps DEF AskForRepair

LEMMA AskForPiecesKeeps ==
    ASSUME VerificationInv, AskForPieces
    PROVE  VerificationInv'
<1> USE DEF VerificationInv
<1>1. /\ Lives /\ brokenPieces
      /\ UNCHANGED <<m_abort, taken, events, status, questions, repairing, damaged, missing, doubtful>>
  BY DEF AskForPieces, fileVars
<1>2. /\ ListsInv'
      /\ m_types' \in Seq(Kinds) /\ m_checksums' \in Seq(Sums) /\ m_files' \in Nat
      /\ m_type' = "BrokenPieces" /\ worker' \in Places /\ owed' \in Seq(Request) /\ mixed' \in BOOLEAN
      /\ InHand' = InHand
  BY <1>1, BrokenPiecesKeeps
<1>3. VerificationTypeOK'
  BY <1>1, <1>2 DEF VerificationTypeOK
<1>4. RightInv'
  BY <1>1, <1>2 DEF RightInv, Trusted, UnderRepair
<1> QED
  BY <1>2, <1>3, <1>4

(* What the answer of a search finds missing was under repair before.      *)
LEMMA BrokenPiecesArriveKeeps ==
    ASSUME VerificationInv, BrokenPiecesArrive
    PROVE  VerificationInv'
<1> USE DEF VerificationInv
<1>1. /\ events # <<>> /\ Head(events).name = "brokenPieces" /\ events' = Tail(events) /\ repairing' = FALSE
      /\ UNCHANGED <<m_types, m_checksums, m_files, m_type, m_abort, worker, taken, status, questions, damaged,
                     owed, mixed, doubtful>>
  BY DEF BrokenPiecesArrive, Signals, queueVars, workerVars, historyVars
<1>2. /\ Tail(events) \in Seq(Signal) /\ Head(events) \in Signal
      /\ \A i \in 1..Len(Tail(events)) :
           Tail(events)[i].name = "verified" => Trusted(Tail(events)[i].overlapped, Tail(events)[i].right)
  BY <1>1, TailOfEvents
<1>3. missing' \in SUBSET Pieces /\ (~repairing => missing' = missing)
  BY <1>2 DEF BrokenPiecesArrive, VerificationTypeOK, Signal
<1>4. VerificationTypeOK'
  BY <1>1, <1>2, <1>3 DEF VerificationTypeOK
<1>5. ListsInv'
  BY <1>1 DEF ListsInv, WorkerFindsRequest, SameLength, Verifications, InStep, SearchAlone, Verifying, InHand
<1>6. UnderRepair' => UnderRepair
  BY <1>1, <1>3 DEF UnderRepair
<1>7. RightInv'
  BY <1>1, <1>2, <1>6 DEF RightInv, Trusted, InHand
<1> QED
  BY <1>4, <1>5, <1>7

(* The file changes only under repair, and then nothing is trusted. *)
LEMMA PieceArrivesKeeps ==
    ASSUME VerificationInv, NEW i \in Pieces, PieceArrives(i)
    PROVE  VerificationInv'
<1> USE DEF VerificationInv
<1>1. /\ i \in missing /\ missing' = missing \ {i} /\ damaged' \in SUBSET Pieces
      /\ UNCHANGED <<m_types, m_checksums, m_files, m_type, m_abort, worker, taken, events, status, questions,
                     repairing, owed, mixed, doubtful>>
  BY DEF PieceArrives, queueVars, workerVars, historyVars, VerificationTypeOK
<1>2. VerificationTypeOK'
  BY <1>1 DEF VerificationTypeOK
<1>3. ListsInv'
  BY <1>1 DEF ListsInv, WorkerFindsRequest, SameLength, Verifications, InStep, SearchAlone, Verifying, InHand
<1>4. UnderRepair
  BY <1>1 DEF UnderRepair
<1>5. RightInv'
  BY <1>1, <1>4 DEF RightInv, Trusted, InHand
<1> QED
  BY <1>2, <1>3, <1>5

LEMMA CloseKeeps ==
    ASSUME VerificationInv, Close
    PROVE  VerificationInv'
<1> USE DEF VerificationInv
<1>1. /\ m_abort' = TRUE
      /\ UNCHANGED <<m_types, m_checksums, m_files, m_type, worker, taken, events, status, questions, repairing,
                     damaged, missing, owed, mixed, doubtful>>
  BY DEF Close, queueVars, workerVars, fileVars, historyVars
<1>2. VerificationTypeOK'
  BY <1>1 DEF VerificationTypeOK
<1>3. ListsInv' /\ RightInv'
  BY <1>1 DEF ListsInv, WorkerFindsRequest, SameLength, Verifications, SearchAlone, Verifying, RightInv, Trusted,
              UnderRepair, InHand
<1> QED
  BY <1>2, <1>3

-----------------------------------------------------------------------------
(* The thread. *)

LEMMA RunKeeps ==
    ASSUME VerificationInv, Run
    PROVE  VerificationInv'
<1> USE DEF VerificationInv
<1>1. /\ worker = "started" /\ worker' = (IF m_type = "Verify" THEN "counting" ELSE "pieces")
      /\ UNCHANGED <<m_types, m_checksums, m_files, m_type, m_abort, taken, events, status, questions, repairing,
                     damaged, missing, owed, mixed, doubtful>>
  BY DEF Run, queueVars, fileVars, historyVars
<1>2. VerificationTypeOK'
  BY <1>1 DEF VerificationTypeOK, Places
<1>3. RightInv'
  BY <1>1 DEF RightInv, Trusted, UnderRepair, InHand
<1>4. m_type # "Nothing"
  BY <1>1 DEF ListsInv, WorkerFindsRequest
<1>5. ListsInv'
  BY <1>1, <1>4 DEF ListsInv, WorkerFindsRequest, SameLength, Verifications, InStep, SearchAlone, Verifying, InHand
<1> QED
  BY <1>2, <1>3, <1>5

LEMMA CountRequestsKeeps ==
    ASSUME VerificationInv, CountRequests
    PROVE  VerificationInv'
<1> USE DEF VerificationInv
<1>1. /\ worker = "counting" /\ worker' \in {"taking", "leaving"}
      /\ worker' = "taking" => m_files > 0
      /\ UNCHANGED <<m_types, m_checksums, m_files, m_type, m_abort, taken, events, status, questions, repairing,
                     damaged, missing, owed, mixed, doubtful>>
  BY DEF CountRequests, queueVars, fileVars, historyVars
<1>2. VerificationTypeOK'
  BY <1>1 DEF VerificationTypeOK, Places
<1>3. RightInv'
  BY <1>1 DEF RightInv, Trusted, UnderRepair, InHand
<1>4. ListsInv'
  BY <1>1 DEF ListsInv, WorkerFindsRequest, SameLength, Verifications, InStep, SearchAlone, Verifying, InHand
<1> QED
  BY <1>2, <1>3, <1>4

(* The first requests leave the three lists together, and a dropped one is *)
(* owed no longer.                                                         *)
LEMMA TakeRequestKeeps ==
    ASSUME VerificationInv, TakeRequest
    PROVE  VerificationInv'
<1> USE DEF VerificationInv
<1> DEFINE Took(c) == [type |-> Head(m_types), checksum |-> c, right |-> FALSE, overlapped |-> UnderRepair]
<1>1. /\ worker = "taking"
      /\ m_types' = Tail(m_types) /\ m_checksums' = Rest(m_checksums) /\ m_files' = m_files - 1
      /\ UNCHANGED <<m_type, m_abort, events, status, questions, repairing, damaged, missing, mixed, doubtful>>
  BY DEF TakeRequest, fileVars
<1>2. PICK c \in IF m_checksums = <<>> THEN Sums ELSE {Head(m_checksums)} :
        IF Head(m_types) = "none" \/ c = NoSum
        THEN worker' = "counting" /\ owed' = Rest(owed) /\ UNCHANGED taken
        ELSE worker' = "hashing" /\ taken' = Took(c) /\ UNCHANGED owed
  BY DEF TakeRequest
<1>3. m_files > 0 /\ Len(m_types) = m_files /\ m_types # <<>>
  BY <1>1 DEF ListsInv, WorkerFindsRequest, SameLength
<1>4. /\ Tail(m_types) \in Seq(Kinds) /\ Head(m_types) \in Kinds /\ Head(m_types) = m_types[1]
      /\ Len(m_types) \in Nat \ {0} /\ Len(Tail(m_types)) = Len(m_types) - 1
      /\ \A i \in 1..Len(m_types) - 1 : Tail(m_types)[i] = m_types[i + 1]
  BY <1>3, TailOfSeq DEF VerificationTypeOK
<1>5. /\ Rest(m_checksums) \in Seq(Sums)
      /\ m_checksums # <<>> => /\ Len(Rest(m_checksums)) = Len(m_checksums) - 1
                               /\ \A i \in 1..Len(m_checksums) - 1 : Rest(m_checksums)[i] = m_checksums[i + 1]
                               /\ Head(m_checksums) \in Sums /\ Head(m_checksums) = m_checksums[1]
  BY RestOfSeq, TailOfSeq DEF VerificationTypeOK
<1>6. /\ Rest(owed) \in Seq(Request)
      /\ owed # <<>> => /\ Len(Rest(owed)) = Len(owed) - 1
                        /\ \A i \in 1..Len(owed) - 1 : Rest(owed)[i] = owed[i + 1]
  BY RestOfSeq DEF VerificationTypeOK
<1>7. c \in Sums
  BY <1>2, <1>5
<1>8. Took(c) \in Taken
  BY <1>4, <1>7 DEF Taken, UnderRepair, VerificationTypeOK
<1>9. VerificationTypeOK'
  <2>1. worker' \in Places /\ taken' \in Taken /\ owed' \in Seq(Request)
    <3>1. CASE Head(m_types) = "none" \/ c = NoSum
      BY <1>2, <1>6, <3>1 DEF VerificationTypeOK, Places
    <3>2. CASE ~(Head(m_types) = "none" \/ c = NoSum)
      BY <1>2, <1>8, <3>2 DEF VerificationTypeOK, Places
    <3> QED
      BY <3>1, <3>2
  <2>2. m_files' \in Nat
    BY <1>1, <1>3 DEF VerificationTypeOK
  <2> QED
    BY <1>1, <1>4, <1>5, <2>1, <2>2 DEF VerificationTypeOK
<1>10. RightInv'
  <2>1. UnderRepair' = UnderRepair /\ UnderRepair \in BOOLEAN
    BY <1>1 DEF UnderRepair, VerificationTypeOK
  <2>2. ASSUME InHand' = 1 PROVE Trusted(taken.overlapped, taken.right)'
    <3>1. taken' = Took(c)
      BY <1>2, <2>2 DEF InHand
    <3>2. taken'.overlapped = UnderRepair /\ taken'.right = FALSE
      BY <3>1
    <3> QED
      BY <2>1, <3>2 DEF Trusted
  <2> QED
    BY <1>1, <2>2 DEF RightInv, Trusted, UnderRepair
<1>11. SameLength' /\ WorkerFindsRequest'
  <2>1. SameLength'
    BY <1>1, <1>3, <1>4 DEF SameLength
  <2>2. WorkerFindsRequest'
    BY <1>1, <1>2 DEF ListsInv, WorkerFindsRequest
  <2> QED
    BY <2>1, <2>2
<1>12. ASSUME m_type = "BrokenPieces", ~mixed PROVE FALSE
  BY <1>1, <1>12 DEF ListsInv, SearchAlone, Verifying
<1>13. ASSUME Verifications, ~m_abort PROVE InStep'
  <2>1. /\ Len(m_checksums) = m_files /\ Len(owed) = m_files
        /\ \A i \in 1..m_files : owed[i] = [type |-> m_types[i], checksum |-> m_checksums[i]]
    <3>1. InHand = 0 /\ InStep
      BY <1>1, <1>13 DEF ListsInv, InHand
    <3> QED
      BY <3>1 DEF InStep, VerificationTypeOK
  <2>2. m_checksums # <<>> /\ owed # <<>>
    BY <1>3, <2>1
  <2>3. c = m_checksums[1] /\ 1 \in 1..m_files /\ m_files \in Nat
    BY <1>2, <1>3, <1>5, <2>2 DEF VerificationTypeOK
  <2>4. owed[1] = [type |-> Head(m_types), checksum |-> c]
    BY <1>4, <2>1, <2>3
  <2>5. ASSUME NEW i \in 1..m_files'
        PROVE  /\ i \in 1..m_files - 1 /\ i + 1 \in 1..m_files
               /\ owed[i + 1] = [type |-> m_types'[i], checksum |-> m_checksums'[i]]
    <3>1. i \in 1..m_files - 1 /\ i + 1 \in 1..m_files
      BY <1>1, <2>3
    <3> QED
      BY <1>1, <1>3, <1>4, <1>5, <2>1, <2>2, <3>1
  <2>6. Len(m_checksums') = m_files'
    BY <1>1, <1>5, <2>1, <2>2
  <2>7. CASE Head(m_types) = "none" \/ c = NoSum
    <3>1. InHand' = 0 /\ owed' = Rest(owed) /\ Len(owed') = m_files'
      BY <1>1, <1>2, <1>6, <2>1, <2>2, <2>7 DEF InHand
    <3>2. ASSUME NEW i \in 1..m_files'
          PROVE  owed'[InHand' + i] = [type |-> m_types'[i], checksum |-> m_checksums'[i]]
      <4>1. InHand' + i = i
        BY <3>1
      <4> QED
        BY <1>6, <2>1, <2>2, <2>5, <3>1, <4>1
    <3>3. m_files - 1 \in Nat /\ 0 + (m_files - 1) = m_files - 1
      BY <1>3, <2>3
    <3>4. Len(owed') = InHand' + m_files' /\ InHand' # 1
      BY <1>1, <3>1, <3>3
    <3> QED
      BY <2>6, <3>2, <3>4 DEF InStep
  <2>8. CASE ~(Head(m_types) = "none" \/ c = NoSum)
    <3>1. InHand' = 1 /\ owed' = owed /\ taken' = Took(c)
      BY <1>2, <2>8 DEF InHand
    <3>2. ASSUME NEW i \in 1..m_files'
          PROVE  owed'[InHand' + i] = [type |-> m_types'[i], checksum |-> m_checksums'[i]]
      <4>1. InHand' + i = i + 1
        BY <3>1
      <4> QED
        BY <2>5, <3>1, <4>1
    <3>3. Len(owed') = InHand' + m_files'
      BY <1>1, <2>1, <2>3, <3>1
    <3>4. owed'[1] = [type |-> taken'.type, checksum |-> taken'.checksum]
      BY <2>4, <3>1
    <3> QED
      BY <2>6, <3>2, <3>3, <3>4 DEF InStep
  <2> QED
    BY <2>7, <2>8
<1>14. ListsInv'
  BY <1>1, <1>11, <1>12, <1>13 DEF ListsInv, Verifications
<1> QED
  BY <1>9, <1>10, <1>14

LEMMA TakeCrashesKeeps ==
    ASSUME VerificationInv, TakeCrashes
    PROVE  VerificationInv'
<1> USE DEF VerificationInv
<1>1. /\ worker = "taking" /\ worker' = "crashed"
      /\ UNCHANGED <<m_types, m_checksums, m_files, m_type, m_abort, taken, events, status, questions, repairing,
                     damaged, missing, owed, mixed, doubtful>>
  BY DEF TakeCrashes, queueVars, fileVars, historyVars
<1>2. VerificationTypeOK'
  BY <1>1 DEF VerificationTypeOK, Places
<1>3. RightInv'
  BY <1>1 DEF RightInv, Trusted, UnderRepair, InHand
<1>4. ListsInv'
  BY <1>1 DEF ListsInv, WorkerFindsRequest, SameLength, Verifications, InStep, SearchAlone, Verifying, InHand
<1> QED
  BY <1>2, <1>3, <1>4

LEMMA HashKeeps ==
    ASSUME VerificationInv, Hash
    PROVE  VerificationInv'
<1> USE DEF VerificationInv
<1>1. /\ worker = "hashing"
      /\ UNCHANGED <<m_types, m_checksums, m_files, m_type, m_abort, events, status, questions, repairing,
                     damaged, missing, owed, mixed, doubtful>>
  BY DEF Hash, queueVars, fileVars, historyVars
<1>2. CASE m_abort
  <2>1. worker' = "leaving" /\ taken' = taken
    BY <1>2 DEF Hash
  <2>2. VerificationTypeOK'
    BY <1>1, <2>1 DEF VerificationTypeOK, Places
  <2>3. ListsInv'
    BY <1>1, <1>2, <2>1 DEF ListsInv, WorkerFindsRequest, SameLength, Verifications, SearchAlone, Verifying
  <2>4. RightInv'
    BY <1>1, <2>1 DEF RightInv, Trusted, UnderRepair, InHand
  <2> QED
    BY <2>2, <2>3, <2>4
<1>3. CASE ~m_abort
  <2>1. PICK right \in BOOLEAN : (~taken.overlapped => right = IsRight) /\ taken' = [taken EXCEPT !.right = right]
    BY <1>3 DEF Hash
  <2>2. worker' = "hashed"
    BY <1>3 DEF Hash
  <2>3. /\ taken' \in Taken /\ taken'.type = taken.type /\ taken'.checksum = taken.checksum
        /\ taken'.overlapped = taken.overlapped /\ taken'.right = right
    BY <2>1 DEF VerificationTypeOK, Taken
  <2>4. VerificationTypeOK'
    BY <1>1, <2>2, <2>3 DEF VerificationTypeOK, Places
  <2>5. InHand = 1 /\ InHand' = 1 /\ Verifying /\ Verifying'
    BY <1>1, <2>2 DEF InHand, Verifying
  <2>6. ListsInv'
    BY <1>1, <2>2, <2>3, <2>5 DEF ListsInv, WorkerFindsRequest, SameLength, Verifications, InStep, SearchAlone
  <2>7. RightInv'
    <3>1. Trusted(taken.overlapped, taken.right)'
      BY <1>1, <2>1, <2>3, <2>5 DEF RightInv, Trusted, UnderRepair, IsRight
    <3> QED
      BY <1>1, <3>1 DEF RightInv, Trusted, UnderRepair
  <2> QED
    BY <2>4, <2>6, <2>7
<1> QED
  BY <1>2, <1>3

LEMMA AnswerKeeps ==
    ASSUME VerificationInv, Answer
    PROVE  VerificationInv'
<1> USE DEF VerificationInv
<1>1. /\ worker = "hashed" /\ worker' = "counting" /\ taken' = Nothing
      /\ UNCHANGED <<m_types, m_checksums, m_files, m_type, m_abort, status, questions, repairing, damaged,
                     missing, mixed, doubtful>>
  BY DEF Answer, queueVars, fileVars
<1>2. InHand = 1 /\ InHand' = 0 /\ Verifying /\ Verifying'
  BY <1>1 DEF InHand, Verifying
<1>3. CASE m_abort
  <2>1. UNCHANGED <<events, owed>>
    BY <1>3 DEF Answer
  <2>2. VerificationTypeOK'
    BY <1>1, <2>1, NoSumIsSum DEF VerificationTypeOK, Places
  <2>3. ListsInv'
    BY <1>1, <1>2, <1>3, <2>1 DEF ListsInv, WorkerFindsRequest, SameLength, Verifications, SearchAlone
  <2>4. RightInv'
    BY <1>1, <1>2, <2>1 DEF RightInv, Trusted, UnderRepair
  <2> QED
    BY <2>2, <2>3, <2>4
<1>4. CASE ~m_abort
  <2> DEFINE e == [name |-> "verified", right |-> taken.right, offsets |-> {}, overlapped |-> taken.overlapped]
  <2>1. events' = Append(events, e) /\ owed' = Rest(owed)
    BY <1>4 DEF Answer
  <2>2. e \in Signal /\ Trusted(e.overlapped, e.right)
    BY <1>2 DEF Signal, VerificationTypeOK, Taken, RightInv
  <2> HIDE DEF e
  <2>3. /\ events' \in Seq(Signal)
        /\ \A i \in 1..Len(events') : events'[i].name = "verified" => Trusted(events'[i].overlapped, events'[i].right)
    BY <2>1, <2>2, PostEvent
  <2>4. /\ Rest(owed) \in Seq(Request)
        /\ owed # <<>> => /\ Len(Rest(owed)) = Len(owed) - 1
                          /\ \A i \in 1..Len(owed) - 1 : Rest(owed)[i] = owed[i + 1]
    BY RestOfSeq DEF VerificationTypeOK
  <2>5. VerificationTypeOK'
    BY <1>1, <2>1, <2>3, <2>4, NoSumIsSum DEF VerificationTypeOK, Places
  <2>6. RightInv'
    BY <1>1, <1>2, <2>3 DEF RightInv, Trusted, UnderRepair
  <2>7. ASSUME Verifications PROVE InStep'
    <3>1. /\ Len(m_checksums) = m_files /\ Len(owed) = 1 + m_files
          /\ \A i \in 1..m_files : owed[1 + i] = [type |-> m_types[i], checksum |-> m_checksums[i]]
      BY <1>2, <1>4, <2>7 DEF ListsInv, InStep
    <3>2. owed # <<>> /\ m_files \in Nat
      BY <3>1 DEF VerificationTypeOK
    <3>3. Len(owed') = InHand' + m_files' /\ Len(m_checksums') = m_files'
      BY <1>1, <1>2, <2>1, <2>4, <3>1, <3>2
    <3>4. ASSUME NEW i \in 1..m_files'
          PROVE  owed'[InHand' + i] = [type |-> m_types'[i], checksum |-> m_checksums'[i]]
      <4>1. i \in 1..Len(owed) - 1 /\ i + 1 = 1 + i /\ InHand' + i = i /\ i \in 1..m_files
        BY <1>1, <1>2, <3>1, <3>2
      <4> QED
        BY <1>1, <2>1, <2>4, <3>1, <3>2, <4>1
    <3> QED
      BY <1>2, <3>3, <3>4 DEF InStep
  <2>8. ListsInv'
    BY <1>1, <1>2, <2>7 DEF ListsInv, WorkerFindsRequest, SameLength, Verifications, SearchAlone
  <2> QED
    BY <2>5, <2>6, <2>8
<1> QED
  BY <1>3, <1>4

LEMMA TakePiecesKeeps ==
    ASSUME VerificationInv, TakePieces
    PROVE  VerificationInv'
<1> USE DEF VerificationInv
<1> DEFINE right == m_checksums = PieceSums(Head(m_types))
<1>1. /\ worker = "pieces" /\ worker' = "comparing"
      /\ m_types' = Tail(m_types) /\ m_checksums' = <<>> /\ m_files' = m_files - 1
      /\ taken' = [Nothing EXCEPT !.type = Head(m_types), !.right = right]
      /\ UNCHANGED <<m_type, m_abort, events, status, questions, repairing, damaged, missing, owed, mixed, doubtful>>
  BY DEF TakePieces, fileVars, historyVars
<1>2. m_files > 0 /\ Len(m_types) = m_files /\ m_types # <<>>
  BY <1>1 DEF ListsInv, WorkerFindsRequest, SameLength
<1>3. Tail(m_types) \in Seq(Kinds) /\ Head(m_types) \in Kinds /\ Len(Tail(m_types)) = Len(m_types) - 1
  BY <1>2, TailOfSeq DEF VerificationTypeOK
<1>4. right \in BOOLEAN
  OBVIOUS
<1> HIDE DEF right
<1>5. taken' \in Taken
  BY <1>1, <1>3, <1>4, NoSumIsSum DEF Taken
<1>6. VerificationTypeOK'
  BY <1>1, <1>2, <1>3, <1>5 DEF VerificationTypeOK, Places
<1>7. RightInv'
  BY <1>1 DEF RightInv, Trusted, UnderRepair, InHand
<1>8. SameLength' /\ WorkerFindsRequest'
  BY <1>1, <1>2, <1>3 DEF ListsInv, WorkerFindsRequest, SameLength
<1>9. ASSUME m_type = "BrokenPieces", ~mixed PROVE SearchAlone'
  <2>1. SearchAlone
    BY <1>9 DEF ListsInv
  <2>2. PICK t \in Kinds : m_types = <<t>>
    BY <1>2, <2>1 DEF SearchAlone
  <2>3. m_types' = <<>>
    BY <1>1, <2>2
  <2> QED
    BY <1>1, <2>1, <2>3 DEF SearchAlone, Verifying
<1>10. ~Verifications
  BY <1>1 DEF ListsInv, WorkerFindsRequest, Verifications
<1>11. ListsInv'
  BY <1>1, <1>8, <1>9, <1>10 DEF ListsInv, Verifications
<1> QED
  BY <1>6, <1>7, <1>11

LEMMA ComparePiecesKeeps ==
    ASSUME VerificationInv, ComparePieces
    PROVE  VerificationInv'
<1> USE DEF VerificationInv
<1>1. /\ worker = "comparing" /\ worker' = "leaving" /\ taken' = Nothing
      /\ UNCHANGED <<m_types, m_checksums, m_files, m_type, m_abort, status, questions, repairing, damaged,
                     missing, owed, mixed, doubtful>>
  BY DEF ComparePieces, queueVars, fileVars, historyVars
<1>2. PICK found \in SUBSET Pieces : emitBrokenPieces(found)
  BY DEF ComparePieces, VerificationTypeOK
<1> DEFINE e == [name |-> "brokenPieces", right |-> FALSE, offsets |-> found, overlapped |-> FALSE]
<1>3. e \in Signal /\ e.name = "brokenPieces"
  BY DEF Signal, VerificationTypeOK
<1>4. events' = Append(events, e)
  BY <1>2 DEF emitBrokenPieces
<1> HIDE DEF e
<1>5. /\ events' \in Seq(Signal)
      /\ \A i \in 1..Len(events') : events'[i].name = "verified" => Trusted(events'[i].overlapped, events'[i].right)
  BY <1>3, <1>4, PostEvent
<1>6. VerificationTypeOK'
  BY <1>1, <1>5, NoSumIsSum DEF VerificationTypeOK, Places
<1>7. RightInv'
  BY <1>1, <1>5 DEF RightInv, Trusted, UnderRepair, InHand
<1>8. ListsInv'
  BY <1>1 DEF ListsInv, WorkerFindsRequest, SameLength, Verifications, InStep, SearchAlone, Verifying, InHand
<1> QED
  BY <1>6, <1>7, <1>8

LEMMA LeaveKeeps ==
    ASSUME VerificationInv, Leave
    PROVE  VerificationInv'
<1> USE DEF VerificationInv
<1>1. /\ worker = "leaving" /\ worker' = "off" /\ taken' = Nothing
      /\ UNCHANGED <<m_types, m_checksums, m_files, m_type, m_abort, events, status, questions, repairing, damaged,
                     missing, owed, mixed, doubtful>>
  BY DEF Leave, queueVars, fileVars, historyVars
<1>2. VerificationTypeOK'
  BY <1>1, NoSumIsSum DEF VerificationTypeOK, Places
<1>3. RightInv'
  BY <1>1 DEF RightInv, Trusted, UnderRepair, InHand
<1>4. ListsInv'
  BY <1>1 DEF ListsInv, WorkerFindsRequest, SameLength, Verifications, InStep, SearchAlone, Verifying, InHand
<1> QED
  BY <1>2, <1>3, <1>4

-----------------------------------------------------------------------------
LEMMA Stutters ==
    ASSUME VerificationInv, UNCHANGED vars
    PROVE  VerificationInv'
<1> USE DEF VerificationInv
<1>1. UNCHANGED <<m_types, m_checksums, m_files, m_type, m_abort, worker, taken, events, status, questions,
                  repairing, damaged, missing, owed, mixed, doubtful>>
  BY DEF vars, queueVars, workerVars, fileVars, historyVars
<1>2. VerificationTypeOK'
  BY <1>1 DEF VerificationTypeOK
<1>3. ListsInv' /\ RightInv'
  BY <1>1 DEF ListsInv, WorkerFindsRequest, SameLength, Verifications, InStep, SearchAlone, Verifying, InHand,
              RightInv, Trusted, UnderRepair
<1> QED
  BY <1>2, <1>3

LEMMA EveryStepKeeps ==
    ASSUME VerificationInv, [Next]_vars
    PROVE  VerificationInv'
<1>1. ASSUME Worker PROVE VerificationInv'
  BY <1>1, RunKeeps, CountRequestsKeeps, TakeRequestKeeps, TakeCrashesKeeps, HashKeeps, AnswerKeeps,
     TakePiecesKeeps, ComparePiecesKeeps, LeaveKeeps DEF Worker
<1>2. ASSUME EventLoop PROVE VerificationInv'
  BY <1>2, VerifiedArrivesKeeps, BrokenPiecesArriveKeeps DEF EventLoop
<1>3. ASSUME Transfer PROVE VerificationInv'
  BY <1>3, PieceArrivesKeeps DEF Transfer
<1>4. ASSUME User PROVE VerificationInv'
  <2>1. ASSUME NEW t \in Types \cup {"none"}, Verify(t) PROVE VerificationInv'
    BY <2>1, VerifyKeeps DEF Kinds
  <2> QED
    BY <1>4, <2>1, RefuseRepairKeeps, AcceptRepairKeeps, AskForRepairKeeps, AskForPiecesKeeps, CloseKeeps DEF User
<1> QED
  BY <1>1, <1>2, <1>3, <1>4, Stutters DEF Next

(* The verifier keeps its invariant, however many pieces the file has and  *)
(* however verifications, searches, repairs and the thread interleave.     *)
THEOREM VerificationInvariant == Spec => []VerificationInv
<1>1. Init => VerificationInv
  BY Initially
<1>2. VerificationInv /\ [Next]_vars => VerificationInv'
  BY EveryStepKeeps
<1> QED
  BY <1>1, <1>2, PTL DEF Spec

(* The lists and the worker hold the verifications asked for, in order and *)
(* each with its checksum, and a search is alone in the lists: everywhere  *)
(* but between the two overlaps that RequestsAreKept names and the search  *)
(* that replaces everything. The calls themselves may overlap freely.      *)
THEOREM RequestsAreKeptAlways == Spec => []RequestsAreKept
<1>1. ASSUME VerificationInv PROVE RequestsAreKept
  <2>1. Len(m_types) = m_files
    BY <1>1 DEF VerificationInv, ListsInv, SameLength
  <2>2. ASSUME ~m_abort, ~mixed, m_type = "Verify" PROVE InStep
    BY <1>1, <2>2 DEF VerificationInv, ListsInv, Verifications
  <2>3. ASSUME ~mixed, m_type = "BrokenPieces" PROVE SearchAlone
    BY <1>1, <2>3 DEF VerificationInv, ListsInv
  <2> QED
    BY <2>1, <2>2, <2>3 DEF RequestsAreKept, InStep, SearchAlone, Kinds
<1> QED
  BY <1>1, VerificationInvariant, PTL

(* What is called verified is right, unless a repair overlapped that       *)
(* verification: one accepted before it, with the download of the pieces   *)
(* not complete, or one accepted before its answer came.                   *)
THEOREM VerifiedIsRightAlways == Spec => []VerifiedIsRight
<1>1. VerificationInv => VerifiedIsRight
  BY DEF VerificationInv, RightInv, VerifiedIsRight, Trusted
<1> QED
  BY <1>1, VerificationInvariant, PTL
=============================================================================
