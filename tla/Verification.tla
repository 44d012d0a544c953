---------------------------- MODULE Verification ----------------------------
(***************************************************************************)
(* The verifier of one downloaded file and the thread that computes its    *)
(* checksums (core/verifier.cpp, core/verificationthread.cpp), with the    *)
(* transfer that repairs the file when a checksum differs                  *)
(* (transfermultisegkio.cpp, datasourcefactory.cpp).                       *)
(*                                                                         *)
(* The main thread puts requests into three lists that have to stay in     *)
(* step, under a lock; the worker takes them out, hashes the file without  *)
(* the lock and posts its answers to the event loop of the main thread.    *)
(* The grain of the worker is the code between lock and unlock.            *)
(*                                                                         *)
(* Verifications and the search for broken pieces share the lists, and     *)
(* nothing keeps them apart: each takes what the other has put there when  *)
(* they overlap. The history variables tell when that has happened, so     *)
(* that the properties can say what the code keeps, and up to where.       *)
(***************************************************************************)
EXTENDS Naturals, Sequences

CONSTANTS
    Types,        \* types of checksums that are known for the whole file
    NumPieces,    \* number of pieces of the file
    MaxRequests   \* bound: verifications that wait, answers not delivered and open questions

ASSUME VerificationAssumption == "none" \notin Types /\ NumPieces \in Nat \ {0} /\ MaxRequests \in Nat

VARIABLES
    m_types, m_checksums, m_files,  \* the lists of requests; of the files, all the same, the number
    m_type,      \* what run() will do
    m_abort,     \* set by the destructor
    worker,      \* where the thread is; "off": isRunning() is false
    taken,       \* the request the worker has taken out, and what it found
    events,      \* signals of the thread that the event loop has not delivered yet
    status,      \* Verifier::status()
    questions,   \* open message boxes that offer a repair
    repairing,   \* slotRepair is connected to brokenPieces
    damaged,     \* the pieces of the file that are not what they should be
    missing,     \* the pieces that a repair downloads again and that have not come yet
    owed,        \* history: the verifications asked for, not replaced and not answered yet
    mixed,       \* history: a search and verifications have met in the lists
    doubtful     \* history: a repair has overlapped the verification that status comes from

queueVars == <<m_types, m_checksums, m_files, m_type>>
workerVars == <<worker, taken>>
fileVars == <<status, questions, repairing, damaged, missing>>
historyVars == <<owed, mixed, doubtful>>
vars == <<queueVars, m_abort, workerVars, events, fileVars, historyVars>>

Pieces == 1..NumPieces
WholeFile == 0
Sum(t, i) == [type |-> t, piece |-> i]              \* the checksum of piece i, or of the whole file
NoSum == Sum("none", WholeFile)
PieceSums(t) == [i \in Pieces |-> Sum(t, i)]        \* PartialChecksums::checksums()
Sums == [type : Types \cup {"none"}, piece : Pieces \cup {WholeFile}]
Request == [type : Types \cup {"none"}, checksum : Sums]
Nothing == [type |-> "none", checksum |-> NoSum, right |-> FALSE, overlapped |-> FALSE]
Signal == [name : {"verified", "brokenPieces"}, right : BOOLEAN, offsets : SUBSET Pieces, overlapped : BOOLEAN]
Signals(name) == events # <<>> /\ Head(events).name = name
Verifying == worker \in {"counting", "taking", "hashing", "hashed"}   \* in doVerify
Rest(s) == IF s = <<>> THEN <<>> ELSE Tail(s)   \* when the first was taken

Init ==
    /\ m_types = <<>> /\ m_checksums = <<>> /\ m_files = 0
    /\ m_type = "Nothing"
    /\ m_abort = FALSE
    /\ worker = "off" /\ taken = Nothing
    /\ events = <<>>
    /\ status = "NoResult" /\ questions = 0 /\ repairing = FALSE
    /\ damaged \in SUBSET Pieces /\ missing = {}
    /\ owed = <<>> /\ mixed = FALSE /\ doubtful = FALSE

-----------------------------------------------------------------------------
(* The main thread. Once the destructor has set m_abort it only waits. *)

Lives == ~m_abort /\ worker # "crashed"

(* if (!isRunning()) start(): a thread is running until it has ended, also *)
(* after it has left its loop.                                             *)
startThread == worker' = IF worker = "off" THEN "started" ELSE worker

InHand == IF worker \in {"hashing", "hashed"} THEN 1 ELSE 0

(* A repair is accepted and not complete. *)
UnderRepair == repairing \/ missing # {}

(* Mutant: a request without a checksum is appended to two lists only. *)
AppendUneven(t) ==
    /\ m_types' = Append(m_types, t)
    /\ m_checksums' = IF t = "none" THEN m_checksums ELSE Append(m_checksums, Sum(t, WholeFile))
    /\ m_files' = m_files + 1

(* The lists grow together. *)
appendRequest(t) ==
    /\ m_types' = Append(m_types, t)
    /\ m_checksums' = Append(m_checksums, Sum(t, WholeFile))
    /\ m_files' = m_files + 1

(* Verifier::verify and VerificationThread::verifiy, for the dialog, D-Bus *)
(* or the end of a download; without a known checksum both are "none".     *)
Verify(t) ==
    /\ Lives
    /\ m_files + InHand + Len(events) + questions < MaxRequests
    /\ appendRequest(t)
    /\ m_type' = "Verify"
    /\ startThread
    /\ mixed' = (mixed \/ (m_type = "BrokenPieces" /\ m_files > 0))
    /\ owed' = IF mixed' THEN <<>> ELSE Append(owed, [type |-> t, checksum |-> Sum(t, WholeFile)])
    /\ UNCHANGED <<m_abort, taken, events, fileVars, doubtful>>

(* Verifier::changeStatus, and slotVerified of the transfer: a question.   *)
VerifiedArrives ==
    /\ Lives
    /\ Signals("verified")
    /\ events' = Tail(events)
    /\ status' = IF Head(events).right THEN "Verified" ELSE "NotVerified"
    /\ questions' = IF Head(events).right THEN questions ELSE questions + 1
    /\ doubtful' = Head(events).overlapped
    /\ UNCHANGED <<queueVars, m_abort, workerVars, repairing, damaged, missing, owed, mixed>>

RefuseRepair ==
    /\ Lives
    /\ questions > 0
    /\ questions' = questions - 1
    /\ UNCHANGED <<queueVars, m_abort, workerVars, events, status, repairing, damaged, missing, historyVars>>

(* VerificationThread::findBrokenPieces: it replaces what the lists hold,  *)
(* the verifications that wait too, and puts its request into the loop of  *)
(* doVerify when the thread is there.                                      *)
findBrokenPieces(t, sums) ==
    /\ m_types' = <<t>>
    /\ m_checksums' = sums
    /\ m_files' = 1
    /\ m_type' = "BrokenPieces"
    /\ startThread
    /\ owed' = <<>>
    /\ mixed' = Verifying

(* Verifier::brokenPieces, with the checksums of the pieces or with none.  *)
brokenPieces == findBrokenPieces("none", <<>>) \/ \E t \in Types : findBrokenPieces(t, PieceSums(t))

(* Mutant: any file that was verified is repaired. *)
MayRepairAnything == status # "NoResult"

MayRepair == status = "NotVerified"

(* DataSourceFactory::repair: whatever the thread does and whatever answer *)
(* is on its way. All of these are overlapped then.                        *)
repair ==
    /\ repairing' = TRUE
    /\ brokenPieces
    /\ taken' = [taken EXCEPT !.overlapped = InHand = 1]
    /\ events' = [i \in 1..Len(events) |-> [events[i] EXCEPT !.overlapped = TRUE]]

(* The user accepts the repair that a question offers. *)
AcceptRepair ==
    /\ Lives
    /\ questions > 0
    /\ questions' = questions - 1
    /\ IF MayRepair THEN repair ELSE UNCHANGED <<queueVars, workerVars, repairing, events, owed, mixed>>
    /\ UNCHANGED <<m_abort, status, damaged, missing, doubtful>>

(* The same by D-Bus, without a question. *)
AskForRepair ==
    /\ Lives
    /\ InHand + Len(events) + questions < MaxRequests
    /\ MayRepair /\ repair
    /\ UNCHANGED <<m_abort, status, questions, damaged, missing, doubtful>>

(* The search alone by D-Bus: nobody repairs what it finds, unless another *)
(* call has connected slotRepair by then.                                  *)
AskForPieces ==
    /\ Lives
    /\ InHand + Len(events) + questions < MaxRequests
    /\ brokenPieces
    /\ UNCHANGED <<m_abort, taken, events, fileVars, doubtful>>

(* slotRepair: what was found broken, or all when nothing was found, is    *)
(* cleared and the download started.                                       *)
BrokenPiecesArrive ==
    /\ Lives
    /\ Signals("brokenPieces")
    /\ events' = Tail(events)
    /\ repairing' = FALSE
    /\ missing' = IF ~repairing THEN missing
                  ELSE IF Head(events).offsets = {} THEN Pieces
                  ELSE missing \cup Head(events).offsets
    /\ UNCHANGED <<queueVars, m_abort, workerVars, status, questions, damaged, historyVars>>

(* The download that follows, piece by piece; it may be bad again, and a   *)
(* user who stops it lets the rest be missing.                             *)
PieceArrives(i) ==
    /\ Lives
    /\ i \in missing
    /\ missing' = missing \ {i}
    /\ damaged' \in {damaged \cup {i}, damaged \ {i}}
    /\ UNCHANGED <<queueVars, m_abort, workerVars, events, status, questions, repairing, historyVars>>

(* The destructor. *)
Close ==
    /\ Lives
    /\ m_abort' = TRUE
    /\ UNCHANGED <<queueVars, workerVars, events, fileVars, historyVars>>

-----------------------------------------------------------------------------
(* The thread. *)

Run ==
    /\ worker = "started"
    /\ worker' = IF m_type = "Verify" THEN "counting" ELSE "pieces"
    /\ UNCHANGED <<queueVars, m_abort, taken, events, fileVars, historyVars>>

(* run = m_files.count() under the lock, and the condition of the loop. *)
CountRequests ==
    /\ worker = "counting"
    /\ worker' = IF m_files > 0 /\ ~m_abort THEN "taking" ELSE "leaving"
    /\ UNCHANGED <<queueVars, m_abort, taken, events, fileVars, historyVars>>

(* Under the lock, the first of each list; a request without a type or a   *)
(* checksum is dropped. The checksums may have run out, when a search took *)
(* or replaced them: takeFirst() of an empty list is undefined, the thread *)
(* goes on with what it reads there or the program crashes.                *)
TakeRequest ==
    /\ worker = "taking"
    /\ m_types' = Tail(m_types)
    /\ m_checksums' = Rest(m_checksums)
    /\ m_files' = m_files - 1
    /\ \E checksum \in IF m_checksums = <<>> THEN Sums ELSE {Head(m_checksums)} :
         IF Head(m_types) = "none" \/ checksum = NoSum
         THEN /\ worker' = "counting"
              /\ owed' = Rest(owed)
              /\ UNCHANGED taken
         ELSE /\ worker' = "hashing"
              /\ taken' = [type |-> Head(m_types), checksum |-> checksum, right |-> FALSE,
                           overlapped |-> UnderRepair]
              /\ UNCHANGED owed
    /\ UNCHANGED <<m_type, m_abort, events, fileVars, mixed, doubtful>>

TakeCrashes ==
    /\ worker = "taking"
    /\ m_checksums = <<>>
    /\ worker' = "crashed"
    /\ UNCHANGED <<queueVars, m_abort, taken, events, fileVars, historyVars>>

IsRight ==
    /\ damaged = {}
    /\ taken.checksum.type = taken.type
    /\ taken.checksum.piece = WholeFile \/ NumPieces = 1

(* Verifier::checksum, without the lock, and the comparison. What is read  *)
(* while a repair writes the file may be anything.                         *)
Hash ==
    /\ worker = "hashing"
    /\ IF m_abort
       THEN worker' = "leaving" /\ UNCHANGED taken
       ELSE /\ worker' = "hashed"
            /\ \E right \in BOOLEAN :
                 /\ ~taken.overlapped => right = IsRight
                 /\ taken' = [taken EXCEPT !.right = right]
    /\ UNCHANGED <<queueVars, m_abort, events, fileVars, historyVars>>

(* The answer, under the lock. *)
Answer ==
    /\ worker = "hashed"
    /\ worker' = "counting"
    /\ taken' = Nothing
    /\ IF m_abort
       THEN UNCHANGED <<events, owed>>
       ELSE /\ events' = Append(events, [name |-> "verified", right |-> taken.right, offsets |-> {},
                                         overlapped |-> taken.overlapped])
            /\ owed' = Rest(owed)
    /\ UNCHANGED <<queueVars, m_abort, fileVars, mixed, doubtful>>

(* doBrokenPieces up to its unlock: right tells whether there are the      *)
(* checksums of all pieces, and of nothing else.                           *)
TakePieces ==
    /\ worker = "pieces"
    /\ m_types' = Tail(m_types)
    /\ m_checksums' = <<>>
    /\ m_files' = m_files - 1
    /\ worker' = "comparing"
    /\ taken' = [Nothing EXCEPT !.type = Head(m_types), !.right = m_checksums = PieceSums(Head(m_types))]
    /\ UNCHANGED <<m_type, m_abort, events, fileVars, historyVars>>

(* Mutant: nothing found, nothing said. *)
EmitBrokenIfAny(found) ==
    events' = IF found = {} THEN events
              ELSE Append(events, [name |-> "brokenPieces", right |-> FALSE, offsets |-> found, overlapped |-> FALSE])

emitBrokenPieces(found) ==
    events' = Append(events, [name |-> "brokenPieces", right |-> FALSE, offsets |-> found, overlapped |-> FALSE])

(* The rest of it: the pieces that differ, or none when checksums are      *)
(* missing, the file cannot be read or the thread is aborted. A piece that *)
(* comes again meanwhile may be read as it was or as it is.                *)
ComparePieces ==
    /\ worker = "comparing"
    /\ \E read \in SUBSET missing : \E found \in {{}, (damaged \ missing) \cup read} :
         /\ ~taken.right \/ m_abort => found = {}
         /\ emitBrokenPieces(found)
    /\ worker' = "leaving"
    /\ taken' = Nothing
    /\ UNCHANGED <<queueVars, m_abort, fileVars, historyVars>>

(* run() has returned; now isRunning() becomes false. *)
Leave ==
    /\ worker = "leaving"
    /\ worker' = "off"
    /\ taken' = Nothing
    /\ UNCHANGED <<queueVars, m_abort, events, fileVars, historyVars>>

Worker == Run \/ CountRequests \/ TakeRequest \/ TakeCrashes \/ Hash \/ Answer
          \/ TakePieces \/ ComparePieces \/ Leave
EventLoop == VerifiedArrives \/ BrokenPiecesArrive
Transfer == \E i \in Pieces : PieceArrives(i)
User == (\E t \in Types \cup {"none"} : Verify(t)) \/ RefuseRepair \/ AcceptRepair
        \/ AskForRepair \/ AskForPieces \/ Close

Next == Worker \/ EventLoop \/ Transfer \/ User

Spec == Init /\ [][Next]_vars

(* A thread that runs goes on running, and posted signals are delivered. *)
Fairness == WF_vars(Worker) /\ WF_vars(EventLoop)

FairSpec == Spec /\ Fairness

-----------------------------------------------------------------------------
(* Properties *)

(* Where the verifications not answered yet are: the one the worker has    *)
(* taken out and those in the lists, in the order in which they were asked *)
(* for, each with its own checksum. A search replaces those that wait      *)
(* (verificationthread.cpp:61-65), and the lists then hold it and nothing  *)
(* else until the worker has taken it. They lose step only when a search   *)
(* finds the thread in doVerify, or a verification is appended behind a    *)
(* search that waits, and then until the next search replaces everything.  *)
RequestsAreKept ==
    /\ Len(m_types) = m_files
    /\ ~m_abort /\ ~mixed /\ m_type = "Verify" =>
        /\ Len(m_checksums) = m_files
        /\ Len(owed) = InHand + m_files
        /\ \A i \in 1..m_files :
             owed[InHand + i] = [type |-> m_types[i], checksum |-> m_checksums[i]]
        /\ InHand = 1 => owed[1] = [type |-> taken.type, checksum |-> taken.checksum]
    /\ ~mixed /\ m_type = "BrokenPieces" =>
        /\ ~Verifying /\ owed = <<>>
        /\ \/ m_types = <<>> /\ m_checksums = <<>>
           \/ \E t \in Types \cup {"none"} : m_types = <<t>> /\ m_checksums \in {<<>>, PieceSums(t)}

(* A file that counts as verified is right, whatever was repaired, badly   *)
(* repaired and verified again, in whatever order the answers came, unless *)
(* a repair was accepted after that verification was begun and before its  *)
(* answer came, or was not complete when it was begun: a repair starts     *)
(* only when the last answer was bad (datasourcefactory.cpp:882).          *)
VerifiedIsRight == status = "Verified" /\ ~doubtful => damaged = {}

(* A search that the thread has begun for a repair ends in an answer, be   *)
(* it an empty list, also "in case of any error" (verifier.h:164-166), and *)
(* slotRepair gets it before anything else can take it.                    *)
SearchIsAnswered ==
    (repairing /\ worker \in {"pieces", "comparing"}) ~> (~repairing \/ ~Lives)

(* What verifier.h:156-157 says of verify(): "signals with the result are  *)
(* emitted": no request waits until another one starts the thread.         *)
EveryRequestIsAnswered ==
    (owed # <<>> /\ worker = "off") ~> (worker # "off" \/ m_abort)
=============================================================================
