-------------------------- MODULE ComponentProofs --------------------------
(***************************************************************************)
(* What is proved of the smaller components, each by an inductive          *)
(* invariant of its own state.                                             *)
(*                                                                         *)
(* KeyDownload: one job per key, and nobody forgotten, for every set of    *)
(* signatures, whatever keys they have, and for every list of servers.     *)
(*                                                                         *)
(* Metalink: the status of the whole follows from those of its files, for  *)
(* every list of files, and whatever of them fail.                         *)
(*                                                                         *)
(* Destination: a deletion hits nobody's download, and its result reaches  *)
(* whoever waits for it, for all sets of transfers, sources and files.     *)
(***************************************************************************)
EXTENDS KeyDownload, Metalink, Destination, Recursion, FiniteSetTheorems

-----------------------------------------------------------------------------
(***************************************************************************)
(* KeyDownload                                                             *)
(***************************************************************************)

(* The objects are of their types. *)
KeyTypeOK ==
    /\ asked \in [Signatures -> Nat]
    /\ results \in [Signatures -> Seq(BOOLEAN)]
    /\ status \in [Signatures -> {"NoResult", "Verified", "NotWorked"}]
    /\ verifyTried \in [Signatures -> BOOLEAN]
    /\ m_downloading \in [Keys -> SUBSET Signatures]
    /\ m_triedMirrors \in [Keys -> SUBSET {ServerOrder[i] : i \in DOMAIN ServerOrder}]
    /\ jobs \in [Keys -> Nat]
    /\ keyring \subseteq Keys
    /\ givenUp \subseteq Keys

(* A key has a job if somebody waits for it and there was a server left,   *)
(* and none otherwise.                                                     *)
JobsFollow(k) ==
    /\ jobs[k] \in {0, 1}
    /\ m_downloading[k] = {} => jobs[k] = 0
    /\ m_downloading[k] # {} => jobs[k] = 1 \/ k \in givenUp

(* A signature that was tried waits for its key; or the key has come, and  *)
(* the signature is verified with it or will be.                           *)
LastIsGood(s) == results[s][Len(results[s])]
WaitsOrKnows(s) ==
    verifyTried[s] =>
        \/ s \in m_downloading[Fingerprint[s]]
        \/ /\ Fingerprint[s] \in keyring
           /\ \/ asked[s] > 0
              \/ results[s] # <<>> /\ LastIsGood(s)
              \/ results[s] = <<>> /\ status[s] = "Verified"

KeyInv ==
    /\ KeyTypeOK
    /\ \A k \in Keys : JobsFollow(k)
    /\ \A s \in Signatures : WaitsOrKnows(s)

-----------------------------------------------------------------------------
(* There is at most one next server. *)
LEMMA AtMostOneServer ==
    ASSUME NEW k \in Keys
    PROVE  /\ NextServer(k) \subseteq {ServerOrder[i] : i \in DOMAIN ServerOrder}
           /\ NextServer(k) = {} => Cardinality(NextServer(k)) = 0
           /\ NextServer(k) # {} => Cardinality(NextServer(k)) = 1
<1> DEFINE First(n) == /\ ServerOrder[n] \notin m_triedMirrors[k]
                       /\ \A j \in 1..(n - 1) : ServerOrder[j] \in m_triedMirrors[k]
<1>1. NextServer(k) = {ServerOrder[i] : i \in {n \in DOMAIN ServerOrder : First(n)}}
  BY DEF NextServer
<1>2. DOMAIN ServerOrder \subseteq Nat \ {0}
  BY KeysAssumption
<1>3. ASSUME NEW i \in DOMAIN ServerOrder, NEW n \in DOMAIN ServerOrder, First(i), First(n)
      PROVE  i = n
  <2>1. i \in Nat \ {0} /\ n \in Nat \ {0}
    BY <1>2
  <2>2. ~(i < n)
    <3>1. ASSUME i < n PROVE FALSE
      <4>1. i \in 1..(n - 1)
        BY <2>1, <3>1
      <4> QED
        BY <4>1, <1>3
    <3> QED
      BY <3>1
  <2>3. ~(n < i)
    <3>1. ASSUME n < i PROVE FALSE
      <4>1. n \in 1..(i - 1)
        BY <2>1, <3>1
      <4> QED
        BY <4>1, <1>3
    <3> QED
      BY <3>1
  <2> QED
    BY <2>1, <2>2, <2>3
<1> HIDE DEF First
<1>4. NextServer(k) \subseteq {ServerOrder[i] : i \in DOMAIN ServerOrder}
  BY <1>1
<1>5. ASSUME NextServer(k) # {} PROVE Cardinality(NextServer(k)) = 1
  <2>1. PICK n \in DOMAIN ServerOrder : First(n)
    BY <1>1, <1>5
  <2>2. NextServer(k) = {ServerOrder[n]}
    BY <1>1, <1>3, <2>1
  <2> QED
    BY <2>2, FS_Singleton
<1>6. Cardinality({}) = 0
  BY FS_EmptySet
<1> QED
  BY <1>4, <1>5, <1>6

LEMMA Initially == Init => KeyInv
<1> SUFFICES ASSUME Init PROVE KeyInv
  OBVIOUS
<1> USE DEF Init
<1>1. KeyTypeOK
  BY DEF KeyTypeOK
<1>2. \A k \in Keys : JobsFollow(k)
  BY DEF JobsFollow
<1>3. \A s \in Signatures : WaitsOrKnows(s)
  BY DEF WaitsOrKnows
<1> QED
  BY <1>1, <1>2, <1>3 DEF KeyInv

-----------------------------------------------------------------------------
(* The steps of a signature that ask no server. *)

LEMMA VerifyKeeps ==
    ASSUME KeyInv, NEW s \in Signatures, Verify(s)
    PROVE  KeyInv'
<1> USE DEF KeyInv
<1>1. asked' = [asked EXCEPT ![s] = @ + 1] /\ asked' \in [Signatures -> Nat]
  BY DEF Verify, KeyTypeOK
<1>2. KeyTypeOK'
  BY <1>1 DEF Verify, KeyTypeOK
<1>3. \A k \in Keys : JobsFollow(k)'
  BY DEF Verify, JobsFollow
<1>4. \A u \in Signatures : asked'[u] >= asked[u]
  BY <1>1 DEF KeyTypeOK
<1>5. \A u \in Signatures : asked[u] > 0 => asked'[u] > 0
  BY <1>1, <1>4 DEF KeyTypeOK
<1>6. \A u \in Signatures : WaitsOrKnows(u)'
  BY <1>5 DEF Verify, WaitsOrKnows, LastIsGood
<1> QED
  BY <1>2, <1>3, <1>6

LEMMA VerifiedKeeps ==
    ASSUME KeyInv, NEW s \in Signatures, Verified(s)
    PROVE  KeyInv'
<1> DEFINE good == Fingerprint[s] \in keyring
<1> USE DEF KeyInv
<1>1. asked[s] \in Nat /\ asked[s] > 0 /\ results[s] \in Seq(BOOLEAN) /\ good \in BOOLEAN
  BY DEF Verified, KeyTypeOK
<1>2. asked' = [asked EXCEPT ![s] = @ - 1] /\ asked' \in [Signatures -> Nat]
  BY <1>1 DEF Verified, KeyTypeOK
<1>3. results' = [results EXCEPT ![s] = Append(@, good)]
  BY DEF Verified
<1> HIDE DEF good
<1>4. /\ Append(results[s], good) \in Seq(BOOLEAN) /\ Append(results[s], good) # <<>>
      /\ Append(results[s], good)[Len(Append(results[s], good))] = good
  BY <1>1
<1>5. results' \in [Signatures -> Seq(BOOLEAN)] /\ results'[s] = Append(results[s], good)
  BY <1>3, <1>4 DEF KeyTypeOK
<1>6. KeyTypeOK'
  BY <1>2, <1>5 DEF Verified, KeyTypeOK
<1>7. \A k \in Keys : JobsFollow(k)'
  BY DEF Verified, JobsFollow
<1>8. WaitsOrKnows(s)'
  BY <1>4, <1>5 DEF Verified, WaitsOrKnows, LastIsGood, good
<1>9. ASSUME NEW u \in Signatures, u # s PROVE WaitsOrKnows(u)'
  <2>1. asked'[u] = asked[u] /\ results'[u] = results[u]
    BY <1>2, <1>3, <1>9 DEF KeyTypeOK
  <2> QED
    BY <2>1 DEF Verified, WaitsOrKnows, LastIsGood
<1> QED
  BY <1>6, <1>7, <1>8, <1>9

(* What is left of the answers when the first one is taken. *)
LEMMA TailOfResults ==
    ASSUME NEW r \in Seq(BOOLEAN), r # <<>>
    PROVE  /\ Tail(r) \in Seq(BOOLEAN) /\ Head(r) \in BOOLEAN
           /\ Tail(r) = <<>> => Head(r) = r[Len(r)]
           /\ Tail(r) # <<>> => Tail(r)[Len(Tail(r))] = r[Len(r)]
  BY SMTT(60)

LEMMA ResultArrivesKeeps ==
    ASSUME KeyInv, NEW s \in Signatures, ResultArrives(s)
    PROVE  KeyInv'
<1> USE DEF KeyInv
<1>1. results[s] \in Seq(BOOLEAN) /\ results[s] # <<>> /\ Head(results[s])
  BY DEF ResultArrives, KeyTypeOK
<1>2. /\ Tail(results[s]) \in Seq(BOOLEAN)
      /\ Tail(results[s]) # <<>> => Tail(results[s])[Len(Tail(results[s]))] = LastIsGood(s)
  BY <1>1, TailOfResults DEF LastIsGood
<1>3. /\ results' = [results EXCEPT ![s] = Tail(@)] /\ status' = [status EXCEPT ![s] = "Verified"]
      /\ results'[s] = Tail(results[s]) /\ status'[s] = "Verified"
  BY DEF ResultArrives, KeyTypeOK
<1>4. KeyTypeOK'
  BY <1>2, <1>3 DEF ResultArrives, KeyTypeOK
<1>5. \A k \in Keys : JobsFollow(k)'
  BY DEF ResultArrives, JobsFollow
<1>6. WaitsOrKnows(s)'
  BY <1>1, <1>2, <1>3 DEF ResultArrives, WaitsOrKnows, LastIsGood
<1>7. ASSUME NEW u \in Signatures, u # s PROVE WaitsOrKnows(u)'
  <2>1. results'[u] = results[u] /\ status'[u] = status[u]
    BY <1>3, <1>7 DEF KeyTypeOK
  <2> QED
    BY <2>1 DEF ResultArrives, WaitsOrKnows, LastIsGood
<1> QED
  BY <1>4, <1>5, <1>6, <1>7

-----------------------------------------------------------------------------
(* The steps that ask a server. *)

(* What ask makes of the jobs of a key. *)
LEMMA AskedOne ==
    ASSUME KeyTypeOK, NEW k \in Keys, NEW server,
           server \subseteq {ServerOrder[i] : i \in DOMAIN ServerOrder},
           server = {} => Cardinality(server) = 0,
           server # {} => Cardinality(server) = 1,
           ask(k, server, 0)
    PROVE  /\ jobs' \in [Keys -> Nat]
           /\ m_triedMirrors' \in [Keys -> SUBSET {ServerOrder[i] : i \in DOMAIN ServerOrder}]
           /\ givenUp' \subseteq Keys
           /\ jobs'[k] = 1 \/ (jobs'[k] = 0 /\ k \in givenUp')
           /\ \A l \in Keys \ {k} : jobs'[l] = jobs[l] /\ (l \in givenUp' <=> l \in givenUp)
<1>1. Cardinality(server) \in {0, 1} /\ 0 + Cardinality(server) = Cardinality(server)
  OBVIOUS
<1>2. jobs' = [jobs EXCEPT ![k] = Cardinality(server)]
  BY <1>1 DEF ask
<1> QED
  BY <1>1, <1>2 DEF ask, KeyTypeOK

LEMMA FirstServer ==
    /\ {ServerOrder[1]} \subseteq {ServerOrder[i] : i \in DOMAIN ServerOrder}
    /\ Cardinality({ServerOrder[1]}) = 1
<1>1. 1 \in DOMAIN ServerOrder
  BY KeysAssumption
<1> QED
  BY <1>1, FS_Singleton

(* A signature joins those that wait; the first of them asks. *)
LEMMA DownloadKey ==
    ASSUME KeyInv, NEW s \in Signatures, downloadKey(s)
    PROVE  /\ jobs' \in [Keys -> Nat]
           /\ m_triedMirrors' \in [Keys -> SUBSET {ServerOrder[i] : i \in DOMAIN ServerOrder}]
           /\ givenUp' \subseteq Keys
           /\ m_downloading' = [m_downloading EXCEPT ![Fingerprint[s]] = @ \cup {s}]
           /\ \A k \in Keys : JobsFollow(k)'
<1> DEFINE key == Fingerprint[s]
<1> USE DEF KeyInv
<1>1. key \in Keys
  BY DEF Keys
<1>2. m_downloading' = [m_downloading EXCEPT ![key] = @ \cup {s}]
  BY DEF downloadKey
<1>3. /\ m_downloading'[key] # {}
      /\ \A l \in Keys \ {key} : m_downloading'[l] = m_downloading[l]
  BY <1>1, <1>2 DEF KeyTypeOK
<1>4. CASE IsAsked(key)
  BY <1>1, <1>2, <1>3, <1>4 DEF downloadKey, IsAsked, JobsFollow, KeyTypeOK
<1>5. CASE ~IsAsked(key)
  <2>1. jobs[key] = 0
    BY <1>1, <1>5 DEF IsAsked, JobsFollow
  <2>2. ask(key, {ServerOrder[1]}, 0)
    BY <1>5, <2>1 DEF downloadKey
  <2>3. /\ jobs' \in [Keys -> Nat]
        /\ m_triedMirrors' \in [Keys -> SUBSET {ServerOrder[i] : i \in DOMAIN ServerOrder}]
        /\ givenUp' \subseteq Keys
        /\ jobs'[key] = 1 \/ (jobs'[key] = 0 /\ key \in givenUp')
        /\ \A l \in Keys \ {key} : jobs'[l] = jobs[l] /\ (l \in givenUp' <=> l \in givenUp)
    BY <1>1, <2>2, AskedOne, FirstServer
  <2> QED
    BY <1>2, <1>3, <2>3 DEF JobsFollow
<1> QED
  BY <1>4, <1>5

LEMMA KeyIsMissingKeeps ==
    ASSUME KeyInv, NEW s \in Signatures, KeyIsMissing(s)
    PROVE  KeyInv'
<1> USE DEF KeyInv
<1>1. results[s] \in Seq(BOOLEAN) /\ results[s] # <<>> /\ ~Head(results[s])
  BY DEF KeyIsMissing, KeyTypeOK
<1>2. /\ Tail(results[s]) \in Seq(BOOLEAN)
      /\ Tail(results[s]) = <<>> => ~LastIsGood(s)
      /\ Tail(results[s]) # <<>> => Tail(results[s])[Len(Tail(results[s]))] = LastIsGood(s)
  BY <1>1, TailOfResults DEF LastIsGood
<1>3. /\ results' = [results EXCEPT ![s] = Tail(@)] /\ status' = [status EXCEPT ![s] = "NotWorked"]
      /\ results'[s] = Tail(results[s])
      /\ \A u \in Signatures \ {s} : results'[u] = results[u] /\ status'[u] = status[u]
      /\ asked' = asked /\ keyring' = keyring
  BY DEF KeyIsMissing, KeyTypeOK
<1>4. /\ results' \in [Signatures -> Seq(BOOLEAN)]
      /\ status' \in [Signatures -> {"NoResult", "Verified", "NotWorked"}]
  BY <1>2, <1>3 DEF KeyTypeOK
<1>5. CASE verifyTried' = [verifyTried EXCEPT ![s] = TRUE] /\ downloadKey(s)
  <2>1. /\ jobs' \in [Keys -> Nat]
        /\ m_triedMirrors' \in [Keys -> SUBSET {ServerOrder[i] : i \in DOMAIN ServerOrder}]
        /\ givenUp' \subseteq Keys
        /\ m_downloading' = [m_downloading EXCEPT ![Fingerprint[s]] = @ \cup {s}]
        /\ \A k \in Keys : JobsFollow(k)'
    BY <1>5, DownloadKey
  <2>2. Fingerprint[s] \in Keys /\ \A u \in Signatures : Fingerprint[u] \in Keys
    BY DEF Keys
  <2>3. /\ m_downloading' \in [Keys -> SUBSET Signatures]
        /\ s \in m_downloading'[Fingerprint[s]]
        /\ \A k \in Keys : m_downloading[k] \subseteq m_downloading'[k]
    BY <2>1, <2>2 DEF KeyTypeOK
  <2>4. KeyTypeOK'
    BY <1>3, <1>4, <1>5, <2>1, <2>3 DEF KeyTypeOK
  <2>5. WaitsOrKnows(s)'
    BY <2>3 DEF WaitsOrKnows
  <2>6. ASSUME NEW u \in Signatures, u # s PROVE WaitsOrKnows(u)'
    <3>1. verifyTried'[u] = verifyTried[u]
      BY <1>5, <2>6 DEF KeyTypeOK
    <3> QED
      BY <1>3, <2>2, <2>3, <2>6, <3>1 DEF WaitsOrKnows, LastIsGood
  <2> QED
    BY <2>1, <2>4, <2>5, <2>6
<1>6. CASE UNCHANGED <<verifyTried, m_downloading, m_triedMirrors, jobs, givenUp>>
  <2>1. KeyTypeOK'
    BY <1>3, <1>4, <1>6 DEF KeyTypeOK
  <2>2. \A k \in Keys : JobsFollow(k)'
    BY <1>6 DEF JobsFollow
  <2>3. WaitsOrKnows(s)'
    BY <1>1, <1>2, <1>3, <1>6 DEF WaitsOrKnows, LastIsGood
  <2>4. ASSUME NEW u \in Signatures, u # s PROVE WaitsOrKnows(u)'
    BY <1>3, <1>6, <2>4 DEF WaitsOrKnows, LastIsGood
  <2> QED
    BY <2>1, <2>2, <2>3, <2>4
<1> QED
  BY <1>5, <1>6 DEF KeyIsMissing

(* A job ends without a key, and its successor is asked if there is one. *)
LEMMA AskAgainKeeps ==
    ASSUME KeyInv, NEW k \in Keys, ServerFails(k) \/ ImportFails(k)
    PROVE  KeyInv'
<1> USE DEF KeyInv
<1>1. jobs[k] = 1 /\ m_downloading[k] # {}
  BY DEF ServerFails, ImportFails, JobsFollow
<1>2. PICK server : /\ server = {} \/ server = NextServer(k)
                    /\ ask(k, server, 0)
  BY <1>1 DEF ServerFails, ImportFails
<1>3. /\ server \subseteq {ServerOrder[i] : i \in DOMAIN ServerOrder}
      /\ server = {} => Cardinality(server) = 0
      /\ server # {} => Cardinality(server) = 1
  BY <1>2, AtMostOneServer, FS_EmptySet
<1>4. /\ jobs' \in [Keys -> Nat]
      /\ m_triedMirrors' \in [Keys -> SUBSET {ServerOrder[i] : i \in DOMAIN ServerOrder}]
      /\ givenUp' \subseteq Keys
      /\ jobs'[k] = 1 \/ (jobs'[k] = 0 /\ k \in givenUp')
      /\ \A l \in Keys \ {k} : jobs'[l] = jobs[l] /\ (l \in givenUp' <=> l \in givenUp)
  BY <1>2, <1>3, AskedOne
<1>5. UNCHANGED <<asked, results, status, verifyTried, m_downloading, keyring>>
  BY DEF ServerFails, ImportFails
<1>6. KeyTypeOK'
  BY <1>4, <1>5 DEF KeyTypeOK
<1>7. \A l \in Keys : JobsFollow(l)'
  BY <1>1, <1>4, <1>5 DEF JobsFollow
<1>8. \A s \in Signatures : WaitsOrKnows(s)'
  BY <1>5 DEF WaitsOrKnows, LastIsGood
<1> QED
  BY <1>6, <1>7, <1>8

LEMMA KeyArrivesKeeps ==
    ASSUME KeyInv, NEW k \in Keys, KeyArrives(k)
    PROVE  KeyInv'
<1> USE DEF KeyInv
<1>1. jobs[k] = 1
  BY DEF KeyArrives, JobsFollow
<1>2. /\ jobs' = [jobs EXCEPT ![k] = 0] /\ m_downloading' = [m_downloading EXCEPT ![k] = {}]
      /\ keyring' = keyring \cup {k}
      /\ asked' = [s \in Signatures |-> IF s \in Told(k) THEN asked[s] + 1 ELSE asked[s]]
      /\ UNCHANGED <<results, status, verifyTried, m_triedMirrors, givenUp>>
  BY <1>1 DEF KeyArrives
<1>3. asked' \in [Signatures -> Nat] /\ \A s \in Signatures : asked[s] > 0 => asked'[s] > 0
  BY <1>2 DEF KeyTypeOK
<1>4. KeyTypeOK'
  BY <1>2, <1>3 DEF KeyTypeOK
<1>5. \A l \in Keys : JobsFollow(l)'
  BY <1>2 DEF JobsFollow, KeyTypeOK
<1>6. ASSUME NEW s \in Signatures PROVE WaitsOrKnows(s)'
  <2>1. Fingerprint[s] \in Keys
    BY DEF Keys
  <2>2. CASE s \in Told(k)
    <3>1. asked'[s] > 0
      BY <1>2, <2>2 DEF KeyTypeOK
    <3>2. Fingerprint[s] = k \/ Fingerprint[s] # k
      OBVIOUS
    <3> QED
      BY <1>2, <2>1, <2>2, <3>1 DEF WaitsOrKnows, LastIsGood, Told, KeyTypeOK
  <2>3. CASE s \notin Told(k)
    BY <1>2, <1>3, <2>1, <2>3 DEF WaitsOrKnows, LastIsGood, Told, KeyTypeOK
  <2> QED
    BY <2>2, <2>3
<1> QED
  BY <1>4, <1>5, <1>6

-----------------------------------------------------------------------------
(* The invariant holds in every state. *)
THEOREM KeyInvariant ==
    Spec => []KeyInv
<1>1. Init => KeyInv
  BY Initially
<1>2. KeyInv /\ [Next]_vars => KeyInv'
  <2> SUFFICES ASSUME KeyInv, [Next]_vars
               PROVE  KeyInv'
    OBVIOUS
  <2>1. ASSUME NEW s \in Signatures, Verify(s) \/ Verified(s) \/ ResultArrives(s) \/ KeyIsMissing(s)
        PROVE  KeyInv'
    BY <2>1, VerifyKeeps, VerifiedKeeps, ResultArrivesKeeps, KeyIsMissingKeeps
  <2>2. ASSUME NEW k \in Keys, ServerFails(k) \/ ImportFails(k) \/ KeyArrives(k)
        PROVE  KeyInv'
    BY <2>2, AskAgainKeeps, KeyArrivesKeeps
  <2>3. CASE UNCHANGED vars
    BY <2>3 DEF vars, KeyInv, KeyTypeOK, JobsFollow, WaitsOrKnows, LastIsGood
  <2> QED
    BY <2>1, <2>2, <2>3 DEF Next
<1> QED
  BY <1>1, <1>2, PTL DEF Spec

(* However many signatures want a key and whatever servers fail, one server *)
(* is asked for it at a time (keydownloader.cpp:61-64).                     *)
THEOREM OneJobPerKeyAlways ==
    Spec => []OneJobPerKey
<1>1. KeyInv => OneJobPerKey
  BY DEF KeyInv, JobsFollow, OneJobPerKey
<1> QED
  BY <1>1, KeyInvariant, PTL

(* No order of requests, answers and failures makes the downloader forget  *)
(* a signature that waits for a key.                                       *)
THEOREM NobodyIsForgottenAlways ==
    Spec => []NobodyIsForgotten
<1>1. ASSUME KeyInv, NEW s \in Signatures, status[s] = "NotWorked", verifyTried[s],
             asked[s] = 0, results[s] = <<>>
      PROVE  s \in m_downloading[Fingerprint[s]]
             /\ (jobs[Fingerprint[s]] = 1 \/ Fingerprint[s] \in givenUp)
  <2>1. s \in m_downloading[Fingerprint[s]]
    BY <1>1 DEF KeyInv, WaitsOrKnows
  <2>2. Fingerprint[s] \in Keys
    BY DEF Keys
  <2> QED
    BY <1>1, <2>1, <2>2 DEF KeyInv, JobsFollow
<1>2. KeyInv => NobodyIsForgotten
  BY <1>1 DEF NobodyIsForgotten
<1> QED
  BY <1>2, KeyInvariant, PTL

-----------------------------------------------------------------------------
(***************************************************************************)
(* Metalink                                                                *)
(***************************************************************************)

States == {"Stopped", "Running", "Aborted", "Finished"}

FactoryStates ==
    [status : States, doDownload : BOOLEAN, m_startTried : BOOLEAN,
     file : {"closed", "opening", "open"}, broken : BOOLEAN]

MetalinkStates ==
    [status : States, m_ready : BOOLEAN, stored : BOOLEAN, m_currentFiles : Nat,
     factory : [Files -> FactoryStates]]

(* The files that run are wanted ones, and make the transfer run. *)
MetalinkReady(n) ==
    /\ n \in MetalinkStates
    /\ n.m_ready
    /\ \A f \in Files : n.factory[f].status = "Running" => n.factory[f].doDownload /\ n.status = "Running"

(* What the first property says, but for the files of E. *)
Missing(n, f) ==
    /\ n.factory[f].doDownload
    /\ n.factory[f].status # "Finished"
    /\ ~(n.factory[f].m_startTried /\ n.factory[f].file = "opening")

CompleteBut(n, E) == n.status = "Finished" => \A f \in Files \ E : ~Missing(n, f)

MetalinkGood(n) == MetalinkReady(n) /\ CompleteBut(n, {})

MetalinkInv ==
    /\ metalink \in MetalinkStates
    /\ metalink.m_ready => MetalinkGood(metalink)
    /\ ~metalink.m_ready =>
          /\ metalink.status \in {"Stopped", "Aborted"}
          /\ \A f \in Files : metalink.factory[f] = NewFactory
    /\ downloads \in 0 .. 1
    /\ downloads > 0 => ~metalink.m_ready /\ ~metalink.stored
    /\ dialogs \in Nat
    /\ dialogs > 0 => metalink.m_ready

-----------------------------------------------------------------------------
(* The factory of one file becomes another. *)
LEMMA FactoryChanges ==
  ASSUME NEW n \in MetalinkStates, NEW f \in Files, NEW x \in FactoryStates, NEW o,
         o = [n EXCEPT !.factory = [n.factory EXCEPT ![f] = x]]
  PROVE  /\ o \in MetalinkStates /\ o.status = n.status /\ o.m_ready = n.m_ready /\ o.stored = n.stored
         /\ o.m_currentFiles = n.m_currentFiles
         /\ o.factory[f] = x
         /\ \A g \in Files \ {f} : o.factory[g] = n.factory[g]
BY DEF MetalinkStates

(* The list of the factories has all files, each at some place. *)
LEMMA FilesInOrder ==
  /\ IsFiniteSet(Files)
  /\ Len(FileOrder) \in Nat
  /\ \A i \in 1 .. Len(FileOrder) : FileOrder[i] \in Files
  /\ \A f \in Files : \E i \in 1 .. Len(FileOrder) : FileOrder[i] = f
<1>1. Len(FileOrder) \in Nat /\ DOMAIN FileOrder = 1 .. Len(FileOrder) BY MetalinkAssumption
<1>2. Files = {FileOrder[i] : i \in 1 .. Len(FileOrder)} BY <1>1 DEF Files, ToSet
<1>3. IsFiniteSet(1 .. Len(FileOrder)) BY <1>1, FS_Interval
<1>4. IsFiniteSet(Files) 
  <2> DEFINE F == [i \in 1 .. Len(FileOrder) |-> FileOrder[i]]
  <2>1. Files = {F[i] : i \in 1 .. Len(FileOrder)} BY <1>2
  <2>2. F \in Surjection(1 .. Len(FileOrder), Files) BY <1>2 DEF Surjection
  <2> QED BY <1>3, <2>2, FS_Surjection
<1> QED BY <1>1, <1>2, <1>4

(* A factory has stopped or failed, or is none: updateStatus. *)
LEMMA StatusUpdated ==
  ASSUME NEW n, MetalinkReady(n), NEW s \in {"Stopped", "Aborted"}
  PROVE  /\ MetalinkReady(NoLongerRunning(n, s))
         /\ NoLongerRunning(n, s).status # "Finished"
         /\ NoLongerRunning(n, s).factory = n.factory
<1> DEFINE running == Running(n) \cap Selected(n)
           o == NoLongerRunning(n, s)
<1>1. running \subseteq Files BY DEF Running
<1>2. Cardinality(running) \in Nat BY <1>1, FilesInOrder, FS_Subset, FS_CardinalityType
<1>3. \A f \in Files : n.factory[f].status = "Running" <=> f \in running
  BY DEF MetalinkReady, Running, Selected
<1>4. running # {} => n.status = "Running" BY <1>3 DEF MetalinkReady, Running
<1> HIDE DEF running
<1>5. o = [n EXCEPT !.m_currentFiles = Cardinality(running), !.status = IF running = {} THEN s ELSE @]
  BY DEF o, running, NoLongerRunning
<1>6. n \in MetalinkStates BY DEF MetalinkReady
<1>7. o \in MetalinkStates /\ o.factory = n.factory /\ o.m_ready = n.m_ready
      /\ o.status = IF running = {} THEN s ELSE n.status
  BY <1>2, <1>5, <1>6 DEF MetalinkStates, States
<1> HIDE DEF o
<1>8. MetalinkReady(o) BY <1>3, <1>4, <1>7 DEF MetalinkReady
<1>9. o.status # "Finished" BY <1>4, <1>7
<1> QED BY <1>7, <1>8, <1>9 DEF o

(* How starting and stopping a factory leave the others *)
SameChoice(n, o) ==
    /\ \A f \in Files : o.factory[f].doDownload = n.factory[f].doDownload
    /\ \A f \in Files : o.factory[f].status = "Finished" <=> n.factory[f].status = "Finished"

(* A factory starts; then its file is no exception. *)
Started(n, o, f) ==
    /\ MetalinkReady(o)
    /\ CompleteBut(n, {f}) => CompleteBut(o, {})
    /\ SameChoice(n, o)

LEMMA FileStarts ==
  ASSUME NEW n, NEW f \in Files, NEW fails \in BOOLEAN, MetalinkReady(n)
  PROVE  Started(n, StartFactory(n, f, fails), f)
<1> DEFINE x == n.factory[f]
           o == StartFactory(n, f, fails)
           With(y) == [n EXCEPT !.factory = [n.factory EXCEPT ![f] = y]]
           triedx == [x EXCEPT !.m_startTried = TRUE]
           tried == [n EXCEPT !.factory[f].m_startTried = TRUE]
<1>1. n \in MetalinkStates /\ x \in FactoryStates BY DEF MetalinkReady, MetalinkStates
<1>2. tried = With(triedx) BY <1>1 DEF MetalinkStates
<1>3. triedx \in FactoryStates BY <1>1 DEF FactoryStates
<1>4. CASE x.status = "Finished"
  <2>1. o = n BY <1>4 DEF StartFactory
  <2> QED BY <1>4, <2>1 DEF Started, CompleteBut, Missing, SameChoice
<1>5. CASE x.status # "Finished" /\ ~x.doDownload
  <2>1. o = With(triedx) BY <1>2, <1>5 DEF StartFactory
  <2>3. triedx.status = x.status /\ triedx.doDownload = x.doDownload BY <1>1 DEF FactoryStates
  <2> HIDE DEF o, triedx
  <2>2. /\ o \in MetalinkStates /\ o.status = n.status /\ o.m_ready = n.m_ready
        /\ o.factory[f] = triedx /\ \A g \in Files \ {f} : o.factory[g] = n.factory[g]
    BY <1>1, <1>3, <2>1, FactoryChanges
  <2> HIDE DEF x
  <2>4. MetalinkReady(o) BY <1>5, <2>2, <2>3 DEF MetalinkReady, x
  <2>5. CompleteBut(n, {f}) => CompleteBut(o, {}) BY <1>5, <2>2, <2>3 DEF CompleteBut, Missing, x
  <2>6. SameChoice(n, o) BY <2>2, <2>3 DEF SameChoice, x
  <2> QED BY <2>4, <2>5, <2>6 DEF Started, o
<1>6. CASE x.status # "Finished" /\ x.doDownload /\ fails
  <2> DEFINE y == [triedx EXCEPT !.status = "Aborted"]
             p == With(y)
  <2>1. y \in FactoryStates /\ y.status = "Aborted" /\ y.doDownload = x.doDownload
    BY <1>1 DEF FactoryStates, States
  <2>2. [tried EXCEPT !.factory[f].status = "Aborted"] = p BY <1>1 DEF MetalinkStates, FactoryStates
  <2>3. o = NoLongerRunning(p, "Aborted") BY <1>6, <2>2 DEF StartFactory
  <2> HIDE DEF o, y
  <2>4. /\ p \in MetalinkStates /\ p.status = n.status /\ p.m_ready = n.m_ready
        /\ p.factory[f] = y /\ \A g \in Files \ {f} : p.factory[g] = n.factory[g]
    BY <1>1, <2>1, FactoryChanges
  <2> HIDE DEF x, p
  <2>5. MetalinkReady(p) BY <2>1, <2>4 DEF MetalinkReady
  <2>6. MetalinkReady(o) /\ o.status # "Finished" /\ o.factory = p.factory BY <2>3, <2>5, StatusUpdated
  <2>7. CompleteBut(o, {}) BY <2>6 DEF CompleteBut
  <2>8. SameChoice(n, o) BY <1>6, <2>1, <2>4, <2>6 DEF SameChoice, x
  <2> QED BY <2>6, <2>7, <2>8 DEF Started, o
<1>7. CASE x.status # "Finished" /\ x.doDownload /\ ~fails /\ x.file = "open"
  <2> DEFINE y == [x EXCEPT !.status = "Running", !.m_startTried = FALSE]
  <2>1. y \in FactoryStates /\ y.status = "Running" /\ y.doDownload = x.doDownload
    BY <1>1 DEF FactoryStates, States
  <2>2. o = [n EXCEPT !.factory[f].status = "Running", !.factory[f].m_startTried = FALSE, !.status = "Running"]
    BY <1>7 DEF StartFactory
  <2>3. o = [With(y) EXCEPT !.status = "Running"]
    BY <1>1, <2>2 DEF MetalinkStates, FactoryStates
  <2> DEFINE p == With(y)
  <2> HIDE DEF o, y
  <2>4. /\ p \in MetalinkStates /\ p.m_ready = n.m_ready
        /\ p.factory[f] = y /\ \A g \in Files \ {f} : p.factory[g] = n.factory[g]
    BY <1>1, <2>1, FactoryChanges
  <2>5. o = [p EXCEPT !.status = "Running"] BY <2>3
  <2> HIDE DEF x, p
  <2>6. o \in MetalinkStates /\ o.m_ready = n.m_ready /\ o.status = "Running" /\ o.factory = p.factory
    BY <2>4, <2>5 DEF MetalinkStates, States
  <2>7. MetalinkReady(o) BY <1>7, <2>1, <2>4, <2>6 DEF MetalinkReady
  <2>8. CompleteBut(o, {}) BY <2>6 DEF CompleteBut
  <2>9. SameChoice(n, o) BY <1>7, <2>1, <2>4, <2>6 DEF SameChoice, x
  <2> QED BY <2>7, <2>8, <2>9 DEF Started, o
<1>8. CASE x.status # "Finished" /\ x.doDownload /\ ~fails /\ x.file # "open"
  <2> DEFINE y == [triedx EXCEPT !.file = "opening"]
  <2>1. /\ y \in FactoryStates /\ y.status = x.status /\ y.doDownload = x.doDownload
        /\ y.m_startTried /\ y.file = "opening"
    BY <1>1 DEF FactoryStates
  <2>2. o = [tried EXCEPT !.factory[f].file = "opening"] BY <1>8 DEF StartFactory
  <2>3. o = With(y) BY <1>1, <2>2 DEF MetalinkStates, FactoryStates
  <2> HIDE DEF o, y
  <2>4. /\ o \in MetalinkStates /\ o.status = n.status /\ o.m_ready = n.m_ready
        /\ o.factory[f] = y /\ \A g \in Files \ {f} : o.factory[g] = n.factory[g]
    BY <1>1, <2>1, <2>3, FactoryChanges
  <2> HIDE DEF x
  <2>5. MetalinkReady(o) BY <1>8, <2>1, <2>4 DEF MetalinkReady, x
  <2>6. CompleteBut(n, {f}) => CompleteBut(o, {}) BY <2>1, <2>4 DEF CompleteBut, Missing
  <2>7. SameChoice(n, o) BY <2>1, <2>4 DEF SameChoice, x
  <2> QED BY <2>5, <2>6, <2>7 DEF Started, o
<1> QED BY <1>4, <1>5, <1>6, <1>7, <1>8

(* A factory stops: of this one, less is asked. *)
LEMMA FileStops ==
  ASSUME NEW n, NEW f \in Files, n \in MetalinkStates, n.m_ready,
         \A g \in Files \ {f} : n.factory[g].status = "Running"
                                => n.factory[g].doDownload /\ n.status = "Running",
         n.factory[f].status # "Finished"
  PROVE  /\ MetalinkGood(StopFactory(n, f)) /\ SameChoice(n, StopFactory(n, f))
<1> DEFINE x == n.factory[f]
           o == StopFactory(n, f)
           y == [x EXCEPT !.status = "Stopped", !.m_startTried = FALSE]
           p == [n EXCEPT !.factory = [n.factory EXCEPT ![f] = y]]
<1>1. n \in MetalinkStates /\ f \in Files OBVIOUS
<1>2. x \in FactoryStates BY DEF MetalinkStates
<1>3. y \in FactoryStates /\ y.status = "Stopped" /\ y.doDownload = x.doDownload
  BY <1>2 DEF FactoryStates, States
<1>4. [n EXCEPT !.factory[f].status = "Stopped", !.factory[f].m_startTried = FALSE] = p
  BY <1>2 DEF MetalinkStates, FactoryStates
<1>5. o = NoLongerRunning(p, "Stopped") BY <1>4 DEF StopFactory
<1> HIDE DEF o, y
<1>6. p = [n EXCEPT !.factory = [n.factory EXCEPT ![f] = y]] OBVIOUS
<1> HIDE DEF x, p
<1>7. p.factory[f] = y BY <1>1, <1>6 DEF MetalinkStates
<1>8. /\ p \in MetalinkStates /\ p.status = n.status /\ p.m_ready = n.m_ready
      /\ \A g \in Files \ {f} : p.factory[g] = n.factory[g]
  <2>1. y \in FactoryStates BY <1>3
  <2> QED BY ONLY <1>1, <1>6, <2>1, FactoryChanges
<1>9. MetalinkReady(p) BY <1>3, <1>7, <1>8 DEF MetalinkReady
<1>10. MetalinkReady(o) /\ o.status # "Finished" /\ o.factory = p.factory BY <1>5, <1>9, StatusUpdated
<1>11. CompleteBut(o, {}) BY <1>10 DEF CompleteBut
<1>12. SameChoice(n, o) BY <1>3, <1>7, <1>8, <1>10 DEF SameChoice, x
<1> QED BY <1>10, <1>11, <1>12 DEF MetalinkGood, o

(* A file that is not there is to be downloaded, or no longer. *)
Chosen(n, o, f, d) ==
    /\ MetalinkReady(o)
    /\ CompleteBut(n, {}) /\ ~d => CompleteBut(o, {})
    /\ o.factory[f].doDownload = d
    /\ \A g \in Files \ {f} : o.factory[g].doDownload = n.factory[g].doDownload
    /\ \A g \in Files : o.factory[g].status = "Finished" <=> n.factory[g].status = "Finished"

LEMMA FileIsChosen ==
  ASSUME NEW n, NEW f \in Files, NEW d \in BOOLEAN, MetalinkReady(n), n.factory[f].status # "Finished"
  PROVE  Chosen(n, setDoDownload(n, f, d), f, d)
<1> DEFINE x == n.factory[f]
           o == setDoDownload(n, f, d)
           y == [x EXCEPT !.doDownload = d]
           p == [n EXCEPT !.factory = [n.factory EXCEPT ![f] = y]]
<1>1. n \in MetalinkStates /\ x \in FactoryStates BY DEF MetalinkReady, MetalinkStates
<1>2. CASE x.doDownload = d
  <2>1. o = n BY <1>2 DEF setDoDownload
  <2> QED BY <1>2, <2>1 DEF Chosen
<1>3. CASE x.doDownload # d
  <2>1. /\ y \in FactoryStates /\ y.status = x.status /\ y.doDownload = d
        /\ y.m_startTried = x.m_startTried /\ y.file = x.file
    BY <1>1 DEF FactoryStates
  <2>2. [n EXCEPT !.factory[f].doDownload = d] = p BY <1>1 DEF MetalinkStates, FactoryStates
  <2>3. p.factory[f] = y BY <1>1 DEF MetalinkStates
  <2>4. o = IF d /\ p.factory[f].m_startTried THEN StartFactory(p, f, FALSE)
            ELSE IF ~d /\ p.factory[f].status = "Running" THEN StopFactory(p, f)
            ELSE p
    BY <1>3, <2>2 DEF setDoDownload
  <2> HIDE DEF o, y
  <2>5. p = [n EXCEPT !.factory = [n.factory EXCEPT ![f] = y]] OBVIOUS
  <2> HIDE DEF p, x
  <2>6. /\ p \in MetalinkStates /\ p.status = n.status /\ p.m_ready = n.m_ready
        /\ \A g \in Files \ {f} : p.factory[g] = n.factory[g]
    BY <1>1, <2>1, <2>5, FactoryChanges
  <2>7. \A g \in Files : p.factory[g].status = n.factory[g].status BY <2>1, <2>3, <2>6 DEF x
  <2>8. \A g \in Files \ {f} : n.factory[g].status = "Running" => n.factory[g].doDownload /\ n.status = "Running"
    BY DEF MetalinkReady
  <2>9. CASE d /\ y.m_startTried
    <3>1. x.status # "Running" BY <1>3, <2>9 DEF MetalinkReady, x
    <3>2. MetalinkReady(p) BY <2>1, <2>3, <2>6, <2>8, <3>1 DEF MetalinkReady
    <3>3. o = StartFactory(p, f, FALSE) BY <2>3, <2>4, <2>9
    <3>4. Started(p, o, f) BY <3>2, <3>3, FileStarts
    <3>5. \A g \in Files \ {f} : p.factory[g] = n.factory[g] BY <2>6
    <3> QED BY <2>1, <2>3, <2>7, <2>9, <3>4, <3>5 DEF Started, SameChoice, Chosen, o
  <2>10. CASE ~d /\ y.status = "Running"
    <3>1. p.factory[f].status # "Finished" BY <2>3, <2>10
    <3>2. o = StopFactory(p, f) BY <2>3, <2>4, <2>10
    <3>3. p.m_ready BY <2>6 DEF MetalinkReady
    <3>4. \A g \in Files \ {f} : p.factory[g].status = "Running" => p.factory[g].doDownload /\ p.status = "Running"
      BY <2>6, <2>8
    <3>5. MetalinkGood(o) /\ SameChoice(p, o) BY <2>6, <3>1, <3>2, <3>3, <3>4, FileStops
    <3> QED BY <2>1, <2>3, <2>6, <2>7, <3>5 DEF MetalinkGood, SameChoice, Chosen, o
  <2>11. CASE ~(d /\ y.m_startTried) /\ ~(~d /\ y.status = "Running")
    <3>1. o = p BY <2>3, <2>4, <2>11
    <3>2. x.status # "Running"
      <4>1. CASE d
        <5>1. ~x.doDownload BY <1>1, <1>3, <4>1 DEF FactoryStates
        <5> QED BY <5>1 DEF MetalinkReady, x
      <4>2. CASE ~d BY <2>1, <2>11, <4>2
      <4> QED BY <4>1, <4>2
    <3>3. MetalinkReady(p) BY <2>1, <2>3, <2>6, <2>8, <3>2 DEF MetalinkReady
    <3>4. CompleteBut(n, {}) /\ ~d => CompleteBut(p, {})
      BY <2>1, <2>3, <2>6 DEF CompleteBut, Missing
    <3> QED BY <2>1, <2>3, <2>6, <2>7, <3>1, <3>3, <3>4 DEF Chosen, o
  <2> QED BY <2>9, <2>10, <2>11
<1> QED BY <1>2, <1>3

(* startMetalink goes through the files. *)
LEMMA FilesStart ==
  ASSUME NEW n, MetalinkGood(n), NEW F
  PROVE  MetalinkGood(startMetalink(n, F))
<1> DEFINE N == Len(FileOrder)
           Next1(s, f) ==
               IF s.m_currentFiles < SimultanousFiles /\ ShouldStart(s, f)
               THEN StartFactory([s EXCEPT !.m_currentFiles = @ + 1], f, f \in F)
               ELSE s
           Goods == {s \in MetalinkStates : MetalinkGood(s)}
           S == [i \in 0 .. N |-> Goods]
           step == [p \in Goods \X (1 .. N) |-> Next1(p[1], FileOrder[p[2]])]
           Loop(g) == g = [i \in 0 .. N |-> IF i = 0 THEN n ELSE Next1(g[i - 1], FileOrder[i])]
           after == CHOOSE g : Loop(g)
<1>1. N \in Nat /\ \A i \in 1 .. N : FileOrder[i] \in Files BY FilesInOrder
<1>2. \A s : s \in Goods <=> MetalinkGood(s) BY DEF MetalinkGood, MetalinkReady
<1>3. ASSUME NEW s, MetalinkGood(s), NEW f \in Files PROVE MetalinkGood(Next1(s, f))
  <2> DEFINE p == [s EXCEPT !.m_currentFiles = @ + 1]
             fails == f \in F
             o == StartFactory(p, f, fails)
  <2>1. s \in MetalinkStates BY <1>3 DEF MetalinkGood, MetalinkReady
  <2>2. p \in MetalinkStates /\ p.status = s.status /\ p.m_ready = s.m_ready /\ p.factory = s.factory
    BY <2>1 DEF MetalinkStates
  <2>3. fails \in BOOLEAN OBVIOUS
  <2>4. Next1(s, f) = o \/ Next1(s, f) = s OBVIOUS
  <2> HIDE DEF p, fails, Next1
  <2>5. MetalinkReady(p) BY <1>3, <2>2 DEF MetalinkGood, MetalinkReady
  <2>6. CompleteBut(p, {f}) BY <1>3, <2>2 DEF MetalinkGood, CompleteBut, Missing
  <2>7. Started(p, o, f) BY <2>3, <2>5, FileStarts
  <2>8. MetalinkGood(o) BY <2>6, <2>7 DEF Started, MetalinkGood
  <2> QED BY <1>3, <2>4, <2>8
<1> HIDE DEF Next1, Goods
<1>4. \A s \in Goods, i \in 1 .. N : Next1(s, FileOrder[i]) \in Goods BY <1>1, <1>2, <1>3
<1>5. \A s \in Goods, i \in 1 .. N : step[<<s, i>>] = Next1(s, FileOrder[i]) OBVIOUS
<1>6. /\ \A i \in 0 .. N : S[i] = Goods
      /\ \A i \in 1 .. N : S[i] = Goods /\ S[i - 1] = Goods
  BY <1>1
<1>7. n \in S[0] BY <1>1, <1>2, <1>6
<1> HIDE DEF N, S, step
<1>8. PICK g : g \in Runs(Goods, N, S, n, step)
  <2>1. \A i \in 0 .. N : S[i] \subseteq Goods BY <1>6
  <2>2. \A i \in 1 .. N : \A s \in S[i - 1] : step[<<s, i>>] \in S[i] BY <1>4, <1>5, <1>6
  <2>3. Carries(Goods, N, S, n, step) BY <1>7, <2>1, <2>2 DEF Carries
  <2> QED BY <1>1, <2>3, IterationsRun
<1>9. g \in [0 .. N -> Goods] /\ g[0] = n /\ \A i \in 1 .. N : g[i] = Next1(g[i - 1], FileOrder[i])
  <2>1. \A i \in 1 .. N : i - 1 \in 0 .. N BY <1>1
  <2> QED BY <1>5, <1>8, <2>1 DEF Runs
<1>10. Loop(g) BY <1>1, <1>9
<1>11. Loop(after) BY <1>10
<1> HIDE DEF after
<1>12. after[0] = n /\ \A i \in 1 .. N : after[i] = Next1(after[i - 1], FileOrder[i]) BY <1>1, <1>11
<1>13. \A i \in 0 .. N : after[i] \in S[i]
  <2>1. \A i \in 1 .. N : after[i - 1] \in S[i - 1] => after[i] \in S[i] BY <1>4, <1>6, <1>12
  <2>2. after[0] \in S[0] BY <1>7, <1>12
  <2> QED BY <1>1, <2>1, <2>2, IterationsAdvance
<1>14. after[N] \in Goods BY <1>1, <1>6, <1>13
<1>15. startMetalink(n, F) = after[N] BY DEF MetalinkGood, MetalinkReady, startMetalink, ForEach, after, N, Next1
<1> QED BY <1>2, <1>14, <1>15

(* stopMetalink stops one file after the other. *)
LEMMA FilesStop ==
  ASSUME NEW n, MetalinkGood(n)
  PROVE  MetalinkGood(ForEach(StopFactory, n, FileOrder))
<1> DEFINE N == Len(FileOrder)
           Goods == {s \in MetalinkStates : MetalinkGood(s)}
           S == [i \in 0 .. N |-> Goods]
           step == [p \in Goods \X (1 .. N) |-> StopFactory(p[1], FileOrder[p[2]])]
           Loop(g) == g = [i \in 0 .. N |-> IF i = 0 THEN n ELSE StopFactory(g[i - 1], FileOrder[i])]
           after == CHOOSE g : Loop(g)
<1>1. N \in Nat /\ \A i \in 1 .. N : FileOrder[i] \in Files BY FilesInOrder
<1>2. \A s : s \in Goods <=> MetalinkGood(s) BY DEF MetalinkGood, MetalinkReady
<1>3. ASSUME NEW s, MetalinkGood(s), NEW f \in Files PROVE MetalinkGood(StopFactory(s, f))
  <2>1. s \in MetalinkStates /\ s.m_ready BY <1>3 DEF MetalinkGood, MetalinkReady
  <2>2. CASE s.factory[f].status = "Finished" BY <1>3, <2>2 DEF StopFactory
  <2>3. CASE s.factory[f].status # "Finished"
    <3>1. \A g \in Files : s.factory[g].status = "Running" => s.factory[g].doDownload /\ s.status = "Running"
      BY <1>3 DEF MetalinkGood, MetalinkReady
    <3> QED BY <1>3, <2>1, <2>3, <3>1, FileStops
  <2> QED BY <2>2, <2>3
<1> HIDE DEF Goods
<1>4. \A s \in Goods, i \in 1 .. N : StopFactory(s, FileOrder[i]) \in Goods BY <1>1, <1>2, <1>3
<1>5. \A s \in Goods, i \in 1 .. N : step[<<s, i>>] = StopFactory(s, FileOrder[i]) OBVIOUS
<1>6. /\ \A i \in 0 .. N : S[i] = Goods
      /\ \A i \in 1 .. N : S[i] = Goods /\ S[i - 1] = Goods
  BY <1>1
<1>7. n \in S[0] BY <1>1, <1>2, <1>6
<1> HIDE DEF N, S, step
<1>8. PICK g : g \in Runs(Goods, N, S, n, step)
  <2>1. \A i \in 0 .. N : S[i] \subseteq Goods BY <1>6
  <2>2. \A i \in 1 .. N : \A s \in S[i - 1] : step[<<s, i>>] \in S[i] BY <1>4, <1>5, <1>6
  <2>3. Carries(Goods, N, S, n, step) BY <1>7, <2>1, <2>2 DEF Carries
  <2> QED BY <1>1, <2>3, IterationsRun
<1>9. g \in [0 .. N -> Goods] /\ g[0] = n /\ \A i \in 1 .. N : g[i] = StopFactory(g[i - 1], FileOrder[i])
  <2>1. \A i \in 1 .. N : i - 1 \in 0 .. N BY <1>1
  <2> QED BY <1>5, <1>8, <2>1 DEF Runs
<1>10. Loop(g) BY <1>1, <1>9
<1>11. Loop(after) BY <1>10
<1> HIDE DEF after
<1>12. after[0] = n /\ \A i \in 1 .. N : after[i] = StopFactory(after[i - 1], FileOrder[i]) BY <1>1, <1>11
<1>13. \A i \in 0 .. N : after[i] \in S[i]
  <2>1. \A i \in 1 .. N : after[i - 1] \in S[i - 1] => after[i] \in S[i] BY <1>4, <1>6, <1>12
  <2>2. after[0] \in S[0] BY <1>7, <1>12
  <2> QED BY <1>1, <2>1, <2>2, IterationsAdvance
<1>14. after[N] \in Goods BY <1>1, <1>6, <1>13
<1>15. ForEach(StopFactory, n, FileOrder) = after[N] BY DEF ForEach, after, N
<1> QED BY <1>2, <1>14, <1>15

(* Metalink::stop *)
LEMMA MetalinkStops ==
  ASSUME NEW n, MetalinkGood(n)
  PROVE  MetalinkGood(stopMetalink(n))
<1> DEFINE p == [n EXCEPT !.m_currentFiles = 0]
<1>1. n \in MetalinkStates BY DEF MetalinkGood, MetalinkReady
<1>2. p \in MetalinkStates /\ p.status = n.status /\ p.m_ready = n.m_ready /\ p.factory = n.factory
  BY <1>1 DEF MetalinkStates
<1>3. stopMetalink(n) = n \/ stopMetalink(n) = ForEach(StopFactory, p, FileOrder) BY DEF stopMetalink
<1> HIDE DEF p
<1>4. MetalinkGood(p) BY <1>2 DEF MetalinkGood, MetalinkReady, CompleteBut, Missing
<1>5. MetalinkGood(ForEach(StopFactory, p, FileOrder)) BY <1>4, FilesStop
<1> QED BY <1>3, <1>5

(* Repair starts some files once more. *)
Reopen(n, f) == [n EXCEPT !.factory[f].status = "Stopped", !.factory[f].broken = FALSE]
RepairOne(n, f, B) == IF f \in B THEN StartFactory(Reopen(n, f), f, FALSE) ELSE n

(* The factory of a broken file starts once more. *)
LEMMA FileIsRepaired ==
  ASSUME NEW n, MetalinkGood(n), NEW f \in Files, NEW B
  PROVE  MetalinkGood(RepairOne(n, f, B))
<1> DEFINE x == n.factory[f]
           y == [x EXCEPT !.status = "Stopped", !.broken = FALSE]
           p == [n EXCEPT !.factory = [n.factory EXCEPT ![f] = y]]
<1>1. n \in MetalinkStates BY DEF MetalinkGood, MetalinkReady
<1>2. x \in FactoryStates BY <1>1 DEF MetalinkStates
<1>3. y \in FactoryStates /\ y.status = "Stopped" BY <1>2 DEF FactoryStates, States
<1>4. Reopen(n, f) = p BY <1>1, <1>2 DEF Reopen, MetalinkStates, FactoryStates
<1> HIDE DEF y
<1>5. p = [n EXCEPT !.factory = [n.factory EXCEPT ![f] = y]] OBVIOUS
<1> HIDE DEF p, x
<1>6. p.factory[f] = y BY <1>1, <1>5 DEF MetalinkStates
<1>7. /\ p \in MetalinkStates /\ p.status = n.status /\ p.m_ready = n.m_ready
      /\ \A g \in Files \ {f} : p.factory[g] = n.factory[g]
  <2>1. y \in FactoryStates BY <1>3
  <2> QED BY ONLY f \in Files, <1>1, <1>5, <2>1, FactoryChanges
<1>8. MetalinkReady(p) BY <1>3, <1>6, <1>7 DEF MetalinkGood, MetalinkReady
<1>9. CompleteBut(p, {f}) BY <1>7 DEF MetalinkGood, CompleteBut, Missing
<1>10. Started(p, StartFactory(p, f, FALSE), f) BY <1>8, FileStarts
<1>11. MetalinkGood(StartFactory(p, f, FALSE)) BY <1>9, <1>10 DEF Started, MetalinkGood
<1> QED BY <1>4, <1>11 DEF RepairOne

AllRepaired(n, B) ==
    LET RepairNext(s, f) ==
            IF f \in B
            THEN StartFactory([s EXCEPT !.factory[f].status = "Stopped", !.factory[f].broken = FALSE], f, FALSE)
            ELSE s
    IN  ForEach(RepairNext, n, FileOrder)

(* Metalink::repair goes through the files. *)
LEMMA FilesAreRepaired ==
  ASSUME NEW n, MetalinkGood(n), NEW B
  PROVE  MetalinkGood(AllRepaired(n, B))
<1> DEFINE N == Len(FileOrder)
           One(s, f) == RepairOne(s, f, B)
           Goods == {s \in MetalinkStates : MetalinkGood(s)}
           S == [i \in 0 .. N |-> Goods]
           step == [p \in Goods \X (1 .. N) |-> One(p[1], FileOrder[p[2]])]
           Loop(g) == g = [i \in 0 .. N |-> IF i = 0 THEN n ELSE One(g[i - 1], FileOrder[i])]
           after == CHOOSE g : Loop(g)
<1>1. N \in Nat /\ \A i \in 1 .. N : FileOrder[i] \in Files BY FilesInOrder
<1>2. \A s : s \in Goods <=> MetalinkGood(s) BY DEF MetalinkGood, MetalinkReady
<1>3. ASSUME NEW s, MetalinkGood(s), NEW f \in Files PROVE MetalinkGood(One(s, f)) BY <1>3, FileIsRepaired
<1> HIDE DEF One, Goods
<1>4. \A s \in Goods, i \in 1 .. N : One(s, FileOrder[i]) \in Goods BY <1>1, <1>2, <1>3
<1>5. \A s \in Goods, i \in 1 .. N : step[<<s, i>>] = One(s, FileOrder[i]) OBVIOUS
<1>6. /\ \A i \in 0 .. N : S[i] = Goods
      /\ \A i \in 1 .. N : S[i] = Goods /\ S[i - 1] = Goods
  BY <1>1
<1>7. n \in S[0] BY <1>1, <1>2, <1>6
<1> HIDE DEF N, S, step
<1>8. PICK g : g \in Runs(Goods, N, S, n, step)
  <2>1. \A i \in 0 .. N : S[i] \subseteq Goods BY <1>6
  <2>2. \A i \in 1 .. N : \A s \in S[i - 1] : step[<<s, i>>] \in S[i] BY <1>4, <1>5, <1>6
  <2>3. Carries(Goods, N, S, n, step) BY <1>7, <2>1, <2>2 DEF Carries
  <2> QED BY <1>1, <2>3, IterationsRun
<1>9. g \in [0 .. N -> Goods] /\ g[0] = n /\ \A i \in 1 .. N : g[i] = One(g[i - 1], FileOrder[i])
  <2>1. \A i \in 1 .. N : i - 1 \in 0 .. N BY <1>1
  <2> QED BY <1>5, <1>8, <2>1 DEF Runs
<1>10. Loop(g) BY <1>1, <1>9
<1>11. Loop(after) BY <1>10
<1> HIDE DEF after
<1>12. after[0] = n /\ \A i \in 1 .. N : after[i] = One(after[i - 1], FileOrder[i]) BY <1>1, <1>11
<1>13. \A i \in 0 .. N : after[i] \in S[i]
  <2>1. \A i \in 1 .. N : after[i - 1] \in S[i - 1] => after[i] \in S[i] BY <1>4, <1>6, <1>12
  <2>2. after[0] \in S[0] BY <1>7, <1>12
  <2> QED BY <1>1, <2>1, <2>2, IterationsAdvance
<1>14. after[N] \in Goods BY <1>1, <1>6, <1>13
<1>15. ForEach(One, n, FileOrder) = after[N] BY DEF ForEach, after, N
<1>16. MetalinkGood(ForEach(One, n, FileOrder)) BY <1>2, <1>14, <1>15
<1> QED BY <1>16 DEF AllRepaired, One, RepairOne, Reopen

(* The user's choice is told to one factory after the other. Who chooses   *)
(* none leaves none that runs.                                             *)
ChoiceTold(n, o, S, i) ==
    /\ MetalinkReady(o)
    /\ S = {} /\ CompleteBut(n, {}) => CompleteBut(o, {})
    /\ NotFinished(o) = NotFinished(n)
    /\ \A j \in 1 .. i : FileOrder[j] \in NotFinished(n)
                         => o.factory[FileOrder[j]].doDownload = (FileOrder[j] \in S)

SetOne(n, o, f, S) == IF f \in NotFinished(n) THEN setDoDownload(o, f, f \in S) ELSE o

(* One more file is told. *)
LEMMA FileIsTold ==
  ASSUME NEW n, NEW o, NEW S, NEW i \in 1 .. Len(FileOrder), ChoiceTold(n, o, S, i - 1)
  PROVE  ChoiceTold(n, SetOne(n, o, FileOrder[i], S), S, i)
<1> DEFINE f == FileOrder[i]
           d == f \in S
           u == setDoDownload(o, f, d)
<1>1. f \in Files /\ d \in BOOLEAN /\ i \in Nat BY FilesInOrder
<1>2. \A j \in 1 .. i : j = i \/ j \in 1 .. (i - 1) BY <1>1
<1>3. CASE f \notin NotFinished(n) BY <1>2, <1>3 DEF ChoiceTold, SetOne
<1>4. CASE f \in NotFinished(n)
  <2>1. SetOne(n, o, f, S) = u BY <1>4 DEF SetOne
  <2>2. f \in NotFinished(o) BY <1>4 DEF ChoiceTold
  <2>3. S = {} => ~d OBVIOUS
  <2> HIDE DEF d, u
  <2>4. o.factory[f].status # "Finished" BY <2>2 DEF NotFinished
  <2>5. Chosen(o, setDoDownload(o, f, d), f, d) BY <1>1, <2>4, FileIsChosen DEF ChoiceTold
  <2>6. Chosen(o, u, f, d) BY <2>5 DEF u
  <2> HIDE DEF f
  <2>7. MetalinkReady(u) BY <2>6 DEF Chosen
  <2>8. S = {} /\ CompleteBut(n, {}) => CompleteBut(u, {}) BY <2>3, <2>6 DEF Chosen, ChoiceTold
  <2>9. NotFinished(u) = NotFinished(n)
    <3>1. NotFinished(u) = NotFinished(o) BY <2>6 DEF Chosen, NotFinished
    <3> QED BY <3>1 DEF ChoiceTold
  <2>10. ASSUME NEW j \in 1 .. i, FileOrder[j] \in NotFinished(n)
         PROVE  u.factory[FileOrder[j]].doDownload = (FileOrder[j] \in S)
    <3>1. FileOrder[j] \in Files BY <2>10 DEF NotFinished
    <3>2. CASE FileOrder[j] = f
      <4>1. u.factory[f].doDownload = d BY <2>6 DEF Chosen
      <4> QED BY <3>2, <4>1 DEF d
    <3>3. CASE FileOrder[j] # f
      <4>1. j \in 1 .. (i - 1) BY <1>2, <3>3 DEF f
      <4>2. o.factory[FileOrder[j]].doDownload = (FileOrder[j] \in S) BY <2>10, <4>1 DEF ChoiceTold
      <4>3. u.factory[FileOrder[j]].doDownload = o.factory[FileOrder[j]].doDownload
        BY <2>6, <3>1, <3>3 DEF Chosen
      <4> QED BY <4>2, <4>3
    <3> QED BY <3>2, <3>3
  <2>11. ChoiceTold(n, u, S, i) BY <2>7, <2>8, <2>9, <2>10 DEF ChoiceTold
  <2> QED BY <2>1, <2>11 DEF f
<1> QED BY <1>3, <1>4

AllTold(n, S) ==
    LET Set(o, f) == IF f \in NotFinished(n) THEN setDoDownload(o, f, f \in S) ELSE o
    IN  ForEach(Set, n, FileOrder)

(* All files are told. *)
LEMMA FilesAreTold ==
  ASSUME NEW n, MetalinkReady(n), NEW S
  PROVE  ChoiceTold(n, AllTold(n, S), S, Len(FileOrder))
<1> DEFINE N == Len(FileOrder)
           One(o, f) == SetOne(n, o, f, S)
           R == [i \in 0 .. N |-> {o \in MetalinkStates : ChoiceTold(n, o, S, i)}]
           step == [p \in MetalinkStates \X (1 .. N) |-> One(p[1], FileOrder[p[2]])]
           Loop(g) == g = [i \in 0 .. N |-> IF i = 0 THEN n ELSE One(g[i - 1], FileOrder[i])]
           after == CHOOSE g : Loop(g)
<1>1. N \in Nat /\ \A i \in 1 .. N : FileOrder[i] \in Files BY FilesInOrder
<1>2. /\ \A i \in 0 .. N : \A o : o \in R[i] <=> ChoiceTold(n, o, S, i)
      /\ \A i \in 1 .. N : \A o : o \in R[i] <=> ChoiceTold(n, o, S, i)
      /\ \A i \in 1 .. N : \A o : o \in R[i - 1] <=> ChoiceTold(n, o, S, i - 1)
  <2>1. ASSUME NEW i \in 0 .. N, NEW o PROVE o \in R[i] <=> ChoiceTold(n, o, S, i) BY DEF ChoiceTold, MetalinkReady
  <2>2. \A i \in 1 .. N : i \in 0 .. N /\ i - 1 \in 0 .. N BY <1>1
  <2> HIDE DEF R
  <2> QED BY <2>1, <2>2
<1>3. \A i \in 0 .. N : R[i] \subseteq MetalinkStates OBVIOUS
<1>4. \A s \in MetalinkStates, i \in 1 .. N : step[<<s, i>>] = One(s, FileOrder[i]) OBVIOUS
<1>5. \A i \in 1 .. N : i \in 0 .. N /\ i - 1 \in 0 .. N BY <1>1
<1>6. n \in R[0]
  <2>1. ChoiceTold(n, n, S, 0) BY DEF ChoiceTold
  <2>2. 0 \in 0 .. N BY <1>1
  <2> QED BY <1>2, <2>1, <2>2
<1> HIDE DEF R, step
<1>7. \A i \in 1 .. N : \A s : s \in R[i - 1] => One(s, FileOrder[i]) \in R[i]
  BY <1>2, FileIsTold
<1> HIDE DEF N, One
<1>8. PICK g : g \in Runs(MetalinkStates, N, R, n, step)
  <2>1. \A i \in 1 .. N : \A s \in R[i - 1] : step[<<s, i>>] \in R[i] BY <1>3, <1>4, <1>5, <1>7
  <2>2. Carries(MetalinkStates, N, R, n, step) BY <1>3, <1>6, <2>1 DEF Carries
  <2> QED BY <1>1, <2>2, IterationsRun
<1>9. g \in [0 .. N -> MetalinkStates] /\ g[0] = n /\ \A i \in 1 .. N : g[i] = One(g[i - 1], FileOrder[i])
  BY <1>4, <1>5, <1>8 DEF Runs
<1>10. Loop(g) BY <1>1, <1>9
<1>11. Loop(after) BY <1>10
<1> HIDE DEF after
<1>12. after[0] = n /\ \A i \in 1 .. N : after[i] = One(after[i - 1], FileOrder[i]) BY <1>1, <1>11
<1>13. \A i \in 0 .. N : after[i] \in R[i]
  <2>1. \A i \in 1 .. N : after[i - 1] \in R[i - 1] => after[i] \in R[i] BY <1>7, <1>12
  <2>2. after[0] \in R[0] BY <1>6, <1>12
  <2> QED BY <1>1, <2>1, <2>2, IterationsAdvance
<1>14. ChoiceTold(n, after[N], S, N) BY <1>1, <1>2, <1>13
<1>15. ForEach(One, n, FileOrder) = after[N] BY DEF ForEach, after, N, One
<1>16. ChoiceTold(n, ForEach(One, n, FileOrder), S, N) BY <1>14, <1>15
<1> QED BY <1>16 DEF AllTold, One, SetOne, N

(* filesSelected *)
LEMMA FilesAreSelected ==
  ASSUME NEW n, MetalinkGood(n), NEW S, S \subseteq NotFinished(n)
  PROVE  /\ MetalinkGood(filesSelected(n, S))
         /\ S = {} => Running(filesSelected(n, S)) = {}
<1> DEFINE u == AllTold(n, S)
           o == filesSelected(n, S)
<1>1. ChoiceTold(n, u, S, Len(FileOrder)) BY FilesAreTold DEF MetalinkGood
<1>2. o = IF S = {} THEN u ELSE NoLongerRunning(u, "Stopped")
  <2>1. S \cap NotFinished(n) = S OBVIOUS
  <2> QED BY <2>1 DEF filesSelected, AllTold
<1> HIDE DEF o, u
<1>3. CASE S = {}
  <2>1. o = u BY <1>2, <1>3
  <2>2. MetalinkGood(u) BY <1>1, <1>3 DEF ChoiceTold, MetalinkGood
  <2>3. ASSUME NEW f \in Files, u.factory[f].status = "Running" PROVE FALSE
    <3>1. f \in NotFinished(n) BY <1>1, <2>3 DEF ChoiceTold, NotFinished
    <3>2. PICK j \in 1 .. Len(FileOrder) : FileOrder[j] = f BY FilesInOrder
    <3>3. u.factory[f].doDownload = (f \in S) BY <1>1, <3>1, <3>2 DEF ChoiceTold
    <3>4. u.factory[f].doDownload BY <2>2, <2>3 DEF MetalinkGood, MetalinkReady
    <3> QED BY <1>3, <3>3, <3>4
  <2>4. Running(o) = {} BY <2>1, <2>3 DEF Running
  <2> QED BY <2>1, <2>2, <2>4 DEF o
<1>4. CASE S # {}
  <2>1. o = NoLongerRunning(u, "Stopped") BY <1>2, <1>4
  <2>2. MetalinkReady(u) BY <1>1 DEF ChoiceTold
  <2>3. MetalinkReady(o) /\ o.status # "Finished" BY <2>1, <2>2, StatusUpdated
  <2>4. MetalinkGood(o) BY <2>3 DEF MetalinkGood, CompleteBut
  <2> QED BY <1>4, <2>4 DEF o
<1> QED BY <1>3, <1>4

(* updateStatus for a factory that has finished *)
LEMMA MetalinkFinishes ==
  ASSUME NEW n, MetalinkGood(n), NEW F
  PROVE  MetalinkGood(HasFinished(n, F))
<1> DEFINE p == [n EXCEPT !.m_currentFiles = @ - 1]
           u == IF n.m_currentFiles > 0 THEN startMetalink(p, F) ELSE n
           o == HasFinished(n, F)
<1>1. n \in MetalinkStates BY DEF MetalinkGood, MetalinkReady
<1>2. MetalinkGood(u)
  <2>1. CASE n.m_currentFiles > 0
    <3>1. p \in MetalinkStates /\ p.status = n.status /\ p.m_ready = n.m_ready /\ p.factory = n.factory
      BY <1>1, <2>1 DEF MetalinkStates
    <3>2. u = startMetalink(p, F) BY <2>1
    <3> HIDE DEF p, u
    <3>3. MetalinkGood(p) BY <3>1 DEF MetalinkGood, MetalinkReady, CompleteBut, Missing
    <3> QED BY <3>2, <3>3, FilesStart
  <2>2. CASE ~(n.m_currentFiles > 0) BY <2>2
  <2> QED BY <2>1, <2>2
<1>3. o = IF AllFinished(u) THEN [u EXCEPT !.status = "Finished"] ELSE u BY DEF HasFinished
<1> HIDE DEF u, o
<1>4. CASE ~AllFinished(u) BY <1>2, <1>3, <1>4 DEF o
<1>5. CASE AllFinished(u)
  <2>1. o = [u EXCEPT !.status = "Finished"] BY <1>3, <1>5
  <2>2. u \in MetalinkStates /\ u.m_ready BY <1>2 DEF MetalinkGood, MetalinkReady
  <2>3. o \in MetalinkStates /\ o.m_ready = u.m_ready /\ o.factory = u.factory
    BY <2>1, <2>2 DEF MetalinkStates, States
  <2>4. \A f \in Files : u.factory[f].doDownload => u.factory[f].status = "Finished"
    BY <1>5, <2>2 DEF AllFinished, Unfinished, Selected
  <2>5. \A f \in Files : u.factory[f].status # "Running" BY <1>2, <2>4 DEF MetalinkGood, MetalinkReady
  <2>6. MetalinkReady(o) BY <2>2, <2>3, <2>5 DEF MetalinkReady
  <2>7. CompleteBut(o, {}) BY <2>3, <2>4 DEF CompleteBut, Missing
  <2> QED BY <2>6, <2>7 DEF MetalinkGood, o
<1> QED BY <1>4, <1>5

(* metalinkInit, after which nothing runs *)
LEMMA MetalinkIsParsed ==
  ASSUME NEW n \in MetalinkStates, n.status \in {"Stopped", "Aborted"}
  PROVE  /\ MetalinkGood(metalinkInit(n, TRUE)) /\ metalinkInit(n, TRUE).stored = n.stored
         /\ ~n.m_ready /\ (\A f \in Files : n.factory[f] = NewFactory) =>
               /\ metalinkInit(n, FALSE) \in MetalinkStates
               /\ metalinkInit(n, FALSE).status = "Aborted"
               /\ metalinkInit(n, FALSE).factory = n.factory
               /\ ~metalinkInit(n, FALSE).m_ready
<1> DEFINE v == metalinkInit(n, TRUE)
           w == metalinkInit(n, FALSE)
<1>1. NewFactory \in FactoryStates /\ NewFactory.status = "Stopped" BY DEF NewFactory, FactoryStates, States
<1>2. v = [n EXCEPT !.m_ready = TRUE, !.factory = [f \in Files |-> NewFactory]] BY DEF metalinkInit
<1>3. w = [n EXCEPT !.status = "Aborted"] BY DEF metalinkInit
<1> HIDE DEF v, w
<1>4. /\ v \in MetalinkStates /\ v.m_ready /\ v.status = n.status /\ v.stored = n.stored
      /\ \A f \in Files : v.factory[f] = NewFactory
  BY <1>1, <1>2 DEF MetalinkStates
<1>5. MetalinkReady(v) BY <1>1, <1>4 DEF MetalinkReady
<1>6. CompleteBut(v, {}) BY <1>4 DEF CompleteBut
<1>7. w \in MetalinkStates /\ w.status = "Aborted" /\ w.factory = n.factory /\ w.m_ready = n.m_ready
  BY <1>3 DEF MetalinkStates, States
<1> QED BY <1>4, <1>5, <1>6, <1>7 DEF MetalinkGood, v, w

-----------------------------------------------------------------------------
(* Nothing is there at the start. *)
LEMMA MetalinkStarts == MetalinkInit => MetalinkInv
<1> SUFFICES ASSUME MetalinkInit PROVE MetalinkInv OBVIOUS
<1>1. PICK local \in BOOLEAN :
         metalink = [status |-> "Stopped", m_ready |-> FALSE, stored |-> local,
                     m_currentFiles |-> 0, factory |-> [f \in Files |-> NewFactory]]
  BY DEF MetalinkInit
<1>2. NewFactory \in FactoryStates BY DEF NewFactory, FactoryStates, States
<1>3. /\ metalink \in MetalinkStates /\ metalink.status = "Stopped" /\ ~metalink.m_ready
      /\ \A f \in Files : metalink.factory[f] = NewFactory
  BY <1>1, <1>2 DEF MetalinkStates, States
<1> QED BY <1>3 DEF MetalinkInit, MetalinkInv

(* A step that keeps the Metalink good, and changes nothing else of what   *)
(* the invariant is about                                                  *)
LEMMA GoodStays ==
  ASSUME MetalinkInv, metalink.m_ready, MetalinkGood(metalink'),
         downloads' = downloads,
         dialogs' = dialogs \/ (dialogs > 0 /\ dialogs' = dialogs - 1)
  PROVE  MetalinkInv'
<1>1. PICK n : n = metalink' OBVIOUS
<1>2. MetalinkGood(n) /\ n \in MetalinkStates /\ n.m_ready BY <1>1 DEF MetalinkGood, MetalinkReady
<1>3. MetalinkGood(metalink)' BY <1>1, <1>2 DEF MetalinkGood, MetalinkReady, CompleteBut, Missing
<1>4. downloads' = 0 BY DEF MetalinkInv
<1>5. dialogs' \in Nat BY DEF MetalinkInv
<1> QED BY <1>1, <1>2, <1>3, <1>4, <1>5 DEF MetalinkInv

(* start, with the factories there *)
LEMMA StartReadyKeeps ==
  ASSUME MetalinkInv, StartReady, UNCHANGED <<wanted, dialogs>>
  PROVE  MetalinkInv'
<1>1. PICK F \in Failing : metalink' = startMetalink(metalink, F) BY DEF StartReady
<1>2. PICK n : n = metalink OBVIOUS
<1>3. MetalinkGood(n) BY <1>2 DEF MetalinkInv, StartReady
<1>4. MetalinkGood(startMetalink(n, F)) BY <1>3, FilesStart
<1>5. metalink.m_ready /\ downloads' = downloads /\ dialogs' = dialogs BY DEF StartReady
<1>6. MetalinkGood(metalink') BY <1>1, <1>2, <1>4
<1> QED BY <1>5, <1>6, GoodStays

(* start, with a Metalink stored *)
LEMMA StartLocalKeeps ==
  ASSUME MetalinkInv, StartLocal, UNCHANGED <<wanted, dialogs>>
  PROVE  MetalinkInv'
<1>1. PICK F \in Failing : metalink' = startMetalink(metalinkInit(metalink, TRUE), F) BY DEF StartLocal
<1>2. PICK n : n = metalink OBVIOUS
<1>3. n \in MetalinkStates /\ n.status \in {"Stopped", "Aborted"} BY <1>2 DEF MetalinkInv, StartLocal
<1>4. MetalinkGood(metalinkInit(n, TRUE)) BY <1>3, MetalinkIsParsed
<1>5. PICK o : o = startMetalink(metalinkInit(n, TRUE), F) OBVIOUS
<1>6. MetalinkGood(o) BY <1>4, <1>5, FilesStart
<1>7. metalink' = o BY <1>1, <1>2, <1>5
<1>8. o \in MetalinkStates /\ o.m_ready BY <1>6 DEF MetalinkGood, MetalinkReady
<1>9. downloads' = 0 /\ dialogs' = 0 BY DEF MetalinkInv, StartLocal
<1>10. MetalinkGood(metalink)' BY <1>6, <1>7 DEF MetalinkGood, MetalinkReady, CompleteBut, Missing
<1> QED BY <1>7, <1>8, <1>9, <1>10 DEF MetalinkInv

(* start, with no Metalink: there was no job yet that downloads it. *)
LEMMA DownloadKeeps ==
  ASSUME MaxDownloads <= 1, MetalinkInv, downloadMetalink, UNCHANGED <<wanted, dialogs>>
  PROVE  MetalinkInv'
<1>1. downloads' = 1
  <2>1. MaxDownloads \in Nat BY MetalinkAssumption
  <2>2. downloads \in Nat BY DEF MetalinkInv
  <2> QED BY <2>1, <2>2 DEF downloadMetalink
<1>2. metalink' = [metalink EXCEPT !.status = "Stopped"] /\ ~metalink.m_ready /\ ~metalink.stored
  BY DEF downloadMetalink
<1>3. metalink \in MetalinkStates BY DEF MetalinkInv
<1>4. /\ metalink' \in MetalinkStates /\ metalink'.status = "Stopped"
      /\ metalink'.factory = metalink.factory /\ metalink'.m_ready = metalink.m_ready
      /\ metalink'.stored = metalink.stored
  BY <1>2, <1>3 DEF MetalinkStates, States
<1> QED BY <1>1, <1>2, <1>4 DEF MetalinkInv

(* stop, with the factories there or not *)
LEMMA StopMetalinkKeeps ==
  ASSUME MetalinkInv, metalink' = stopMetalink(metalink), UNCHANGED <<downloads, dialogs>>
  PROVE  MetalinkInv'
<1>1. PICK n : n = metalink OBVIOUS
<1>2. CASE n.m_ready
  <2>1. MetalinkGood(n) BY <1>1, <1>2 DEF MetalinkInv
  <2>2. MetalinkGood(stopMetalink(n)) BY <2>1, MetalinkStops
  <2>3. metalink.m_ready BY <1>1, <1>2
  <2>4. MetalinkGood(metalink') BY <1>1, <2>2
  <2> QED BY <2>3, <2>4, GoodStays
<1>3. CASE ~n.m_ready
  <2>1. UNCHANGED metalink BY <1>1, <1>3 DEF stopMetalink
  <2> QED BY <2>1 DEF MetalinkInv, MetalinkGood, MetalinkReady, CompleteBut, Missing
<1> QED BY <1>2, <1>3

(* metalinkInit, after a download: there was nothing before. *)
LEMMA DownloadedKeeps ==
  ASSUME MetalinkInv, MetalinkDownloaded
  PROVE  MetalinkInv'
<1>1. PICK good \in BOOLEAN, kept \in BOOLEAN :
         LET valid == good \/ (kept /\ metalink.m_ready)
             n == [metalink EXCEPT !.stored = good]
         IN  /\ metalink' = metalinkInit(n, valid)
             /\ dialogs' = IF valid THEN dialogs + 1 ELSE dialogs
  BY DEF MetalinkDownloaded
<1>2. PICK m : m = metalink OBVIOUS
<1> DEFINE n == [m EXCEPT !.stored = good]
<1>3. /\ m \in MetalinkStates /\ ~m.m_ready /\ m.status \in {"Stopped", "Aborted"}
      /\ \A f \in Files : m.factory[f] = NewFactory
  BY <1>2 DEF MetalinkInv, MetalinkDownloaded
<1>4. metalink' = metalinkInit(n, good) /\ dialogs' = IF good THEN dialogs + 1 ELSE dialogs
  BY <1>1, <1>2, <1>3
<1>5. n \in MetalinkStates /\ n.m_ready = m.m_ready /\ n.status = m.status /\ n.factory = m.factory /\ n.stored = good
  BY <1>3 DEF MetalinkStates
<1>6. downloads' = 0 /\ dialogs = 0 BY <1>2, <1>3 DEF MetalinkInv, MetalinkDownloaded
<1> HIDE DEF n
<1>7. CASE good
  <2>1. MetalinkGood(metalinkInit(n, TRUE)) BY <1>3, <1>5, MetalinkIsParsed
  <2>2. PICK o : o = metalinkInit(n, TRUE) OBVIOUS
  <2>3. metalink' = o /\ MetalinkGood(o) BY <1>4, <1>7, <2>1, <2>2
  <2>4. o \in MetalinkStates /\ o.m_ready BY <2>3 DEF MetalinkGood, MetalinkReady
  <2>5. MetalinkGood(metalink)' BY <2>3 DEF MetalinkGood, MetalinkReady, CompleteBut, Missing
  <2>6. dialogs' = 1 BY <1>4, <1>6, <1>7
  <2> QED BY <1>6, <2>3, <2>4, <2>5, <2>6 DEF MetalinkInv
<1>8. CASE ~good
  <2>1. PICK o : o = metalinkInit(n, FALSE) OBVIOUS
  <2>2. o \in MetalinkStates /\ o.status = "Aborted" /\ o.factory = n.factory /\ ~o.m_ready
    BY <1>3, <1>5, <2>1, MetalinkIsParsed
  <2>3. metalink' = o BY <1>4, <1>8, <2>1
  <2>4. dialogs' = 0 BY <1>4, <1>6, <1>8
  <2> QED BY <1>3, <1>5, <1>6, <2>2, <2>3, <2>4 DEF MetalinkInv
<1> QED BY <1>7, <1>8

(* A file is open: a start that was tried goes on. *)
LEMMA FileOpenedKeeps ==
  ASSUME MetalinkInv, NEW f \in Files, FactoryOpened(f)
  PROVE  MetalinkInv'
<1>1. PICK m : m = metalink OBVIOUS
<1>2. m \in MetalinkStates /\ m.factory[f].file = "opening" BY <1>1 DEF FactoryOpened, MetalinkInv
<1>3. NewFactory.file = "closed" BY DEF NewFactory
<1>4. m.m_ready /\ MetalinkGood(m)
  <2>1. metalink.factory[f] # NewFactory BY <1>1, <1>2, <1>3
  <2> QED BY <1>1, <2>1 DEF MetalinkInv
<1> DEFINE x == m.factory[f]
           y == [x EXCEPT !.file = "open"]
           n == [m EXCEPT !.factory = [m.factory EXCEPT ![f] = y]]
<1>5. x \in FactoryStates BY <1>2 DEF MetalinkStates
<1>6. /\ y \in FactoryStates /\ y.status = x.status /\ y.doDownload = x.doDownload
      /\ y.m_startTried = x.m_startTried
  BY <1>5 DEF FactoryStates
<1>7. [m EXCEPT !.factory[f].file = "open"] = n BY <1>2, <1>5 DEF MetalinkStates, FactoryStates
<1>8. metalink' = IF n.factory[f].m_startTried THEN StartFactory(n, f, FALSE) ELSE n
  BY <1>1, <1>7 DEF FactoryOpened
<1> HIDE DEF y
<1>9. n = [m EXCEPT !.factory = [m.factory EXCEPT ![f] = y]] OBVIOUS
<1> HIDE DEF n, x
<1>10. n.factory[f] = y BY <1>2, <1>9 DEF MetalinkStates
<1>11. /\ n \in MetalinkStates /\ n.status = m.status /\ n.m_ready = m.m_ready
       /\ \A g \in Files \ {f} : n.factory[g] = m.factory[g]
  <2>1. y \in FactoryStates BY <1>6
  <2>2. m \in MetalinkStates /\ f \in Files BY <1>2
  <2> QED BY ONLY <1>9, <2>1, <2>2, FactoryChanges
<1>12. MetalinkReady(n) BY <1>4, <1>6, <1>10, <1>11 DEF MetalinkGood, MetalinkReady, x
<1>13. UNCHANGED <<downloads, dialogs>> BY DEF FactoryOpened
<1>14. metalink.m_ready BY <1>1, <1>4
<1>15. MetalinkGood(metalink')
  <2>1. CASE y.m_startTried
    <3>1. CompleteBut(n, {f}) BY <1>4, <1>11 DEF MetalinkGood, CompleteBut, Missing
    <3>2. MetalinkGood(StartFactory(n, f, FALSE)) BY <1>12, <3>1, FileStarts DEF Started, MetalinkGood
    <3> QED BY <1>8, <1>10, <2>1, <3>2
  <2>2. CASE ~y.m_startTried
    <3>1. CompleteBut(n, {})
      BY <1>4, <1>6, <1>10, <1>11, <2>2 DEF MetalinkGood, CompleteBut, Missing, x
    <3> QED BY <1>8, <1>10, <1>12, <2>2, <3>1 DEF MetalinkGood
  <2> QED BY <2>1, <2>2
<1> QED BY <1>13, <1>14, <1>15, GoodStays

(* A running file: the Metalink is there, and runs. *)
LEMMA RunningIsReady ==
  ASSUME MetalinkInv, NEW f \in Files, metalink.factory[f].status = "Running"
  PROVE  metalink.m_ready /\ MetalinkGood(metalink) /\ metalink.status = "Running"
<1>1. NewFactory.status = "Stopped" BY DEF NewFactory
<1>2. metalink.m_ready BY <1>1 DEF MetalinkInv
<1> QED BY <1>2 DEF MetalinkInv, MetalinkGood, MetalinkReady

(* The download of a file fails. *)
LEMMA FileFailKeeps ==
  ASSUME MetalinkInv, NEW f \in Files, FactoryFails(f)
  PROVE  MetalinkInv'
<1>1. PICK m : m = metalink OBVIOUS
<1> DEFINE x == m.factory[f]
           y == [x EXCEPT !.status = "Aborted"]
           n == [m EXCEPT !.factory = [m.factory EXCEPT ![f] = y]]
<1>2. MetalinkGood(m) /\ metalink.m_ready BY <1>1, RunningIsReady DEF FactoryFails
<1>3. m \in MetalinkStates BY <1>2 DEF MetalinkGood, MetalinkReady
<1>4. x \in FactoryStates BY <1>3 DEF MetalinkStates
<1>5. y \in FactoryStates /\ y.status = "Aborted" BY <1>4 DEF FactoryStates, States
<1>6. [m EXCEPT !.factory[f].status = "Aborted"] = n BY <1>3, <1>4 DEF MetalinkStates, FactoryStates
<1>7. metalink' = NoLongerRunning(n, "Aborted") BY <1>1, <1>6 DEF FactoryFails
<1> HIDE DEF y
<1>8. n = [m EXCEPT !.factory = [m.factory EXCEPT ![f] = y]] OBVIOUS
<1> HIDE DEF n, x
<1>9. n.factory[f] = y BY <1>3, <1>8 DEF MetalinkStates
<1>10. /\ n \in MetalinkStates /\ n.status = m.status /\ n.m_ready = m.m_ready
       /\ \A g \in Files \ {f} : n.factory[g] = m.factory[g]
  <2>1. y \in FactoryStates /\ f \in Files BY <1>5
  <2> QED BY ONLY <1>3, <1>8, <2>1, FactoryChanges
<1>11. MetalinkReady(n) BY <1>2, <1>5, <1>9, <1>10 DEF MetalinkGood, MetalinkReady
<1>12. PICK o : o = NoLongerRunning(n, "Aborted") OBVIOUS
<1>13. MetalinkReady(o) /\ o.status # "Finished" BY <1>11, <1>12, StatusUpdated
<1>14. MetalinkGood(o) BY <1>13 DEF MetalinkGood, CompleteBut
<1>15. MetalinkGood(metalink') BY <1>7, <1>12, <1>14
<1>16. UNCHANGED <<downloads, dialogs>> BY DEF FactoryFails
<1> QED BY <1>2, <1>15, <1>16, GoodStays

(* The download of a file is complete; others may start. *)
LEMMA FileFinishKeeps ==
  ASSUME MetalinkInv, NEW f \in Files, FactoryFinishes(f)
  PROVE  MetalinkInv'
<1>1. PICK m : m = metalink OBVIOUS
<1>2. PICK F \in Failing, b \in BOOLEAN :
         metalink' = HasFinished([metalink EXCEPT !.factory[f].status = "Finished", !.factory[f].file = "closed",
                                  !.factory[f].broken = b], F)
  BY DEF FactoryFinishes
<1> DEFINE x == m.factory[f]
           y == [x EXCEPT !.status = "Finished", !.file = "closed", !.broken = b]
           n == [m EXCEPT !.factory = [m.factory EXCEPT ![f] = y]]
<1>3. MetalinkGood(m) /\ metalink.m_ready /\ m.status = "Running" BY <1>1, RunningIsReady DEF FactoryFinishes
<1>4. m \in MetalinkStates BY <1>3 DEF MetalinkGood, MetalinkReady
<1>5. x \in FactoryStates BY <1>4 DEF MetalinkStates
<1>6. y \in FactoryStates /\ y.status = "Finished" BY <1>5 DEF FactoryStates, States
<1>7. [m EXCEPT !.factory[f].status = "Finished", !.factory[f].file = "closed", !.factory[f].broken = b] = n
  BY <1>4, <1>5 DEF MetalinkStates, FactoryStates
<1>8. metalink' = HasFinished(n, F) BY <1>1, <1>2, <1>7
<1> HIDE DEF y
<1>9. n = [m EXCEPT !.factory = [m.factory EXCEPT ![f] = y]] OBVIOUS
<1> HIDE DEF n, x
<1>10. n.factory[f] = y BY <1>4, <1>9 DEF MetalinkStates
<1>11. /\ n \in MetalinkStates /\ n.status = m.status /\ n.m_ready = m.m_ready
       /\ \A g \in Files \ {f} : n.factory[g] = m.factory[g]
  <2>1. y \in FactoryStates /\ f \in Files BY <1>6
  <2> QED BY ONLY <1>4, <1>9, <2>1, FactoryChanges
<1>12. MetalinkReady(n) BY <1>3, <1>6, <1>10, <1>11 DEF MetalinkGood, MetalinkReady
<1>13. MetalinkGood(n) BY <1>3, <1>11, <1>12 DEF MetalinkGood, CompleteBut
<1>14. MetalinkGood(HasFinished(n, F)) BY <1>13, MetalinkFinishes
<1>15. MetalinkGood(metalink') BY <1>8, <1>14
<1>16. UNCHANGED <<downloads, dialogs>> BY DEF FactoryFinishes
<1> QED BY <1>3, <1>15, <1>16, GoodStays

(* The user selects files. *)
LEMMA SelectKeeps ==
  ASSUME MetalinkInv, NEW S, SelectFiles(S)
  PROVE  MetalinkInv'
<1>1. PICK m : m = metalink OBVIOUS
<1>2. MetalinkGood(m) /\ metalink.m_ready /\ S \subseteq NotFinished(m) BY <1>1 DEF MetalinkInv, SelectFiles
<1>3. MetalinkGood(filesSelected(m, S)) BY <1>2, FilesAreSelected
<1>4. MetalinkGood(metalink') BY <1>1, <1>3 DEF SelectFiles
<1>5. UNCHANGED <<downloads, dialogs>> BY DEF SelectFiles
<1> QED BY <1>2, <1>4, <1>5, GoodStays

(* The dialog ends; with no file selected nothing runs on. *)
LEMMA DialogFinishedKeeps ==
  ASSUME MetalinkInv, NEW S, FileDlgFinished(S)
  PROVE  MetalinkInv'
<1>1. PICK m : m = metalink OBVIOUS
<1>2. PICK n : n = filesSelected(m, S) OBVIOUS
<1>3. PICK F \in Failing : metalink' = IF S = {} THEN [n EXCEPT !.status = "Stopped"] ELSE startMetalink(n, F)
  BY <1>1, <1>2 DEF FileDlgFinished
<1>4. MetalinkGood(m) /\ metalink.m_ready /\ S \subseteq NotFinished(m) BY <1>1 DEF MetalinkInv, FileDlgFinished
<1>5. MetalinkGood(n) /\ (S = {} => Running(n) = {}) BY <1>2, <1>4, FilesAreSelected
<1>6. MetalinkGood(metalink')
  <2>1. CASE S = {}
    <3>1. PICK o : o = [n EXCEPT !.status = "Stopped"] OBVIOUS
    <3>2. n \in MetalinkStates /\ n.m_ready BY <1>5 DEF MetalinkGood, MetalinkReady
    <3>3. o \in MetalinkStates /\ o.status = "Stopped" /\ o.m_ready = n.m_ready /\ o.factory = n.factory
      BY <3>1, <3>2 DEF MetalinkStates, States
    <3>4. \A f \in Files : n.factory[f].status # "Running" BY <1>5, <2>1 DEF Running
    <3>5. MetalinkGood(o) BY <3>2, <3>3, <3>4 DEF MetalinkGood, MetalinkReady, CompleteBut
    <3> QED BY <1>3, <2>1, <3>1, <3>5
  <2>2. CASE S # {}
    <3>1. MetalinkGood(startMetalink(n, F)) BY <1>5, FilesStart
    <3> QED BY <1>3, <2>2, <3>1
  <2> QED BY <2>1, <2>2
<1>7. downloads' = downloads /\ dialogs > 0 /\ dialogs' = dialogs - 1 BY DEF FileDlgFinished
<1> QED BY <1>4, <1>6, <1>7, GoodStays

(* Broken files are repaired. *)
LEMMA RepairKeeps ==
  ASSUME MetalinkInv, Repair
  PROVE  MetalinkInv'
<1>1. PICK m : m = metalink OBVIOUS
<1> DEFINE B == {f \in Selected(m) : m.factory[f].broken}
<1>2. metalink' = AllRepaired(m, B)
  <2>1. metalink' = AllRepaired(metalink, {f \in Selected(metalink) : metalink.factory[f].broken})
    BY DEF Repair, AllRepaired
  <2> QED BY <1>1, <2>1
<1>3. MetalinkGood(m) /\ metalink.m_ready BY <1>1 DEF MetalinkInv, Repair
<1>4. MetalinkGood(AllRepaired(m, B)) BY <1>3, FilesAreRepaired
<1>5. MetalinkGood(metalink') BY <1>2, <1>4
<1>6. UNCHANGED <<downloads, dialogs>> BY DEF Repair
<1> QED BY <1>3, <1>5, <1>6, GoodStays

-----------------------------------------------------------------------------
(* Each step keeps the invariant. *)
LEMMA MetalinkNextKeeps ==
  ASSUME MaxDownloads <= 1
  PROVE  MetalinkInv /\ [MetalinkNext]_metalinkVars => MetalinkInv'
<1> SUFFICES ASSUME MetalinkInv, [MetalinkNext]_metalinkVars PROVE MetalinkInv' OBVIOUS
<1>1. CASE StartWanted
  <2>1. UNCHANGED <<wanted, dialogs>> BY <1>1 DEF StartWanted
  <2> QED BY <1>1, <2>1, StartReadyKeeps, StartLocalKeeps, DownloadKeeps DEF StartWanted
<1>2. CASE StopWanted BY <1>2, StopMetalinkKeeps DEF StopWanted
<1>3. CASE RestartStalled BY <1>3, StopMetalinkKeeps DEF RestartStalled
<1>4. CASE Want \/ MetalinkFails \/ UNCHANGED metalinkVars
  <2>1. metalink' = metalink /\ dialogs' = dialogs
    BY <1>4 DEF Want, MetalinkFails, metalinkVars
  <2>2. downloads' = downloads \/ (downloads > 0 /\ downloads' = downloads - 1)
    BY <1>4 DEF Want, MetalinkFails, metalinkVars
  <2> QED BY <2>1, <2>2 DEF MetalinkInv, MetalinkGood, MetalinkReady, CompleteBut, Missing
<1>5. CASE MetalinkDownloaded BY <1>5, DownloadedKeeps
<1>6. CASE FactoryStep BY <1>6, FileOpenedKeeps, FileFailKeeps, FileFinishKeeps DEF FactoryStep
<1>7. CASE Repair BY <1>7, RepairKeeps
<1>8. CASE \E S \in SUBSET Files : SelectFiles(S) \/ FileDlgFinished(S)
  BY <1>8, SelectKeeps, DialogFinishedKeeps
<1> QED BY <1>1, <1>2, <1>3, <1>4, <1>5, <1>6, <1>7, <1>8 DEF MetalinkNext, Scheduler, User

(* With one download of the description at a time, the files that run are  *)
(* wanted ones and make the transfer run, and only a file that a repair    *)
(* opens may be missing of a finished transfer (Metalink::updateStatus).   *)
THEOREM MetalinkInvariant ==
  ASSUME MaxDownloads <= 1
  PROVE  MetalinkSpec => []MetalinkInv
BY MetalinkStarts, MetalinkNextKeeps, PTL DEF MetalinkSpec

(* A transfer that says it has finished has each file that is wanted, but  *)
(* for those that a repair opens again.                                    *)
THEOREM FinishedIsCompleteAlways ==
  ASSUME MaxDownloads <= 1
  PROVE  MetalinkSpec => []FinishedIsComplete
<1>1. MetalinkInv => FinishedIsComplete
  BY DEF MetalinkInv, MetalinkGood, CompleteBut, Missing, FinishedIsComplete, Unfinished, Selected, Opening
<1> QED BY <1>1, MetalinkInvariant, PTL

(* What the scheduler counts as nothing downloads nothing. *)
THEOREM StoppedIsIdleAlways ==
  ASSUME MaxDownloads <= 1
  PROVE  MetalinkSpec => []StoppedIsIdle
<1>1. MetalinkInv => StoppedIsIdle
  <2>1. NewFactory.status = "Stopped" BY DEF NewFactory
  <2> QED BY <2>1 DEF MetalinkInv, MetalinkGood, MetalinkReady, StoppedIsIdle, Running
<1> QED BY <1>1, MetalinkInvariant, PTL

-----------------------------------------------------------------------------
(***************************************************************************)
(* Destination                                                             *)
(***************************************************************************)

TransferStates ==
    [m_source : Sources, m_dest : Destinations, m_status : {"Stopped", "Running", "Aborted", "Finished"},
     m_downloadInitialized : BOOLEAN, m_startTried : BOOLEAN, putJob : {"none", "opening", "open"},
     openFailed : BOOLEAN]

KgetStates ==
    [list : SUBSET Transfers, transfer : [Transfers -> TransferStates \cup {NoFactory}],
     file : SUBSET Destinations, job : [Destinations -> {"none", "deletes", "done"}],
     receivers : [Destinations -> Seq(Transfers)], disputed : SUBSET Destinations]

(* Who waits for the deletion of a file is in the list, and is to write it. *)
Waiting(n, d) == ToSet(n.receivers[d])

KgetTyped(n) ==
    /\ n \in KgetStates
    /\ \A t \in n.list : n.transfer[t] \in TransferStates
    /\ \A d \in Destinations : \A t \in Waiting(n, d) :
          t \in n.list /\ n.transfer[t].m_dest = d /\ isFileBeingDeleted(n, d)

(* Two transfers of a file are a dispute; else what is deleted is there.   *)
SharedIsDisputed(n) ==
    \A t, u \in n.list : t # u /\ n.transfer[t].m_dest = n.transfer[u].m_dest
                         => n.transfer[t].m_dest \in n.disputed

DeletedIsThere(n) == \A d \in Destinations : n.job[d] = "deletes" => d \in n.file \cup n.disputed

(* What the first property says, but for the files of D. *)
SparedBut(n, D) ==
    \A t \in n.list :
        /\ n.transfer[t].m_downloadInitialized
        /\ n.transfer[t].m_status # "Finished"
        /\ n.transfer[t].m_dest \notin n.disputed \cup D
        => n.job[n.transfer[t].m_dest] # "deletes"

RunningIsStarted(n) ==
    \A t \in n.list : n.transfer[t].m_status \in {"Running", "Finished"} => ~n.transfer[t].m_startTried

(* What the second property says, but for the transfers of W. *)
Excuse(n, t) ==
    \/ t \in Waiting(n, n.transfer[t].m_dest)
    \/ n.transfer[t].putJob = "opening"
    \/ n.transfer[t].m_status = "Aborted"
    \/ n.transfer[t].openFailed

RememberedBut(n, W) ==
    \A t \in n.list \ W : n.transfer[t].m_startTried => Excuse(n, t)

KgetGood(n, W, D) ==
    /\ KgetTyped(n)
    /\ SharedIsDisputed(n)
    /\ DeletedIsThere(n)
    /\ SparedBut(n, D)
    /\ RunningIsStarted(n)
    /\ RememberedBut(n, W)

Dialogs ==
    [open : {TRUE}, source : Sources, dest : Destinations, m_existingTransfer : Transfers \cup {NoTransfer},
     m_overWriteSingle : BOOLEAN]

DestinationInv ==
    /\ KgetGood(kget, {}, {})
    /\ kget.list \subseteq added
    /\ added \subseteq Transfers
    /\ dialog = NoDialog \/ dialog \in Dialogs

-----------------------------------------------------------------------------
(* Who is in a list, when some are taken out of it and one is appended.    *)
LEMMA AmongRange ==
  ASSUME NEW q \in Seq(Transfers), NEW S
  PROVE  Among(q, S) \in Seq(Transfers) /\ ToSet(Among(q, S)) = ToSet(q) \cap S
<1> DEFINE r == Among(q, S)
<1>1. r \in Seq(Transfers) BY AmongFacts
<1>2. /\ \A i \in 1 .. Len(r) : r[i] \in S /\ \E k \in 1 .. Len(q) : r[i] = q[k]
      /\ \A k \in 1 .. Len(q) : q[k] \in S => \E i \in 1 .. Len(r) : r[i] = q[k]
  BY AmongElements
<1> HIDE DEF r
<1>3. DOMAIN r = 1 .. Len(r) /\ DOMAIN q = 1 .. Len(q) BY <1>1
<1>4. ToSet(r) = {r[i] : i \in 1 .. Len(r)} /\ ToSet(q) = {q[k] : k \in 1 .. Len(q)} BY <1>3 DEF ToSet
<1>5. ToSet(r) \subseteq ToSet(q) \cap S BY <1>2, <1>4
<1>6. ToSet(q) \cap S \subseteq ToSet(r) BY <1>2, <1>4
<1> QED BY <1>1, <1>5, <1>6 DEF r

(* Who is in a list to which one is appended. *)
LEMMA AppendRange ==
  ASSUME NEW r \in Seq(Transfers), NEW t \in Transfers
  PROVE  Append(r, t) \in Seq(Transfers) /\ ToSet(Append(r, t)) = ToSet(r) \cup {t}
<1> DEFINE p == Append(r, t)
<1>1. /\ p \in Seq(Transfers) /\ Len(p) = Len(r) + 1 /\ p[Len(r) + 1] = t /\ Len(r) \in Nat
      /\ \A i \in 1 .. Len(r) : p[i] = r[i]
      /\ DOMAIN p = 1 .. Len(p) /\ DOMAIN r = 1 .. Len(r)
  OBVIOUS
<1> HIDE DEF p
<1>2. \A i \in 1 .. Len(p) : i \in 1 .. Len(r) \/ i = Len(r) + 1 BY <1>1
<1>3. 1 .. Len(r) \subseteq 1 .. Len(p) /\ Len(r) + 1 \in 1 .. Len(p) BY <1>1
<1>4. ToSet(p) = ToSet(r) \cup {t} BY <1>1, <1>2, <1>3 DEF ToSet
<1> QED BY <1>1, <1>4 DEF p

(* One transfer changes, or a file is created. *)
LEMMA TransferChanges ==
  ASSUME NEW W, NEW n, NEW o, NEW t \in n.list, KgetGood(n, W, {}),
         o \in KgetStates, o.list = n.list, o.job = n.job, o.receivers = n.receivers,
         o.disputed = n.disputed, n.file \subseteq o.file,
         \A u \in Transfers \ {t} : o.transfer[u] = n.transfer[u],
         o.transfer[t] \in TransferStates, o.transfer[t].m_dest = n.transfer[t].m_dest,
         o.transfer[t].m_status \in {"Running", "Finished"} => ~o.transfer[t].m_startTried,
         o.transfer[t].m_downloadInitialized /\ o.transfer[t].m_status # "Finished"
            => \/ n.transfer[t].m_downloadInitialized /\ n.transfer[t].m_status # "Finished"
               \/ n.transfer[t].m_dest \notin n.file,
         o.transfer[t].m_startTried => Excuse(o, t)
  PROVE  KgetGood(o, W \ {t}, {})
<1> USE DEF KgetGood
<1>1. n.list \subseteq Transfers BY DEF KgetTyped, KgetStates
<1>2. \A u \in n.list : o.transfer[u] \in TransferStates /\ o.transfer[u].m_dest = n.transfer[u].m_dest
  BY <1>1 DEF KgetTyped
<1>3. \A d : Waiting(o, d) = Waiting(n, d) BY DEF Waiting
<1>4. KgetTyped(o) BY <1>2, <1>3 DEF KgetTyped, isFileBeingDeleted
<1>5. SharedIsDisputed(o) BY <1>2 DEF SharedIsDisputed
<1>6. DeletedIsThere(o) BY DEF DeletedIsThere
<1>7. n.transfer[t].m_dest \in Destinations BY DEF KgetTyped, TransferStates
<1>8. SparedBut(o, {}) BY <1>1, <1>2, <1>7 DEF SparedBut, DeletedIsThere
<1>9. RunningIsStarted(o) BY <1>1 DEF RunningIsStarted
<1>10. ASSUME NEW u \in n.list \ W, u # t, o.transfer[u].m_startTried PROVE Excuse(o, u)
  BY <1>1, <1>3, <1>10 DEF RememberedBut, Excuse
<1>11. RememberedBut(o, W \ {t}) BY <1>10 DEF RememberedBut
<1> QED BY <1>4, <1>5, <1>6, <1>8, <1>9, <1>11

(* The file that is in the way of t is deleted, and t waits for that. *)
LEMMA DeleteFirst ==
  ASSUME NEW W, NEW n, NEW t \in n.list, KgetGood(n, W, {}), RemovesFirst(n, t),
         n.transfer[t].m_status \notin {"Running", "Finished"}
  PROVE  LET o == deleteFile([n EXCEPT !.transfer[t].m_startTried = TRUE], n.transfer[t].m_dest, t)
         IN  KgetGood(o, W \ {t}, {}) /\ o.list = n.list
<1> DEFINE d == n.transfer[t].m_dest
           q == n.receivers[d]
           r == Among(q, Transfers \ {t})
           p == Append(r, t)
           j == IF n.job[d] = "none" THEN "deletes" ELSE n.job[d]
           o == deleteFile([n EXCEPT !.transfer[t].m_startTried = TRUE], d, t)
<1> USE DEF KgetGood
<1>1. n \in KgetStates /\ t \in Transfers /\ d \in Destinations /\ d \in n.file /\ q \in Seq(Transfers)
  BY DEF KgetTyped, KgetStates, TransferStates, RemovesFirst
<1>2. r \in Seq(Transfers) /\ ToSet(r) = ToSet(q) \cap (Transfers \ {t}) BY <1>1, AmongRange
<1> HIDE DEF r
<1>3. p \in Seq(Transfers) /\ ToSet(p) = ToSet(r) \cup {t} BY <1>1, <1>2, AppendRange
<1> HIDE DEF p
<1>4. ToSet(q) \subseteq Transfers BY <1>1 DEF ToSet
<1>5. ToSet(p) = ToSet(q) \cup {t} BY <1>1, <1>2, <1>3, <1>4
<1>6. o = [[n EXCEPT !.transfer[t].m_startTried = TRUE] EXCEPT !.job[d] = j, !.receivers[d] = p]
  BY DEF deleteFile, p, r
<1>7. j \in {"deletes", "done"} BY <1>1 DEF KgetStates
<1> HIDE DEF j
<1>8. /\ o.list = n.list /\ o.file = n.file /\ o.disputed = n.disputed
      /\ o.job = [n.job EXCEPT ![d] = j]
      /\ o.receivers = [n.receivers EXCEPT ![d] = p]
      /\ o.transfer = [n.transfer EXCEPT ![t].m_startTried = TRUE]
      /\ o \in [list : {n.list}, transfer : {o.transfer}, file : {n.file}, job : {o.job}, receivers : {o.receivers},
                disputed : {n.disputed}]
  BY <1>1, <1>6 DEF KgetStates
<1> HIDE DEF o
<1>9. o.transfer \in [Transfers -> TransferStates \cup {NoFactory}] /\ o.transfer[t] \in TransferStates
  <2> DEFINE f == [n.transfer[t] EXCEPT !.m_startTried = TRUE]
  <2>1. n.transfer[t] \in TransferStates BY DEF KgetTyped
  <2>2. f \in TransferStates BY <2>1 DEF TransferStates
  <2>3. n.transfer \in [Transfers -> TransferStates \cup {NoFactory}] BY <1>1 DEF KgetStates
  <2>4. o.transfer = [n.transfer EXCEPT ![t] = f] BY <1>8
  <2> HIDE DEF f
  <2> QED BY <1>1, <2>2, <2>3, <2>4
<1>10. o \in KgetStates
  <2>1. o.job \in [Destinations -> {"none", "deletes", "done"}] BY <1>1, <1>7, <1>8 DEF KgetStates
  <2>2. o.receivers \in [Destinations -> Seq(Transfers)] BY <1>1, <1>3, <1>8 DEF KgetStates
  <2> QED BY <1>1, <1>8, <1>9, <2>1, <2>2 DEF KgetStates
<1>11. /\ \A u \in n.list : o.transfer[u] \in TransferStates
       /\ \A u \in n.list : o.transfer[u].m_dest = n.transfer[u].m_dest
       /\ \A u \in n.list : o.transfer[u].m_status = n.transfer[u].m_status
       /\ \A u \in n.list : o.transfer[u].m_downloadInitialized = n.transfer[u].m_downloadInitialized
       /\ \A u \in n.list : o.transfer[u].putJob = n.transfer[u].putJob
       /\ \A u \in n.list : o.transfer[u].openFailed = n.transfer[u].openFailed
       /\ \A u \in n.list \ {t} : o.transfer[u] = n.transfer[u]
  <2> DEFINE f == [n.transfer[t] EXCEPT !.m_startTried = TRUE]
  <2>1. n.transfer[t] \in TransferStates BY DEF KgetTyped
  <2>2. /\ f.m_dest = d /\ f.m_status = n.transfer[t].m_status /\ f.putJob = n.transfer[t].putJob
        /\ f.m_downloadInitialized = n.transfer[t].m_downloadInitialized
        /\ f.openFailed = n.transfer[t].openFailed
    BY <2>1 DEF TransferStates
  <2>3. n.transfer \in [Transfers -> TransferStates \cup {NoFactory}] /\ n.list \subseteq Transfers
    BY <1>1 DEF KgetStates
  <2>4. o.transfer = [n.transfer EXCEPT ![t] = f] BY <1>8
  <2> HIDE DEF f
  <2>5. o.transfer[t] = f /\ \A u \in n.list \ {t} : o.transfer[u] = n.transfer[u] BY <1>1, <2>3, <2>4
  <2>6. \A u \in n.list : n.transfer[u] \in TransferStates BY DEF KgetTyped
  <2> QED BY <1>9, <2>2, <2>5, <2>6
<1>12. \A e \in Destinations \ {d} : Waiting(o, e) = Waiting(n, e) BY <1>1, <1>8 DEF Waiting, KgetStates
<1>13. o.receivers[d] = p BY <1>1, <1>8 DEF KgetStates
<1>14. Waiting(o, d) = Waiting(n, d) \cup {t} BY <1>5, <1>13 DEF Waiting
<1>15. KgetTyped(o)
  <2>1. ASSUME NEW e \in Destinations, NEW u \in Waiting(o, e) PROVE u \in o.list /\ o.transfer[u].m_dest = e /\ isFileBeingDeleted(o, e)
    <3>1. u \in Waiting(n, e) \/ (u = t /\ e = d) BY <1>12, <1>14, <2>1
    <3>2. u \in n.list /\ n.transfer[u].m_dest = e BY <2>1, <3>1 DEF KgetTyped
    <3>3. isFileBeingDeleted(o, e)
      <4>1. CASE e = d BY <1>1, <1>7, <1>8, <4>1 DEF isFileBeingDeleted, KgetStates
      <4>2. CASE e # d
        <5>1. isFileBeingDeleted(n, e) BY <3>1, <4>2 DEF KgetTyped
        <5> QED BY <1>1, <1>8, <4>2, <5>1 DEF isFileBeingDeleted, KgetStates
      <4> QED BY <4>1, <4>2
    <3> QED BY <1>8, <1>11, <3>2, <3>3
  <2> QED BY <1>8, <1>10, <1>11, <2>1 DEF KgetTyped
<1>16. SharedIsDisputed(o) BY <1>8, <1>11 DEF SharedIsDisputed
<1>17. DeletedIsThere(o) BY <1>1, <1>8 DEF DeletedIsThere, KgetStates
<1>18. ASSUME NEW u \in o.list, o.transfer[u].m_downloadInitialized, o.transfer[u].m_status # "Finished",
              o.transfer[u].m_dest \notin o.disputed
       PROVE  o.job[o.transfer[u].m_dest] # "deletes"
  <2>1. u \in n.list /\ u # t BY <1>8, <1>11, <1>18 DEF RemovesFirst
  <2>2. n.transfer[u].m_dest # d BY <1>8, <1>11, <1>18, <2>1 DEF SharedIsDisputed
  <2>3. n.transfer[u].m_dest \in Destinations BY <2>1 DEF KgetTyped, TransferStates
  <2>4. n.job[n.transfer[u].m_dest] # "deletes" BY <1>8, <1>11, <1>18, <2>1 DEF SparedBut
  <2> QED BY <1>1, <1>8, <1>11, <2>1, <2>2, <2>3, <2>4 DEF KgetStates
<1>19. SparedBut(o, {}) BY <1>18 DEF SparedBut
<1>20. RunningIsStarted(o) BY <1>8, <1>11 DEF RunningIsStarted
<1>21. ASSUME NEW u \in o.list \ (W \ {t}), o.transfer[u].m_startTried PROVE Excuse(o, u)
  <2>1. u \in n.list BY <1>8, <1>21
  <2>2. CASE u = t BY <1>11, <1>14, <2>1, <2>2 DEF Excuse
  <2>3. CASE u # t
    <3>1. Excuse(n, u) BY <1>11, <1>21, <2>1, <2>3 DEF RememberedBut
    <3>2. n.transfer[u].m_dest \in Destinations BY <2>1 DEF KgetTyped, TransferStates
    <3>3. Waiting(n, n.transfer[u].m_dest) \subseteq Waiting(o, n.transfer[u].m_dest) BY <1>12, <1>14, <3>2
    <3> QED BY <1>11, <2>1, <3>1, <3>3 DEF Excuse
  <2> QED BY <2>2, <2>3
<1>22. RememberedBut(o, W \ {t}) BY <1>21 DEF RememberedBut
<1>23. KgetGood(o, W \ {t}, {}) BY <1>15, <1>16, <1>17, <1>19, <1>20, <1>22
<1> QED BY <1>8, <1>23 DEF o, d

-----------------------------------------------------------------------------
(* DataSourceFactory::start, for a transfer that does not run *)
LEMMA FactoryStarts ==
  ASSUME NEW W, NEW n, NEW t \in n.list, NEW fails \in BOOLEAN, KgetGood(n, W, {}),
         n.transfer[t].m_status # "Running"
  PROVE  KgetGood(startFactory(n, t, fails), W \ {t}, {}) /\ startFactory(n, t, fails).list = n.list
<1> DEFINE f == n.transfer[t]
           o == startFactory(n, t, fails)
<1> USE DEF KgetGood
<1>1. f \in TransferStates /\ n \in KgetStates /\ t \in Transfers BY DEF KgetTyped, KgetStates
<1>2. CASE f.m_status = "Finished"
  <2>1. o = n BY <1>2 DEF startFactory
  <2>2. ~f.m_startTried BY <1>2 DEF RunningIsStarted
  <2>3. RememberedBut(n, W \ {t}) BY <2>2 DEF RememberedBut
  <2> QED BY <2>1, <2>3
<1>3. CASE f.m_status # "Finished" /\ RemovesFirst(n, t)
  <2>1. o = deleteFile([n EXCEPT !.transfer[t].m_startTried = TRUE], f.m_dest, t) BY <1>3 DEF startFactory
  <2> QED BY <1>3, <2>1, DeleteFirst
<1>4. CASE f.m_status # "Finished" /\ ~RemovesFirst(n, t)
  <2> DEFINE Changed(g, F) == [n EXCEPT !.transfer[t] = g, !.file = F]
             begun == [f EXCEPT !.m_startTried = TRUE, !.m_downloadInitialized = TRUE, !.openFailed = FALSE]
  <2>1. ASSUME NEW g \in TransferStates, NEW F \in SUBSET Destinations, n.file \subseteq F, o = Changed(g, F),
               g.m_dest = f.m_dest, g.m_status \in {"Running", "Finished"} => ~g.m_startTried,
               g.m_startTried => g.m_status = "Aborted" \/ g.putJob = "opening"
        PROVE  KgetGood(o, W \ {t}, {}) /\ o.list = n.list
    <3>1. /\ o.list = n.list /\ o.job = n.job /\ o.receivers = n.receivers /\ o.disputed = n.disputed
          /\ o.file = F /\ o.transfer = [n.transfer EXCEPT ![t] = g]
      BY <1>1, <2>1 DEF KgetStates
    <3>2. n.transfer \in [Transfers -> TransferStates \cup {NoFactory}] BY <1>1 DEF KgetStates
    <3>3. o.transfer[t] = g /\ \A u \in Transfers \ {t} : o.transfer[u] = n.transfer[u] BY <1>1, <3>1, <3>2
    <3>4. o \in KgetStates
      <4>1. [n.transfer EXCEPT ![t] = g] \in [Transfers -> TransferStates \cup {NoFactory}] BY <2>1, <3>2
      <4>2. o = [n EXCEPT !.transfer = [n.transfer EXCEPT ![t] = g], !.file = F] BY <2>1
      <4> HIDE DEF o
      <4> QED BY <1>1, <2>1, <4>1, <4>2 DEF KgetStates
    <3>5. f.m_downloadInitialized \/ f.m_dest \notin n.file BY <1>4 DEF RemovesFirst
    <3>6. g.m_startTried => Excuse(o, t) BY <2>1, <3>3 DEF Excuse
    <3> HIDE DEF o, KgetGood
    <3>7. KgetGood(o, W \ {t}, {}) BY <1>4, <2>1, <3>1, <3>3, <3>4, <3>5, <3>6, TransferChanges
    <3> QED BY <3>1, <3>7
  <2>2. /\ begun \in TransferStates /\ begun.m_dest = f.m_dest /\ begun.m_status = f.m_status
        /\ f.m_dest \in Destinations /\ n.file \in SUBSET Destinations
    BY <1>1 DEF TransferStates, KgetStates
  <2>3. CASE fails
    <3> DEFINE g == [begun EXCEPT !.m_status = "Aborted"]
    <3>1. o = [n EXCEPT !.transfer[t] = g] BY <1>4, <2>3 DEF startFactory
    <3>2. [n EXCEPT !.transfer[t] = g] = Changed(g, n.file) BY <1>1 DEF KgetStates
    <3>3. g \in TransferStates /\ g.m_dest = f.m_dest /\ g.m_status = "Aborted" BY <2>2 DEF TransferStates
    <3> HIDE DEF o, g
    <3>4. KgetGood(o, W \ {t}, {}) /\ o.list = n.list BY <2>1, <2>2, <3>1, <3>2, <3>3
    <3> QED BY <3>4 DEF o
  <2>4. CASE ~fails /\ f.putJob = "open"
    <3> DEFINE g == [begun EXCEPT !.m_status = "Running", !.m_startTried = FALSE]
    <3>1. o = [n EXCEPT !.transfer[t] = g] BY <1>4, <2>4 DEF startFactory
    <3>2. [n EXCEPT !.transfer[t] = g] = Changed(g, n.file) BY <1>1 DEF KgetStates
    <3>3. g \in TransferStates /\ g.m_dest = f.m_dest /\ ~g.m_startTried BY <2>2 DEF TransferStates
    <3> HIDE DEF o, g
    <3>4. KgetGood(o, W \ {t}, {}) /\ o.list = n.list BY <2>1, <2>2, <3>1, <3>2, <3>3
    <3> QED BY <3>4 DEF o
  <2>5. CASE ~fails /\ f.putJob # "open"
    <3> DEFINE g == [begun EXCEPT !.putJob = "opening"]
    <3>1. o = Changed(g, n.file \cup {f.m_dest}) BY <1>4, <2>5 DEF startFactory
    <3>2. /\ g \in TransferStates /\ g.m_dest = f.m_dest /\ g.putJob = "opening"
          /\ g.m_status \notin {"Running", "Finished"}
      BY <1>4, <2>2 DEF TransferStates
    <3> HIDE DEF o, g
    <3>3. n.file \cup {f.m_dest} \in SUBSET Destinations /\ n.file \subseteq n.file \cup {f.m_dest} BY <2>2
    <3>4. KgetGood(o, W \ {t}, {}) /\ o.list = n.list BY <2>1, <2>2, <3>1, <3>2, <3>3
    <3> QED BY <3>4 DEF o
  <2> QED BY <2>3, <2>4, <2>5
<1> QED BY <1>2, <1>3, <1>4

(* A transfer that has waited goes on. *)
LEMMA ReceiverIsTold ==
  ASSUME NEW W, NEW n, NEW t \in n.list, KgetGood(n, W, {})
  PROVE  KgetGood(slotRemovedFile(n, t), W \ {t}, {}) /\ slotRemovedFile(n, t).list = n.list
<1> USE DEF KgetGood
<1>1. n.transfer[t] \in TransferStates /\ n \in KgetStates /\ t \in Transfers BY DEF KgetTyped, KgetStates
<1>2. CASE ~n.transfer[t].m_startTried
  <2>1. RememberedBut(n, W \ {t}) BY <1>2 DEF RememberedBut
  <2> QED BY <1>2, <2>1 DEF slotRemovedFile
<1>3. CASE n.transfer[t].m_startTried
  <2> DEFINE g == [n.transfer[t] EXCEPT !.m_startTried = FALSE]
             o == [n EXCEPT !.transfer[t].m_startTried = FALSE]
  <2>1. /\ g \in TransferStates /\ ~g.m_startTried /\ g.m_dest = n.transfer[t].m_dest
        /\ g.m_status = n.transfer[t].m_status
        /\ g.m_downloadInitialized = n.transfer[t].m_downloadInitialized
    BY <1>1 DEF TransferStates
  <2>2. n.transfer \in [Transfers -> TransferStates \cup {NoFactory}] BY <1>1 DEF KgetStates
  <2>3. /\ o.list = n.list /\ o.job = n.job /\ o.receivers = n.receivers /\ o.disputed = n.disputed
        /\ o.file = n.file /\ o.transfer = [n.transfer EXCEPT ![t] = g]
    BY <1>1 DEF KgetStates
  <2>4. slotRemovedFile(n, t) = startFactory(o, t, FALSE) BY <1>3 DEF slotRemovedFile
  <2>5. o \in KgetStates
    <3>1. [n.transfer EXCEPT ![t] = g] \in [Transfers -> TransferStates \cup {NoFactory}] BY <1>1, <2>1, <2>2
    <3>2. o = [n EXCEPT !.transfer = [n.transfer EXCEPT ![t] = g]] OBVIOUS
    <3> HIDE DEF o
    <3> QED BY <1>1, <3>1, <3>2 DEF KgetStates
  <2> HIDE DEF o, g
  <2>6. o.transfer[t] = g /\ \A u \in Transfers \ {t} : o.transfer[u] = n.transfer[u] BY <1>1, <2>2, <2>3
  <2> HIDE DEF KgetGood
  <2>7. KgetGood(o, W \ {t}, {}) BY <2>1, <2>3, <2>5, <2>6, TransferChanges
  <2>8. o.transfer[t].m_status # "Running" BY <1>3, <2>1, <2>6 DEF KgetGood, RunningIsStarted
  <2>9. KgetGood(startFactory(o, t, FALSE), (W \ {t}) \ {t}, {}) /\ startFactory(o, t, FALSE).list = o.list
    <3>1. t \in o.list /\ FALSE \in BOOLEAN BY <2>3
    <3> QED BY <2>7, <2>8, <3>1, FactoryStarts
  <2>10. (W \ {t}) \ {t} = W \ {t} OBVIOUS
  <2> QED BY <2>3, <2>4, <2>9, <2>10
<1> QED BY <1>2, <1>3

(* All those that wait, one after the other *)
LEMMA ReceiversAreTold ==
  ASSUME NEW n, NEW q \in Seq(Transfers), ToSet(q) \subseteq n.list, KgetGood(n, ToSet(q), {})
  PROVE  KgetGood(ForEach(slotRemovedFile, n, q), {}, {}) /\ ForEach(slotRemovedFile, n, q).list = n.list
<1> DEFINE N == Len(q)
           Left(i) == {q[k] : k \in (i + 1) .. N}
           Right(o, i) == KgetGood(o, Left(i), {}) /\ o.list = n.list
           S == [i \in 0 .. N |-> {o \in KgetStates : Right(o, i)}]
           step == [p \in KgetStates \X (1 .. N) |-> slotRemovedFile(p[1], q[p[2]])]
           Loop(f) == f = [i \in 0 .. N |-> IF i = 0 THEN n ELSE slotRemovedFile(f[i - 1], q[i])]
           after == CHOOSE f : Loop(f)
<1>1. N \in Nat /\ DOMAIN q = 1 .. N /\ \A i \in 1 .. N : q[i] \in n.list BY DEF ToSet
<1>2. Right(n, 0)
  <2>1. ToSet(q) = Left(0) BY <1>1 DEF ToSet
  <2> QED BY <2>1
<1>3. ASSUME NEW i \in 1 .. N, NEW o, Right(o, i - 1) PROVE Right(slotRemovedFile(o, q[i]), i)
  <2>1. Left(i - 1) \ {q[i]} \subseteq Left(i)
    <3>1. \A k \in ((i - 1) + 1) .. N : k = i \/ k \in (i + 1) .. N BY <1>1
    <3> QED BY <3>1
  <2>2. KgetGood(o, Left(i - 1), {}) /\ o.list = n.list BY <1>3
  <2>3. q[i] \in o.list BY <1>1, <2>2
  <2>4. /\ KgetGood(slotRemovedFile(o, q[i]), Left(i - 1) \ {q[i]}, {})
        /\ slotRemovedFile(o, q[i]).list = o.list
    BY <2>2, <2>3, ReceiverIsTold
  <2>5. KgetGood(slotRemovedFile(o, q[i]), Left(i), {}) BY <2>1, <2>4 DEF KgetGood, RememberedBut
  <2> QED BY <2>2, <2>4, <2>5
<1>4. \A o : Right(o, N) => KgetGood(o, {}, {}) /\ o.list = n.list
  <2>1. Left(N) = {} BY <1>1
  <2> QED BY <2>1
<1>5. \A o, i : Right(o, i) => o \in KgetStates BY DEF KgetGood, KgetTyped
<1> HIDE DEF Right
<1>6. /\ \A i \in 0 .. N : \A o : o \in S[i] <=> Right(o, i)
      /\ \A i \in 1 .. N : \A o : o \in S[i] <=> Right(o, i)
      /\ \A i \in 1 .. N : \A o : o \in S[i - 1] <=> Right(o, i - 1)
  <2>1. \A i \in 0 .. N : \A o : o \in S[i] <=> Right(o, i) BY <1>5
  <2>2. \A i \in 1 .. N : i \in 0 .. N /\ i - 1 \in 0 .. N BY <1>1
  <2> HIDE DEF S
  <2> QED BY <2>1, <2>2
<1>7. \A i \in 0 .. N : S[i] \subseteq KgetStates OBVIOUS
<1>8. \A o \in KgetStates, i \in 1 .. N : step[<<o, i>>] = slotRemovedFile(o, q[i]) OBVIOUS
<1>9. \A i \in 1 .. N : i \in 0 .. N /\ i - 1 \in 0 .. N BY <1>1
<1>10. 0 \in 0 .. N /\ N \in 0 .. N BY <1>1
<1> HIDE DEF S, step
<1>11. n \in S[0] BY <1>2, <1>6, <1>10
<1>12. \A i \in 1 .. N : \A o : o \in S[i - 1] => slotRemovedFile(o, q[i]) \in S[i] BY <1>3, <1>6
<1> HIDE DEF N
<1>13. PICK g : g \in Runs(KgetStates, N, S, n, step)
  <2>1. \A i \in 1 .. N : \A o \in S[i - 1] : step[<<o, i>>] \in S[i] BY <1>7, <1>8, <1>9, <1>12
  <2>2. Carries(KgetStates, N, S, n, step) BY <1>7, <1>11, <2>1 DEF Carries
  <2> QED BY <1>1, <2>2, IterationsRun
<1>14. g \in [0 .. N -> KgetStates] /\ g[0] = n /\ \A i \in 1 .. N : g[i] = slotRemovedFile(g[i - 1], q[i])
  BY <1>8, <1>9, <1>13 DEF Runs
<1>15. Loop(g) BY <1>1, <1>14
<1>16. Loop(after) BY <1>15
<1> HIDE DEF after
<1>17. after[0] = n /\ \A i \in 1 .. N : after[i] = slotRemovedFile(after[i - 1], q[i]) BY <1>1, <1>16
<1>18. \A i \in 0 .. N : after[i] \in S[i]
  <2>1. \A i \in 1 .. N : after[i - 1] \in S[i - 1] => after[i] \in S[i] BY <1>12, <1>17
  <2>2. after[0] \in S[0] BY <1>11, <1>17
  <2> QED BY <1>1, <2>1, <2>2, IterationsAdvance
<1>19. Right(after[N], N) BY <1>6, <1>10, <1>18
<1>20. KgetGood(after[N], {}, {}) /\ after[N].list = n.list BY <1>4, <1>19
<1> QED BY <1>20 DEF ForEach, after, N

(* FileDeleter::deleteFile, KGet::delTransfers and KGet::createTransfers *)

(* Files are deleted that nobody downloads. *)
LEMMA FilesAreDeleted ==
  ASSUME NEW n, NEW D \in SUBSET Destinations, KgetGood(n, {}, {}), D \subseteq n.file \cup n.disputed
  PROVE  LET o == deleteFiles(n, D)
         IN  /\ KgetGood(o, {}, D)
             /\ o.list = n.list /\ o.file = n.file /\ o.disputed = n.disputed
             /\ o.transfer = n.transfer /\ o.receivers = n.receivers
<1> DEFINE o == deleteFiles(n, D)
           job == [d \in Destinations |-> IF d \in D /\ n.job[d] = "none" THEN "deletes" ELSE n.job[d]]
<1> USE DEF KgetGood
<1>1. n \in KgetStates BY DEF KgetTyped
<1>2. o = [n EXCEPT !.job = job] BY DEF deleteFiles
<1>3. job \in [Destinations -> {"none", "deletes", "done"}] BY <1>1 DEF KgetStates
<1>4. /\ \A d \in D : job[d] \in {n.job[d], "deletes"}
      /\ \A d \in Destinations \ D : job[d] = n.job[d]
  OBVIOUS
<1> HIDE DEF job
<1>5. /\ o.list = n.list /\ o.file = n.file /\ o.disputed = n.disputed
      /\ o.transfer = n.transfer /\ o.receivers = n.receivers /\ o.job = job
  BY <1>1, <1>2 DEF KgetStates
<1>6. o \in KgetStates BY <1>1, <1>2, <1>3 DEF KgetStates
<1> HIDE DEF o
<1>7. KgetTyped(o)
  <2>1. \A d \in Destinations : isFileBeingDeleted(n, d) => isFileBeingDeleted(o, d)
    BY <1>4, <1>5 DEF isFileBeingDeleted
  <2> QED BY <1>5, <1>6, <2>1 DEF KgetTyped, Waiting
<1>8. SharedIsDisputed(o) BY <1>5 DEF SharedIsDisputed
<1>9. DeletedIsThere(o) BY <1>4, <1>5 DEF DeletedIsThere
<1>10. SparedBut(o, D)
  <2>1. \A t \in n.list : n.transfer[t].m_dest \in Destinations BY DEF KgetTyped, TransferStates
  <2> QED BY <1>4, <1>5, <2>1 DEF SparedBut
<1>11. RunningIsStarted(o) BY <1>5 DEF RunningIsStarted
<1>12. RememberedBut(o, {}) BY <1>5 DEF RememberedBut, Excuse, Waiting
<1>13. KgetGood(o, {}, D) BY <1>7, <1>8, <1>9, <1>10, <1>11, <1>12
<1> QED BY <1>5, <1>13 DEF o

(* Transfers leave the list; the files of some of them are deleted. *)
LEMMA TransfersAreDeleted ==
  ASSUME NEW n, NEW T \in SUBSET n.list, NEW U \in SUBSET T, KgetGood(n, {}, {})
  PROVE  /\ KgetGood(delTransfers(n, T, U), {}, {})
         /\ delTransfers(n, T, U).list = n.list \ T
         /\ delTransfers(n, T, U).file = n.file
<1> DEFINE begun == {t \in U : n.transfer[t].m_downloadInitialized}
           D == {n.transfer[t].m_dest : t \in begun} \cap n.file
           m == deleteFiles(n, D)
           o == delTransfers(n, T, U)
<1> USE DEF KgetGood
<1>1. n \in KgetStates /\ T \subseteq Transfers BY DEF KgetTyped, KgetStates
<1>2. \A t \in n.list : n.transfer[t] \in TransferStates /\ n.transfer[t].m_dest \in Destinations
  BY DEF KgetTyped, TransferStates
<1>3. D \in SUBSET Destinations /\ D \subseteq n.file /\ D \subseteq {n.transfer[t].m_dest : t \in T} BY <1>1, <1>2
<1>4. o = [m EXCEPT !.list = m.list \ T,
                    !.transfer = [t \in Transfers |-> IF t \in T THEN NoFactory ELSE m.transfer[t]],
                    !.receivers = [d \in Destinations |-> Among(m.receivers[d], Transfers \ T)]]
  BY DEF delTransfers
<1> HIDE DEF D
<1>5. /\ KgetGood(m, {}, D) /\ m.list = n.list /\ m.file = n.file /\ m.disputed = n.disputed
      /\ m.transfer = n.transfer /\ m.receivers = n.receivers
  BY <1>3, FilesAreDeleted
<1> HIDE DEF m
<1>6. m \in KgetStates BY <1>5 DEF KgetTyped
<1>7. \A d \in Destinations : /\ Among(n.receivers[d], Transfers \ T) \in Seq(Transfers)
                              /\ ToSet(Among(n.receivers[d], Transfers \ T)) = ToSet(n.receivers[d]) \ T
  <2>1. ASSUME NEW d \in Destinations
        PROVE  /\ Among(n.receivers[d], Transfers \ T) \in Seq(Transfers)
               /\ ToSet(Among(n.receivers[d], Transfers \ T)) = ToSet(n.receivers[d]) \ T
    <3>1. n.receivers[d] \in Seq(Transfers) BY <1>1 DEF KgetStates
    <3>2. ToSet(n.receivers[d]) \subseteq Transfers BY <3>1 DEF ToSet
    <3>3. ToSet(n.receivers[d]) \cap (Transfers \ T) = ToSet(n.receivers[d]) \ T BY <3>2
    <3> QED BY <3>1, <3>3, AmongRange
  <2> QED BY <2>1
<1>8. /\ o.list = n.list \ T /\ o.file = n.file /\ o.disputed = n.disputed /\ o.job = m.job
      /\ o.transfer = [t \in Transfers |-> IF t \in T THEN NoFactory ELSE n.transfer[t]]
      /\ o.receivers = [d \in Destinations |-> Among(n.receivers[d], Transfers \ T)]
  BY <1>4, <1>5, <1>6 DEF KgetStates
<1>9. o \in KgetStates
  <2>1. o.transfer \in [Transfers -> TransferStates \cup {NoFactory}] BY <1>1, <1>8 DEF KgetStates
  <2>2. o.receivers \in [Destinations -> Seq(Transfers)]
    <3> DEFINE q == [d \in Destinations |-> Among(n.receivers[d], Transfers \ T)]
    <3>1. q \in [Destinations -> Seq(Transfers)] BY <1>7
    <3>2. o.receivers = q BY <1>8
    <3> QED BY <3>1, <3>2
  <2> HIDE DEF o
  <2>3. o = [m EXCEPT !.list = o.list, !.transfer = o.transfer, !.receivers = o.receivers]
    BY <1>4, <1>5, <1>8
  <2>4. o.list \in SUBSET Transfers BY <1>1, <1>8 DEF KgetStates
  <2> QED BY <1>6, <2>1, <2>2, <2>3, <2>4 DEF KgetStates
<1> HIDE DEF o
<1>10. \A t \in o.list : t \in n.list /\ t \notin T /\ o.transfer[t] = n.transfer[t]
  BY <1>1, <1>8 DEF KgetStates
<1>11. \A d \in Destinations : Waiting(o, d) = Waiting(n, d) \ T BY <1>7, <1>8 DEF Waiting
<1>12. KgetTyped(o)
  <2>1. \A d \in Destinations : \A t \in Waiting(n, d) :
          t \in n.list /\ n.transfer[t].m_dest = d /\ isFileBeingDeleted(o, d)
    BY <1>5, <1>8 DEF KgetTyped, Waiting, isFileBeingDeleted
  <2> QED BY <1>2, <1>8, <1>9, <1>10, <1>11, <2>1 DEF KgetTyped
<1>13. SharedIsDisputed(o) BY <1>8, <1>10 DEF SharedIsDisputed
<1>14. DeletedIsThere(o) BY <1>5, <1>8 DEF DeletedIsThere
<1>15. SparedBut(o, {})
  <2>1. ASSUME NEW t \in o.list, o.transfer[t].m_dest \notin o.disputed PROVE o.transfer[t].m_dest \notin D
    BY <1>3, <1>8, <1>10, <2>1 DEF SharedIsDisputed
  <2> QED BY <1>5, <1>8, <1>10, <2>1 DEF SparedBut
<1>16. RunningIsStarted(o) BY <1>8, <1>10 DEF RunningIsStarted
<1>17. RememberedBut(o, {})
  <2>1. ASSUME NEW t \in o.list, o.transfer[t].m_startTried PROVE Excuse(o, t)
    <3>1. Excuse(n, t) BY <1>10, <2>1 DEF RememberedBut
    <3> QED BY <1>2, <1>10, <1>11, <3>1 DEF Excuse
  <2> QED BY <2>1 DEF RememberedBut
<1>18. KgetGood(o, {}, {}) BY <1>12, <1>13, <1>14, <1>15, <1>16, <1>17
<1> QED BY <1>8, <1>18 DEF o

(* New transfers, and where they go, if files of D are to be deleted. *)
Requested(T, source, dest, D) ==
    /\ T \subseteq Transfers
    /\ source \in [T -> Sources]
    /\ dest \in [T -> Destinations]
    /\ \A d \in D : \E t \in T : dest[t] = d

(* New transfers of files that nobody deletes enter the list. *)
LEMMA TransfersAreCreated ==
  ASSUME NEW n, NEW D, NEW T, NEW source, NEW dest, T \cap n.list = {}, KgetGood(n, {}, D),
         Requested(T, source, dest, D)
  PROVE  /\ KgetGood(createTransfers(n, T, source, dest), {}, {})
         /\ createTransfers(n, T, source, dest).list = n.list \cup T
<1> DEFINE Disputed(t) == findTransferByDestination(n, dest[t]) # {} \/ \E u \in T \ {t} : dest[u] = dest[t]
           E == {dest[t] : t \in {u \in T : Disputed(u)}}
           o == createTransfers(n, T, source, dest)
<1> USE DEF KgetGood, Requested
<1>1. n \in KgetStates BY DEF KgetTyped
<1>2. o = [n EXCEPT !.list = n.list \cup T,
                    !.transfer = [t \in Transfers |->
                                   IF t \in T THEN NewTransfer(source[t], dest[t]) ELSE n.transfer[t]],
                    !.disputed = n.disputed \cup E]
  BY DEF createTransfers
<1>3. /\ E \subseteq Destinations
      /\ \A t \in n.list, u \in T : n.transfer[t].m_dest = dest[u] => dest[u] \in E
      /\ \A t, u \in T : t # u /\ dest[t] = dest[u] => dest[u] \in E
  BY DEF findTransferByDestination
<1>4. /\ o.list = n.list \cup T /\ o.file = n.file /\ o.disputed = n.disputed \cup E /\ o.job = n.job
      /\ o.transfer = [t \in Transfers |-> IF t \in T THEN NewTransfer(source[t], dest[t]) ELSE n.transfer[t]]
      /\ o.receivers = n.receivers
  BY <1>1, <1>2 DEF KgetStates
<1> HIDE DEF E, o
<1>5. \A t \in T : NewTransfer(source[t], dest[t]) \in TransferStates BY DEF NewTransfer, TransferStates
<1>6. o \in KgetStates
  <2>1. o.transfer \in [Transfers -> TransferStates \cup {NoFactory}] BY <1>1, <1>4, <1>5 DEF KgetStates
  <2>2. o = [n EXCEPT !.list = o.list, !.transfer = o.transfer, !.disputed = o.disputed] BY <1>2, <1>4
  <2>3. o.list \in SUBSET Transfers /\ o.disputed \in SUBSET Destinations BY <1>1, <1>3, <1>4 DEF KgetStates
  <2> QED BY <1>1, <2>1, <2>2, <2>3 DEF KgetStates
<1>7. \A t \in n.list : o.transfer[t] = n.transfer[t] BY <1>1, <1>4 DEF KgetStates
<1>8. \A t \in T : /\ o.transfer[t] \in TransferStates /\ o.transfer[t].m_dest = dest[t]
                   /\ ~o.transfer[t].m_downloadInitialized /\ ~o.transfer[t].m_startTried
  BY <1>4, <1>5 DEF NewTransfer
<1>9. \A t \in o.list : t \in n.list \/ t \in T BY <1>4
<1>10. KgetTyped(o) BY <1>4, <1>6, <1>7, <1>8, <1>9 DEF KgetTyped, Waiting, isFileBeingDeleted
<1>11. SharedIsDisputed(o) BY <1>3, <1>4, <1>7, <1>8, <1>9 DEF SharedIsDisputed
<1>12. DeletedIsThere(o) BY <1>4 DEF DeletedIsThere
<1>13. SparedBut(o, {})
  <2>1. \A t \in n.list : n.transfer[t].m_dest \in D => n.transfer[t].m_dest \in E BY <1>3
  <2> QED BY <1>4, <1>7, <1>8, <1>9, <2>1 DEF SparedBut
<1>14. RunningIsStarted(o) BY <1>7, <1>8, <1>9 DEF RunningIsStarted
<1>15. RememberedBut(o, {})
  <2>1. ASSUME NEW t \in n.list, n.transfer[t].m_startTried PROVE Excuse(o, t)
    BY <1>4, <1>7, <2>1 DEF RememberedBut, Excuse, Waiting
  <2> QED BY <1>7, <1>8, <1>9, <2>1 DEF RememberedBut
<1>16. KgetGood(o, {}, {}) BY <1>10, <1>11, <1>12, <1>13, <1>14, <1>15
<1> QED BY <1>4, <1>16 DEF o
-----------------------------------------------------------------------------
(* The steps *)

(* Nothing is deleted at the start. *)
LEMMA DestinationStarts == DestinationInit => DestinationInv
<1> SUFFICES ASSUME DestinationInit PROVE DestinationInv OBVIOUS
<1>1. /\ kget.list = {} /\ kget.transfer = [t \in Transfers |-> NoFactory] /\ kget.file \subseteq Destinations
      /\ kget.job = [e \in Destinations |-> "none"] /\ kget.receivers = [e \in Destinations |-> <<>>]
      /\ kget.disputed = {} /\ kget \in KgetStates
  BY DEF DestinationInit, KgetStates
<1>2. \A d \in Destinations : Waiting(kget, d) = {} BY <1>1 DEF Waiting, ToSet
<1>3. KgetGood(kget, {}, {})
  BY <1>1, <1>2 DEF KgetGood, KgetTyped, SharedIsDisputed, DeletedIsThere, SparedBut, RunningIsStarted, RememberedBut
<1> QED BY <1>1, <1>3 DEF DestinationInit, DestinationInv

(* A step of the download changes neither list nor dialog. *)
LEMMA ListStays ==
  ASSUME DestinationInv, KgetGood(kget', {}, {}), kget'.list = kget.list, UNCHANGED <<added, dialog>>
  PROVE  DestinationInv'
BY DEF DestinationInv

(* startFactory *)
LEMMA StartKeeps ==
  ASSUME DestinationInv, NEW t \in Transfers, StartTransfer(t)
  PROVE  DestinationInv'
<1>1. PICK fails \in BOOLEAN : kget' = startFactory(kget, t, fails) BY DEF StartTransfer
<1>2. t \in kget.list /\ kget.transfer[t].m_status # "Running" /\ KgetGood(kget, {}, {})
  BY DEF StartTransfer, DestinationInv
<1>3. KgetGood(kget', {} \ {t}, {}) /\ kget'.list = kget.list BY <1>1, <1>2, FactoryStarts
<1>4. {} \ {t} = {} OBVIOUS
<1> QED BY <1>3, <1>4, ListStays DEF StartTransfer

(* What a transfer becomes that changes and starts nothing *)
LEMMA ChangeKeeps ==
  ASSUME DestinationInv, NEW t \in kget.list, NEW g \in TransferStates,
         kget' = [kget EXCEPT !.transfer[t] = g], UNCHANGED <<added, dialog>>,
         g.m_dest = kget.transfer[t].m_dest,
         g.m_status \in {"Running", "Finished"} => ~g.m_startTried,
         g.m_downloadInitialized = kget.transfer[t].m_downloadInitialized,
         kget.transfer[t].m_status = "Finished" => g.m_status = "Finished",
         g.m_startTried => \/ kget.transfer[t].m_startTried /\ Excuse(kget, t) /\ g.putJob = kget.transfer[t].putJob
                              /\ g.m_status = kget.transfer[t].m_status /\ g.openFailed = kget.transfer[t].openFailed
                           \/ g.openFailed
  PROVE  DestinationInv'
<1> DEFINE f == kget.transfer[t]
<1>1. PICK n : n = kget OBVIOUS
<1>2. PICK o : o = kget' OBVIOUS
<1>3. KgetGood(n, {}, {}) /\ n \in KgetStates /\ t \in Transfers BY <1>1 DEF DestinationInv, KgetGood, KgetTyped, KgetStates
<1>4. n.transfer \in [Transfers -> TransferStates \cup {NoFactory}] BY <1>3 DEF KgetStates
<1>5. [n.transfer EXCEPT ![t] = g] \in [Transfers -> TransferStates \cup {NoFactory}] BY <1>4
<1>6. o = [n EXCEPT !.transfer = [n.transfer EXCEPT ![t] = g]] BY <1>1, <1>2
<1>7. /\ o.list = n.list /\ o.job = n.job /\ o.receivers = n.receivers /\ o.disputed = n.disputed
      /\ o.file = n.file /\ o.transfer = [n.transfer EXCEPT ![t] = g]
  BY <1>3, <1>6 DEF KgetStates
<1>8. o \in KgetStates BY <1>3, <1>5, <1>6 DEF KgetStates
<1>9. o.transfer[t] = g /\ \A u \in Transfers \ {t} : o.transfer[u] = n.transfer[u] BY <1>3, <1>4, <1>7
<1>10. g.m_startTried => Excuse(o, t) BY <1>1, <1>7, <1>9 DEF Excuse, Waiting
<1>11. t \in n.list BY <1>1
<1>12. KgetGood(o, {} \ {t}, {}) BY <1>1, <1>3, <1>7, <1>8, <1>9, <1>10, <1>11, TransferChanges
<1>13. {} \ {t} = {} OBVIOUS
<1>14. KgetGood(kget', {}, {}) /\ kget'.list = kget.list BY <1>1, <1>2, <1>7, <1>12, <1>13
<1> QED BY <1>14, ListStays

(* DataSourceFactory::stop *)
LEMMA StopKeeps ==
  ASSUME DestinationInv, NEW t \in Transfers, StopTransfer(t)
  PROVE  DestinationInv'
<1> DEFINE f == kget.transfer[t]
           g == [f EXCEPT !.m_status = "Stopped", !.m_startTried = FALSE]
<1>1. kget \in KgetStates /\ t \in kget.list /\ t \in Transfers /\ f \in TransferStates /\ f.m_status # "Finished"
  BY DEF StopTransfer, DestinationInv, KgetGood, KgetTyped
<1>2. kget' = [kget EXCEPT !.transfer[t] = g]
  <2>1. kget.transfer \in [Transfers -> TransferStates \cup {NoFactory}] BY <1>1 DEF KgetStates
  <2>2. [[kget.transfer EXCEPT ![t].m_status = "Stopped"] EXCEPT ![t].m_startTried = FALSE]
        = [kget.transfer EXCEPT ![t] = g]
    BY <1>1, <2>1
  <2>3. kget' = [kget EXCEPT !.transfer = [[kget.transfer EXCEPT ![t].m_status = "Stopped"] EXCEPT ![t].m_startTried = FALSE]]
    BY <1>1 DEF StopTransfer, KgetStates
  <2> QED BY <2>2, <2>3
<1>3. g \in TransferStates /\ ~g.m_startTried /\ g.m_dest = f.m_dest /\ g.m_downloadInitialized = f.m_downloadInitialized
  BY <1>1 DEF TransferStates
<1> HIDE DEF g
<1> QED BY <1>1, <1>2, <1>3, ChangeKeeps DEF StopTransfer

(* DataSourceFactory::slotOpen: a start that was tried goes on. *)
LEMMA OpenKeeps ==
  ASSUME DestinationInv, NEW t \in Transfers, FileOpened(t)
  PROVE  DestinationInv'
<1> DEFINE f == kget.transfer[t]
           g == [f EXCEPT !.putJob = "open"]
           n == [kget EXCEPT !.transfer[t].putJob = "open"]
<1>1. kget \in KgetStates /\ t \in kget.list /\ t \in Transfers /\ f \in TransferStates /\ KgetGood(kget, {}, {})
  BY DEF FileOpened, DestinationInv, KgetGood, KgetTyped
<1>2. /\ g \in TransferStates /\ g.m_startTried = f.m_startTried /\ g.m_dest = f.m_dest
      /\ g.m_downloadInitialized = f.m_downloadInitialized /\ g.m_status = f.m_status
      /\ g.openFailed = f.openFailed
  BY <1>1 DEF TransferStates
<1>3. n = [kget EXCEPT !.transfer[t] = g] OBVIOUS
<1>4. kget.transfer \in [Transfers -> TransferStates \cup {NoFactory}] BY <1>1 DEF KgetStates
<1>5. n.transfer[t] = g BY <1>1, <1>4 DEF KgetStates
<1>6. CASE ~f.m_startTried
  <2>1. kget' = n BY <1>2, <1>5, <1>6 DEF FileOpened
  <2>2. f.m_status = "Finished" => g.m_status = "Finished" BY <1>2
  <2>3. kget' = [kget EXCEPT !.transfer[t] = g] BY <1>3, <2>1
  <2> HIDE DEF g, n
  <2> QED BY <1>1, <1>2, <1>6, <2>2, <2>3, ChangeKeeps DEF FileOpened
<1>7. CASE f.m_startTried
  <2>1. kget' = startFactory(n, t, FALSE) BY <1>2, <1>5, <1>7 DEF FileOpened
  <2>2. f.m_status \notin {"Running", "Finished"} BY <1>1, <1>7 DEF KgetGood, RunningIsStarted
  <2>3. [kget.transfer EXCEPT ![t] = g] \in [Transfers -> TransferStates \cup {NoFactory}] BY <1>2, <1>4
  <2>4. /\ n.list = kget.list /\ n.job = kget.job /\ n.receivers = kget.receivers /\ n.disputed = kget.disputed
        /\ n.file = kget.file /\ n.transfer = [kget.transfer EXCEPT ![t] = g]
    BY <1>1, <1>3 DEF KgetStates
  <2>5. n \in KgetStates
    <3>1. n = [kget EXCEPT !.transfer = [kget.transfer EXCEPT ![t] = g]] OBVIOUS
    <3> HIDE DEF n
    <3> QED BY <1>1, <2>3, <3>1 DEF KgetStates
  <2>6. \A u \in Transfers \ {t} : n.transfer[u] = kget.transfer[u] BY <1>4, <2>4
  <2> HIDE DEF n, g
  <2>7. KgetGood(kget, {t}, {}) BY <1>1 DEF KgetGood, RememberedBut
  <2>8. KgetGood(n, {t}, {})
    <3>1. \A d : Waiting(n, d) = Waiting(kget, d) BY <2>4 DEF Waiting
    <3>2. \A u \in n.list : /\ n.transfer[u] \in TransferStates /\ n.transfer[u].m_dest = kget.transfer[u].m_dest
                            /\ n.transfer[u].m_status = kget.transfer[u].m_status
                            /\ n.transfer[u].m_downloadInitialized = kget.transfer[u].m_downloadInitialized
                            /\ n.transfer[u].m_startTried = kget.transfer[u].m_startTried
      BY <1>1, <1>2, <1>5, <2>4, <2>6 DEF KgetGood, KgetTyped, KgetStates
    <3>3. KgetTyped(n) BY <2>4, <2>5, <2>7, <3>1, <3>2 DEF KgetGood, KgetTyped, isFileBeingDeleted
    <3>4. SharedIsDisputed(n) BY <2>4, <2>7, <3>2 DEF KgetGood, SharedIsDisputed
    <3>5. DeletedIsThere(n) BY <2>4, <2>7 DEF KgetGood, DeletedIsThere
    <3>6. SparedBut(n, {}) BY <2>4, <2>7, <3>2 DEF KgetGood, SparedBut
    <3>7. RunningIsStarted(n) BY <2>4, <2>7, <3>2 DEF KgetGood, RunningIsStarted
    <3>8. \A u \in n.list \ {t} : n.transfer[u] = kget.transfer[u] BY <1>1, <2>4, <2>6 DEF KgetStates
    <3>9. RememberedBut(n, {t}) BY <2>4, <2>7, <3>1, <3>8 DEF KgetGood, RememberedBut, Excuse
    <3> QED BY <3>3, <3>4, <3>5, <3>6, <3>7, <3>9 DEF KgetGood
  <2>9. t \in n.list /\ FALSE \in BOOLEAN /\ n.transfer[t].m_status # "Running" BY <1>1, <1>2, <1>5, <2>2, <2>4
  <2>10. KgetGood(kget', {t} \ {t}, {}) /\ kget'.list = n.list BY <2>1, <2>8, <2>9, FactoryStarts
  <2>11. {t} \ {t} = {} OBVIOUS
  <2> QED BY <2>4, <2>10, <2>11, ListStays DEF FileOpened
<1> QED BY <1>6, <1>7

(* The file cannot be opened; the start that was tried is lost. *)
LEMMA OpenFailsKeeps ==
  ASSUME DestinationInv, NEW t \in Transfers, OpenFails(t)
  PROVE  DestinationInv'
<1> DEFINE f == kget.transfer[t]
           g == [f EXCEPT !.putJob = "none", !.openFailed = TRUE]
<1>1. kget \in KgetStates /\ t \in kget.list /\ t \in Transfers /\ f \in TransferStates /\ KgetGood(kget, {}, {})
  BY DEF OpenFails, DestinationInv, KgetGood, KgetTyped
<1>2. kget' = [kget EXCEPT !.transfer[t] = g]
  <2>1. kget.transfer \in [Transfers -> TransferStates \cup {NoFactory}] BY <1>1 DEF KgetStates
  <2>2. [[kget.transfer EXCEPT ![t].putJob = "none"] EXCEPT ![t].openFailed = TRUE]
        = [kget.transfer EXCEPT ![t] = g]
    BY <1>1, <2>1
  <2>3. kget' = [kget EXCEPT !.transfer = [[kget.transfer EXCEPT ![t].putJob = "none"] EXCEPT ![t].openFailed = TRUE]]
    BY <1>1 DEF OpenFails, KgetStates
  <2> QED BY <2>2, <2>3
<1>3. /\ g \in TransferStates /\ g.m_startTried = f.m_startTried /\ g.m_dest = f.m_dest
      /\ g.m_downloadInitialized = f.m_downloadInitialized /\ g.m_status = f.m_status /\ g.openFailed
  BY <1>1 DEF TransferStates
<1>4. f.m_status \in {"Running", "Finished"} => ~f.m_startTried BY <1>1 DEF KgetGood, RunningIsStarted
<1>5. /\ g.m_status \in {"Running", "Finished"} => ~g.m_startTried
      /\ f.m_status = "Finished" => g.m_status = "Finished"
  BY <1>3, <1>4
<1> HIDE DEF g
<1>6. UNCHANGED <<added, dialog>> BY DEF OpenFails
<1> QED BY <1>1, <1>2, <1>3, <1>5, <1>6, ChangeKeeps

(* The download of a file is complete. *)
LEMMA FinishTransferKeeps ==
  ASSUME DestinationInv, NEW t \in Transfers, DownloadFinishes(t)
  PROVE  DestinationInv'
<1> DEFINE f == kget.transfer[t]
           g == [f EXCEPT !.m_status = "Finished", !.putJob = "none"]
<1>1. kget \in KgetStates /\ t \in kget.list /\ t \in Transfers /\ f \in TransferStates /\ KgetGood(kget, {}, {})
  BY DEF DownloadFinishes, DestinationInv, KgetGood, KgetTyped
<1>2. kget' = [kget EXCEPT !.transfer[t] = g]
  <2>1. kget.transfer \in [Transfers -> TransferStates \cup {NoFactory}] BY <1>1 DEF KgetStates
  <2>2. [[kget.transfer EXCEPT ![t].m_status = "Finished"] EXCEPT ![t].putJob = "none"]
        = [kget.transfer EXCEPT ![t] = g]
    BY <1>1, <2>1
  <2>3. kget' = [kget EXCEPT !.transfer = [[kget.transfer EXCEPT ![t].m_status = "Finished"] EXCEPT ![t].putJob = "none"]]
    BY <1>1 DEF DownloadFinishes, KgetStates
  <2> QED BY <2>2, <2>3
<1>3. ~f.m_startTried BY <1>1 DEF KgetGood, RunningIsStarted, DownloadFinishes
<1>4. /\ g \in TransferStates /\ g.m_startTried = f.m_startTried /\ g.m_dest = f.m_dest
      /\ g.m_downloadInitialized = f.m_downloadInitialized /\ g.m_status = "Finished"
  BY <1>1 DEF TransferStates
<1> HIDE DEF g
<1> QED BY <1>1, <1>2, <1>3, <1>4, ChangeKeeps DEF DownloadFinishes
(* A deletion has ended, well or not. *)
LEMMA UnlinkKeeps ==
  ASSUME DestinationInv, NEW d \in Destinations, NEW F, F \in {kget.file, kget.file \ {d}},
         kget' = [kget EXCEPT !.job[d] = "done", !.file = F], UNCHANGED <<added, dialog>>
  PROVE  DestinationInv'
<1>1. PICK n : n = kget OBVIOUS
<1>2. PICK o : o = kget' OBVIOUS
<1> USE DEF KgetGood
<1>3. KgetGood(n, {}, {}) /\ n \in KgetStates BY <1>1 DEF DestinationInv, KgetTyped
<1>4. o = [n EXCEPT !.job[d] = "done", !.file = F] BY <1>1, <1>2
<1>5. /\ o.list = n.list /\ o.transfer = n.transfer /\ o.receivers = n.receivers /\ o.disputed = n.disputed
      /\ o.file = F /\ o.job = [n.job EXCEPT ![d] = "done"]
  BY <1>3, <1>4 DEF KgetStates
<1>6. o \in KgetStates BY <1>1, <1>3, <1>4 DEF KgetStates
<1>7. o.job[d] = "done" /\ \A e \in Destinations \ {d} : o.job[e] = n.job[e] BY <1>3, <1>5 DEF KgetStates
<1>8. \A e \in Destinations \ {d} : e \in n.file => e \in o.file BY <1>1, <1>5
<1>9. KgetTyped(o)
  <2>1. \A e \in Destinations : isFileBeingDeleted(n, e) => isFileBeingDeleted(o, e)
    BY <1>7 DEF isFileBeingDeleted
  <2> QED BY <1>3, <1>5, <1>6, <2>1 DEF KgetTyped, Waiting
<1>10. SharedIsDisputed(o) BY <1>3, <1>5 DEF SharedIsDisputed
<1>11. DeletedIsThere(o) BY <1>3, <1>5, <1>7, <1>8 DEF DeletedIsThere
<1>12. SparedBut(o, {})
  <2>1. \A t \in n.list : n.transfer[t].m_dest \in Destinations BY <1>3 DEF KgetTyped, TransferStates
  <2> QED BY <1>3, <1>5, <1>7, <2>1 DEF SparedBut
<1>13. RunningIsStarted(o) BY <1>3, <1>5 DEF RunningIsStarted
<1>14. RememberedBut(o, {}) BY <1>3, <1>5 DEF RememberedBut, Excuse, Waiting
<1>15. KgetGood(o, {}, {}) BY <1>9, <1>10, <1>11, <1>12, <1>13, <1>14
<1>16. KgetGood(kget', {}, {}) /\ kget'.list = kget.list BY <1>1, <1>2, <1>5, <1>15
<1> HIDE DEF KgetGood
<1> QED BY <1>16, ListStays

(* The file is gone, or could not be removed. *)
LEMMA UnlinkedKeeps ==
  ASSUME DestinationInv, NEW d \in Destinations, Unlinked(d) \/ UnlinkFails(d)
  PROVE  DestinationInv'
<1>1. kget \in KgetStates BY DEF DestinationInv, KgetGood, KgetTyped
<1>2. PICK F \in {kget.file, kget.file \ {d}} : kget' = [kget EXCEPT !.job[d] = "done", !.file = F]
  <2>1. CASE Unlinked(d) BY <1>1, <2>1 DEF Unlinked, KgetStates
  <2>2. CASE UnlinkFails(d)
    <3>1. kget' = [kget EXCEPT !.job[d] = "done", !.file = kget.file] BY <1>1, <2>2 DEF UnlinkFails, KgetStates
    <3> QED BY <3>1
  <2> QED BY <2>1, <2>2
<1>3. UNCHANGED <<added, dialog>> BY DEF Unlinked, UnlinkFails
<1> QED BY <1>2, <1>3, UnlinkKeeps

(* FileDeleter tells the result to all that wait for it. *)
LEMMA ResultKeeps ==
  ASSUME DestinationInv, NEW d \in Destinations, DeleteResult(d)
  PROVE  DestinationInv'
<1>1. PICK n : n = kget OBVIOUS
<1> DEFINE o == [n EXCEPT !.job[d] = "none", !.receivers[d] = <<>>]
           q == n.receivers[d]
<1> USE DEF KgetGood
<1>2. KgetGood(n, {}, {}) /\ n \in KgetStates BY <1>1 DEF DestinationInv, KgetTyped
<1>3. kget' = ForEach(slotRemovedFile, o, q) BY <1>1 DEF DeleteResult
<1>4. q \in Seq(Transfers) BY <1>2 DEF KgetStates
<1>5. /\ o.list = n.list /\ o.transfer = n.transfer /\ o.file = n.file /\ o.disputed = n.disputed
      /\ o.receivers = [n.receivers EXCEPT ![d] = <<>>] /\ o.job = [n.job EXCEPT ![d] = "none"]
  BY <1>2 DEF KgetStates
<1>6. o \in KgetStates
  <2>1. [n.receivers EXCEPT ![d] = <<>>] \in [Destinations -> Seq(Transfers)] BY <1>2 DEF KgetStates
  <2>2. [n.job EXCEPT ![d] = "none"] \in [Destinations -> {"none", "deletes", "done"}] BY <1>2 DEF KgetStates
  <2>3. o = [n EXCEPT !.job = [n.job EXCEPT ![d] = "none"], !.receivers = [n.receivers EXCEPT ![d] = <<>>]] OBVIOUS
  <2> HIDE DEF o
  <2> QED BY <1>2, <2>1, <2>2, <2>3 DEF KgetStates
<1> HIDE DEF o
<1>7. o.job[d] = "none" /\ \A e \in Destinations \ {d} : o.job[e] = n.job[e] BY <1>2, <1>5 DEF KgetStates
<1>8. Waiting(o, d) = {} /\ \A e \in Destinations \ {d} : Waiting(o, e) = Waiting(n, e)
  BY <1>2, <1>5 DEF KgetStates, Waiting, ToSet
<1>9. Waiting(n, d) = ToSet(q) BY DEF Waiting
<1> HIDE DEF q
<1>10. \A t \in n.list : n.transfer[t].m_dest \in Destinations BY <1>2 DEF KgetTyped, TransferStates
<1>11. KgetTyped(o)
  <2>1. \A e \in Destinations : \A t \in Waiting(n, e) : t \in n.list /\ n.transfer[t].m_dest = e BY <1>2 DEF KgetTyped
  <2>2. \A e \in Destinations : \A t \in Waiting(o, e) :
          t \in n.list /\ n.transfer[t].m_dest = e /\ isFileBeingDeleted(o, e)
    <3>1. ASSUME NEW e \in Destinations, NEW t \in Waiting(o, e) PROVE isFileBeingDeleted(o, e)
      <4>1. e # d /\ t \in Waiting(n, e) BY <1>8, <3>1
      <4>2. isFileBeingDeleted(n, e) BY <1>2, <4>1 DEF KgetTyped
      <4> QED BY <1>7, <4>1, <4>2 DEF isFileBeingDeleted
    <3> QED BY <1>8, <2>1, <3>1
  <2> QED BY <1>2, <1>5, <1>6, <2>2 DEF KgetTyped
<1>12. SharedIsDisputed(o) BY <1>2, <1>5 DEF SharedIsDisputed
<1>13. DeletedIsThere(o) BY <1>2, <1>5, <1>7 DEF DeletedIsThere
<1>14. SparedBut(o, {}) BY <1>2, <1>5, <1>7, <1>10 DEF SparedBut
<1>15. RunningIsStarted(o) BY <1>2, <1>5 DEF RunningIsStarted
<1>16. RememberedBut(o, ToSet(q))
  <2>1. ASSUME NEW t \in n.list \ ToSet(q), n.transfer[t].m_startTried PROVE Excuse(o, t)
    <3>1. Excuse(n, t) BY <1>2, <2>1 DEF RememberedBut
    <3>2. n.transfer[t].m_dest \in Destinations BY <1>10
    <3>3. t \in Waiting(n, n.transfer[t].m_dest) => t \in Waiting(o, n.transfer[t].m_dest)
      BY <1>8, <1>9, <2>1, <3>2
    <3> QED BY <1>5, <3>1, <3>3 DEF Excuse
  <2> QED BY <1>5, <2>1 DEF RememberedBut
<1>17. KgetGood(o, ToSet(q), {}) BY <1>11, <1>12, <1>13, <1>14, <1>15, <1>16
<1>18. ToSet(q) \subseteq o.list BY <1>2, <1>5, <1>9 DEF KgetTyped
<1> HIDE DEF KgetGood
<1>19. KgetGood(kget', {}, {}) /\ kget'.list = o.list BY <1>3, <1>4, <1>17, <1>18, ReceiversAreTold
<1> QED BY <1>1, <1>5, <1>19, ListStays DEF DeleteResult

(* The user removes a transfer, with its file or without. *)
LEMMA RemoveKeeps ==
  ASSUME DestinationInv, NEW t \in Transfers, RemoveTransfer(t)
  PROVE  DestinationInv'
<1>1. PICK n : n = kget OBVIOUS
<1>2. PICK U \in SUBSET {t} : kget' = delTransfers(n, {t}, U) BY <1>1 DEF RemoveTransfer, AutoDelete
<1>3. {t} \in SUBSET n.list /\ KgetGood(n, {}, {}) BY <1>1 DEF RemoveTransfer, DestinationInv
<1>4. KgetGood(delTransfers(n, {t}, U), {}, {}) /\ delTransfers(n, {t}, U).list = n.list \ {t}
  BY <1>3, TransfersAreDeleted
<1> QED BY <1>1, <1>2, <1>4 DEF DestinationInv, RemoveTransfer

(* The dialog of a new transfer is opened. *)
LEMMA CheckKeeps ==
  ASSUME DestinationInv, NEW s \in Sources, NEW d \in Destinations, CheckInput(s, d)
  PROVE  DestinationInv'
<1>1. kget.list \subseteq Transfers BY DEF DestinationInv, KgetGood, KgetTyped, KgetStates
<1>2. ExistingTransfers(kget, s, d) \subseteq Transfers \cup {NoTransfer}
  BY <1>1 DEF ExistingTransfers, findTransfer, findTransferByDestination
<1>3. wouldOverwrite(kget, d) \in BOOLEAN BY DEF wouldOverwrite
<1>4. dialog' \in Dialogs BY <1>2, <1>3 DEF CheckInput, Dialogs
<1> QED BY <1>4 DEF DestinationInv, CheckInput

(* New transfers come after others are gone and files are to be deleted. *)
LEMMA AddKeeps ==
  ASSUME NEW n1, NEW n2, NEW T, T \cap added = {}, DestinationInv, NEW R, R \subseteq kget.list,
         n1 = AutoDelete(kget, R), NEW E, NEW D, E \subseteq Destinations, D \subseteq Destinations,
         D \subseteq n1.file \cup n1.disputed \cup E,
         n2 = deleteFiles([n1 EXCEPT !.disputed = @ \cup E], D),
         NEW source, NEW dest, Requested(T, source, dest, D),
         kget' = createTransfers(n2, T, source, dest), added' = added \cup T,
         dialog' \in {dialog, NoDialog}
  PROVE  DestinationInv'
<1> DEFINE m == [n1 EXCEPT !.disputed = @ \cup E]
<1>1. KgetGood(n1, {}, {}) /\ n1.list = kget.list \ R
  <2>1. PICK n : n = kget OBVIOUS
  <2> DEFINE U == {t \in R : n.transfer[t].m_status # "Finished"}
  <2>2. n1 = delTransfers(n, R, U) BY <2>1 DEF AutoDelete
  <2>3. U \in SUBSET R OBVIOUS
  <2>4. R \in SUBSET n.list /\ KgetGood(n, {}, {}) BY <2>1 DEF DestinationInv
  <2> HIDE DEF U
  <2>5. KgetGood(delTransfers(n, R, U), {}, {}) /\ delTransfers(n, R, U).list = n.list \ R
    BY <2>3, <2>4, TransfersAreDeleted
  <2> QED BY <2>1, <2>2, <2>5
<1>2. n1 \in KgetStates BY <1>1 DEF KgetGood, KgetTyped
<1>3. /\ m.list = n1.list /\ m.transfer = n1.transfer /\ m.file = n1.file /\ m.job = n1.job
      /\ m.receivers = n1.receivers /\ m.disputed = n1.disputed \cup E /\ m \in KgetStates
  BY <1>2 DEF KgetStates
<1> HIDE DEF m
<1>4. KgetGood(m, {}, {})
  <2> USE <1>1, <1>3 DEF KgetGood
  <2>1. KgetTyped(m) BY DEF KgetTyped, Waiting, isFileBeingDeleted
  <2>2. SharedIsDisputed(m) BY DEF SharedIsDisputed
  <2>3. DeletedIsThere(m) BY DEF DeletedIsThere
  <2>4. SparedBut(m, {}) BY DEF SparedBut
  <2>5. RunningIsStarted(m) BY DEF RunningIsStarted
  <2>6. RememberedBut(m, {}) BY DEF RememberedBut, Excuse, Waiting
  <2> QED BY <2>1, <2>2, <2>3, <2>4, <2>5, <2>6
<1>5. n2 = deleteFiles(m, D) /\ D \subseteq m.file \cup m.disputed BY <1>3 DEF m
<1>6. KgetGood(n2, {}, D) /\ n2.list = n1.list BY <1>3, <1>4, <1>5, FilesAreDeleted
<1>7. T \cap n2.list = {} BY <1>1, <1>6 DEF DestinationInv
<1>8. KgetGood(kget', {}, {}) /\ kget'.list = n2.list \cup T
  <2> DEFINE o == createTransfers(n2, T, source, dest)
  <2>1. Requested(T, source, dest, D) OBVIOUS
  <2>2. KgetGood(o, {}, {}) /\ o.list = n2.list \cup T
    BY ONLY <1>6, <1>7, <2>1, TransfersAreCreated
  <2> HIDE DEF o
  <2>3. kget' = o BY DEF o
  <2> QED BY <2>2, <2>3
<1> QED BY <1>1, <1>6, <1>8 DEF DestinationInv, Requested

(* Nothing is deleted, nothing is disputed. *)
LEMMA NoneIsDeleted ==
  ASSUME NEW n, KgetGood(n, {}, {})
  PROVE  n = deleteFiles([n EXCEPT !.disputed = @ \cup {}], {})
<1>1. n \in KgetStates BY DEF KgetGood, KgetTyped
<1>2. [d \in Destinations |-> IF d \in {} /\ n.job[d] = "none" THEN "deletes" ELSE n.job[d]] = n.job
  BY <1>1 DEF KgetStates
<1>3. n.disputed \cup {} = n.disputed OBVIOUS
<1>4. [n EXCEPT !.disputed = @ \cup {}] = n BY <1>1, <1>3 DEF KgetStates
<1>5. deleteFiles(n, {}) = [n EXCEPT !.job = n.job] BY <1>2 DEF deleteFiles
<1> QED BY <1>1, <1>4, <1>5 DEF KgetStates

(* The dialog is accepted, whatever has changed while it was open. *)
LEMMA DialogKeeps ==
  ASSUME DestinationInv, NEW t \in Transfers \ added, DialogAccepted(t)
  PROVE  DestinationInv'
<1> DEFINE R == {dialog.m_existingTransfer} \ {NoTransfer}
           n1 == AutoDelete(kget, R)
           source == [u \in {t} |-> dialog.source]
           dest == [u \in {t} |-> dialog.dest]
           gone == {dialog.dest} \ kget.file
           n2 == IF dialog.m_overWriteSingle
                 THEN deleteFiles([n1 EXCEPT !.disputed = @ \cup gone], {dialog.dest})
                 ELSE n1
<1>1. dialog \in Dialogs BY DEF DialogAccepted, DestinationInv, NoDialog
<1>2. /\ R \subseteq kget.list /\ {t} \cap added = {} /\ dialog.dest \in Destinations
      /\ Requested({t}, source, dest, {dialog.dest}) /\ Requested({t}, source, dest, {})
  BY <1>1 DEF Dialogs, DialogAccepted, Requested
<1>3. /\ kget' = createTransfers(n2, {t}, source, dest) /\ added' = added \cup {t}
      /\ dialog' \in {dialog, NoDialog}
  BY DEF DialogAccepted, createTransfer
<1>4. KgetGood(n1, {}, {}) /\ n1.file = kget.file
  <2>1. PICK n : n = kget OBVIOUS
  <2> DEFINE U == {u \in R : n.transfer[u].m_status # "Finished"}
  <2>2. n1 = delTransfers(n, R, U) BY <2>1 DEF AutoDelete
  <2>3. U \in SUBSET R OBVIOUS
  <2>4. R \in SUBSET n.list /\ KgetGood(n, {}, {}) BY <1>2, <2>1 DEF DestinationInv
  <2> HIDE DEF U, R, n1
  <2>5. KgetGood(delTransfers(n, R, U), {}, {}) /\ delTransfers(n, R, U).file = n.file
    BY <2>3, <2>4, TransfersAreDeleted
  <2> QED BY <2>1, <2>2, <2>5
<1>5. n1 = AutoDelete(kget, R) OBVIOUS
<1> HIDE DEF R, n1, source, dest
<1>6. CASE dialog.m_overWriteSingle
  <2>1. n2 = deleteFiles([n1 EXCEPT !.disputed = @ \cup gone], {dialog.dest}) BY <1>6
  <2>2. /\ gone \subseteq Destinations /\ {dialog.dest} \subseteq Destinations
        /\ {dialog.dest} \subseteq n1.file \cup n1.disputed \cup gone
    BY <1>2, <1>4
  <2> HIDE DEF gone, n2
  <2> QED BY <1>2, <1>3, <1>5, <2>1, <2>2, AddKeeps
<1>7. CASE ~dialog.m_overWriteSingle
  <2>1. n2 = deleteFiles([n1 EXCEPT !.disputed = @ \cup {}], {}) BY <1>4, <1>7, NoneIsDeleted
  <2>2. {} \subseteq Destinations /\ {} \subseteq n1.file \cup n1.disputed \cup {}
    OBVIOUS
  <2> HIDE DEF n2
  <2> QED BY <1>2, <1>3, <1>5, <2>1, <2>2, AddKeeps
<1> QED BY <1>6, <1>7

(* Several transfers are added at a time. *)
LEMMA HandleKeeps ==
  ASSUME DestinationInv, NEW T \in SUBSET (Transfers \ added), NEW source \in [T -> Sources],
         NEW dest \in [T -> Destinations], HandleUrls(T, source, dest)
  PROVE  DestinationInv'
<1> DEFINE R == UNION {findTransfer(kget, source[t]) : t \in T}
           n1 == AutoDelete(kget, R)
           D == {d \in {dest[t] : t \in T} : wouldOverwrite(n1, d)}
           m == [n1 EXCEPT !.disputed = @ \cup {}]
           n2 == deleteFiles(n1, D)
<1>1. kget' = createTransfers(n2, T, source, dest) /\ added' = added \cup T /\ dialog' \in {dialog, NoDialog}
  BY DEF HandleUrls, checkExistingFiles
<1>2. R \subseteq kget.list /\ T \cap added = {} BY DEF findTransfer
<1>3. n1 = AutoDelete(kget, R) OBVIOUS
<1> HIDE DEF R
<1>4. n1 \in KgetStates
  <2>1. PICK n : n = kget OBVIOUS
  <2> DEFINE U == {u \in R : n.transfer[u].m_status # "Finished"}
  <2>2. n1 = delTransfers(n, R, U) BY <2>1 DEF AutoDelete
  <2>3. U \in SUBSET R OBVIOUS
  <2>4. R \in SUBSET n.list /\ KgetGood(n, {}, {}) BY <1>2, <2>1 DEF DestinationInv
  <2> HIDE DEF U, R, n1
  <2>5. KgetGood(delTransfers(n, R, U), {}, {}) BY <2>3, <2>4, TransfersAreDeleted
  <2> QED BY <2>2, <2>5 DEF KgetGood, KgetTyped
<1> HIDE DEF n1
<1>5. D \subseteq Destinations /\ Requested(T, source, dest, D) /\ D \subseteq n1.file \cup n1.disputed \cup {}
  BY DEF wouldOverwrite, Requested
<1>6. m = n1
  <2>1. n1.disputed \cup {} = n1.disputed OBVIOUS
  <2> QED BY <1>4, <2>1 DEF KgetStates
<1>7. n2 = deleteFiles(m, D) BY <1>6
<1>8. {} \subseteq Destinations OBVIOUS
<1> HIDE DEF D, n2
<1> QED BY <1>1, <1>2, <1>3, <1>5, <1>7, <1>8, AddKeeps

(* A transfer is added without a dialog, in the place of another one. *)
LEMMA AddTransferKeeps ==
  ASSUME DestinationInv, NEW t \in Transfers \ added, NEW s \in Sources, NEW d \in Destinations, addTransfer(t, s, d)
  PROVE  DestinationInv'
<1> DEFINE R == findTransfer(kget, s)
           n1 == AutoDelete(kget, R)
           E == {e \in findTransferByDestination(n1, d) : n1.transfer[e].m_status = "Finished"}
           source == [u \in {t} |-> s]
           dest == [u \in {t} |-> d]
<1>1. PICK n2 \in {n1, AutoDelete(n1, E)} : kget' = createTransfers(n2, {t}, source, dest)
  BY DEF addTransfer, createTransfer
<1>2. added' = added \cup {t} /\ UNCHANGED dialog BY DEF addTransfer
<1>3. PICK n : n = kget OBVIOUS
<1>4. R \in SUBSET n.list /\ KgetGood(n, {}, {}) BY <1>3 DEF findTransfer, DestinationInv
<1>5. KgetGood(n1, {}, {}) /\ n1.list \subseteq n.list
  <2> DEFINE U == {u \in R : n.transfer[u].m_status # "Finished"}
  <2>1. n1 = delTransfers(n, R, U) BY <1>3 DEF AutoDelete
  <2>2. U \in SUBSET R OBVIOUS
  <2> HIDE DEF U, R, n1
  <2>3. KgetGood(delTransfers(n, R, U), {}, {}) /\ delTransfers(n, R, U).list = n.list \ R
    BY <1>4, <2>2, TransfersAreDeleted
  <2> QED BY <2>1, <2>3
<1> HIDE DEF n1
<1>6. KgetGood(n2, {}, {}) /\ n2.list \subseteq n.list
  <2>1. E \in SUBSET n1.list BY DEF findTransferByDestination
  <2> DEFINE U == {u \in E : n1.transfer[u].m_status # "Finished"}
  <2>2. AutoDelete(n1, E) = delTransfers(n1, E, U) BY DEF AutoDelete
  <2>3. U \in SUBSET E OBVIOUS
  <2> HIDE DEF U, E
  <2>4. KgetGood(delTransfers(n1, E, U), {}, {}) /\ delTransfers(n1, E, U).list = n1.list \ E
    BY <1>5, <2>1, <2>3, TransfersAreDeleted
  <2> QED BY <1>1, <1>5, <2>2, <2>4
<1>7. {t} \cap n2.list = {} /\ Requested({t}, source, dest, {})
  BY <1>3, <1>6 DEF DestinationInv, Requested
<1> DEFINE o == createTransfers(n2, {t}, source, dest)
<1> HIDE DEF source, dest
<1>8. KgetGood(o, {}, {}) /\ o.list = n2.list \cup {t} BY <1>6, <1>7, TransfersAreCreated
<1>9. kget' = o BY <1>1
<1> HIDE DEF o
<1> QED BY <1>2, <1>3, <1>6, <1>8, <1>9 DEF DestinationInv

(* Each step keeps the invariant. *)
LEMMA DestinationNextKeeps == DestinationInv /\ [DestinationNext]_destinationVars => DestinationInv'
<1> SUFFICES ASSUME DestinationInv, [DestinationNext]_destinationVars PROVE DestinationInv' OBVIOUS
<1>1. CASE UNCHANGED destinationVars BY <1>1 DEF destinationVars, DestinationInv
<1>2. ASSUME NEW t \in Transfers,
             \/ StartTransfer(t) \/ StopTransfer(t) \/ FileOpened(t) \/ OpenFails(t) \/ DownloadFinishes(t)
             \/ RemoveTransfer(t)
      PROVE  DestinationInv'
  BY <1>2, StartKeeps, StopKeeps, OpenKeeps, OpenFailsKeeps, FinishTransferKeeps, RemoveKeeps
<1>3. ASSUME NEW d \in Destinations, Unlinked(d) \/ UnlinkFails(d) \/ DeleteResult(d) PROVE DestinationInv'
  BY <1>3, UnlinkedKeeps, ResultKeeps
<1>4. ASSUME NEW s \in Sources, NEW d \in Destinations, CheckInput(s, d) PROVE DestinationInv'
  BY <1>4, CheckKeeps
<1>5. ASSUME NEW t \in Transfers \ added, DialogAccepted(t) PROVE DestinationInv'
  BY <1>5, DialogKeeps
<1>6. ASSUME NEW T \in kSubset(1, Transfers \ added) \cup kSubset(2, Transfers \ added),
             NEW source \in [T -> Sources], NEW dest \in [T -> Destinations], HandleUrls(T, source, dest)
      PROVE  DestinationInv'
  <2>1. T \in SUBSET (Transfers \ added) BY <1>6 DEF kSubset
  <2> QED BY <1>6, <2>1, HandleKeeps
<1>7. ASSUME NEW t \in Transfers \ added, NEW s \in Sources, NEW d \in Destinations, addTransfer(t, s, d)
      PROVE  DestinationInv'
  BY <1>7, AddTransferKeeps
<1>8. CASE DownloadStep BY <1>2, <1>3, <1>8 DEF DownloadStep
<1>9. CASE UserStep BY <1>2, <1>4, <1>5, <1>6, <1>7, <1>9 DEF UserStep
<1> QED BY <1>1, <1>8, <1>9 DEF DestinationNext

(* Where a file is deleted, who waits for it is in the list and will be    *)
(* told; two transfers of one file are disputed; and what both properties  *)
(* say holds, for all sets of transfers, sources and files (FileDeleter,   *)
(* DataSourceFactory::start).                                              *)
THEOREM DestinationInvariant == DestinationSpec => []DestinationInv
BY DestinationStarts, DestinationNextKeeps, PTL DEF DestinationSpec

(* A file that is being written is not being deleted, but where two        *)
(* transfers got the same name or the dialog was late                      *)
(* (DataSourceFactory::start waits for FileDeleter).                       *)
THEOREM DeletionSparesDownloadAlways == DestinationSpec => []DeletionSparesDownload
<1>1. DestinationInv => DeletionSparesDownload
  BY DEF DestinationInv, KgetGood, SparedBut, DeletionSparesDownload
<1> QED BY <1>1, DestinationInvariant, PTL

(* A start that could not go on is waited for by what calls start() again, *)
(* or it has failed (m_startTried, slotRemovedFile, slotOpen).             *)
THEOREM StartIsRememberedAlways == DestinationSpec => []StartIsRemembered
<1>1. DestinationInv => StartIsRemembered
  BY DEF DestinationInv, KgetGood, KgetTyped, KgetStates, TransferStates, RememberedBut, Excuse, Waiting,
         StartIsRemembered
<1> QED BY <1>1, DestinationInvariant, PTL
=============================================================================
