---------------------------- MODULE KeyDownload ----------------------------
(***************************************************************************)
(* Signatures of downloaded files and the keys they need: Signature and    *)
(* its thread (core/signature.cpp, core/signaturethread.cpp), and the one  *)
(* KeyDownloader all signatures share (core/keydownloader.cpp), which asks *)
(* one key server after the other and tells every signature that waits.    *)
(***************************************************************************)
EXTENDS Naturals, Sequences, FiniteSets

CONSTANTS
    Signatures,
    Fingerprint,    \* [Signatures -> the keys], the key that made a signature
    ServerOrder,    \* Settings::signatureKeyServers, not empty
    MaxVerify       \* bound: verifications of a signature under way at once

Keys == {Fingerprint[s] : s \in Signatures}

ASSUME KeysAssumption ==
    /\ Fingerprint \in [Signatures -> Keys]
    /\ DOMAIN ServerOrder = 1..Len(ServerOrder) /\ Len(ServerOrder) \in Nat \ {0}
    /\ MaxVerify \in Nat

VARIABLES
    asked,          \* SignatureThread::m_dest: how many verifications wait
    results,        \* what the thread has posted: was the key there?
    status,         \* Signature::status()
    verifyTried,    \* a verification is to be repeated with the key
    m_downloading,  \* who waits for which key
    m_triedMirrors, \* the servers that were asked for a key
    jobs,           \* per key, the number of jobs that have not ended
    keyring,        \* the keys imported, outside of the program
    givenUp         \* history: keys whose last job brought nothing and has no successor

vars == <<asked, results, status, verifyTried, m_downloading, m_triedMirrors, jobs, keyring, givenUp>>

Init ==
    /\ asked = [s \in Signatures |-> 0]
    /\ results = [s \in Signatures |-> <<>>]
    /\ status = [s \in Signatures |-> "NoResult"]
    /\ verifyTried = [s \in Signatures |-> FALSE]
    /\ m_downloading = [k \in Keys |-> {}]
    /\ m_triedMirrors = [k \in Keys |-> {}]
    /\ jobs = [k \in Keys |-> 0]
    /\ keyring = {}
    /\ givenUp = {}

-----------------------------------------------------------------------------
(* Asking a server *)

(* The first of the servers that were not tried for the key. *)
NextServer(k) ==
    {ServerOrder[i] : i \in {n \in DOMAIN ServerOrder :
        /\ ServerOrder[n] \notin m_triedMirrors[k]
        /\ \A j \in 1..(n - 1) : ServerOrder[j] \in m_triedMirrors[k]}}

(* A job for the key, with the server it asks, if there is one. *)
ask(k, server, others) ==
    /\ jobs' = [jobs EXCEPT ![k] = others + Cardinality(server)]
    /\ m_triedMirrors' = [m_triedMirrors EXCEPT ![k] = @ \cup server]
    /\ givenUp' = IF server = {} THEN givenUp \cup {k} ELSE givenUp \ {k}

(* Mutant: every signature asks for itself. *)
IsAskedNever(k) == FALSE

IsAsked(k) == m_downloading[k] # {}

(* KeyDownloader::downloadKey for a signature: it joins those that wait,   *)
(* or is the first, and then a server is asked if there is one.            *)
downloadKey(s) ==
    LET k == Fingerprint[s]
    IN  IF IsAsked(k)
        THEN /\ m_downloading' = [m_downloading EXCEPT ![k] = @ \cup {s}]
             /\ UNCHANGED <<jobs, m_triedMirrors, givenUp>>
        ELSE /\ m_downloading' = [m_downloading EXCEPT ![k] = @ \cup {s}]
             /\ ask(k, {ServerOrder[1]}, jobs[k])

-----------------------------------------------------------------------------
(* Signatures *)

(* Signature::verify: the thread gets a request. *)
Verify(s) ==
    /\ asked[s] + Len(results[s]) < MaxVerify
    /\ asked' = [asked EXCEPT ![s] = @ + 1]
    /\ UNCHANGED <<results, status, verifyTried, m_downloading, m_triedMirrors, jobs, keyring, givenUp>>

(* SignatureThread::run: one verification, with the keys that are there. *)
Verified(s) ==
    /\ asked[s] > 0
    /\ asked' = [asked EXCEPT ![s] = @ - 1]
    /\ results' = [results EXCEPT ![s] = Append(@, Fingerprint[s] \in keyring)]
    /\ UNCHANGED <<status, verifyTried, m_downloading, m_triedMirrors, jobs, keyring, givenUp>>

(* Signature::slotVerified with the key, ... *)
ResultArrives(s) ==
    /\ results[s] # <<>> /\ Head(results[s])
    /\ results' = [results EXCEPT ![s] = Tail(@)]
    /\ status' = [status EXCEPT ![s] = "Verified"]
    /\ UNCHANGED <<asked, verifyTried, m_downloading, m_triedMirrors, jobs, keyring, givenUp>>

(* ... and without it: by its settings or the user's answer the key is     *)
(* downloaded, or not.                                                     *)
KeyIsMissing(s) ==
    /\ results[s] # <<>> /\ ~Head(results[s])
    /\ results' = [results EXCEPT ![s] = Tail(@)]
    /\ status' = [status EXCEPT ![s] = "NotWorked"]
    /\ \/ /\ verifyTried' = [verifyTried EXCEPT ![s] = TRUE]
          /\ downloadKey(s)
       \/ UNCHANGED <<verifyTried, m_downloading, m_triedMirrors, jobs, givenUp>>
    /\ UNCHANGED <<asked, keyring>>

-----------------------------------------------------------------------------
(* KeyDownloader::slotDownloaded *)

(* A server has no key or does not answer: the next one is asked. When     *)
(* there is none, those that wait go on waiting.                           *)
ServerFails(k) ==
    /\ jobs[k] > 0
    /\ ask(k, NextServer(k), jobs[k] - 1)
    /\ UNCHANGED <<asked, results, status, verifyTried, m_downloading, keyring>>

(* The key cannot be imported: nobody is told, no other server is asked. *)
ImportFails(k) ==
    /\ jobs[k] > 0
    /\ ask(k, {}, jobs[k] - 1)
    /\ UNCHANGED <<asked, results, status, verifyTried, m_downloading, keyring>>

(* Mutant: only one of those that wait is told. *)
ToldOne(k) == IF m_downloading[k] = {} THEN {} ELSE {CHOOSE s \in m_downloading[k] : TRUE}

(* SignaturePrivate::signatureDownloaded verifies again what was tried. *)
Told(k) == {s \in m_downloading[k] : verifyTried[s]}

KeyArrives(k) ==
    /\ jobs[k] > 0
    /\ jobs' = [jobs EXCEPT ![k] = @ - 1]
    /\ keyring' = keyring \cup {k}
    /\ asked' = [s \in Signatures |-> IF s \in Told(k) THEN asked[s] + 1 ELSE asked[s]]
    /\ m_downloading' = [m_downloading EXCEPT ![k] = {}]
    /\ UNCHANGED <<results, status, verifyTried, m_triedMirrors, givenUp>>

Next ==
    \/ \E s \in Signatures : Verify(s) \/ Verified(s) \/ ResultArrives(s) \/ KeyIsMissing(s)
    \/ \E k \in Keys : ServerFails(k) \/ ImportFails(k) \/ KeyArrives(k)

Spec == Init /\ [][Next]_vars

-----------------------------------------------------------------------------
(* Properties *)

(* However many signatures want a key, and whatever servers fail, one      *)
(* server is asked for it at a time (keydownloader.cpp:61-64).             *)
OneJobPerKey == \A k \in Keys : jobs[k] <= 1

(* A signature that was tried and had no key is verified again, or waits   *)
(* for a key that is being downloaded, unless no server had it: no order   *)
(* of answers makes the downloader forget one of those that wait.          *)
NobodyIsForgotten ==
    \A s \in Signatures : LET k == Fingerprint[s] IN
        status[s] = "NotWorked" /\ verifyTried[s] /\ asked[s] = 0 /\ results[s] = <<>>
        => s \in m_downloading[k] /\ (jobs[k] = 1 \/ k \in givenUp)
=============================================================================
