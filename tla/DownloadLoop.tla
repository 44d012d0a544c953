---------------------------- MODULE DownloadLoop ----------------------------
(***************************************************************************)
(* A download under an event loop that is fair: as long as there is an     *)
(* answer, a timer or a stalled download to handle, one is handled.  The   *)
(* variable event tells the steps of the loop from those of the user and   *)
(* the network, so that fairness can be stated of it.                      *)
(***************************************************************************)
EXTENDS Download

VARIABLE event      \* the last step: "user", or "tick" and "tock" in turn

loopVars == <<factory, source, disk, event>>
Turn == IF event = "tick" THEN "tock" ELSE "tick"

(* Whether Progress has something to do *)
HasWork ==
    \/ factory.file = "opening" \/ Blocked(Now) \/ Stalled
    \/ \E c \in Connections :
           Waiting(c) \/ (Active(c) /\ Seg(Now, c[1], c[2]).pos < FileSize)

LoopInit == Init /\ event = "user"
LoopNext ==
    \/ Progress /\ event' = Turn
    \/ Commands /\ event' = "user"
    \/ /\ \E c \in Connections : JobFails(c[1], c[2]) \/ JobEnds(c[1], c[2])
       /\ event' = "user"

(* The user and the servers leave the download alone in the end; nothing
   is assumed of the order in which the loop handles what there is. *)
FairSpec == /\ LoopInit /\ [][LoopNext]_loopVars
            /\ WF_event(HasWork /\ event' = Turn)
            /\ <>[](event # "user")

(* A download that runs is completed in the end, whatever connections failed and
   whatever mirrors were changed before, unless the user stops it. *)
CompletesInTheEnd ==
    factory.status = "Running" ~> factory.status \in {"Finished", "Stopped"}
=============================================================================
