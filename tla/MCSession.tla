------------------------------ MODULE MCSession ------------------------------
(* What survives the end of the program: the list of transfers with its
   observers, and the chunks of one download.  A run is about one of the two,
   chosen in the beginning; the other one rests. *)
EXTENDS Session, DownloadRestart

CONSTANTS x, y
TwoMirrors == <<x, y>>

VARIABLE part
Parts == {"list", "download"}

MCInit == part \in Parts /\ SessionInit /\ RestartInit

MCNext ==
    /\ UNCHANGED part
    /\ \/ part = "list" /\ SessionNext /\ UNCHANGED restartVars
       \/ part = "download" /\ RestartNext /\ UNCHANGED sessionVars

MCSpec == MCInit /\ [][MCNext]_<<part, sessionVars, restartVars>>
=============================================================================
