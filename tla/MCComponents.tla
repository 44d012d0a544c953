---------------------------- MODULE MCComponents ----------------------------
(* Components that work by themselves, each in a small instance: the search
   for keys, an MMS download, a Metalink, a destination, and the download engine
   under its event loop.  A run is about one of them, chosen in the beginning;
   the others rest in one of their initial states. *)
EXTENDS KeyDownload, MmsDownload, Metalink, Destination

CONSTANTS t1, t2, s1, s2, k1, f1, f2, d1, x, y

OneKey == [s \in {s1, s2} |-> k1]
TwoServers == <<x, y>>
TwoFiles == <<f1, f2>>

VARIABLE part

VARIABLES factory, source, disk, event
downloadVars == <<factory, source, disk, event>>
D == INSTANCE DownloadLoop WITH
        MirrorOrder <- <<x, y>>, FileSize <- 5, ChunkSize <- 2, SaveSize <- 1,
        MaxTries <- 2, MaxConnections <- 2, Resuming <- {x}, PieceSize <- 2,
        StopsWithData <- FALSE

-----------------------------------------------------------------------------
Components == {"keys", "mms", "metalink", "destination", "download"}

(* One of the initial states of each is enough while it rests. *)
MCInit ==
    /\ part \in Components
    /\ Init /\ MmsInit /\ MetalinkInit /\ DestinationInit /\ D!LoopInit
    /\ part # "metalink" => ~metalink.stored
    /\ part # "destination" => kget.file = {}
    /\ part # "download" => ~factory.sized

Works(p) ==
    /\ part = p
    /\ UNCHANGED part
    /\ IF p = "keys" THEN TRUE ELSE UNCHANGED vars
    /\ IF p = "mms" THEN TRUE ELSE UNCHANGED mmsVars
    /\ IF p = "metalink" THEN TRUE ELSE UNCHANGED metalinkVars
    /\ IF p = "destination" THEN TRUE ELSE UNCHANGED destinationVars
    /\ IF p = "download" THEN TRUE ELSE UNCHANGED downloadVars

MCNext ==
    \/ Works("keys") /\ Next
    \/ Works("mms") /\ MmsNext
    \/ Works("metalink") /\ MetalinkNext
    \/ Works("destination") /\ DestinationNext
    \/ Works("download") /\ D!LoopNext

allVars == <<part, vars, mmsVars, metalinkVars, destinationVars, downloadVars>>

(* The fairness each component states, while it is the one that works. *)
MCFairness ==
    /\ WF_allVars(Works("mms") /\ Run)
    /\ WF_allVars(Works("mms") /\ ThreadStep)
    /\ WF_allVars(Works("mms") /\ Slot)
    /\ WF_allVars(Works("metalink") /\ Scheduler)
    /\ \A f \in {f1, f2} :
        /\ WF_allVars(Works("metalink") /\ FactoryOpened(f))
        /\ WF_allVars(Works("metalink") /\ FactoryFinishes(f))
    /\ WF_event(part = "download" /\ D!HasWork /\ event' = D!Turn)
    /\ <>[](part = "download" => event # "user")

MCSpec == MCInit /\ [][MCNext]_allVars /\ MCFairness

-----------------------------------------------------------------------------
CompletesInTheEnd == D!CompletesInTheEnd
=============================================================================
