---------------------------- MODULE MCScheduler ----------------------------
(* Instances of Scheduler: which plugin each transfer has, how many groups. *)
EXTENDS Scheduler, TLC

CONSTANTS a, b, c, q1, q2

KioOnly == [j \in Jobs |-> "kio"]
MultiOnly == [j \in Jobs |-> "multiseg"]
BtOnly == [j \in Jobs |-> "bt"]
BtAndMulti == (a :> "bt") @@ (b :> "multiseg")

OneQueue == <<q1>>
TwoQueues == <<q1, q2>>

(* Transfers of one plugin behave alike: only the order of the lists tells them
   apart, and it is a part of the state. *)
JobSymmetry == Permutations(Jobs)

(* The failure timer never fires: for larger instances of everything else. *)
UntimedSpec == Init /\ [][Events]_vars

(* As well without the network, whose loss stops what suspension leaves alone. *)
PluginSpec ==
    Init /\ [][UserActs \/ MultiActs \/ BtActs
               \/ \E j \in Jobs, obstacle \in Obstacles : ObstacleChanges(j, obstacle)]_vars
=============================================================================
