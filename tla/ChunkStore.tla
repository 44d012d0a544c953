----------------------------- MODULE ChunkStore -----------------------------
(***************************************************************************)
(* What a download of one file promises, whatever its connections do: a    *)
(* chunk is fetched for one mirror at a time, a finished chunk stays       *)
(* finished until the whole file is, good data is never overwritten by bad *)
(* data, and the file is complete only when all of it is good.             *)
(***************************************************************************)
CONSTANTS Chunks, Mirrors

VARIABLES
    owner,      \* the mirror a chunk is fetched from, "nobody" or "done"
    stored,     \* the chunks whose data are on the disk
    complete    \* the file is handed to the user

storeVars == <<owner, stored, complete>>

Init == /\ owner = [c \in Chunks |-> "nobody"]
        /\ stored = {}
        /\ complete = FALSE

(* Chunks are given to mirrors, taken from them, and handed on. *)
Assign ==
    /\ owner' \in [Chunks -> Mirrors \cup {"nobody", "done"}]
    /\ \A c \in Chunks : (owner'[c] = "done") = (owner[c] = "done")
    /\ stored \subseteq stored'

(* A mirror finishes chunks it was given; what others own may be given anew. *)
Finish(m) ==
    /\ owner' \in [Chunks -> Mirrors \cup {"nobody", "done"}]
    /\ \A c \in Chunks : IF owner[c] = "done" THEN owner'[c] = "done"
                         ELSE owner'[c] = "done" => owner[c] = m
    /\ stored \subseteq stored'

Work == ~complete /\ ~complete' /\ (Assign \/ \E m \in Mirrors : Finish(m))

Complete ==
    /\ \A c \in Chunks : owner[c] = "done"
    /\ ~complete /\ complete'
    /\ stored' = Chunks
    /\ owner' = owner

(* A complete file that was damaged is opened again, its bad chunks at least. *)
Reopen ==
    /\ complete /\ ~complete'
    /\ owner' \in [Chunks -> Mirrors \cup {"nobody", "done"}]
    /\ stored' \subseteq stored
    /\ \A c \in Chunks : owner'[c] = "done" => c \in stored'

Next == Work \/ Complete \/ Reopen
Spec == Init /\ [][Next]_storeVars
=============================================================================
