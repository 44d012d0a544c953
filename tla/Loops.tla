-------------------------------- MODULE Loops --------------------------------
(***************************************************************************)
(* The loops of the code, as recursive functions of the number of          *)
(* iterations, about which Recursion states facts.                         *)
(***************************************************************************)
EXTENDS Integers, Sequences

(* A loop that calls Op for one element after the other. *)
ForEach(Op(_, _), s, list) ==
    LET after[n \in 0 .. Len(list)] ==
            IF n = 0 THEN s ELSE Op(after[n - 1], list[n])
    IN  after[Len(list)]

(* A loop that makes the same call N times. *)
Repeat(Op(_), s, N) ==
    LET after[n \in 0 .. N] == IF n = 0 THEN s ELSE Op(after[n - 1])
    IN  after[N]

(* Those elements of a list that are in S, in their order *)
Among(list, S) ==
    LET kept[n \in 0 .. Len(list)] ==
            IF n = 0 THEN <<>>
            ELSE IF list[n] \in S THEN Append(kept[n - 1], list[n]) ELSE kept[n - 1]
    IN  kept[Len(list)]
=============================================================================
