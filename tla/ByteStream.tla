------------------------------ MODULE ByteStream ------------------------------
(***************************************************************************)
(* What a serial direction promises: the bytes put in come out, in the     *)
(* order they were put in, none lost, none twice, and each one eventually. *)
(***************************************************************************)
EXTENDS Sequences

CONSTANT Char

VARIABLES
    pipe,   \* bytes put in that have not come out
    out     \* bytes that have come out

vars == <<pipe, out>>

Init == pipe = <<>> /\ out = <<>>

Put(c) == pipe' = Append(pipe, c) /\ UNCHANGED out

Get ==
    /\ pipe # <<>>
    /\ out' = Append(out, Head(pipe))
    /\ pipe' = Tail(pipe)

Next == Get \/ \E c \in Char : Put(c)

Spec == Init /\ [][Next]_vars

FairSpec == Spec /\ WF_vars(Get)
==============================================================================
