---------------------------- MODULE OverwriteQueue ----------------------------
(***************************************************************************)
(* What ringbuffer.h promises a sequential caller: a bounded queue that    *)
(* makes room for a new byte by forgetting the oldest one, and that hands  *)
(* its bytes out oldest first.                                             *)
(***************************************************************************)
EXTENDS Integers, Sequences

CONSTANTS
    Capacity,   \* bytes the queue can hold
    Char,       \* the bytes
    MaxLen      \* longest array one call is given

VARIABLES
    queue,      \* the bytes held, oldest first
    out         \* what the last call returned

vars == <<queue, out>>

Newest(s) == IF Len(s) > Capacity THEN SubSeq(s, Len(s) - Capacity + 1, Len(s)) ELSE s

Init == queue = <<>> /\ out = <<>>

Reset == queue' = <<>> /\ UNCHANGED out

Put(s) == queue' = Newest(queue \o s) /\ UNCHANGED out

Take(n) ==
    LET k == IF n < Len(queue) THEN n ELSE Len(queue)
    IN  /\ out' = SubSeq(queue, 1, k)
        /\ queue' = SubSeq(queue, k + 1, Len(queue))

Peek(i) ==
    /\ out' = IF i < Len(queue) THEN <<queue[i + 1]>> ELSE <<>>
    /\ UNCHANGED queue

Next ==
    \/ Reset
    \/ \E n \in 0..MaxLen : \E s \in [1..n -> Char] : Put(s)
    \/ \E n \in 0..MaxLen : Take(n)
    \/ \E i \in 0..Capacity : Peek(i)

Spec == Init /\ [][Next]_vars
==============================================================================
