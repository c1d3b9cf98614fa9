---------------------------- MODULE RingBufferApi ----------------------------
(***************************************************************************)
(* The ring buffer under a caller that runs alone: every function of       *)
(* ringbuffer.h as one action, in any order.  It implements the bounded    *)
(* forgetful queue of module OverwriteQueue.                               *)
(***************************************************************************)
EXTENDS RingBuffer

CONSTANT MaxLen     \* longest array given to the _arr functions

ASSUME MaxLenAssumption == MaxLen \in Nat \ {0}

VARIABLES
    ring,   \* the ring_buffer_t
    out     \* the bytes the last call stored through its data pointer

vars == <<ring, out>>

Init == ring = ring_buffer_init /\ out = <<>>

(* "This function can also be used to empty/reset the buffer": the indexes *)
(* return to zero and the cells keep what they held.                       *)
Reset ==
    /\ ring' = [ring EXCEPT !.tail_index = 0, !.head_index = 0]
    /\ UNCHANGED out

(* The loops of the _arr functions: the ring after n of their iterations.  *)
ring_buffer_queue_arr(r, data) ==
    LET after[n \in 0..Len(data)] ==
            IF n = 0 THEN r ELSE ring_buffer_queue(after[n - 1], data[n])
    IN  after[Len(data)]

QueueArr(data) == ring' = ring_buffer_queue_arr(ring, data) /\ UNCHANGED out

Queue(c) == ring' = ring_buffer_queue(ring, c) /\ UNCHANGED out

Dequeue ==
    LET d == ring_buffer_dequeue(ring)
    IN  ring' = d.ring /\ out' = d.data

(* Each iteration takes a byte while the ring has one.                     *)
ring_buffer_dequeue_arr(r, len) ==
    LET after[n \in 0..len] ==
            IF n = 0
            THEN [ring |-> r, data |-> <<>>]
            ELSE LET before == after[n - 1]
                     d == ring_buffer_dequeue(before.ring)
                 IN  [ring |-> d.ring, data |-> before.data \o d.data]
    IN  after[len]

DequeueArr(len) ==
    LET d == ring_buffer_dequeue_arr(ring, len)
    IN  ring' = d.ring /\ out' = d.data

Peek(index) == out' = ring_buffer_peek(ring, index) /\ UNCHANGED ring

Next ==
    \/ Reset
    \/ \E c \in Char : Queue(c)
    \/ \E n \in 0..MaxLen : \E data \in [1..n -> Char] : QueueArr(data)
    \/ Dequeue
    \/ \E n \in 0..MaxLen : DequeueArr(n)
    \/ \E i \in Index : Peek(i)

Spec == Init /\ [][Next]_vars

------------------------------------------------------------------------------
Abstract == INSTANCE OverwriteQueue
                WITH queue <- Contents(ring), Capacity <- Size - 1

(* Every call of the ring buffer, from every state calls can reach and     *)
(* whatever the indexes have wrapped to, does to the bytes held what the   *)
(* bounded forgetful queue does, and returns what that queue returns: the  *)
(* oldest bytes first, the oldest forgotten when there is no room, nothing *)
(* from an empty ring.  (ringbuffer.c, all functions.)                     *)
ImplementsOverwriteQueue == Abstract!Spec
==============================================================================
