------------------------------ MODULE RingBuffer ------------------------------
(***************************************************************************)
(* driver/utility/ringbuf/ringbuffer.[ch]: a byte ring of a power-of-two   *)
(* size, one cell of which always stays free.  The operations are pure     *)
(* operators on a ring_buffer_t record.  The modules that interleave an    *)
(* interrupt with an operation use the pieces an operation is made of      *)
(* (drop_oldest, put_cell, advance_head, oldest_byte, advance_tail); the   *)
(* others use the whole operation.                                         *)
(*                                                                         *)
(* The gate (GateHwi) makes each index update one step.  A mask of the     *)
(* power of two Size is % Size.                                            *)
(***************************************************************************)
EXTENDS Integers, Sequences

CONSTANTS
    Size,   \* number of cells, the size argument of ring_buffer_init
    Char,   \* the values a cell can hold
    Zero    \* the value the static arrays start from

ASSUME SizeAssumption == Size \in Nat /\ Size > 1
ASSUME PowerOfTwo == \E k \in 1..15 : Size = 2^k
ASSUME ZeroAssumption == Zero \in Char

Index == 0..(Size - 1)

ring_buffer_t ==
    [pBuffer : [Index -> Char], tail_index : Index, head_index : Index]

ring_buffer_init ==
    [pBuffer |-> [i \in Index |-> Zero], tail_index |-> 0, head_index |-> 0]

next_index(i) == (i + 1) % Size

ring_buffer_is_empty(r) == r.head_index = r.tail_index

ring_buffer_num_items(r) == (r.head_index - r.tail_index) % Size

ring_buffer_is_full(r) == (r.head_index - r.tail_index) % Size = Size - 1

------------------------------------------------------------------------------
(* The pieces of ring_buffer_queue and ring_buffer_dequeue.                *)

advance_tail(r) == [r EXCEPT !.tail_index = next_index(r.tail_index)]

advance_head(r) == [r EXCEPT !.head_index = next_index(r.head_index)]

(* Mutant: full only when every cell is used, which never happens. *)
drop_oldest_late(r) ==
    IF ring_buffer_num_items(r) = Size THEN advance_tail(r) ELSE r

drop_oldest(r) == IF ring_buffer_is_full(r) THEN advance_tail(r) ELSE r

put_cell(r, c) == [r EXCEPT !.pBuffer[r.head_index] = c]

oldest_byte(r) == r.pBuffer[r.tail_index]

(* The operations. Those that can fail return the ring and what *data gets.*)

(* Mutant: a full ring refuses the new byte instead of losing its oldest.  *)
ring_buffer_queue_refuses(r, c) ==
    IF ring_buffer_is_full(r) THEN r ELSE advance_head(put_cell(r, c))

ring_buffer_queue(r, c) == advance_head(put_cell(drop_oldest(r), c))

ring_buffer_dequeue(r) ==
    IF ring_buffer_is_empty(r)
    THEN [ring |-> r, data |-> <<>>]
    ELSE [ring |-> advance_tail(r), data |-> <<oldest_byte(r)>>]

ring_buffer_peek(r, index) ==
    IF index >= ring_buffer_num_items(r)
    THEN <<>>
    ELSE <<r.pBuffer[(r.tail_index + index) % Size]>>

------------------------------------------------------------------------------
(* The k-th byte, from 0, a reader will get; and all of them in order.     *)
cell(r, k) == r.pBuffer[(r.tail_index + k) % Size]

Contents(r) == [k \in 1..ring_buffer_num_items(r) |-> cell(r, k - 1)]
==============================================================================
