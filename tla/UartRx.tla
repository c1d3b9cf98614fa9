-------------------------------- MODULE UartRx --------------------------------
(***************************************************************************)
(* The receive direction of driver/uart/uart.c: the SCI receive FIFO,      *)
(* uart_rx_hwi_handler that moves it into ringBuf_rx, and the one task     *)
(* that calls UART_receive (the console task, which also runs the YMODEM   *)
(* receiver).  The interrupt can start between any two steps of the task,  *)
(* and the task makes no step while it runs; bytes arrive at any time.     *)
(*                                                                         *)
(* ring_buffer_dequeue is the three steps the machine makes of it: load    *)
(* tail_index, load the cell it names, advance tail_index (under the       *)
(* gate).  The tests for an empty ring are single steps.                   *)
(*                                                                         *)
(* The bytes are numbered in the order they arrive.                        *)
(***************************************************************************)
EXTENDS RingBuffer

CONSTANTS
    FifoDepth,  \* the SCI receive FIFO holds 16
    MaxBytes,   \* bytes the line delivers: the bound of the model
    Counts,     \* the count arguments of UART_receive
    Window      \* most bytes the sender lets be unread at a time

ASSUME CharIsNumbered == Char = 0..MaxBytes /\ Zero = 0
ASSUME FifoDepthAssumption == FifoDepth \in Nat /\ FifoDepth > 0
ASSUME MaxBytesAssumption == MaxBytes \in Nat
ASSUME CountsAssumption == Counts \subseteq Nat \ {0}
ASSUME WindowAssumption == Window \in Nat

VARIABLES
    ring,       \* ringBuf_rx
    rxFifo,     \* the SCI receive FIFO, oldest first
    inIsr,      \* uart_rx_hwi_handler is running
    rxLeft,     \* rxCount - i of the handler
    pc,         \* where the task is in UART_receive
    count, i,   \* its argument and its loop counter
    idx, data,  \* the tail index and the byte ring_buffer_dequeue has loaded
    arrived,    \* bytes that have arrived so far
    got,        \* bytes UART_receive has handed to its callers
    overrun,    \* bytes the SCI FIFO lost
    overwritten,\* bytes ring_buffer_queue overwrote
    raced       \* an overwrite hit a dequeue between its loads and its advance

task == <<pc, count, i, idx, data>>
isr == <<inIsr, rxLeft>>
history == <<got, overrun, overwritten, raced>>
vars == <<ring, rxFifo, isr, task, arrived, history>>

Init ==
    /\ ring = ring_buffer_init
    /\ rxFifo = <<>>
    /\ inIsr = FALSE /\ rxLeft = 0
    /\ pc = "idle" /\ count = 0 /\ i = 0 /\ idx = 0 /\ data = Zero
    /\ arrived = 0
    /\ got = <<>> /\ overrun = {} /\ overwritten = {} /\ raced = FALSE

------------------------------------------------------------------------------
(* The line. A full SCI FIFO loses its first byte to a new one.            *)
Arrive ==
    /\ arrived < MaxBytes
    /\ arrived - Len(got) < Window
    /\ arrived' = arrived + 1
    /\ IF Len(rxFifo) < FifoDepth
       THEN rxFifo' = Append(rxFifo, arrived + 1) /\ UNCHANGED overrun
       ELSE /\ rxFifo' = Append(Tail(rxFifo), arrived + 1)
            /\ overrun' = overrun \cup {Head(rxFifo)}
    /\ UNCHANGED <<ring, isr, task, got, overwritten, raced>>

(* Mutant: the receive interrupt level set to two bytes. *)
rx_hwi_enter_level2 ==
    /\ ~inIsr
    /\ Len(rxFifo) >= 2
    /\ inIsr' = TRUE
    /\ rxLeft' = Len(rxFifo)
    /\ UNCHANGED <<ring, rxFifo, task, arrived, history>>

(* uart_rx_hwi_handler. The receive interrupt is level one: one byte in    *)
(* the FIFO raises it. rxCount is read once, at entry.                     *)
rx_hwi_enter ==
    /\ ~inIsr
    /\ Len(rxFifo) >= 1
    /\ inIsr' = TRUE
    /\ rxLeft' = Len(rxFifo)
    /\ UNCHANGED <<ring, rxFifo, task, arrived, history>>

rx_hwi_byte ==
    /\ inIsr /\ rxLeft > 0
    /\ ring' = ring_buffer_queue(ring, Head(rxFifo))
    /\ rxFifo' = Tail(rxFifo)
    /\ rxLeft' = rxLeft - 1
    /\ IF ring_buffer_is_full(ring)
       THEN /\ overwritten' = overwritten \cup {oldest_byte(ring)}
            /\ raced' = (raced \/ pc \in {"read", "advance"})
       ELSE UNCHANGED <<overwritten, raced>>
    /\ UNCHANGED <<inIsr, task, arrived, got, overrun>>

(* Mutant: the FIFO is reset where its interrupt flag should be cleared. *)
rx_hwi_exit_resets ==
    /\ inIsr /\ rxLeft = 0
    /\ inIsr' = FALSE
    /\ rxFifo' = <<>>
    /\ UNCHANGED <<ring, rxLeft, task, arrived, history>>

rx_hwi_exit ==
    /\ inIsr /\ rxLeft = 0
    /\ inIsr' = FALSE
    /\ UNCHANGED <<ring, rxFifo, rxLeft, task, arrived, history>>

uart_rx_hwi_handler == rx_hwi_enter \/ rx_hwi_byte \/ rx_hwi_exit

------------------------------------------------------------------------------
(* UART_receive. A call on an empty ring returns 0 and changes nothing: it *)
(* is a stuttering step.                                                   *)
UART_receive(n) ==
    /\ ~inIsr
    /\ pc = "idle"
    /\ ~ring_buffer_is_empty(ring)
    /\ pc' = "loop" /\ count' = n /\ i' = 0
    /\ UNCHANGED <<ring, rxFifo, isr, idx, data, arrived, history>>

receive_loop ==
    /\ ~inIsr
    /\ pc = "loop"
    /\ pc' = IF i < count /\ ~ring_buffer_is_empty(ring) THEN "index" ELSE "idle"
    /\ UNCHANGED <<ring, rxFifo, isr, count, i, idx, data, arrived, history>>

(* ring_buffer_dequeue: its own test, and the load of tail_index. The      *)
(* caller ignores the 0 of an empty ring and counts a byte all the same.   *)
dequeue_index ==
    /\ ~inIsr
    /\ pc = "index"
    /\ IF ring_buffer_is_empty(ring)
       THEN pc' = "loop" /\ i' = i + 1 /\ UNCHANGED idx
       ELSE pc' = "read" /\ idx' = ring.tail_index /\ UNCHANGED i
    /\ UNCHANGED <<ring, rxFifo, isr, count, data, arrived, history>>

dequeue_read ==
    /\ ~inIsr
    /\ pc = "read"
    /\ pc' = "advance"
    /\ data' = ring.pBuffer[idx]
    /\ UNCHANGED <<ring, rxFifo, isr, count, i, idx, arrived, history>>

(* Mutant: the byte is handed over and the tail stays. *)
dequeue_advance_not ==
    /\ ~inIsr
    /\ pc = "advance"
    /\ pc' = "loop"
    /\ i' = i + 1
    /\ got' = Append(got, data)
    /\ UNCHANGED <<ring, rxFifo, isr, count, idx, data, arrived, overrun, overwritten, raced>>

dequeue_advance ==
    /\ ~inIsr
    /\ pc = "advance"
    /\ pc' = "loop"
    /\ ring' = advance_tail(ring)
    /\ i' = i + 1
    /\ got' = Append(got, data)
    /\ UNCHANGED <<rxFifo, isr, count, idx, data, arrived, overrun, overwritten, raced>>

taskStep ==
    \/ \E n \in Counts : UART_receive(n)
    \/ receive_loop
    \/ dequeue_index
    \/ dequeue_read
    \/ dequeue_advance

Next == Arrive \/ uart_rx_hwi_handler \/ taskStep

Spec == Init /\ [][Next]_vars

(* An interrupt that is raised is served, and the console task polls       *)
(* UART_receive for as long as it runs.                                    *)
Fairness == WF_vars(uart_rx_hwi_handler) /\ WF_vars(taskStep)

FairSpec == Spec /\ Fairness

------------------------------------------------------------------------------
TypeOK ==
    /\ ring \in ring_buffer_t
    /\ rxFifo \in Seq(Char) /\ Len(rxFifo) <= FifoDepth
    /\ inIsr \in BOOLEAN
    /\ rxLeft \in Nat /\ rxLeft <= Len(rxFifo)
    /\ pc \in {"idle", "loop", "index", "read", "advance"}
    /\ count \in Nat /\ i \in Nat /\ idx \in Index /\ data \in Char
    /\ arrived \in 0..MaxBytes
    /\ got \in Seq(Char)
    /\ overrun \subseteq Char /\ overwritten \subseteq Char
    /\ raced \in BOOLEAN

(* The tail index never passes the head index: whenever the task is inside *)
(* ring_buffer_dequeue past its test the ring holds a byte, however often  *)
(* the interrupt has overwritten the tail since. Otherwise a dequeue would *)
(* turn an empty ring into a full one of stale bytes.                      *)
TailNeverPassesHead ==
    pc \in {"index", "read", "advance"} => ~ring_buffer_is_empty(ring)

(* What has arrived and is not lost, in the order the program will have it.*)
Stream == got \o Contents(ring) \o rxFifo

(* As long as no overwrite has hit a dequeue half way, every byte that     *)
(* arrived is handed out, waiting, overrun in the SCI FIFO or overwritten  *)
(* in the ring, exactly one of the four, and the bytes come in order.      *)
ExactUnlessRaced ==
    ~raced =>
        /\ \A m, n \in 1..Len(Stream) : m < n => Stream[m] < Stream[n]
        /\ {Stream[n] : n \in 1..Len(Stream)} =
               (1..arrived) \ (overrun \cup overwritten)

(* The bytes that have arrived and are held by the ring or the FIFO.       *)
Held ==
    {cell(ring, k) : k \in 0..(ring_buffer_num_items(ring) - 1)}
        \cup {rxFifo[n] : n \in 1..Len(rxFifo)}

(* What is held is always the newest that arrived, less what the FIFO      *)
(* overran: a byte the ring has not, and did not overrun, is older than    *)
(* every byte held.  A race of the reader with an overwrite damages what   *)
(* the reader gets, never makes a hole in what there still is to read.     *)
TheNewestAreHeld ==
    \A b \in 1..arrived : b \in Held \cup overrun \/ \A h \in Held : b < h

(* uart.c:158, "If ring buffer is full, it overwrites the oldest data in   *)
(* ringbuffer": the oldest byte is all a full ring loses.                  *)
OnlyTheOldestIsLost ==
    1..arrived \subseteq
        overrun \cup overwritten \cup {Stream[n] : n \in 1..Len(Stream)}

(* A sender that stops leaves nothing behind: all bytes are read.          *)
Drained == <>[](rxFifo = <<>> /\ ring_buffer_is_empty(ring) /\ pc = "idle")

(* With a sender that never has more bytes unread than the ring can hold,  *)
(* as the YMODEM sender with its acknowledged packets, the direction is a  *)
(* reliable byte stream: interrupt, FIFO and ring are not to be seen.      *)
Abstract == INSTANCE ByteStream
                WITH pipe <- Contents(ring) \o rxFifo, out <- got
ImplementsByteStream == Abstract!FairSpec
==============================================================================
