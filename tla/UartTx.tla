-------------------------------- MODULE UartTx --------------------------------
(***************************************************************************)
(* The transmit direction of driver/uart/uart.c: UART_send, the ring       *)
(* ringBuf_tx, uart_tx_hwi_handler, the SCI transmit FIFO and its          *)
(* interrupt, and UART_send_done.  Tasks that send have one priority and   *)
(* UART_send does not block, so one call runs at a time; the interrupt can *)
(* start between any two of its steps, the wire drains the FIFO at any     *)
(* time.                                                                   *)
(*                                                                         *)
(* TXFFIENA masks the interrupt in the SCI; a request that passed it       *)
(* before is latched in the PIE and is still taken.  With Transit FALSE    *)
(* the CPU takes it before the task's next step.  With Transit TRUE the    *)
(* request can be on its way to the CPU while the task makes its two       *)
(* accesses of SCIFFTX, the write that clears TXFFIENA and the read of     *)
(* TXFFST right behind it, and is taken after them.                        *)
(*                                                                         *)
(* The bytes are numbered in the order UART_send is given them.            *)
(***************************************************************************)
EXTENDS RingBuffer

CONSTANTS
    FifoDepth,  \* the SCI transmit FIFO holds 16
    MaxBytes,   \* bytes sent in all: the bound of the model
    Counts,     \* the count arguments of UART_send
    Transit     \* an interrupt request can be in transit to the CPU

ASSUME CharIsNumbered == Char = 0..MaxBytes /\ Zero = 0
ASSUME FifoDepthAssumption == FifoDepth \in Nat /\ FifoDepth > 0
ASSUME MaxBytesAssumption == MaxBytes \in Nat
ASSUME CountsAssumption == Counts \subseteq Nat \ {0}
ASSUME TransitAssumption == Transit \in BOOLEAN

VARIABLES
    ring,       \* ringBuf_tx
    txFifo,     \* the SCI transmit FIFO, oldest first; TXFFST is its length
    wire,       \* the bytes that have left, in order
    TXFFIENA,   \* transmit FIFO interrupt enable
    TXFFINT,    \* transmit FIFO interrupt flag, set while the FIFO is empty
    pie,        \* the request latched in the PIE
    hwi,        \* where uart_tx_hwi_handler is, "none" when it does not run
    fifoTxCnt,  \* its local
    pc,         \* where the task is
    count, i, j, fifo_first, fifo_status,   \* the locals of UART_send
    base,       \* bytes taken by the calls that have returned
    done        \* UART_send_done has returned TRUE since the last UART_send

fifo == <<txFifo, wire>>
irq == <<TXFFIENA, TXFFINT, pie>>
isr == <<hwi, fifoTxCnt>>
locals == <<count, i, j, fifo_first, fifo_status>>
vars == <<ring, fifo, irq, isr, pc, locals, base, done>>

(* SCIFFTX = 0xC000: level 0, interrupt off. The flag may be up already.   *)
Init ==
    /\ ring = ring_buffer_init
    /\ txFifo = <<>> /\ wire = <<>>
    /\ TXFFIENA = FALSE /\ TXFFINT \in BOOLEAN /\ pie = FALSE
    /\ hwi = "none" /\ fifoTxCnt = 0
    /\ pc = "idle"
    /\ count = 0 /\ i = 0 /\ j = 0 /\ fifo_first = FALSE /\ fifo_status = 0
    /\ base = 0 /\ done = FALSE

------------------------------------------------------------------------------
(* The SCI and the PIE.                                                    *)

(* A write of SCITXBUF: a full FIFO has no room for it.                    *)
SCITXBUF(c) ==
    txFifo' = IF Len(txFifo) < FifoDepth THEN Append(txFifo, c) ELSE txFifo

shift_out ==
    /\ txFifo # <<>>
    /\ wire' = Append(wire, Head(txFifo))
    /\ txFifo' = Tail(txFifo)
    /\ TXFFINT' = (TXFFINT \/ Len(txFifo) = 1)
    /\ UNCHANGED <<ring, TXFFIENA, pie, isr, pc, locals, base, done>>

latch_request ==
    /\ TXFFINT /\ TXFFIENA
    /\ hwi = "none" /\ ~pie
    /\ pie' = TRUE
    /\ UNCHANGED <<ring, fifo, TXFFIENA, TXFFINT, isr, pc, locals, base, done>>

------------------------------------------------------------------------------
(* uart_tx_hwi_handler                                                     *)

tx_hwi_enter ==
    /\ hwi = "none" /\ pie
    /\ pie' = FALSE
    /\ hwi' = "test"
    /\ fifoTxCnt' = Len(txFifo)
    /\ UNCHANGED <<ring, fifo, TXFFIENA, TXFFINT, pc, locals, base, done>>

(* Mutant: the test of the FIFO count is the wrong way round. *)
NothingToSend_inverted == ring_buffer_is_empty(ring) /\ fifoTxCnt # 0

NothingToSend == ring_buffer_is_empty(ring) /\ fifoTxCnt = 0

tx_hwi_disable ==
    /\ hwi = "test" /\ NothingToSend
    /\ TXFFIENA' = FALSE
    /\ hwi' = "exit"
    /\ UNCHANGED <<ring, fifo, TXFFINT, pie, fifoTxCnt, pc, locals, base, done>>

InElseBranch == hwi = "loop" \/ (hwi = "test" /\ ~NothingToSend)

RoomAndByte == fifoTxCnt < FifoDepth /\ ~ring_buffer_is_empty(ring)

tx_hwi_move ==
    /\ InElseBranch
    /\ RoomAndByte
    /\ hwi' = "loop"
    /\ SCITXBUF(oldest_byte(ring))
    /\ ring' = advance_tail(ring)
    /\ fifoTxCnt' = Len(txFifo')
    /\ UNCHANGED <<wire, irq, pc, locals, base, done>>

tx_hwi_leave_loop ==
    /\ InElseBranch
    /\ ~RoomAndByte
    /\ hwi' = "exit"
    /\ UNCHANGED <<ring, fifo, irq, fifoTxCnt, pc, locals, base, done>>

(* TXFFINTCLR: the flag comes back at once when the FIFO is empty.         *)
tx_hwi_exit ==
    /\ hwi = "exit"
    /\ hwi' = "none"
    /\ TXFFINT' = (txFifo = <<>>)
    /\ UNCHANGED <<ring, fifo, TXFFIENA, pie, fifoTxCnt, pc, locals, base, done>>

uart_tx_hwi_handler ==
    \/ tx_hwi_enter
    \/ tx_hwi_disable
    \/ tx_hwi_move
    \/ tx_hwi_leave_loop
    \/ tx_hwi_exit

------------------------------------------------------------------------------
(* The task runs when no handler does and no request is latched; with a    *)
(* request in transit it finishes its accesses of SCIFFTX.                 *)
TaskRuns == hwi = "none" /\ ~pie
TaskRunsOn == hwi = "none" /\ (pie => Transit)

(* UART_send: pBuf[i] is byte base + i + 1.                                *)
pBuf_i == base + i + 1

UART_send(n) ==
    /\ TaskRunsOn /\ pc = "idle"
    /\ base + n <= MaxBytes
    /\ TXFFIENA' = FALSE
    /\ count' = n /\ i' = 0
    /\ pc' = "status"
    /\ done' = FALSE
    /\ UNCHANGED <<ring, fifo, TXFFINT, pie, isr, j, fifo_first, fifo_status, base>>

send_status ==
    /\ TaskRunsOn /\ pc = "status"
    /\ fifo_status' = Len(txFifo)
    /\ pc' = "choose"
    /\ UNCHANGED <<ring, fifo, irq, isr, count, i, j, fifo_first, base, done>>

(* Mutant: only the FIFO is looked at, a waiting ring is overtaken. *)
send_choose_fifo_only ==
    /\ TaskRuns /\ pc = "choose"
    /\ fifo_first' = (fifo_status = 0)
    /\ j' = 0
    /\ pc' = "loop"
    /\ UNCHANGED <<ring, fifo, irq, isr, count, i, fifo_status, base, done>>

send_choose ==
    /\ TaskRuns /\ pc = "choose"
    /\ fifo_first' = (fifo_status = 0 /\ ring_buffer_is_empty(ring))
    /\ j' = 0
    /\ pc' = "loop"
    /\ UNCHANGED <<ring, fifo, irq, isr, count, i, fifo_status, base, done>>

ToFifo == fifo_first /\ j < FifoDepth

send_direct ==
    /\ TaskRuns /\ pc = "loop" /\ i < count
    /\ ToFifo
    /\ SCITXBUF(pBuf_i)
    /\ j' = j + 1
    /\ i' = i + 1
    /\ UNCHANGED <<ring, wire, irq, isr, pc, count, fifo_first, fifo_status, base, done>>

send_test_full ==
    /\ TaskRuns /\ pc = "loop" /\ i < count
    /\ ~ToFifo
    /\ pc' = IF ring_buffer_is_full(ring) THEN "enable" ELSE "put"
    /\ UNCHANGED <<ring, fifo, irq, isr, locals, base, done>>

(* ring_buffer_queue                                                       *)
send_put_cell ==
    /\ TaskRuns /\ pc = "put"
    /\ ring' = put_cell(drop_oldest(ring), pBuf_i)
    /\ pc' = "advance"
    /\ UNCHANGED <<fifo, irq, isr, locals, base, done>>

send_advance_head ==
    /\ TaskRuns /\ pc = "advance"
    /\ ring' = advance_head(ring)
    /\ i' = i + 1
    /\ pc' = "loop"
    /\ UNCHANGED <<fifo, irq, isr, count, j, fifo_first, fifo_status, base, done>>

send_loop_end ==
    /\ TaskRuns /\ pc = "loop" /\ i = count
    /\ pc' = "enable"
    /\ UNCHANGED <<ring, fifo, irq, isr, locals, base, done>>

(* Mutant: the interrupt comes back only for bytes that went to the ring. *)
send_return_lazy ==
    /\ TaskRuns /\ pc = "enable"
    /\ TXFFIENA' = ~fifo_first
    /\ pc' = "idle"
    /\ base' = base + i /\ i' = 0
    /\ UNCHANGED <<ring, fifo, TXFFINT, pie, isr, count, j, fifo_first, fifo_status, done>>

send_return ==
    /\ TaskRuns /\ pc = "enable"
    /\ TXFFIENA' = TRUE
    /\ pc' = "idle"
    /\ base' = base + i /\ i' = 0
    /\ UNCHANGED <<ring, fifo, TXFFINT, pie, isr, count, j, fifo_first, fifo_status, done>>

sendStep ==
    \/ send_status
    \/ send_choose
    \/ send_direct
    \/ send_test_full
    \/ send_put_cell
    \/ send_advance_head
    \/ send_loop_end
    \/ send_return

(* Mutant: the FIFO is tested first and the ring second. *)
UART_send_done_swapped ==
    /\ TaskRuns
    /\ \/ pc = "idle" /\ txFifo = <<>> /\ pc' = "done" /\ UNCHANGED done
       \/ pc = "done" /\ done' = ring_buffer_is_empty(ring) /\ pc' = "idle"
    /\ UNCHANGED <<ring, fifo, irq, isr, locals, base>>

(* UART_send_done tests the ring, then the FIFO. A call that finds a byte  *)
(* in the ring returns FALSE and changes nothing.                          *)
UART_send_done ==
    /\ TaskRuns
    /\ \/ pc = "idle" /\ ring_buffer_is_empty(ring) /\ pc' = "done" /\ UNCHANGED done
       \/ pc = "done" /\ done' = (txFifo = <<>>) /\ pc' = "idle"
    /\ UNCHANGED <<ring, fifo, irq, isr, locals, base>>

Next ==
    \/ shift_out
    \/ latch_request
    \/ uart_tx_hwi_handler
    \/ \E n \in Counts : UART_send(n)
    \/ sendStep
    \/ UART_send_done

Spec == Init /\ [][Next]_vars

(* The line shifts, a latched request is served, a call of UART_send that  *)
(* has begun goes on; nobody has to call it. A request is latched within   *)
(* cycles of the enable, and a caller that finds the ring full calls again *)
(* only after a sleep: strong fairness, since each new call clears the     *)
(* enable for a moment.                                                    *)
Fairness ==
    /\ WF_vars(shift_out)
    /\ SF_vars(latch_request)
    /\ WF_vars(uart_tx_hwi_handler)
    /\ WF_vars(sendStep)

FairSpec == Spec /\ Fairness

------------------------------------------------------------------------------
TypeOK ==
    /\ ring \in ring_buffer_t
    /\ txFifo \in Seq(Char) /\ Len(txFifo) <= FifoDepth
    /\ wire \in Seq(Char)
    /\ TXFFIENA \in BOOLEAN /\ TXFFINT \in BOOLEAN /\ pie \in BOOLEAN
    /\ hwi \in {"none", "test", "loop", "exit"}
    /\ fifoTxCnt \in 0..FifoDepth
    /\ pc \in {"idle", "status", "choose", "loop", "put", "advance", "enable", "done"}
    /\ count \in Nat /\ i \in 0..count /\ j \in Nat
    /\ fifo_first \in BOOLEAN /\ fifo_status \in 0..FifoDepth
    /\ base \in Nat /\ base + i <= MaxBytes
    /\ done \in BOOLEAN

(* The bytes UART_send has taken are on the wire, in the FIFO and in the   *)
(* ring, one after the other: none lost, none twice, none out of order,    *)
(* and UART_send returns exactly the number it took.                       *)
InOrder ==
    LET sent == Len(wire)
        queued == Len(txFifo)
    IN  /\ sent + queued + ring_buffer_num_items(ring) = base + i
        /\ \A k \in 1..sent : wire[k] = k
        /\ \A k \in 1..queued : txFifo[k] = sent + k
        /\ \A k \in 0..(ring_buffer_num_items(ring) - 1) :
               cell(ring, k) = sent + queued + k + 1

(* When UART_send_done has returned TRUE and nothing was sent since, every *)
(* byte has left: the handler does not move a byte from the ring to the    *)
(* FIFO between the two tests in a way they both miss. The callers reply   *)
(* or sleep on it (Send_Byte, send_ACK, Send_Packet of ymodem.c).          *)
SendDoneMeansSent == done => Len(wire) = base

(* The direction is a reliable byte stream: every byte UART_send has taken *)
(* leaves, in order and eventually, though it can be in the FIFO or in the *)
(* ring and the interrupt that moves it is turned off and on.              *)
Abstract == INSTANCE ByteStream
                WITH pipe <- txFifo \o Contents(ring), out <- wire
ImplementsByteStream == Abstract!FairSpec

(* When nothing is left to send the interrupt turns itself off for good:   *)
(* an empty FIFO with TXFFIENA set would interrupt without end.            *)
GoesQuiet == <>[](~TXFFIENA /\ ~pie /\ hwi = "none")
==============================================================================
