----------------------------- MODULE UartTxProofs -----------------------------
(***************************************************************************)
(* Theorems about the transmit direction, for every size of the ring and   *)
(* of the FIFO, every number of bytes and every way to cut them into calls *)
(* of UART_send, when a request the SCI has raised is taken before the     *)
(* task's next step (~Transit).                                            *)
(*                                                                         *)
(* The argument: while UART_send runs, the interrupt is masked and none is *)
(* latched, so only the wire moves under it and it only drains the FIFO.   *)
(* Hence a TXFFST read earlier is never too small, the FIFO has room for   *)
(* every byte written to it, and the direct bytes are the only ones there. *)
(* InOrder then makes what waits in FIFO and ring a stretch of numbers,    *)
(* and every step one of ByteStream.                                       *)
(***************************************************************************)
EXTENDS UartTx, RingBufferProofs, TLAPS

num == ring_buffer_num_items(ring)

Sending == pc \notin {"idle", "done"}

(* While a call of UART_send runs, no handler does and none can start.     *)
Masked == Sending => hwi = "none" /\ ~pie /\ ~TXFFIENA

(* The locals that count bytes.                                            *)
Counted ==
    /\ pc \in {"idle", "done", "status", "choose"} => i = 0
    /\ pc \in {"put", "advance"} => i < count
    /\ Sending => base + count <= MaxBytes

(* The FIFO counts read from TXFFST are upper bounds.                      *)
StatusCovers ==
    /\ pc = "choose" => Len(txFifo) <= fifo_status
    /\ hwi \in {"test", "loop"} => Len(txFifo) <= fifoTxCnt

(* What the loop of UART_send knows of the FIFO and the ring.              *)
LoopKnows ==
    /\ pc \in {"loop", "put", "advance"} /\ fifo_first =>
           Len(txFifo) <= j /\ (j < FifoDepth => num = 0)
    /\ pc \in {"put", "advance"} => ~ToFifo /\ ~ring_buffer_is_full(ring)
    /\ pc = "advance" => cell(ring, num) = pBuf_i

(* What UART_send_done has seen stays true.                                *)
DoneSeen ==
    /\ pc = "done" => num = 0
    /\ done => ~Sending /\ Len(wire) = base

IInv ==
    TypeOK /\ InOrder /\ Masked /\ Counted /\ StatusCovers /\ LoopKnows /\ DoneSeen

USE SizeAssumption, CharIsNumbered, FifoDepthAssumption, MaxBytesAssumption,
    CountsAssumption

LEMMA NumType ==
    ASSUME TypeOK
    PROVE  /\ num \in Nat /\ num < Size /\ num \in Index
           /\ ring_buffer_is_empty(ring) <=> num = 0
           /\ ring_buffer_is_full(ring) <=> num = Size - 1
           /\ Len(txFifo) \in Nat /\ Len(wire) \in Nat
           /\ oldest_byte(ring) \in Char
<1>1. oldest_byte(ring) \in Char
  BY DEF TypeOK, ring_buffer_t, oldest_byte
<1> QED
  BY <1>1, NumItems DEF TypeOK, num, Index

(* InOrder by its parts, without the names it uses for the lengths.        *)
Accounted == Len(wire) + Len(txFifo) + num = base + i
WireOrder == \A k \in 1..Len(wire) : wire[k] = k
FifoOrder == \A k \in 1..Len(txFifo) : txFifo[k] = Len(wire) + k
RingOrder == \A k \in 0..(num - 1) : cell(ring, k) = Len(wire) + Len(txFifo) + k + 1

LEMMA InOrderParts == InOrder <=> Accounted /\ WireOrder /\ FifoOrder /\ RingOrder
  BY DEF InOrder, Accounted, WireOrder, FifoOrder, RingOrder, num

LEMMA InOrderPartsPrimed ==
    InOrder' <=> Accounted' /\ WireOrder' /\ FifoOrder' /\ RingOrder'
  BY DEF InOrder, Accounted, WireOrder, FifoOrder, RingOrder, num

(* A step that moves no byte.                                              *)
LEMMA SameBytes ==
    InOrder /\ UNCHANGED <<ring, txFifo, wire, base, i>> => InOrder'
  BY DEF InOrder

LEMMA InitIInv == Init => IInv
<1> SUFFICES ASSUME Init PROVE IInv
  OBVIOUS
<1>1. ring \in ring_buffer_t /\ num = 0
  BY InitialRing DEF Init, num
<1>2. /\ txFifo = <<>> /\ wire = <<>> /\ Len(txFifo) = 0 /\ Len(wire) = 0
      /\ hwi = "none" /\ fifoTxCnt = 0 /\ pc = "idle"
      /\ count = 0 /\ i = 0 /\ j = 0 /\ fifo_status = 0 /\ base = 0
  BY DEF Init
<1>3. /\ TXFFIENA \in BOOLEAN /\ TXFFINT \in BOOLEAN /\ pie \in BOOLEAN
      /\ fifo_first \in BOOLEAN /\ done \in BOOLEAN /\ ~done
  BY DEF Init
<1>4. TypeOK
  <2>1. txFifo \in Seq(Char) /\ wire \in Seq(Char)
    BY <1>2
  <2>2. /\ Len(txFifo) <= FifoDepth /\ fifoTxCnt \in 0..FifoDepth
        /\ count \in Nat /\ i \in 0..count /\ j \in Nat /\ fifo_status \in 0..FifoDepth
        /\ base \in Nat /\ base + i <= MaxBytes
    BY <1>2
  <2> QED
    BY <1>1, <1>2, <1>3, <2>1, <2>2 DEF TypeOK
<1>5. InOrder
  BY <1>1, <1>2, InOrderParts DEF Accounted, WireOrder, FifoOrder, RingOrder
<1>6. Masked /\ Counted /\ StatusCovers /\ LoopKnows /\ DoneSeen
  BY <1>2, <1>3 DEF Masked, Counted, StatusCovers, LoopKnows, DoneSeen, Sending
<1> QED
  BY <1>4, <1>5, <1>6 DEF IInv

------------------------------------------------------------------------------
(* The steps that move a byte, one lemma each.                             *)

LEMMA ShiftOutIInv == IInv /\ shift_out => IInv'
<1> SUFFICES ASSUME IInv, shift_out PROVE IInv'
  OBVIOUS
<1> USE DEF IInv
<1>1. /\ TypeOK /\ num \in Nat /\ Len(wire) \in Nat /\ Len(txFifo) \in Nat
      /\ Accounted /\ WireOrder /\ FifoOrder /\ RingOrder
  BY NumType, InOrderParts
<1>2. /\ wire' = Append(wire, Head(txFifo)) /\ txFifo' = Tail(txFifo)
      /\ TXFFINT' \in BOOLEAN
      /\ UNCHANGED <<ring, TXFFIENA, pie, hwi, fifoTxCnt, pc, count, i, j,
                     fifo_first, fifo_status, base, done>>
  BY <1>1 DEF shift_out, isr, locals, TypeOK
<1>3. num' = num
  BY <1>2 DEF num
<1>4. /\ txFifo # <<>> /\ txFifo \in Seq(Char) /\ wire \in Seq(Char)
      /\ Len(txFifo) <= FifoDepth
  BY <1>1 DEF shift_out, TypeOK
<1>5. /\ Len(txFifo) > 0 /\ Head(txFifo) = txFifo[1] /\ Head(txFifo) \in Char
      /\ txFifo' \in Seq(Char) /\ Len(txFifo') = Len(txFifo) - 1
      /\ \A k \in 1..(Len(txFifo) - 1) : txFifo'[k] = txFifo[k + 1]
  BY <1>2, <1>4
<1>6. /\ wire' \in Seq(Char) /\ Len(wire') = Len(wire) + 1
      /\ wire'[Len(wire) + 1] = txFifo[1]
      /\ \A k \in 1..Len(wire) : wire'[k] = wire[k]
  BY <1>2, <1>4, <1>5
<1>7. TypeOK'
  BY <1>1, <1>2, <1>4, <1>5, <1>6 DEF TypeOK
<1>8. InOrder'
  <2>1. Accounted'
    <3>1. Len(wire') + Len(txFifo') + num' = Len(wire) + Len(txFifo) + num
      BY <1>1, <1>3, <1>5, <1>6
    <3> QED
      BY <1>1, <1>2, <3>1 DEF Accounted
  <2>2. WireOrder'
    <3>1. txFifo[1] = Len(wire) + 1
      BY <1>1, <1>5 DEF FifoOrder
    <3> QED
      BY <1>1, <1>6, <3>1 DEF WireOrder
  <2>3. FifoOrder'
    <3>1. ASSUME NEW k \in 1..Len(txFifo') PROVE txFifo'[k] = Len(wire') + k
      <4>1. k + 1 \in 1..Len(txFifo) /\ txFifo'[k] = txFifo[k + 1]
        BY <1>1, <1>5
      <4>2. txFifo[k + 1] = Len(wire) + (k + 1)
        BY <1>1, <4>1 DEF FifoOrder
      <4> QED
        BY <1>1, <1>6, <4>1, <4>2
    <3> QED
      BY <3>1 DEF FifoOrder
  <2>4. RingOrder'
    <3>1. Len(wire') + Len(txFifo') = Len(wire) + Len(txFifo)
      BY <1>1, <1>5, <1>6
    <3> QED
      BY <1>1, <1>2, <1>3, <3>1 DEF RingOrder
  <2> QED
    BY <2>1, <2>2, <2>3, <2>4, InOrderPartsPrimed
<1>9. Masked' /\ Counted'
  BY <1>2 DEF Masked, Counted, Sending
<1>10. StatusCovers'
  BY <1>1, <1>2, <1>5 DEF StatusCovers, TypeOK
<1>11. LoopKnows'
  <2>1. ToFifo' <=> ToFifo
    BY <1>2 DEF ToFifo
  <2>2. pBuf_i' = pBuf_i
    BY <1>2 DEF pBuf_i
  <2> QED
    BY <1>1, <1>2, <1>3, <1>5, <2>1, <2>2 DEF LoopKnows, TypeOK
<1>12. DoneSeen'
  <2>1. ~done
    <3> SUFFICES ASSUME done PROVE FALSE
      OBVIOUS
    <3>1. i = 0 /\ Len(wire) = base
      BY DEF DoneSeen, Sending, Counted
    <3> QED
      BY <1>1, <1>5, <3>1 DEF Accounted, TypeOK
  <2> QED
    BY <1>2, <1>3, <2>1 DEF DoneSeen
<1> QED
  BY <1>7, <1>8, <1>9, <1>10, <1>11, <1>12

LEMMA HwiMoveIInv == IInv /\ tx_hwi_move => IInv'
<1> SUFFICES ASSUME IInv, tx_hwi_move PROVE IInv'
  OBVIOUS
<1> USE DEF IInv
<1>1. /\ TypeOK /\ num \in Nat /\ num < Size /\ Len(wire) \in Nat /\ Len(txFifo) \in Nat
      /\ Accounted /\ WireOrder /\ FifoOrder /\ RingOrder
      /\ ring_buffer_is_empty(ring) <=> num = 0
      /\ oldest_byte(ring) \in Char
  BY NumType, InOrderParts
<1>2. /\ hwi \in {"test", "loop"} /\ fifoTxCnt < FifoDepth /\ num > 0
      /\ ring' = advance_tail(ring) /\ hwi' = "loop" /\ fifoTxCnt' = Len(txFifo')
      /\ UNCHANGED <<wire, TXFFIENA, TXFFINT, pie, pc, count, i, j, fifo_first,
                     fifo_status, base, done>>
  BY <1>1 DEF tx_hwi_move, InElseBranch, RoomAndByte, irq, locals
<1>3. Len(txFifo) < FifoDepth
  BY <1>1, <1>2 DEF StatusCovers, TypeOK
<1>4. txFifo' = Append(txFifo, oldest_byte(ring))
  BY <1>3 DEF tx_hwi_move, SCITXBUF
<1>5. /\ txFifo' \in Seq(Char) /\ Len(txFifo') = Len(txFifo) + 1
      /\ txFifo'[Len(txFifo) + 1] = oldest_byte(ring)
      /\ \A k \in 1..Len(txFifo) : txFifo'[k] = txFifo[k]
  BY <1>1, <1>4 DEF TypeOK
<1>6. /\ ring' \in ring_buffer_t /\ num' = num - 1
      /\ \A k \in 0..(num - 2) : cell(ring', k) = cell(ring, k + 1)
      /\ oldest_byte(ring) = cell(ring, 0)
  BY <1>1, <1>2, AdvanceTail DEF num, TypeOK
<1>7. ~Sending /\ ~Sending'
  BY <1>2 DEF Masked, Sending
<1>8. TypeOK'
  <2>1. Len(txFifo') <= FifoDepth /\ fifoTxCnt' \in 0..FifoDepth
    BY <1>1, <1>2, <1>3, <1>5
  <2> QED
    BY <1>1, <1>2, <1>5, <1>6, <2>1 DEF TypeOK
<1>9. InOrder'
  <2>1. Accounted'
    <3>1. Len(wire) + Len(txFifo') + num' = Len(wire) + Len(txFifo) + num
      BY <1>1, <1>5, <1>6
    <3> QED
      BY <1>1, <1>2, <3>1 DEF Accounted
  <2>2. WireOrder'
    BY <1>1, <1>2 DEF WireOrder
  <2>3. FifoOrder'
    <3>1. oldest_byte(ring) = Len(wire) + (Len(txFifo) + 1)
      BY <1>1, <1>2, <1>6 DEF RingOrder
    <3>2. \A k \in 1..Len(txFifo') : txFifo'[k] = Len(wire) + k
      BY SMTT(30), <1>1, <1>5, <3>1 DEF FifoOrder
    <3> QED
      BY <1>2, <3>2 DEF FifoOrder
  <2>4. RingOrder'
    <3>1. ASSUME NEW k \in 0..(num - 2)
          PROVE  cell(ring', k) = Len(wire) + Len(txFifo') + k + 1
      <4>1. k + 1 \in 0..(num - 1) /\ cell(ring', k) = cell(ring, k + 1)
        BY <1>1, <1>2, <1>6
      <4>2. cell(ring, k + 1) = Len(wire) + Len(txFifo) + (k + 1) + 1
        BY <1>1, <4>1 DEF RingOrder
      <4> QED
        BY <1>1, <1>5, <4>1, <4>2
    <3>2. \A k \in 0..((num - 1) - 1) : cell(ring', k) = Len(wire) + Len(txFifo') + k + 1
      BY <1>1, <3>1
    <3> QED
      BY <1>2, <1>6, <3>2 DEF RingOrder
  <2> QED
    BY <2>1, <2>2, <2>3, <2>4, InOrderPartsPrimed
<1>10. Masked' /\ Counted'
  BY <1>2, <1>7 DEF Masked, Counted, Sending
<1>11. StatusCovers' /\ LoopKnows'
  <2>1. pc' \in {"idle", "done"}
    BY <1>7 DEF Sending
  <2>2. Len(txFifo') <= fifoTxCnt'
    BY <1>1, <1>2, <1>5
  <2> QED
    BY <2>1, <2>2 DEF StatusCovers, LoopKnows
<1>12. DoneSeen'
  BY <1>2, <1>7 DEF DoneSeen
<1> QED
  BY <1>8, <1>9, <1>10, <1>11, <1>12

LEMMA SendDirectIInv == IInv /\ send_direct => IInv'
<1> SUFFICES ASSUME IInv, send_direct PROVE IInv'
  OBVIOUS
<1> USE DEF IInv
<1>1. /\ TypeOK /\ num \in Nat /\ Len(wire) \in Nat /\ Len(txFifo) \in Nat
      /\ Accounted /\ WireOrder /\ FifoOrder /\ RingOrder
  BY NumType, InOrderParts
<1>2. /\ pc = "loop" /\ i < count /\ fifo_first /\ j < FifoDepth
      /\ j' = j + 1 /\ i' = i + 1
      /\ UNCHANGED <<ring, wire, TXFFIENA, TXFFINT, pie, hwi, fifoTxCnt, pc, count,
                     fifo_first, fifo_status, base, done>>
  BY DEF send_direct, ToFifo, irq, isr
<1>3. Len(txFifo) <= j /\ num = 0 /\ num' = num
  BY <1>2 DEF LoopKnows, num
<1>4. /\ i \in Nat /\ count \in Nat /\ base \in Nat /\ j \in Nat
      /\ base + count <= MaxBytes /\ hwi = "none"
  BY <1>1, <1>2 DEF TypeOK, Counted, Masked, Sending
<1>5. Len(txFifo) < FifoDepth /\ pBuf_i \in Char /\ pBuf_i = base + i + 1
  BY <1>1, <1>2, <1>3, <1>4 DEF pBuf_i
<1>6. txFifo' = Append(txFifo, pBuf_i)
  BY <1>5 DEF send_direct, SCITXBUF
<1>7. /\ txFifo' \in Seq(Char) /\ Len(txFifo') = Len(txFifo) + 1
      /\ txFifo'[Len(txFifo) + 1] = pBuf_i
      /\ \A k \in 1..Len(txFifo) : txFifo'[k] = txFifo[k]
  BY <1>1, <1>5, <1>6 DEF TypeOK
<1>8. TypeOK'
  <2>1. /\ Len(txFifo') <= FifoDepth /\ i' \in 0..count' /\ j' \in Nat
        /\ base' + i' <= MaxBytes
    BY <1>1, <1>2, <1>4, <1>5, <1>7
  <2> QED
    BY <1>1, <1>2, <1>7, <2>1 DEF TypeOK
<1>9. InOrder'
  <2>1. Len(wire) + Len(txFifo) = base + i
    BY <1>1, <1>3, <1>4 DEF Accounted
  <2>2. Accounted'
    <3>1. Len(wire) + Len(txFifo') + num' = base + i'
      BY SMTT(30), <1>1, <1>2, <1>3, <1>4, <1>7, <2>1
    <3> QED
      BY <1>2, <3>1 DEF Accounted
  <2>3. WireOrder'
    BY <1>1, <1>2 DEF WireOrder
  <2>4. FifoOrder'
    <3>1. pBuf_i = Len(wire) + (Len(txFifo) + 1)
      BY <1>1, <1>4, <1>5, <2>1
    <3>2. \A k \in 1..Len(txFifo') : txFifo'[k] = Len(wire) + k
      BY <1>1, <1>7, <3>1 DEF FifoOrder
    <3> QED
      BY <1>2, <3>2 DEF FifoOrder
  <2>5. RingOrder'
    BY <1>3 DEF RingOrder
  <2> QED
    BY <2>2, <2>3, <2>4, <2>5, InOrderPartsPrimed
<1>10. Masked' /\ Counted' /\ StatusCovers'
  BY <1>2, <1>4 DEF Masked, Counted, StatusCovers, Sending
<1>11. LoopKnows'
  BY <1>1, <1>2, <1>3, <1>4, <1>7 DEF LoopKnows
<1>12. DoneSeen'
  BY <1>2 DEF DoneSeen, Sending
<1> QED
  BY <1>8, <1>9, <1>10, <1>11, <1>12

LEMMA PutCellIInv == IInv /\ send_put_cell => IInv'
<1> SUFFICES ASSUME IInv, send_put_cell PROVE IInv'
  OBVIOUS
<1> USE DEF IInv
<1>1. /\ TypeOK /\ num \in Nat /\ Len(wire) \in Nat /\ Len(txFifo) \in Nat
      /\ Accounted /\ WireOrder /\ FifoOrder /\ RingOrder
  BY NumType, InOrderParts
<1>2. /\ pc = "put" /\ pc' = "advance"
      /\ UNCHANGED <<txFifo, wire, TXFFIENA, TXFFINT, pie, hwi, fifoTxCnt, count, i, j,
                     fifo_first, fifo_status, base, done>>
  BY DEF send_put_cell, fifo, irq, isr, locals
<1>3. /\ i \in Nat /\ count \in Nat /\ base \in Nat /\ i < count
      /\ base + count <= MaxBytes /\ hwi = "none" /\ ~ring_buffer_is_full(ring) /\ ~ToFifo
  BY <1>1, <1>2 DEF TypeOK, Counted, Masked, Sending, LoopKnows
<1>4. pBuf_i \in Char /\ pBuf_i' = pBuf_i
  BY <1>2, <1>3 DEF pBuf_i
<1>5. ring' = put_cell(ring, pBuf_i)
  BY <1>3 DEF send_put_cell, drop_oldest
<1>6. /\ ring' \in ring_buffer_t /\ num' = num
      /\ \A k \in 0..(num - 1) : cell(ring', k) = cell(ring, k)
      /\ cell(ring', num) = pBuf_i
  BY <1>1, <1>4, <1>5, PutCell DEF num, TypeOK
<1>7. TypeOK'
  BY <1>1, <1>2, <1>6 DEF TypeOK
<1>8. InOrder'
  <2>1. Accounted' /\ WireOrder' /\ FifoOrder'
    BY <1>1, <1>2, <1>6 DEF Accounted, WireOrder, FifoOrder
  <2>2. RingOrder'
    BY <1>1, <1>2, <1>6 DEF RingOrder
  <2> QED
    BY <2>1, <2>2, InOrderPartsPrimed
<1>9. Masked' /\ Counted' /\ StatusCovers' /\ DoneSeen'
  BY <1>2, <1>3 DEF Masked, Counted, StatusCovers, DoneSeen, Sending
<1>10. LoopKnows'
  <2>1. ~ring_buffer_is_full(ring')
    BY <1>1, <1>3, <1>6, NumItems DEF num, TypeOK
  <2>2. ~ToFifo'
    BY <1>2, <1>3 DEF ToFifo
  <2> QED
    BY <1>2, <1>4, <1>6, <2>1, <2>2 DEF LoopKnows
<1> QED
  BY <1>7, <1>8, <1>9, <1>10

LEMMA AdvanceHeadIInv == IInv /\ send_advance_head => IInv'
<1> SUFFICES ASSUME IInv, send_advance_head PROVE IInv'
  OBVIOUS
<1> USE DEF IInv
<1>1. /\ TypeOK /\ num \in Nat /\ Len(wire) \in Nat /\ Len(txFifo) \in Nat
      /\ Accounted /\ WireOrder /\ FifoOrder /\ RingOrder
  BY NumType, InOrderParts
<1>2. /\ pc = "advance" /\ pc' = "loop" /\ ring' = advance_head(ring) /\ i' = i + 1
      /\ UNCHANGED <<txFifo, wire, TXFFIENA, TXFFINT, pie, hwi, fifoTxCnt, count, j,
                     fifo_first, fifo_status, base, done>>
  BY DEF send_advance_head, fifo, irq, isr
<1>3. /\ i \in Nat /\ count \in Nat /\ base \in Nat /\ i < count
      /\ base + count <= MaxBytes /\ hwi = "none"
      /\ ~ring_buffer_is_full(ring) /\ ~ToFifo /\ cell(ring, num) = base + i + 1
  BY <1>1, <1>2 DEF TypeOK, Counted, Masked, Sending, LoopKnows, pBuf_i
<1>4. /\ ring' \in ring_buffer_t /\ num' = num + 1
      /\ \A k \in 0..num : cell(ring', k) = cell(ring, k)
  BY <1>1, <1>2, <1>3, AdvanceHead DEF num, TypeOK
<1>5. TypeOK'
  <2>1. i' \in 0..count' /\ base' + i' <= MaxBytes
    BY <1>2, <1>3
  <2> QED
    BY <1>1, <1>2, <1>4, <2>1 DEF TypeOK
<1>6. InOrder'
  <2>1. Len(wire) + Len(txFifo) + num = base + i
    BY <1>1 DEF Accounted
  <2>2. Accounted'
    <3>1. Len(wire) + Len(txFifo) + num' = base + i'
      BY <1>1, <1>2, <1>3, <1>4, <2>1
    <3> QED
      BY <1>2, <3>1 DEF Accounted
  <2>3. WireOrder' /\ FifoOrder'
    BY <1>1, <1>2 DEF WireOrder, FifoOrder
  <2>4. RingOrder'
    <3>1. cell(ring, num) = Len(wire) + Len(txFifo) + num + 1
      BY <1>3, <2>1
    <3>2. \A k \in 0..num : cell(ring', k) = Len(wire) + Len(txFifo) + k + 1
      BY <1>1, <1>4, <3>1 DEF RingOrder
    <3>3. \A k \in 0..((num + 1) - 1) : cell(ring', k) = Len(wire) + Len(txFifo) + k + 1
      BY <1>1, <3>2
    <3> QED
      BY <1>2, <1>4, <3>3 DEF RingOrder
  <2> QED
    BY <2>2, <2>3, <2>4, InOrderPartsPrimed
<1>7. Masked' /\ Counted' /\ StatusCovers' /\ DoneSeen'
  BY <1>2, <1>3 DEF Masked, Counted, StatusCovers, DoneSeen, Sending
<1>8. LoopKnows'
  <2>1. fifo_first => Len(txFifo) <= j /\ ~(j < FifoDepth)
    BY <1>2, <1>3 DEF LoopKnows, ToFifo
  <2> QED
    BY <1>2, <2>1 DEF LoopKnows
<1> QED
  BY <1>5, <1>6, <1>7, <1>8

------------------------------------------------------------------------------
(* The steps that move no byte.                                            *)

(* A step of the interrupt machinery outside a call of UART_send.          *)
LEMMA IrqStepIInv ==
    ASSUME IInv, latch_request \/ tx_hwi_enter \/ tx_hwi_disable
                 \/ tx_hwi_leave_loop \/ tx_hwi_exit
    PROVE  IInv'
<1> USE DEF IInv
<1> DEFINE same == UNCHANGED <<ring, txFifo, wire, pc, count, i, j, fifo_first,
                              fifo_status, base, done>>
<1>1. TypeOK /\ num \in Nat /\ Len(txFifo) \in Nat
  BY NumType
<1>2. same /\ ~Sending
  <2>1. CASE latch_request
    BY <2>1 DEF latch_request, fifo, locals, isr, Masked
  <2>2. CASE tx_hwi_enter
    BY <2>2 DEF tx_hwi_enter, fifo, locals, Masked
  <2>3. CASE tx_hwi_disable
    BY <2>3 DEF tx_hwi_disable, fifo, locals, Masked
  <2>4. CASE tx_hwi_leave_loop
    BY <2>4 DEF tx_hwi_leave_loop, fifo, locals, InElseBranch, Masked
  <2>5. CASE tx_hwi_exit
    BY <2>5 DEF tx_hwi_exit, fifo, locals, Masked
  <2> QED
    BY <2>1, <2>2, <2>3, <2>4, <2>5
<1>3. TypeOK' /\ (hwi' \in {"test", "loop"} => Len(txFifo) <= fifoTxCnt')
  <2>1. CASE latch_request
    BY <1>1, <1>2, <2>1 DEF latch_request, isr, TypeOK, StatusCovers
  <2>2. CASE tx_hwi_enter
    <3>1. fifoTxCnt' \in 0..FifoDepth /\ fifoTxCnt' = Len(txFifo)
      BY <1>1, <2>2 DEF tx_hwi_enter, TypeOK
    <3>2. /\ hwi' = "test" /\ pie' \in BOOLEAN
          /\ UNCHANGED <<TXFFIENA, TXFFINT>>
      BY <2>2 DEF tx_hwi_enter
    <3>3. TypeOK'
      BY <1>1, <1>2, <3>1, <3>2 DEF TypeOK
    <3>4. Len(txFifo) <= fifoTxCnt'
      BY <1>1, <3>1
    <3> QED
      BY <3>3, <3>4
  <2>3. CASE tx_hwi_disable
    BY <1>1, <1>2, <2>3 DEF tx_hwi_disable, TypeOK
  <2>4. CASE tx_hwi_leave_loop
    BY <1>1, <1>2, <2>4 DEF tx_hwi_leave_loop, irq, TypeOK
  <2>5. CASE tx_hwi_exit
    BY <1>1, <1>2, <2>5 DEF tx_hwi_exit, TypeOK
  <2> QED
    BY <2>1, <2>2, <2>3, <2>4, <2>5
<1>4. InOrder'
  BY <1>2, SameBytes
<1>5. pc \in {"idle", "done"} /\ pc' = pc
  BY <1>2 DEF Sending
<1>6. Masked' /\ Counted'
  BY <1>2, <1>5 DEF Masked, Counted, Sending
<1>7. StatusCovers' /\ LoopKnows'
  BY <1>2, <1>3, <1>5 DEF StatusCovers, LoopKnows
<1>8. DoneSeen'
  BY <1>2, <1>5 DEF DoneSeen, Sending, num
<1> QED
  BY <1>3, <1>4, <1>6, <1>7, <1>8

LEMMA SendBeginIInv ==
    ASSUME ~Transit, IInv, NEW n \in Counts, UART_send(n)
    PROVE  IInv'
<1> USE DEF IInv
<1>1. /\ TypeOK /\ n \in Nat /\ hwi = "none" /\ ~pie /\ pc = "idle" /\ pc' = "status"
      /\ base + n <= MaxBytes /\ ~TXFFIENA' /\ TXFFIENA' \in BOOLEAN /\ ~done' /\ done' \in BOOLEAN
      /\ count' = n /\ i' = 0 /\ i = 0
      /\ UNCHANGED <<ring, txFifo, wire, TXFFINT, pie, hwi, fifoTxCnt, j, fifo_first,
                     fifo_status, base>>
  BY DEF UART_send, TaskRunsOn, TypeOK, fifo, isr, Counted
<1>2. TypeOK'
  <2>1. i' \in 0..count' /\ base' + i' <= MaxBytes /\ count' \in Nat
    BY <1>1 DEF TypeOK
  <2> QED
    BY <1>1, <2>1 DEF TypeOK
<1>3. InOrder'
  BY <1>1, SameBytes
<1>4. Masked' /\ Counted' /\ StatusCovers' /\ LoopKnows' /\ DoneSeen'
  BY <1>1 DEF Masked, Counted, StatusCovers, LoopKnows, DoneSeen, Sending
<1> QED
  BY <1>2, <1>3, <1>4

LEMMA SendStepIInv ==
    ASSUME IInv, send_status \/ send_choose \/ send_test_full \/ send_loop_end
    PROVE  IInv'
<1> USE DEF IInv
<1>1. /\ TypeOK /\ num \in Nat /\ Len(txFifo) \in Nat
      /\ ring_buffer_is_empty(ring) <=> num = 0
  BY NumType
<1>2. UNCHANGED <<ring, txFifo, wire, TXFFIENA, TXFFINT, pie, hwi, fifoTxCnt, count, i,
                 base, done>>
  BY DEF send_status, send_choose, send_test_full, send_loop_end, fifo, irq, isr, locals
<1>3. num' = num /\ InOrder'
  BY <1>2, SameBytes DEF num
<1>4. CASE send_status
  <2>1. /\ pc = "status" /\ pc' = "choose" /\ fifo_status' = Len(txFifo)
        /\ UNCHANGED <<j, fifo_first>>
    BY <1>4 DEF send_status
  <2>2. TypeOK'
    <3>1. fifo_status' \in 0..FifoDepth
      BY <1>1, <2>1 DEF TypeOK
    <3> QED
      BY <1>1, <1>2, <2>1, <3>1 DEF TypeOK
  <2> QED
    BY <1>1, <1>2, <1>3, <2>1, <2>2
       DEF Masked, Counted, StatusCovers, LoopKnows, DoneSeen, Sending
<1>5. CASE send_choose
  <2>1. /\ pc = "choose" /\ pc' = "loop" /\ j' = 0 /\ fifo_status' = fifo_status
        /\ fifo_first' = (fifo_status = 0 /\ ring_buffer_is_empty(ring))
    BY <1>5 DEF send_choose
  <2>2. TypeOK'
    BY <1>1, <1>2, <2>1 DEF TypeOK
  <2>3. fifo_first' => Len(txFifo) <= j' /\ num = 0
    BY <1>1, <2>1 DEF StatusCovers, TypeOK
  <2>4. Masked' /\ Counted' /\ StatusCovers' /\ DoneSeen'
    BY <1>2, <1>3, <2>1 DEF Masked, Counted, StatusCovers, DoneSeen, Sending
  <2>5. LoopKnows'
    BY <1>2, <1>3, <2>1, <2>3 DEF LoopKnows
  <2> QED
    BY <1>3, <2>2, <2>4, <2>5
<1>6. CASE send_test_full
  <2>1. /\ pc = "loop" /\ i < count /\ ~ToFifo
        /\ pc' \in {"put", "enable"} /\ (pc' = "put" => ~ring_buffer_is_full(ring))
        /\ UNCHANGED <<j, fifo_first, fifo_status>>
    BY <1>6 DEF send_test_full, locals
  <2>2. TypeOK'
    BY <1>1, <1>2, <2>1 DEF TypeOK
  <2>3. ~ToFifo'
    BY <2>1 DEF ToFifo
  <2>4. Masked' /\ Counted' /\ StatusCovers' /\ DoneSeen'
    BY <1>2, <1>3, <2>1 DEF Masked, Counted, StatusCovers, DoneSeen, Sending
  <2>5. LoopKnows'
    BY <1>2, <1>3, <2>1, <2>3 DEF LoopKnows
  <2> QED
    BY <1>3, <2>2, <2>4, <2>5
<1>7. CASE send_loop_end
  <2>1. pc = "loop" /\ pc' = "enable" /\ UNCHANGED <<j, fifo_first, fifo_status>>
    BY <1>7 DEF send_loop_end, locals
  <2>2. TypeOK'
    BY <1>1, <1>2, <2>1 DEF TypeOK
  <2> QED
    BY <1>2, <1>3, <2>1, <2>2
       DEF Masked, Counted, StatusCovers, LoopKnows, DoneSeen, Sending
<1> QED
  BY <1>4, <1>5, <1>6, <1>7

LEMMA SendReturnIInv == IInv /\ send_return => IInv'
<1> SUFFICES ASSUME IInv, send_return PROVE IInv'
  OBVIOUS
<1> USE DEF IInv
<1>1. /\ TypeOK /\ pc = "enable" /\ pc' = "idle" /\ TXFFIENA' \in BOOLEAN
      /\ base' = base + i /\ i' = 0
      /\ UNCHANGED <<ring, txFifo, wire, TXFFINT, pie, hwi, fifoTxCnt, count, j,
                     fifo_first, fifo_status, done>>
  BY DEF send_return, fifo, isr
<1>2. /\ i \in Nat /\ count \in Nat /\ base \in Nat /\ base + i <= MaxBytes
      /\ hwi = "none" /\ ~done
  BY <1>1 DEF TypeOK, Masked, DoneSeen, Sending
<1>3. base' + i' = base + i
  BY <1>1, <1>2
<1>4. TypeOK'
  <2>1. base' \in Nat /\ base' + i' <= MaxBytes /\ i' \in 0..count'
    BY <1>1, <1>2, <1>3
  <2> QED
    BY <1>1, <2>1 DEF TypeOK
<1>5. InOrder'
  BY <1>1, <1>3 DEF InOrder
<1>6. Masked' /\ Counted' /\ StatusCovers' /\ LoopKnows' /\ DoneSeen'
  BY <1>1, <1>2 DEF Masked, Counted, StatusCovers, LoopKnows, DoneSeen, Sending
<1> QED
  BY <1>4, <1>5, <1>6

LEMMA SendDoneIInv == IInv /\ UART_send_done => IInv'
<1> SUFFICES ASSUME IInv, UART_send_done PROVE IInv'
  OBVIOUS
<1> USE DEF IInv
<1>1. /\ TypeOK /\ num \in Nat /\ Len(wire) \in Nat /\ Len(txFifo) \in Nat
      /\ Accounted /\ (ring_buffer_is_empty(ring) <=> num = 0)
  BY NumType, InOrderParts
<1>2. /\ pc \in {"idle", "done"} /\ pc' \in {"idle", "done"} /\ hwi = "none"
      /\ UNCHANGED <<ring, txFifo, wire, TXFFIENA, TXFFINT, pie, hwi, fifoTxCnt, count, i,
                     j, fifo_first, fifo_status, base>>
  BY DEF UART_send_done, TaskRuns, fifo, irq, isr, locals
<1>3. num' = num /\ InOrder' /\ i = 0 /\ base \in Nat
  BY <1>1, <1>2, SameBytes DEF num, Counted, TypeOK
<1>4. done' \in BOOLEAN /\ (done' => Len(wire) = base) /\ (pc' = "done" => num = 0)
  <2>1. CASE pc = "idle"
    BY <1>1, <2>1 DEF UART_send_done, DoneSeen, TypeOK
  <2>2. CASE pc = "done"
    <3>1. done' = (txFifo = <<>>) /\ pc' = "idle" /\ num = 0
      BY <2>2 DEF UART_send_done, DoneSeen
    <3>2. txFifo = <<>> => Len(txFifo) = 0
      OBVIOUS
    <3>3. Len(wire) + Len(txFifo) + num = base + i
      BY <1>1 DEF Accounted
    <3>4. done' => Len(txFifo) = 0
      BY <3>1, <3>2
    <3>5. Len(txFifo) = 0 => Len(wire) = base
      BY <1>1, <1>3, <3>1, <3>3
    <3> QED
      BY <3>1, <3>4, <3>5
  <2> QED
    BY <1>2, <2>1, <2>2
<1>5. TypeOK'
  BY <1>1, <1>2, <1>4 DEF TypeOK
<1>6. Masked' /\ Counted' /\ StatusCovers' /\ LoopKnows'
  BY <1>2 DEF Masked, Counted, StatusCovers, LoopKnows, Sending
<1>7. DoneSeen'
  BY <1>2, <1>3, <1>4 DEF DoneSeen, Sending
<1> QED
  BY <1>3, <1>5, <1>6, <1>7

LEMMA NextIInv == ~Transit /\ IInv /\ [Next]_vars => IInv'
<1> SUFFICES ASSUME ~Transit, IInv, [Next]_vars PROVE IInv'
  OBVIOUS
<1>1. CASE shift_out
  BY <1>1, ShiftOutIInv
<1>2. CASE latch_request
  BY <1>2, IrqStepIInv
<1>3. CASE uart_tx_hwi_handler
  BY <1>3, IrqStepIInv, HwiMoveIInv DEF uart_tx_hwi_handler
<1>4. ASSUME NEW n \in Counts, UART_send(n) PROVE IInv'
  BY <1>4, SendBeginIInv
<1>5. CASE sendStep
  BY <1>5, SendStepIInv, SendDirectIInv, PutCellIInv, AdvanceHeadIInv, SendReturnIInv
     DEF sendStep
<1>6. CASE UART_send_done
  BY <1>6, SendDoneIInv
<1>7. CASE UNCHANGED vars
  <2>1. UNCHANGED <<ring, txFifo, wire, TXFFIENA, TXFFINT, pie, hwi, fifoTxCnt, pc, count,
                    i, j, fifo_first, fifo_status, base, done>>
    BY <1>7 DEF vars, fifo, irq, isr, locals
  <2>2. TypeOK' /\ InOrder' /\ Masked' /\ Counted'
    BY <2>1, SameBytes DEF IInv, TypeOK, Masked, Counted, Sending
  <2>3. StatusCovers' /\ LoopKnows' /\ DoneSeen'
    BY <2>1 DEF IInv, StatusCovers, LoopKnows, DoneSeen, Sending, num, ToFifo, pBuf_i
  <2> QED
    BY <2>2, <2>3 DEF IInv
<1> QED
  BY <1>1, <1>2, <1>3, <1>4, <1>5, <1>6, <1>7 DEF Next

------------------------------------------------------------------------------
LEMMA IInvAlways == ~Transit => (Spec => []IInv)
<1>1. CASE Transit
  BY <1>1
<1>2. ASSUME ~Transit PROVE Spec => []IInv
  <2>1. IInv /\ [Next]_vars => IInv'
    BY <1>2, NextIInv
  <2> QED
    BY InitIInv, <2>1, PTL DEF Spec
<1> QED
  BY <1>1, <1>2

(* Types: every state of the driver's transmit side, at every size.        *)
THEOREM TypeCorrect == ~Transit => (Spec => []TypeOK)
<1>1. IInv => TypeOK
  BY DEF IInv
<1> QED
  BY <1>1, IInvAlways, PTL

(* UART_send and uart_tx_hwi_handler together lose no byte, send none      *)
(* twice and none out of order, though each byte may go through the ring   *)
(* or around it, if clearing TXFFIENA keeps the handler out of UART_send   *)
(* as its comment expects (uart.c:292-295).                                *)
THEOREM SendKeepsOrder == ~Transit => (Spec => []InOrder)
<1>1. IInv => InOrder
  BY DEF IInv
<1> QED
  BY <1>1, IInvAlways, PTL

(* UART_send_done returns TRUE only when the last byte has left the FIFO,  *)
(* although the handler runs between its two tests: bytes move from the    *)
(* ring, tested first, to the FIFO, tested second, and never back.         *)
THEOREM SendDoneCorrect == ~Transit => (Spec => []SendDoneMeansSent)
<1>1. IInv => SendDoneMeansSent
  BY DEF IInv, DoneSeen, SendDoneMeansSent
<1> QED
  BY <1>1, IInvAlways, PTL

------------------------------------------------------------------------------
(* The refinement of ByteStream: what has left and what waits to leave is, *)
(* in each state, the bytes up to the one taken last.                      *)
Pipe == txFifo \o Contents(ring)
taken == base + i

(* A FIFO and a ring that hold the bytes after the sent-th hold them in    *)
(* order.                                                                  *)
LEMMA PipeIsNumbered ==
    ASSUME NEW f \in Seq(Char), NEW r \in ring_buffer_t, NEW sent \in Nat, NEW all \in Nat,
           all = sent + Len(f) + ring_buffer_num_items(r),
           \A k \in 1..Len(f) : f[k] = sent + k,
           \A k \in 0..(ring_buffer_num_items(r) - 1) : cell(r, k) = sent + Len(f) + k + 1
    PROVE  f \o Contents(r) = Numbered(sent, all)
<1> DEFINE c == Contents(r)
           N == ring_buffer_num_items(r)
<1>1. c \in Seq(Char) /\ Len(c) = N /\ N \in Nat /\ \A k \in 1..N : c[k] = cell(r, k - 1)
  BY ContentsFacts
<1>2. Len(f) \in Nat
  OBVIOUS
<1> HIDE DEF c, N
<1>3. ASSUME NEW k \in 1..Len(c) PROVE c[k] = sent + Len(f) + k
  <2>1. k - 1 \in 0..(N - 1) /\ sent + Len(f) + (k - 1) + 1 = sent + Len(f) + k
    BY <1>1, <1>2
  <2>2. cell(r, k - 1) = sent + Len(f) + (k - 1) + 1
    BY <2>1 DEF N
  <2> QED
    BY <1>1, <2>1, <2>2
<1>4. f \o c = Numbered(sent, sent + Len(f) + Len(c))
  BY <1>1, <1>3, NumberedJoined
<1>5. all = sent + Len(f) + Len(c)
  BY <1>1 DEF N
<1> QED
  BY <1>4, <1>5 DEF c

(* What waits to leave is the bytes taken that are not on the wire.        *)
LEMMA WhatWaits ==
    ASSUME IInv
    PROVE  /\ Pipe = Numbered(Len(wire), taken)
           /\ Len(wire) \in Nat /\ taken \in Nat /\ Len(wire) <= taken /\ taken <= MaxBytes
<1>1. /\ ring \in ring_buffer_t /\ txFifo \in Seq(Char) /\ wire \in Seq(Char)
      /\ base \in Nat /\ i \in Nat /\ taken \in Nat /\ taken <= MaxBytes
  BY DEF IInv, TypeOK, taken
<1>2. /\ Accounted /\ FifoOrder /\ RingOrder
      /\ Len(wire) \in Nat /\ Len(txFifo) \in Nat /\ num \in Nat
  BY NumType, InOrderParts DEF IInv
<1>3. taken = Len(wire) + Len(txFifo) + num
  BY <1>2 DEF Accounted, taken
<1>4. Pipe = Numbered(Len(wire), taken)
  <2>1. \A k \in 1..Len(txFifo) : txFifo[k] = Len(wire) + k
    BY <1>2 DEF FifoOrder
  <2>2. \A k \in 0..(ring_buffer_num_items(ring) - 1) :
            cell(ring, k) = Len(wire) + Len(txFifo) + k + 1
    BY <1>2 DEF RingOrder, num
  <2>3. taken = Len(wire) + Len(txFifo) + ring_buffer_num_items(ring)
    BY <1>3 DEF num
  <2>4. txFifo \o Contents(ring) = Numbered(Len(wire), taken)
    <3>1. txFifo \in Seq(Char) /\ ring \in ring_buffer_t /\ Len(wire) \in Nat /\ taken \in Nat
      BY <1>1, <1>2
    <3> QED
      BY ONLY <3>1, <2>1, <2>2, <2>3, PipeIsNumbered
  <2> QED
    BY <2>4 DEF Pipe
<1>5. Len(wire) <= taken
  BY <1>2, <1>3
<1> QED
  BY <1>1, <1>2, <1>4, <1>5

(* The same of the state after a step.                                     *)
LEMMA WhatWaitsNext ==
    ASSUME IInv'
    PROVE  Pipe' = Numbered(Len(wire)', taken') /\ taken' <= MaxBytes
<1>1. /\ ring' \in ring_buffer_t /\ txFifo' \in Seq(Char) /\ wire' \in Seq(Char)
      /\ taken' \in Nat /\ taken' <= MaxBytes
  <2>1. TypeOK'
    BY DEF IInv
  <2>2. base' \in Nat /\ i' \in 0..count' /\ count' \in Nat /\ base' + i' <= MaxBytes
    BY <2>1 DEF TypeOK
  <2>3. base' + i' \in Nat
    <3>1. base' \in Nat /\ i' \in Nat
      BY <2>2
    <3>2. \A m, n \in Nat : m + n \in Nat
      OBVIOUS
    <3> QED
      BY ONLY <3>1, <3>2
  <2> QED
    BY <2>1, <2>2, <2>3 DEF TypeOK, taken
<1>2. /\ Accounted' /\ FifoOrder' /\ RingOrder' /\ Len(wire)' \in Nat
  BY <1>1, InOrderPartsPrimed DEF IInv
<1>3. taken' = Len(wire)' + Len(txFifo)' + num'
  BY <1>2 DEF Accounted, taken
<1>4. Pipe' = Numbered(Len(wire)', taken')
  <2>1. \A k \in 1..Len(txFifo') : txFifo'[k] = Len(wire)' + k
    BY <1>2 DEF FifoOrder
  <2>2. \A k \in 0..(ring_buffer_num_items(ring') - 1) :
            cell(ring', k) = Len(wire)' + Len(txFifo') + k + 1
    BY <1>2 DEF RingOrder, num
  <2>3. taken' = Len(wire)' + Len(txFifo') + ring_buffer_num_items(ring')
    BY <1>3 DEF num
  <2>4. txFifo' \o Contents(ring') = Numbered(Len(wire)', taken')
    BY <1>1, <1>2, <2>1, <2>2, <2>3, PipeIsNumbered
  <2> QED
    BY <2>4 DEF Pipe
<1> QED
  BY <1>1, <1>4

(* A step lets the next byte out, takes a new one, or is not to be seen.   *)
LEMMA WhatAStepDoes ==
    ASSUME IInv, [Next]_vars
    PROVE  \/ /\ taken' = taken /\ txFifo # <<>>
              /\ wire' = Append(wire, Head(txFifo))
           \/ wire' = wire /\ taken' \in {taken, taken + 1}
<1>1. base \in Nat /\ i \in Nat /\ taken \in Nat
  BY DEF IInv, TypeOK, taken
<1>2. CASE shift_out
  BY <1>2 DEF shift_out, locals, taken
<1>3. CASE latch_request \/ uart_tx_hwi_handler \/ UART_send_done \/ UNCHANGED vars
  <2>1. UNCHANGED <<wire, base, i>>
    BY <1>3 DEF latch_request, uart_tx_hwi_handler, tx_hwi_enter, tx_hwi_disable, tx_hwi_move,
                tx_hwi_leave_loop, tx_hwi_exit, UART_send_done, vars, fifo, locals
  <2> QED
    BY <2>1 DEF taken
<1>4. ASSUME NEW n \in Counts, UART_send(n) PROVE wire' = wire /\ taken' = taken
  <2>1. i = 0
    BY <1>4 DEF IInv, Counted, UART_send
  <2> QED
    BY <1>4, <2>1 DEF UART_send, fifo, taken
<1>5. CASE send_status \/ send_choose \/ send_test_full \/ send_put_cell \/ send_loop_end
  <2>1. UNCHANGED <<wire, base, i>>
    BY <1>5 DEF send_status, send_choose, send_test_full, send_put_cell, send_loop_end,
                fifo, locals
  <2> QED
    BY <2>1 DEF taken
<1>6. CASE send_direct \/ send_advance_head
  <2>1. UNCHANGED <<wire, base>> /\ i' = i + 1
    BY <1>6 DEF send_direct, send_advance_head, fifo
  <2> QED
    BY <1>1, <2>1 DEF taken
<1>7. CASE send_return
  <2>1. wire' = wire /\ base' = base + i /\ i' = 0
    BY <1>7 DEF send_return, fifo
  <2> QED
    BY <1>1, <2>1 DEF taken
<1> QED
  BY <1>2, <1>3, <1>4, <1>5, <1>6, <1>7 DEF Next, sendStep

(* A byte shifted out is a Get, a byte UART_send takes a Put, and no       *)
(* other step is to be seen.                                               *)
LEMMA StepRefines ==
    ASSUME IInv, IInv', [Next]_vars
    PROVE  [Abstract!Next]_Abstract!vars
<1> DEFINE sent == Len(wire)
<1>1. /\ Pipe = Numbered(Len(wire), taken) /\ Pipe' = Numbered(Len(wire)', taken')
      /\ Len(wire) \in Nat /\ taken \in Nat /\ Len(wire) <= taken /\ taken' <= MaxBytes
  BY WhatWaits, WhatWaitsNext
<1>2. txFifo \in Seq(Char) /\ wire \in Seq(Char) /\ ring \in ring_buffer_t
  BY DEF IInv, TypeOK
<1>3. CASE wire' = wire /\ taken' = taken
  <2>1. Pipe' = Pipe
    BY <1>1, <1>3
  <2> QED
    BY <1>3, <2>1 DEF Abstract!vars, Pipe
<1>4. CASE wire' = wire /\ taken' = taken + 1
  <2>1. taken + 1 \in Char
    BY <1>1, <1>4
  <2>2. Pipe' = Append(Pipe, taken + 1)
    BY <1>1, <1>4, NumberedFacts
  <2>3. Abstract!Put(taken + 1)
    BY <1>4, <2>2 DEF Abstract!Put, Pipe
  <2> QED
    BY <2>1, <2>3 DEF Abstract!Next
<1>5. CASE taken' = taken /\ txFifo # <<>> /\ wire' = Append(wire, Head(txFifo))
  <2>1. Len(wire)' = Len(wire) + 1 /\ Len(txFifo) > 0 /\ Head(txFifo) = txFifo[1]
    BY <1>2, <1>5
  <2>2. Len(wire) < taken /\ Head(txFifo) = Len(wire) + 1
    <3>1. Accounted /\ FifoOrder /\ Len(txFifo) \in Nat /\ num \in Nat
      BY NumType, InOrderParts DEF IInv
    <3>2. txFifo[1] = Len(wire) + 1
      BY <2>1, <3>1 DEF FifoOrder
    <3>3. taken = Len(wire) + Len(txFifo) + num
      BY <3>1 DEF Accounted, taken
    <3> QED
      BY <1>1, <2>1, <3>1, <3>2, <3>3
  <2>3. Pipe # <<>> /\ Head(Pipe) = Head(txFifo) /\ Tail(Pipe) = Pipe'
    <3>1. /\ Numbered(Len(wire), taken) # <<>>
          /\ Head(Numbered(Len(wire), taken)) = Len(wire) + 1
          /\ Tail(Numbered(Len(wire), taken)) = Numbered(Len(wire) + 1, taken)
      BY <1>1, <2>2, NumberedFacts
    <3>2. Pipe' = Numbered(Len(wire) + 1, taken)
      BY <1>1, <1>5, <2>1
    <3> QED
      BY <1>1, <2>2, <3>1, <3>2
  <2>4. Abstract!Get
    BY <1>5, <2>3 DEF Abstract!Get, Pipe
  <2> QED
    BY <2>4 DEF Abstract!Next
<1> QED
  BY <1>3, <1>4, <1>5, WhatAStepDoes

(* The transmit direction is a byte stream (see ByteStream), whose steps   *)
(* are UART_send taking a byte and the wire letting one out: the FIFO, the *)
(* ring and the interrupt between them are not to be seen. That each byte  *)
(* does come out rests on fairness and is not part of this.                *)
THEOREM SendIsAByteStream == ~Transit => (Spec => Abstract!Spec)
<1>1. CASE Transit
  BY <1>1
<1>2. ASSUME ~Transit PROVE Spec => Abstract!Spec
  <2>1. Init => Abstract!Init
    <3> SUFFICES ASSUME Init PROVE Abstract!Init
      OBVIOUS
    <3>1. /\ wire = <<>> /\ txFifo = <<>>
          /\ ring \in ring_buffer_t /\ ring_buffer_num_items(ring) = 0
      BY InitialRing DEF Init
    <3>2. Contents(ring) \in Seq(Char) /\ Len(Contents(ring)) = 0
      BY <3>1, ContentsFacts
    <3>3. txFifo \o Contents(ring) = <<>>
      BY <3>1, <3>2
    <3> QED
      BY <3>1, <3>3 DEF Abstract!Init
  <2>2. IInv /\ IInv' /\ [Next]_vars => [Abstract!Next]_Abstract!vars
    BY StepRefines
  <2>3. Spec => []IInv
    BY <1>2, IInvAlways
  <2> QED
    BY <2>1, <2>2, <2>3, PTL DEF Spec, Abstract!Spec
<1> QED
  BY <1>1, <1>2
==============================================================================
