----------------------------- MODULE UartRxProofs -----------------------------
(***************************************************************************)
(* Theorems about the receive direction, for every size of the ring and of *)
(* the FIFO, every number of bytes and every window of the sender.         *)
(*                                                                         *)
(* TailNeverPassesHead is inductive with the types: an overwrite moves the *)
(* tail and the head of a full ring together, so the number of bytes the   *)
(* task has seen never falls.  TheNewestAreHeld needs to know that what is *)
(* lost on the way is the oldest: ArrivalOrder.  ExactUnlessRaced follows  *)
(* the whole stream, what the callers have got included: Exact adds that a *)
(* dequeue under way is at the tail still, and that only what has arrived  *)
(* is lost, so that no new byte is lost before it comes.  Lossless says    *)
(* where each unread byte is while nothing is lost, which makes every step *)
(* one of ByteStream.                                                      *)
(***************************************************************************)
EXTENDS UartRx, RingBufferProofs, TLAPS

num == ring_buffer_num_items(ring)

(* What has arrived is in order: in the ring, in the FIFO, and every byte  *)
(* of the ring before every byte of the FIFO.                              *)
RingAscends == \A m, n \in Index : m < n /\ n < num => cell(ring, m) < cell(ring, n)
RingArrived == \A k \in Index : k < num => cell(ring, k) <= arrived
FifoAscends == \A m, n \in 1..Len(rxFifo) : m < n => rxFifo[m] < rxFifo[n]
FifoArrived == \A n \in 1..Len(rxFifo) : rxFifo[n] <= arrived
RingBeforeFifo ==
    \A k \in Index, n \in 1..Len(rxFifo) : k < num => cell(ring, k) < rxFifo[n]

ArrivalOrder ==
    RingAscends /\ RingArrived /\ FifoAscends /\ FifoArrived /\ RingBeforeFifo

IInv == TypeOK /\ TailNeverPassesHead /\ ArrivalOrder /\ TheNewestAreHeld

(* What the two loads of a dequeue have, as long as nothing raced it.      *)
AtTheTail ==
    ~raced => /\ pc = "read" => idx = ring.tail_index
              /\ pc = "advance" => data = oldest_byte(ring)

LostArrived == ~raced => overrun \cup overwritten \subseteq 1..arrived

Exact == ExactUnlessRaced /\ LostArrived /\ AtTheTail

USE SizeAssumption, CharIsNumbered, FifoDepthAssumption, MaxBytesAssumption,
    CountsAssumption

LEMMA NumType ==
    ASSUME TypeOK
    PROVE  /\ num \in Nat /\ num < Size /\ num \in Index
           /\ \A k \in Index : cell(ring, k) \in Nat
  BY NumItems, CellType DEF TypeOK, num, Index

(* The bytes held, by where they are.                                      *)
InRing(r) == {cell(r, k) : k \in 0..(ring_buffer_num_items(r) - 1)}
InFifo(f) == {f[n] : n \in 1..Len(f)}

LEMMA HeldParts == Held = InRing(ring) \cup InFifo(rxFifo)
  BY DEF Held, InRing, InFifo

(* A step that drops at most one byte, older than all it keeps.            *)
LEMMA DropTheOldest ==
    ASSUME TheNewestAreHeld, UNCHANGED <<arrived, overrun>>,
           Held' \subseteq Held,
           NEW o, Held \subseteq Held' \cup {o},
           \A h \in Held' : o < h
    PROVE  TheNewestAreHeld'
<1> SUFFICES ASSUME NEW b \in 1..arrived
             PROVE  b \in Held' \cup overrun \/ \A h \in Held' : b < h
  BY DEF TheNewestAreHeld
<1>1. CASE b \in Held
  BY <1>1
<1>2. CASE b \in overrun
  BY <1>2
<1>3. CASE \A h \in Held : b < h
  BY <1>3
<1> QED
  BY <1>1, <1>2, <1>3 DEF TheNewestAreHeld

LEMMA InitIInv == Init => IInv
<1> SUFFICES ASSUME Init PROVE IInv
  OBVIOUS
<1>1. ring \in ring_buffer_t /\ num = 0
  BY InitialRing DEF Init, num
<1>2. TypeOK
  <2>1. /\ rxFifo = <<>> /\ got = <<>> /\ Len(rxFifo) = 0
        /\ inIsr = FALSE /\ raced = FALSE /\ rxLeft = 0 /\ pc = "idle"
        /\ count = 0 /\ i = 0 /\ idx = 0 /\ data = Zero /\ arrived = 0
        /\ overrun = {} /\ overwritten = {}
    BY DEF Init
  <2>2. rxFifo \in Seq(Char) /\ got \in Seq(Char) /\ idx \in Index /\ arrived \in 0..MaxBytes
    BY <2>1 DEF Index
  <2>3. inIsr \in BOOLEAN /\ raced \in BOOLEAN
    BY <2>1
  <2>4. rxLeft \in Nat /\ rxLeft <= Len(rxFifo) /\ Len(rxFifo) <= FifoDepth
    BY <2>1
  <2>5. /\ pc \in {"idle", "loop", "index", "read", "advance"}
        /\ count \in Nat /\ i \in Nat /\ data \in Char
        /\ overrun \subseteq Char /\ overwritten \subseteq Char
    BY <2>1, ZeroAssumption
  <2> QED
    BY <1>1, <2>2, <2>3, <2>4, <2>5 DEF TypeOK
<1>3. TailNeverPassesHead
  BY DEF Init, TailNeverPassesHead
<1>4. ArrivalOrder
  BY <1>1 DEF Init, ArrivalOrder, RingAscends, RingArrived, FifoAscends, FifoArrived,
              RingBeforeFifo, Index
<1>5. TheNewestAreHeld
  BY DEF Init, TheNewestAreHeld
<1> QED
  BY <1>2, <1>3, <1>4, <1>5 DEF IInv

------------------------------------------------------------------------------
(* The steps that change the ring or the FIFO, one lemma each.             *)

LEMMA ArriveIInv == IInv /\ Arrive => IInv'
<1> SUFFICES ASSUME IInv, Arrive PROVE IInv'
  OBVIOUS
<1> USE DEF IInv
<1>1. TypeOK /\ num \in Nat /\ \A k \in Index : cell(ring, k) \in Nat
  BY NumType
<1>2. /\ rxFifo \in Seq(Char) /\ arrived \in 0..MaxBytes /\ Len(rxFifo) <= FifoDepth
      /\ Len(rxFifo) \in Nat /\ overrun \subseteq Char
      /\ rxLeft \in Nat /\ rxLeft <= Len(rxFifo)
  BY <1>1 DEF TypeOK
<1>3. /\ arrived < MaxBytes /\ arrived' = arrived + 1 /\ ring' = ring
      /\ UNCHANGED <<inIsr, rxLeft, pc, count, i, idx, data, got, overwritten, raced>>
  BY DEF Arrive, isr, task
<1>4. num' = num
  BY <1>3 DEF num
<1> DEFINE new == arrived + 1
<1>5. new \in Char /\ new \in Nat /\ new > arrived /\ arrived' = new
  BY <1>2, <1>3
<1>6. \A n \in 1..Len(rxFifo) : rxFifo[n] \in Nat /\ rxFifo[n] < new
  BY <1>2, <1>5 DEF ArrivalOrder, FifoArrived
<1>7. \A k \in Index : k < num => cell(ring, k) < new
  BY <1>1, <1>2, <1>5 DEF ArrivalOrder, RingArrived
<1> HIDE DEF new
(* The new FIFO: what it holds is the new byte or, shifted or not, the old.*)
<1>8. /\ rxFifo' \in Seq(Char) /\ Len(rxFifo') \in Nat
      /\ Len(rxFifo) <= Len(rxFifo') /\ Len(rxFifo') <= FifoDepth
      /\ overrun' \subseteq Char /\ overrun \subseteq overrun'
      /\ \A n \in 1..Len(rxFifo) : rxFifo[n] \in InFifo(rxFifo') \cup overrun'
      /\ Len(rxFifo') > 0 /\ rxFifo'[Len(rxFifo')] = new
      /\ \E d \in {0, 1} :
            \A n \in 1..(Len(rxFifo') - 1) :
                n + d \in 1..Len(rxFifo) /\ rxFifo'[n] = rxFifo[n + d]
  <2>1. CASE Len(rxFifo) < FifoDepth
    <3>1. rxFifo' = Append(rxFifo, new) /\ overrun' = overrun
      BY <2>1 DEF Arrive, new
    <3>2. /\ rxFifo' \in Seq(Char) /\ Len(rxFifo') = Len(rxFifo) + 1
          /\ rxFifo'[Len(rxFifo')] = new
          /\ \A n \in 1..Len(rxFifo) : rxFifo'[n] = rxFifo[n]
      BY <1>2, <1>5, <3>1
    <3>3. \A n \in 1..(Len(rxFifo') - 1) :
             n + 0 \in 1..Len(rxFifo) /\ rxFifo'[n] = rxFifo[n + 0]
      BY <1>2, <3>2
    <3>4. \A n \in 1..Len(rxFifo) : rxFifo[n] \in InFifo(rxFifo')
      BY <1>2, <3>2 DEF InFifo
    <3> QED
      BY <1>2, <2>1, <3>1, <3>2, <3>3, <3>4
  <2>2. CASE ~(Len(rxFifo) < FifoDepth)
    <3>1. /\ rxFifo' = Append(Tail(rxFifo), new)
          /\ overrun' = overrun \cup {Head(rxFifo)}
      BY <2>2 DEF Arrive, new
    <3>2. Len(rxFifo) > 0 /\ rxFifo # <<>> /\ Len(rxFifo) = FifoDepth
      BY <1>2, <2>2
    <3>3. /\ Head(rxFifo) \in Char /\ Tail(rxFifo) \in Seq(Char)
          /\ Len(Tail(rxFifo)) = Len(rxFifo) - 1
          /\ \A n \in 1..(Len(rxFifo) - 1) : Tail(rxFifo)[n] = rxFifo[n + 1]
      BY <1>2, <3>2
    <3>4. /\ rxFifo' \in Seq(Char) /\ Len(rxFifo') = Len(rxFifo)
          /\ rxFifo'[Len(rxFifo')] = new
          /\ \A n \in 1..(Len(rxFifo) - 1) : rxFifo'[n] = Tail(rxFifo)[n]
      BY <1>2, <1>5, <3>1, <3>3
    <3>5. \A n \in 1..(Len(rxFifo') - 1) :
             n + 1 \in 1..Len(rxFifo) /\ rxFifo'[n] = rxFifo[n + 1]
      BY <1>2, <3>3, <3>4
    <3>6. ASSUME NEW n \in 1..Len(rxFifo)
          PROVE  rxFifo[n] \in InFifo(rxFifo') \cup overrun'
      <4>1. CASE n = 1
        BY <1>2, <3>1, <3>2, <4>1
      <4>2. CASE n # 1
        <5>1. /\ n - 1 \in 1..(Len(rxFifo') - 1) /\ n - 1 \in 1..Len(rxFifo')
              /\ (n - 1) + 1 = n
          BY <1>2, <3>4, <4>2
        <5>2. rxFifo'[n - 1] = rxFifo[n]
          BY <3>5, <5>1
        <5> QED
          BY <5>1, <5>2 DEF InFifo
      <4> QED
        BY <4>1, <4>2
    <3> QED
      BY <1>2, <3>1, <3>2, <3>3, <3>4, <3>5, <3>6
  <2> QED
    BY <2>1, <2>2
<1>9. TypeOK'
  BY <1>1, <1>2, <1>3, <1>5, <1>8 DEF TypeOK
<1>10. TailNeverPassesHead'
  BY <1>3 DEF TailNeverPassesHead
<1>11. RingAscends' /\ RingArrived'
  BY <1>1, <1>2, <1>3, <1>4, <1>5, <1>7 DEF ArrivalOrder, RingAscends, RingArrived
<1>12. FifoAscends' /\ FifoArrived'
  <2>1. PICK d \in {0, 1} : \A n \in 1..(Len(rxFifo') - 1) :
            n + d \in 1..Len(rxFifo) /\ rxFifo'[n] = rxFifo[n + d]
    BY <1>8
  <2>2. \A n \in 1..(Len(rxFifo') - 1) : rxFifo'[n] \in Nat /\ rxFifo'[n] < new
    BY <1>6, <2>1
  <2>3. FifoArrived'
    <3>1. ASSUME NEW n \in 1..Len(rxFifo') PROVE rxFifo'[n] <= new
      <4>1. CASE n = Len(rxFifo')
        BY <1>5, <1>8, <4>1
      <4>2. CASE n # Len(rxFifo')
        <5>1. n \in 1..(Len(rxFifo') - 1)
          BY <1>8, <4>2
        <5> QED
          BY <1>5, <2>2, <5>1
      <4> QED
        BY <4>1, <4>2
    <3> QED
      BY <1>5, <3>1 DEF FifoArrived
  <2>4. ASSUME NEW m \in 1..Len(rxFifo'), NEW n \in 1..Len(rxFifo'), m < n
        PROVE  rxFifo'[m] < rxFifo'[n]
    <3>1. CASE n = Len(rxFifo')
      BY <1>8, <2>2, <2>4, <3>1
    <3>2. CASE n # Len(rxFifo')
      <4>1. m \in 1..(Len(rxFifo') - 1) /\ n \in 1..(Len(rxFifo') - 1)
        BY <1>8, <2>4, <3>2
      <4>2. m + d < n + d
        BY <2>4
      <4> QED
        BY <2>1, <4>1, <4>2 DEF ArrivalOrder, FifoAscends
    <3> QED
      BY <3>1, <3>2
  <2> QED
    BY <2>3, <2>4 DEF FifoAscends
<1>13. RingBeforeFifo'
  <2>1. PICK d \in {0, 1} : \A n \in 1..(Len(rxFifo') - 1) :
            n + d \in 1..Len(rxFifo) /\ rxFifo'[n] = rxFifo[n + d]
    BY <1>8
  <2>2. ASSUME NEW k \in Index, NEW n \in 1..Len(rxFifo'), k < num
        PROVE  cell(ring, k) < rxFifo'[n]
    <3>1. CASE n = Len(rxFifo')
      BY <1>7, <1>8, <2>2, <3>1
    <3>2. CASE n # Len(rxFifo')
      <4>1. n \in 1..(Len(rxFifo') - 1)
        BY <1>8, <3>2
      <4> QED
        BY <2>1, <2>2, <4>1 DEF ArrivalOrder, RingBeforeFifo
    <3> QED
      BY <3>1, <3>2
  <2> QED
    BY <1>3, <1>4, <2>2 DEF RingBeforeFifo
<1>14. TheNewestAreHeld'
  <2>1. PICK d \in {0, 1} : \A n \in 1..(Len(rxFifo') - 1) :
            n + d \in 1..Len(rxFifo) /\ rxFifo'[n] = rxFifo[n + d]
    BY <1>8
  <2>2. Held' = InRing(ring) \cup InFifo(rxFifo')
    BY <1>3, HeldParts DEF Held, InRing, InFifo
  <2>3. new \in Held'
    <3>1. Len(rxFifo') \in 1..Len(rxFifo')
      BY <1>8
    <3> QED
      BY <1>8, <2>2, <3>1 DEF InFifo
  <2>4. Held' \subseteq Held \cup {new}
    <3>1. ASSUME NEW n \in 1..Len(rxFifo')
          PROVE  rxFifo'[n] \in InFifo(rxFifo) \cup {new}
      <4>1. CASE n = Len(rxFifo')
        BY <1>8, <4>1
      <4>2. CASE n # Len(rxFifo')
        <5>1. n \in 1..(Len(rxFifo') - 1)
          BY <1>8, <4>2
        <5> QED
          BY <2>1, <5>1 DEF InFifo
      <4> QED
        BY <4>1, <4>2
    <3>2. InFifo(rxFifo') \subseteq InFifo(rxFifo) \cup {new}
      BY <3>1 DEF InFifo
    <3> QED
      BY <2>2, <3>2, HeldParts
  <2>5. Held \subseteq Held' \cup overrun'
    <3>1. InFifo(rxFifo) \subseteq InFifo(rxFifo') \cup overrun'
      BY <1>8 DEF InFifo
    <3> QED
      BY <2>2, <3>1, HeldParts
  <2>6. ASSUME NEW b \in 1..arrived'
        PROVE  b \in Held' \cup overrun' \/ \A h \in Held' : b < h
    <3>1. CASE b = new
      BY <2>3, <3>1
    <3>2. CASE b # new
      <4>1. b \in 1..arrived /\ b < new
        BY <1>2, <1>3, <1>5, <2>6, <3>2
      <4>2. b \in Held \cup overrun \/ \A h \in Held : b < h
        BY <4>1 DEF TheNewestAreHeld
      <4> QED
        BY <1>8, <2>4, <2>5, <4>1, <4>2
    <3> QED
      BY <3>1, <3>2
  <2> QED
    BY <2>6 DEF TheNewestAreHeld
<1> QED
  BY <1>9, <1>10, <1>11, <1>12, <1>13, <1>14 DEF ArrivalOrder

LEMMA HwiByteIInv == IInv /\ rx_hwi_byte => IInv'
<1> SUFFICES ASSUME IInv, rx_hwi_byte PROVE IInv'
  OBVIOUS
<1> USE DEF IInv
<1> DEFINE new == Head(rxFifo)
           q == ring_buffer_queue(ring, new)
           N == ring_buffer_num_items(q)
<1>1. /\ TypeOK /\ num \in Nat /\ num < Size /\ ring \in ring_buffer_t
      /\ \A k \in Index : cell(ring, k) \in Nat
  BY NumType DEF TypeOK
<1>2. /\ rxFifo \in Seq(Char) /\ arrived \in 0..MaxBytes /\ Len(rxFifo) <= FifoDepth
      /\ rxLeft \in Nat /\ rxLeft <= Len(rxFifo) /\ rxLeft > 0
  BY <1>1 DEF TypeOK, rx_hwi_byte
<1>3. /\ ring' = q /\ rxFifo' = Tail(rxFifo) /\ rxLeft' = rxLeft - 1
      /\ UNCHANGED <<inIsr, pc, count, i, idx, data, arrived, got, overrun>>
  BY DEF rx_hwi_byte, task
<1>4. /\ rxFifo # <<>> /\ Len(rxFifo) > 0
      /\ new \in Char /\ new = rxFifo[1] /\ Tail(rxFifo) \in Seq(Char)
      /\ Len(Tail(rxFifo)) = Len(rxFifo) - 1
      /\ \A n \in 1..(Len(rxFifo) - 1) : Tail(rxFifo)[n] = rxFifo[n + 1]
  BY <1>2
<1>5. new \in Nat /\ new <= arrived
  BY <1>2, <1>4 DEF ArrivalOrder, FifoArrived
<1>6. \A k \in Index : k < num => cell(ring, k) < new
  BY <1>2, <1>4 DEF ArrivalOrder, RingBeforeFifo
<1>7. \A n \in 1..(Len(rxFifo) - 1) : new < rxFifo[n + 1]
  BY <1>2, <1>4 DEF ArrivalOrder, FifoAscends
<1> HIDE DEF new
(* The new ring: its last byte is the new one, the others, shifted or not, *)
(* are the old ones.                                                       *)
<1>8. /\ q \in ring_buffer_t
      /\ N \in Nat /\ N > 0 /\ N < Size
      /\ cell(q, N - 1) = new
      /\ \E e \in {0, 1} :
            /\ (N - 1) + e = num
            /\ \A k \in 0..(N - 2) :
                  k + e \in Index /\ k + e < num /\ cell(q, k) = cell(ring, k + e)
  <2>2. /\ q \in ring_buffer_t
        /\ ring_buffer_is_full(ring) =>
              /\ N = num
              /\ \A k \in 0..(num - 2) : cell(q, k) = cell(ring, k + 1)
              /\ cell(q, num - 1) = new
        /\ ~ring_buffer_is_full(ring) =>
              /\ N = num + 1
              /\ \A k \in 0..(num - 1) : cell(q, k) = cell(ring, k)
              /\ cell(q, num) = new
    BY <1>1, <1>4, Queue DEF num, q
  <2>3. ring_buffer_is_full(ring) <=> num = Size - 1
    BY <1>1, NumItems DEF num
  <2> HIDE DEF q, N
  <2>4. CASE ring_buffer_is_full(ring)
    <3>1. \A k \in 0..(N - 2) :
            k + 1 \in Index /\ k + 1 < num /\ cell(q, k) = cell(ring, k + 1)
      BY <1>1, <2>2, <2>4 DEF Index
    <3>2. (N - 1) + 1 = num
      BY <1>1, <2>2, <2>4
    <3> QED
      BY <1>1, <2>2, <2>3, <2>4, <3>1, <3>2
  <2>5. CASE ~ring_buffer_is_full(ring)
    <3>1. \A k \in 0..(N - 2) :
            k + 0 \in Index /\ k + 0 < num /\ cell(q, k) = cell(ring, k + 0)
      BY <1>1, <2>2, <2>5 DEF Index
    <3>2. N = num + 1 /\ num # Size - 1 /\ cell(q, num) = new
      BY <2>2, <2>3, <2>5
    <3>3. N - 1 = num /\ (N - 1) + 0 = num /\ N \in Nat /\ N > 0 /\ N < Size
      BY <1>1, <3>2
    <3> QED
      BY <2>2, <3>1, <3>2, <3>3
  <2> QED
    BY <2>4, <2>5
<1>a. num' = N
  BY <1>3 DEF num
<1> HIDE DEF q, N
<1>9. PICK e \in {0, 1} :
          /\ (N - 1) + e = num
          /\ \A k \in 0..(N - 2) :
                k + e \in Index /\ k + e < num /\ cell(q, k) = cell(ring, k + e)
  BY <1>8
<1>10. \A k \in Index : k < N - 1 =>
           /\ k + e \in Index /\ k + e < num
           /\ cell(q, k) = cell(ring, k + e)
           /\ cell(q, k) \in Nat /\ cell(q, k) < new
  <2>1. ASSUME NEW k \in Index, k < N - 1
        PROVE  /\ k + e \in Index /\ k + e < num
               /\ cell(q, k) = cell(ring, k + e)
               /\ cell(q, k) \in Nat /\ cell(q, k) < new
    <3>1. N \in Nat /\ N > 0
      BY <1>8
    <3>2. k \in 0..(N - 2)
      BY <2>1, <3>1 DEF Index
    <3>3. k + e \in Index /\ k + e < num /\ cell(q, k) = cell(ring, k + e)
      BY <1>9, <3>2
    <3> QED
      BY <1>1, <1>6, <3>3
  <2> QED
    BY <2>1
<1>11. TypeOK'
  <2>1. oldest_byte(ring) \in Char
    BY <1>1 DEF ring_buffer_t, oldest_byte
  <2>2. overwritten' \subseteq Char /\ raced' \in BOOLEAN
    <3>1. CASE ring_buffer_is_full(ring)
      BY <1>1, <2>1, <3>1 DEF rx_hwi_byte, TypeOK
    <3>2. CASE ~ring_buffer_is_full(ring)
      BY <1>1, <3>2 DEF rx_hwi_byte, TypeOK
    <3> QED
      BY <3>1, <3>2
  <2>3. rxFifo' \in Seq(Char) /\ Len(rxFifo') <= FifoDepth /\ rxLeft' \in Nat /\ rxLeft' <= Len(rxFifo')
    BY <1>2, <1>3, <1>4
  <2> QED
    BY <1>1, <1>3, <1>8, <2>2, <2>3 DEF TypeOK
<1>12. TailNeverPassesHead'
  <2>1. ~ring_buffer_is_empty(ring')
    BY <1>3, <1>8, NumItems DEF N
  <2> QED
    BY <2>1 DEF TailNeverPassesHead
<1>13. RingAscends'
  <2>1. ASSUME NEW m \in Index, NEW n \in Index, m < n, n < N
        PROVE  cell(q, m) < cell(q, n)
    <3>1. CASE n = N - 1
      BY <1>8, <1>10, <2>1, <3>1
    <3>2. CASE n # N - 1
      <4>1. m < N - 1 /\ n < N - 1
        <5>1. N \in Nat /\ m \in Nat /\ n \in Nat
          BY <1>8 DEF Index
        <5> QED
          BY <2>1, <3>2, <5>1
      <4>2. m + e < n + e
        BY <2>1 DEF Index
      <4> QED
        BY <1>10, <4>1, <4>2 DEF ArrivalOrder, RingAscends
    <3> QED
      BY <3>1, <3>2
  <2> QED
    BY <1>3, <1>a, <2>1 DEF RingAscends
<1>14. \A k \in Index : k < N => cell(q, k) \in Nat /\ cell(q, k) <= new
  <2>1. ASSUME NEW k \in Index, k < N
        PROVE  cell(q, k) \in Nat /\ cell(q, k) <= new
    <3>1. CASE k = N - 1
      BY <1>5, <1>8, <3>1
    <3>2. CASE k # N - 1
      <4>1. k < N - 1
        <5>1. N \in Nat /\ k \in Nat
          BY <1>8 DEF Index
        <5> QED
          BY <2>1, <3>2, <5>1
      <4> QED
        BY <1>5, <1>10, <4>1
    <3> QED
      BY <3>1, <3>2
  <2> QED
    BY <2>1
<1>15. RingArrived'
  BY <1>2, <1>3, <1>5, <1>14, <1>a DEF RingArrived
<1>16. FifoAscends' /\ FifoArrived'
  <2>1. \A n \in 1..Len(rxFifo') : n + 1 \in 1..Len(rxFifo) /\ rxFifo'[n] = rxFifo[n + 1]
    BY <1>2, <1>3, <1>4
  <2>2. FifoAscends'
    <3>1. ASSUME NEW m \in 1..Len(rxFifo'), NEW n \in 1..Len(rxFifo'), m < n
          PROVE  rxFifo'[m] < rxFifo'[n]
      <4>1. m + 1 < n + 1
        BY <3>1
      <4> QED
        BY <2>1, <4>1 DEF ArrivalOrder, FifoAscends
    <3> QED
      BY <3>1 DEF FifoAscends
  <2>3. FifoArrived'
    BY <1>3, <2>1 DEF ArrivalOrder, FifoArrived
  <2> QED
    BY <2>2, <2>3
<1>17. RingBeforeFifo'
  <2>1. \A n \in 1..Len(rxFifo') : rxFifo'[n] \in Nat /\ new < rxFifo'[n]
    <3>1. ASSUME NEW n \in 1..Len(rxFifo') PROVE rxFifo'[n] \in Nat /\ new < rxFifo'[n]
      <4>1. n \in 1..(Len(rxFifo) - 1) /\ n + 1 \in 1..Len(rxFifo)
        BY <1>2, <1>3, <1>4
      <4>2. rxFifo'[n] = rxFifo[n + 1] /\ rxFifo[n + 1] \in Nat
        BY <1>2, <1>3, <1>4, <4>1
      <4> QED
        BY <1>7, <4>1, <4>2
    <3> QED
      BY <3>1
  <2> QED
    BY <1>3, <1>5, <1>14, <1>a, <2>1 DEF RingBeforeFifo
<1>18. TheNewestAreHeld'
  <2> DEFINE o == IF e = 0 THEN -1 ELSE cell(ring, 0)
             f == Tail(rxFifo)
  <2>1. Held' = InRing(q) \cup InFifo(f)
    BY <1>3 DEF Held, InRing, InFifo
  <2>2. /\ InRing(q) = {cell(q, k) : k \in 0..(N - 1)}
        /\ InRing(ring) = {cell(ring, k) : k \in 0..(num - 1)}
    BY DEF InRing, N, num
  <2>3. /\ InFifo(f) \subseteq InFifo(rxFifo) /\ new \in InFifo(rxFifo)
        /\ InFifo(rxFifo) \subseteq InFifo(f) \cup {new}
    <3>1. new \in InFifo(rxFifo)
      BY <1>2, <1>4 DEF InFifo
    <3>2. \A n \in 1..Len(f) : n + 1 \in 1..Len(rxFifo) /\ f[n] = rxFifo[n + 1]
      BY <1>2, <1>4
    <3>3. ASSUME NEW n \in 1..Len(rxFifo), n # 1 PROVE rxFifo[n] \in InFifo(f)
      <4>1. n - 1 \in 1..Len(f) /\ (n - 1) + 1 = n
        BY <1>2, <1>4, <3>3
      <4>2. f[n - 1] = rxFifo[n]
        BY <3>2, <4>1
      <4> QED
        BY <4>1, <4>2 DEF InFifo
    <3> QED
      BY <1>4, <3>1, <3>2, <3>3 DEF InFifo
  <2>4. new \in InRing(q)
    <3>1. N - 1 \in 0..(N - 1)
      BY <1>8
    <3> QED
      BY <1>8, <2>2, <3>1
  <2>5. \A k \in 0..(N - 1) : k = N - 1 \/ k \in 0..(N - 2)
    BY <1>8
  <2>6. \A k \in 0..(N - 2) : k + e \in 0..(num - 1)
    BY <1>1, <1>8, <1>9
  <2>7. InRing(q) \subseteq InRing(ring) \cup {new}
    BY <1>8, <1>9, <2>2, <2>5, <2>6
  <2>8. InRing(ring) \subseteq InRing(q) \cup {o}
    <3>1. ASSUME NEW k \in 0..(num - 1) PROVE cell(ring, k) \in InRing(q) \cup {o}
      <4>1. CASE k - e \in 0..(N - 2)
        <5>1. k - e \in 0..(N - 1) /\ (k - e) + e = k
          BY <1>8, <4>1
        <5>2. cell(q, k - e) = cell(ring, k)
          BY <1>9, <4>1, <5>1
        <5> QED
          BY <2>2, <5>1, <5>2
      <4>2. CASE k - e \notin 0..(N - 2)
        <5>1. e = 1 /\ k = 0
          BY <1>1, <1>8, <1>9, <4>2
        <5> QED
          BY <5>1
      <4> QED
        BY <4>1, <4>2
    <3> QED
      BY <2>2, <3>1
  <2>9. \A h \in Held' : o < h
    <3>1. CASE e = 0
      <4>1. Held' \subseteq Nat
        <5>1. Held' \subseteq InRing(ring) \cup InFifo(rxFifo)
          BY <2>1, <2>3, <2>7
        <5>2. InFifo(rxFifo) \subseteq Nat
          BY <1>2 DEF InFifo
        <5>3. InRing(ring) \subseteq Nat
          <6>1. 0..(num - 1) \subseteq Index
            BY <1>1 DEF Index
          <6> QED
            BY <1>1, <2>2, <6>1
        <5> QED
          BY <5>1, <5>2, <5>3
      <4> QED
        BY <3>1, <4>1
    <3>2. CASE e = 1
      <4>1. 0 \in Index /\ 0 < num
        BY <1>1, <1>8, <1>9, <3>2 DEF Index
      <4>2. o = cell(ring, 0) /\ o < new
        BY <1>6, <3>2, <4>1
      <4>3. ASSUME NEW k \in 0..(N - 2) PROVE o < cell(q, k)
        <5>1. k + 1 \in Index /\ k + 1 < num /\ cell(q, k) = cell(ring, k + 1) /\ 0 < k + 1
          BY <1>9, <3>2
        <5> QED
          BY <4>1, <4>2, <5>1 DEF ArrivalOrder, RingAscends
      <4>4. \A h \in InRing(q) : o < h
        BY <1>8, <2>2, <2>5, <4>2, <4>3
      <4>5. \A h \in InFifo(rxFifo) : o < h
        BY <4>1, <4>2 DEF ArrivalOrder, RingBeforeFifo, InFifo
      <4> QED
        BY <2>1, <2>3, <4>4, <4>5
    <3> QED
      BY <3>1, <3>2
  <2>10. Held' \subseteq Held /\ Held \subseteq Held' \cup {o}
    BY <2>1, <2>3, <2>4, <2>7, <2>8, HeldParts
  <2> HIDE DEF o
  <2> QED
    BY <1>3, <2>9, <2>10, DropTheOldest
<1> QED
  BY <1>11, <1>12, <1>13, <1>15, <1>16, <1>17, <1>18 DEF ArrivalOrder

LEMMA DequeueAdvanceIInv == IInv /\ dequeue_advance => IInv'
<1> SUFFICES ASSUME IInv, dequeue_advance PROVE IInv'
  OBVIOUS
<1> USE DEF IInv
<1> DEFINE s == advance_tail(ring)
           N == ring_buffer_num_items(s)
<1>1. /\ TypeOK /\ num \in Nat /\ num < Size /\ ring \in ring_buffer_t
      /\ \A k \in Index : cell(ring, k) \in Nat
  BY NumType DEF TypeOK
<1>2. /\ ring' = s /\ pc' = "loop" /\ i' = i + 1 /\ got' = Append(got, data)
      /\ UNCHANGED <<rxFifo, inIsr, rxLeft, count, idx, data, arrived,
                     overrun, overwritten, raced>>
  BY DEF dequeue_advance, isr
<1>3. num' = N
  BY <1>2 DEF num
<1>4. ~ring_buffer_is_empty(ring)
  BY DEF dequeue_advance, TailNeverPassesHead
<1>5. /\ s \in ring_buffer_t /\ N = num - 1
      /\ \A k \in 0..(num - 2) : cell(s, k) = cell(ring, k + 1)
  BY <1>1, <1>4, AdvanceTail DEF num
<1> HIDE DEF s, N
<1>6. \A k \in Index : k < N =>
          k + 1 \in Index /\ k + 1 < num /\ cell(s, k) = cell(ring, k + 1)
  BY <1>1, <1>5 DEF Index
<1>7. TypeOK'
  <2>1. got' \in Seq(Char) /\ i' \in Nat
    BY <1>1, <1>2 DEF TypeOK
  <2> QED
    BY <1>1, <1>2, <1>5, <2>1 DEF TypeOK
<1>8. TailNeverPassesHead'
  BY <1>2 DEF TailNeverPassesHead
<1>9. RingAscends'
  <2>1. ASSUME NEW m \in Index, NEW n \in Index, m < n, n < N
        PROVE  cell(s, m) < cell(s, n)
    <3>1. m < N /\ m + 1 < n + 1
      BY <1>1, <1>5, <2>1 DEF Index
    <3> QED
      BY <1>6, <2>1, <3>1 DEF ArrivalOrder, RingAscends
  <2> QED
    BY <1>2, <1>3, <2>1 DEF RingAscends
<1>10. RingArrived'
  BY <1>2, <1>3, <1>6 DEF ArrivalOrder, RingArrived
<1>11. FifoAscends' /\ FifoArrived'
  BY <1>2 DEF ArrivalOrder, FifoAscends, FifoArrived
<1>12. RingBeforeFifo'
  BY <1>2, <1>3, <1>6 DEF ArrivalOrder, RingBeforeFifo
<1>13. TheNewestAreHeld'
  <2> DEFINE o == cell(ring, 0)
  <2>1. Held' = InRing(s) \cup InFifo(rxFifo)
    BY <1>2 DEF Held, InRing, InFifo
  <2>2. /\ InRing(s) = {cell(s, k) : k \in 0..(N - 1)}
        /\ InRing(ring) = {cell(ring, k) : k \in 0..(num - 1)}
    BY DEF InRing, N, num
  <2>3. 0 \in Index /\ 0 < num
    BY <1>1, <1>4, NumItems DEF Index, num
  <2>4. \A k \in 0..(N - 1) : k + 1 \in 0..(num - 1) /\ cell(s, k) = cell(ring, k + 1)
    BY <1>1, <1>5
  <2>5. InRing(s) \subseteq InRing(ring)
    BY <2>2, <2>4
  <2>6. ASSUME NEW k \in 0..(num - 1) PROVE cell(ring, k) \in InRing(s) \cup {o}
    <3>1. CASE k = 0
      BY <3>1
    <3>2. CASE k # 0
      <4>1. k - 1 \in 0..(N - 1) /\ (k - 1) + 1 = k
        BY <1>1, <1>5, <3>2
      <4>2. cell(s, k - 1) = cell(ring, k)
        BY <2>4, <4>1
      <4> QED
        BY <2>2, <4>1, <4>2
    <3> QED
      BY <3>1, <3>2
  <2>7. InRing(ring) \subseteq InRing(s) \cup {o}
    BY <2>2, <2>6
  <2>8. \A h \in InRing(s) : o < h
    <3>1. ASSUME NEW k \in 0..(N - 1) PROVE o < cell(s, k)
      <4>1. k + 1 \in Index /\ k + 1 < num /\ 0 < k + 1
        BY <1>1, <2>4 DEF Index
      <4> QED
        BY <2>3, <2>4, <4>1 DEF ArrivalOrder, RingAscends
    <3> QED
      BY <2>2, <3>1
  <2>9. \A h \in InFifo(rxFifo) : o < h
    BY <2>3 DEF ArrivalOrder, RingBeforeFifo, InFifo
  <2>10. Held' \subseteq Held /\ Held \subseteq Held' \cup {o} /\ \A h \in Held' : o < h
    BY <2>1, <2>5, <2>7, <2>8, <2>9, HeldParts
  <2> HIDE DEF o
  <2> QED
    BY <1>2, <2>10, DropTheOldest
<1> QED
  BY <1>7, <1>8, <1>9, <1>10, <1>11, <1>12, <1>13 DEF ArrivalOrder

(* A step that leaves the ring, the FIFO and what has arrived as they are. *)
LEMMA SameOrder ==
    ArrivalOrder /\ TheNewestAreHeld /\ UNCHANGED <<ring, rxFifo, arrived, overrun>>
        => ArrivalOrder' /\ TheNewestAreHeld'
  BY DEF ArrivalOrder, RingAscends, RingArrived, FifoAscends, FifoArrived,
         RingBeforeFifo, num, TheNewestAreHeld, Held

LEMMA NextIInv == IInv /\ [Next]_vars => IInv'
<1> SUFFICES ASSUME IInv, [Next]_vars PROVE IInv'
  OBVIOUS
<1> USE DEF IInv
<1>1. CASE Arrive
  BY <1>1, ArriveIInv
<1>2. CASE rx_hwi_enter
  <2>1. TypeOK'
    BY <1>2 DEF rx_hwi_enter, TypeOK, task, history
  <2>2. TailNeverPassesHead'
    BY <1>2 DEF rx_hwi_enter, TailNeverPassesHead, task
  <2> QED
    BY <1>2, <2>1, <2>2, SameOrder DEF rx_hwi_enter, history
<1>3. CASE rx_hwi_byte
  BY <1>3, HwiByteIInv
<1>4. CASE rx_hwi_exit
  <2>1. TypeOK'
    BY <1>4 DEF rx_hwi_exit, TypeOK, task, history
  <2>2. TailNeverPassesHead'
    BY <1>4 DEF rx_hwi_exit, TailNeverPassesHead, task
  <2> QED
    BY <1>4, <2>1, <2>2, SameOrder DEF rx_hwi_exit, history
<1>5. ASSUME NEW n \in Counts, UART_receive(n) PROVE IInv'
  <2>1. TypeOK'
    BY <1>5 DEF UART_receive, TypeOK, isr, history
  <2>2. TailNeverPassesHead'
    BY <1>5 DEF UART_receive, TailNeverPassesHead
  <2> QED
    BY <1>5, <2>1, <2>2, SameOrder DEF UART_receive, history
<1>6. CASE receive_loop
  <2>1. TypeOK'
    BY <1>6 DEF receive_loop, TypeOK, isr, history
  <2>2. TailNeverPassesHead'
    BY <1>6 DEF receive_loop, TailNeverPassesHead
  <2> QED
    BY <1>6, <2>1, <2>2, SameOrder DEF receive_loop, history
<1>7. CASE dequeue_index
  <2>1. TypeOK'
    <3>1. ring.tail_index \in Index
      BY DEF TypeOK, ring_buffer_t
    <3> QED
      BY <1>7, <3>1 DEF dequeue_index, TypeOK, isr, history
  <2>2. TailNeverPassesHead'
    BY <1>7 DEF dequeue_index, TailNeverPassesHead
  <2> QED
    BY <1>7, <2>1, <2>2, SameOrder DEF dequeue_index, history
<1>8. CASE dequeue_read
  <2>1. TypeOK'
    <3>1. ring.pBuffer[idx] \in Char
      BY DEF TypeOK, ring_buffer_t
    <3> QED
      BY <1>8, <3>1 DEF dequeue_read, TypeOK, isr, history
  <2>2. TailNeverPassesHead'
    BY <1>8 DEF dequeue_read, TailNeverPassesHead
  <2> QED
    BY <1>8, <2>1, <2>2, SameOrder DEF dequeue_read, history
<1>9. CASE dequeue_advance
  BY <1>9, DequeueAdvanceIInv
<1>10. CASE UNCHANGED vars
  <2>1. TypeOK' /\ TailNeverPassesHead'
    BY <1>10 DEF TypeOK, TailNeverPassesHead, vars, isr, task, history
  <2> QED
    BY <1>10, <2>1, SameOrder DEF vars, history
<1> QED
  BY <1>1, <1>2, <1>3, <1>4, <1>5, <1>6, <1>7, <1>8, <1>9, <1>10
     DEF Next, uart_rx_hwi_handler, taskStep

------------------------------------------------------------------------------
(* The stream: sequences that ascend, and what the steps do to them.       *)

Ascends(s) == \A m, n \in 1..Len(s) : m < n => s[m] < s[n]
Items(s) == {s[n] : n \in 1..Len(s)}

(* The stream of what was got, a ring and a FIFO.                          *)
Joined(g, r, f) == g \o Contents(r) \o f

LEMMA NewestAppended ==
    ASSUME NEW s \in Seq(Nat), Ascends(s), NEW c \in Nat,
           \A n \in 1..Len(s) : s[n] < c,
           NEW t \in Seq(Nat), Len(t) = Len(s) + 1, t[Len(t)] = c,
           \A n \in 1..Len(s) : t[n] = s[n]
    PROVE  Ascends(t) /\ Items(t) = Items(s) \cup {c}
<1>1. Len(s) \in Nat /\ Len(t) \in 1..Len(t)
  OBVIOUS
<1>2. \A n \in 1..Len(t) : n \in 1..Len(s) \/ n = Len(t)
  BY <1>1
<1>3. ASSUME NEW m \in 1..Len(t), NEW n \in 1..Len(t), m < n PROVE t[m] < t[n]
  <2>1. m \in 1..Len(s)
    <3>1. m \in 1..Len(t) /\ n \in 1..Len(t) /\ m < n /\ Len(t) = Len(s) + 1
      BY <1>3
    <3> QED
      BY ONLY <1>1, <3>1
  <2> QED
    BY <1>2, <1>3, <2>1 DEF Ascends
<1>4. Items(t) \subseteq Items(s) \cup {c}
  BY <1>2 DEF Items
<1>5. \A n \in 1..Len(s) : n \in 1..Len(t)
  BY <1>1
<1>6. Items(s) \cup {c} \subseteq Items(t)
  BY <1>1, <1>5 DEF Items
<1> QED
  BY <1>3, <1>4, <1>6 DEF Ascends

LEMMA OneDropped ==
    ASSUME NEW s \in Seq(Nat), Ascends(s), NEW p \in 1..Len(s),
           NEW t \in Seq(Nat), Len(t) = Len(s) - 1,
           \A n \in 1..Len(t) : t[n] = IF n < p THEN s[n] ELSE s[n + 1]
    PROVE  Ascends(t) /\ Items(t) = Items(s) \ {s[p]}
<1>1. Len(s) \in Nat /\ \A n \in 1..Len(s) : s[n] \in Nat
  OBVIOUS
<1>2. \A m, n \in 1..Len(s) : m # n => s[m] # s[n]
  BY <1>1 DEF Ascends
<1>3. ASSUME NEW m \in 1..Len(t), NEW n \in 1..Len(t), m < n PROVE t[m] < t[n]
  <2> DEFINE a == IF m < p THEN m ELSE m + 1
             b == IF n < p THEN n ELSE n + 1
  <2>1. a \in 1..Len(s) /\ b \in 1..Len(s) /\ a < b
    <3>1. /\ m \in 1..Len(t) /\ n \in 1..Len(t) /\ m < n
          /\ Len(t) = Len(s) - 1 /\ p \in 1..Len(s) /\ Len(s) \in Nat
      BY <1>1, <1>3
    <3> QED
      BY ONLY <3>1
  <2>2. t[m] = s[a] /\ t[n] = s[b]
    OBVIOUS
  <2> HIDE DEF a, b
  <2> QED
    BY <2>1, <2>2 DEF Ascends
<1>4. ASSUME NEW n \in 1..Len(t) PROVE t[n] \in Items(s) \ {s[p]}
  <2> DEFINE a == IF n < p THEN n ELSE n + 1
  <2>1. a \in 1..Len(s) /\ a # p
    BY <1>1
  <2>2. t[n] = s[a]
    OBVIOUS
  <2> HIDE DEF a
  <2> QED
    BY <1>2, <2>1, <2>2 DEF Items
<1>5. ASSUME NEW n \in 1..Len(s), n # p PROVE s[n] \in Items(t)
  <2>1. PICK k \in 1..Len(t) : n = IF k < p THEN k ELSE k + 1
    <3>1. CASE n < p
      <4>1. n \in 1..Len(t)
        BY <1>1, <3>1
      <4> QED
        BY <3>1, <4>1
    <3>2. CASE ~(n < p)
      <4>1. n - 1 \in 1..Len(t) /\ ~(n - 1 < p) /\ n = (n - 1) + 1
        BY <1>1, <1>5, <3>2
      <4> QED
        BY <4>1
    <3> QED
      BY <3>1, <3>2
  <2>2. t[k] = s[n]
    BY <2>1
  <2> QED
    BY <2>2 DEF Items
<1> QED
  BY <1>3, <1>4, <1>5 DEF Ascends, Items

(* Where the n-th of the stream is.                                        *)
Entry(g, r, f, n) ==
    IF n <= Len(g) THEN g[n]
    ELSE IF n <= Len(g) + ring_buffer_num_items(r) THEN cell(r, n - Len(g) - 1)
    ELSE f[n - Len(g) - ring_buffer_num_items(r)]

LEMMA Concatenated ==
    ASSUME NEW S, NEW x \in Seq(S), NEW y \in Seq(S)
    PROVE  /\ x \o y \in Seq(S) /\ Len(x \o y) = Len(x) + Len(y)
           /\ \A n \in 1..(Len(x) + Len(y)) :
                 (x \o y)[n] = IF n <= Len(x) THEN x[n] ELSE y[n - Len(x)]
OBVIOUS

LEMMA StreamAt ==
    ASSUME NEW g \in Seq(Char), NEW r \in ring_buffer_t, NEW f \in Seq(Char)
    PROVE  /\ Joined(g, r, f) \in Seq(Nat)
           /\ Len(Joined(g, r, f)) = Len(g) + ring_buffer_num_items(r) + Len(f)
           /\ \A n \in 1..Len(Joined(g, r, f)) : Joined(g, r, f)[n] = Entry(g, r, f, n)
<1> DEFINE N == ring_buffer_num_items(r)
           c == Contents(r)
           gc == g \o c
           s == gc \o f
<1>1. N \in Nat /\ N < Size /\ \A k \in Index : cell(r, k) \in Char
  BY NumItems, CellType DEF Index
<1>2. c = [k \in 1..N |-> cell(r, k - 1)]
  BY DEF Contents
<1>0. Joined(g, r, f) = s
  BY DEF Joined
<1>b. Len(g) \in Nat /\ Len(f) \in Nat
  OBVIOUS
<1> HIDE DEF N, c
<1>3. \A k \in 1..N : cell(r, k - 1) \in Char
  <2>1. ASSUME NEW k \in 1..N PROVE k - 1 \in Index
    BY <1>1 DEF Index
  <2> QED
    BY <1>1, <2>1
<1>4. c \in Seq(Char) /\ Len(c) = N /\ \A k \in 1..N : c[k] = cell(r, k - 1)
  BY <1>1, <1>2, <1>3
<1>5. /\ gc \in Seq(Char) /\ Len(gc) = Len(g) + N
      /\ \A n \in 1..(Len(g) + N) : gc[n] = IF n <= Len(g) THEN g[n] ELSE c[n - Len(g)]
  BY <1>4, Concatenated
<1> HIDE DEF gc
<1>6. /\ s \in Seq(Char) /\ Len(s) = Len(g) + N + Len(f)
      /\ \A n \in 1..(Len(g) + N + Len(f)) :
            s[n] = IF n <= Len(g) + N THEN gc[n] ELSE f[n - (Len(g) + N)]
  <2>1. /\ s \in Seq(Char) /\ Len(s) = Len(gc) + Len(f)
        /\ \A n \in 1..(Len(gc) + Len(f)) :
              s[n] = IF n <= Len(gc) THEN gc[n] ELSE f[n - Len(gc)]
    BY <1>5, Concatenated
  <2>2. Len(gc) = Len(g) + N
    BY <1>5
  <2> HIDE DEF s
  <2> QED
    BY ONLY <2>1, <2>2
<1> HIDE DEF s
<1>7. ASSUME NEW n \in 1..(Len(g) + N + Len(f))
      PROVE  s[n] = IF n <= Len(g) THEN g[n]
                    ELSE IF n <= Len(g) + N THEN cell(r, n - Len(g) - 1)
                    ELSE f[n - Len(g) - N]
  <2>1. CASE n <= Len(g)
    <3>1. n \in 1..(Len(g) + N) /\ n <= Len(g) + N
      BY <1>1, <1>b, <2>1
    <3>2. s[n] = gc[n] /\ gc[n] = g[n]
      BY <1>5, <1>6, <2>1, <3>1
    <3> QED
      BY <2>1, <3>2
  <2>2. CASE n > Len(g) /\ n <= Len(g) + N
    <3>1. n - Len(g) \in 1..N
      BY <1>1, <1>b, <2>2
    <3>2. s[n] = c[n - Len(g)]
      BY <1>1, <1>b, <1>5, <1>6, <2>2
    <3> QED
      BY <1>1, <1>b, <1>4, <2>2, <3>1, <3>2
  <2>3. CASE n > Len(g) + N
    <3>1. n - (Len(g) + N) = n - Len(g) - N
      BY <1>1, <1>b
    <3> QED
      BY <1>1, <1>b, <1>6, <2>3, <3>1
  <2> QED
    BY <1>1, <1>b, <2>1, <2>2, <2>3
<1>8. s \in Seq(Nat)
  BY <1>6
<1> QED
  BY <1>0, <1>6, <1>7, <1>8 DEF N, Entry

(* Exactness, of the stream as a sequence, before and after a step.        *)
LEMMA ExactStream ==
    /\ ExactUnlessRaced <=>
           (~raced => /\ Ascends(Joined(got, ring, rxFifo))
                      /\ Items(Joined(got, ring, rxFifo)) =
                             (1..arrived) \ (overrun \cup overwritten))
    /\ ExactUnlessRaced' <=>
           (~raced' => /\ Ascends(Joined(got', ring', rxFifo'))
                       /\ Items(Joined(got', ring', rxFifo')) =
                              (1..arrived') \ (overrun' \cup overwritten'))
  BY DEF ExactUnlessRaced, Stream, Joined, Ascends, Items

LEMMA InitExact == Init => Exact
<1> SUFFICES ASSUME Init PROVE Exact
  OBVIOUS
<1>1. /\ got = <<>> /\ rxFifo = <<>> /\ arrived = 0 /\ overrun = {} /\ overwritten = {}
      /\ pc = "idle"
  BY DEF Init
<1>2. ring \in ring_buffer_t /\ ring_buffer_num_items(ring) = 0
  BY InitialRing DEF Init
<1>3. got \in Seq(Char) /\ rxFifo \in Seq(Char) /\ Len(got) = 0 /\ Len(rxFifo) = 0
  BY <1>1
<1>4. Len(Joined(got, ring, rxFifo)) = 0
  <2>1. got \in Seq(Char) /\ rxFifo \in Seq(Char) /\ ring \in ring_buffer_t
    BY <1>2, <1>3
  <2>2. Len(Joined(got, ring, rxFifo)) = Len(got) + ring_buffer_num_items(ring) + Len(rxFifo)
    BY ONLY <2>1, StreamAt
  <2> QED
    BY <1>2, <1>3, <2>2
<1>5. Ascends(Joined(got, ring, rxFifo)) /\ Items(Joined(got, ring, rxFifo)) = {}
  BY <1>4 DEF Ascends, Items
<1>6. ExactUnlessRaced
  BY <1>1, <1>5, ExactStream
<1> QED
  BY <1>1, <1>6 DEF Exact, LostArrived, AtTheTail

(* What the stream is before a step, as long as nothing raced.             *)
LEMMA StreamNow ==
    ASSUME IInv, Exact
    PROVE  LET s == Joined(got, ring, rxFifo)
           IN  /\ s \in Seq(Nat) /\ Len(s) = Len(got) + num + Len(rxFifo)
               /\ Len(got) \in Nat /\ num \in Nat /\ Len(rxFifo) \in Nat
               /\ \A n \in 1..Len(s) : s[n] = Entry(got, ring, rxFifo, n)
               /\ ~raced => /\ Ascends(s)
                            /\ Items(s) = (1..arrived) \ (overrun \cup overwritten)
                            /\ \A n \in 1..Len(s) : s[n] <= arrived
                            /\ overrun \cup overwritten \subseteq 1..arrived
<1> DEFINE s == Joined(got, ring, rxFifo)
<1>1. /\ rxFifo \in Seq(Char) /\ got \in Seq(Char) /\ ring \in ring_buffer_t
      /\ arrived \in Nat /\ num \in Nat
  BY NumType DEF IInv, TypeOK
<1>2. Len(got) \in Nat /\ Len(rxFifo) \in Nat
  BY <1>1
<1>3. /\ s \in Seq(Nat) /\ Len(s) = Len(got) + num + Len(rxFifo)
      /\ \A n \in 1..Len(s) : s[n] = Entry(got, ring, rxFifo, n)
  BY <1>1, StreamAt DEF num
<1>4. ~raced => /\ Ascends(s)
                /\ Items(s) = (1..arrived) \ (overrun \cup overwritten)
                /\ overrun \cup overwritten \subseteq 1..arrived
  BY ExactStream DEF Exact, LostArrived
<1> HIDE DEF s
<1>5. ~raced => \A n \in 1..Len(s) : s[n] <= arrived
  <2>1. \A n \in 1..Len(s) : s[n] \in Items(s)
    BY DEF Items
  <2> QED
    BY <1>1, <1>4, <2>1
<1> QED
  BY <1>1, <1>2, <1>3, <1>4, <1>5 DEF s

LEMMA ArriveExact == IInv /\ Exact /\ Arrive => Exact'
<1> SUFFICES ASSUME IInv, Exact, Arrive PROVE Exact'
  OBVIOUS
<1> DEFINE new == arrived + 1
           s == Joined(got, ring, rxFifo)
           t == Joined(got, ring, rxFifo')
<1>1. /\ rxFifo \in Seq(Char) /\ got \in Seq(Char) /\ ring \in ring_buffer_t
      /\ arrived \in 0..MaxBytes /\ arrived \in Nat
  BY DEF IInv, TypeOK
<1>2. /\ arrived < MaxBytes /\ arrived' = new /\ new \in Char /\ new \in Nat
      /\ ring' = ring /\ pc' = pc /\ idx' = idx /\ data' = data
      /\ UNCHANGED <<got, overwritten, raced>>
  BY <1>1 DEF Arrive, task
<1>3. AtTheTail'
  BY <1>2 DEF Exact, AtTheTail
<1>4. SUFFICES ASSUME ~raced
               PROVE  ExactUnlessRaced' /\ LostArrived'
  BY <1>2, <1>3 DEF Exact, ExactUnlessRaced, LostArrived
<1>5. /\ s \in Seq(Nat) /\ Len(s) = Len(got) + num + Len(rxFifo)
      /\ Len(got) \in Nat /\ num \in Nat /\ Len(rxFifo) \in Nat
      /\ \A n \in 1..Len(s) : s[n] = Entry(got, ring, rxFifo, n)
      /\ Ascends(s) /\ \A n \in 1..Len(s) : s[n] <= arrived
      /\ Items(s) = (1..arrived) \ (overrun \cup overwritten)
      /\ overrun \cup overwritten \subseteq 1..arrived
  BY <1>4, StreamNow
<1>6. rxFifo' \in Seq(Char) =>
          /\ t \in Seq(Nat) /\ Len(t) = Len(got) + num + Len(rxFifo')
          /\ \A n \in 1..Len(t) : t[n] = Entry(got, ring, rxFifo', n)
  BY <1>1, StreamAt DEF num
<1>7. Joined(got', ring', rxFifo') = t
  BY <1>2
<1> HIDE DEF s, t
<1>8. CASE Len(rxFifo) < FifoDepth
  <2>1. rxFifo' = Append(rxFifo, new) /\ overrun' = overrun
    BY <1>8 DEF Arrive
  <2>2. /\ rxFifo' \in Seq(Char) /\ Len(rxFifo') = Len(rxFifo) + 1
        /\ rxFifo'[Len(rxFifo')] = new
        /\ \A n \in 1..Len(rxFifo) : rxFifo'[n] = rxFifo[n]
    BY <1>1, <1>2, <2>1
  <2>3. t \in Seq(Nat) /\ Len(t) = Len(s) + 1
    BY <1>5, <1>6, <2>2
  <2>4. t[Len(t)] = new
    <3>1. Len(t) \in 1..Len(t) /\ Len(t) - Len(got) - num = Len(rxFifo')
      BY <1>5, <2>2, <2>3
    <3>2. ~(Len(t) <= Len(got) + num) /\ ~(Len(t) <= Len(got))
      BY <1>5, <2>3
    <3> QED
      BY <1>6, <2>2, <3>1, <3>2 DEF Entry, num
  <2>5. ASSUME NEW n \in 1..Len(s) PROVE t[n] = s[n]
    <3>1. n \in 1..Len(t)
      BY <1>5, <2>3
    <3>2. ~(n <= Len(got) + num) => n - Len(got) - num \in 1..Len(rxFifo)
      BY <1>5
    <3> QED
      BY <1>5, <1>6, <2>2, <3>1, <3>2 DEF Entry, num
  <2>6. \A n \in 1..Len(s) : s[n] < new
    BY <1>1, <1>5
  <2>7. Ascends(t) /\ Items(t) = Items(s) \cup {new}
    BY <1>2, <1>5, <2>3, <2>4, <2>5, <2>6, NewestAppended
  <2>8. Items(t) = (1..new) \ (overrun \cup overwritten)
    BY <1>1, <1>5, <2>7
  <2>9. overrun \cup overwritten \subseteq 1..new
    BY <1>1, <1>5
  <2> QED
    BY <1>2, <1>7, <2>1, <2>7, <2>8, <2>9, ExactStream DEF LostArrived
<1>9. CASE ~(Len(rxFifo) < FifoDepth)
  <2> DEFINE f == Tail(rxFifo)
             o == Head(rxFifo)
             u == Joined(got, ring, f)
             p == Len(got) + num + 1
  <2>1. rxFifo' = Append(f, new) /\ overrun' = overrun \cup {o}
    BY <1>9 DEF Arrive
  <2>2. /\ o = rxFifo[1] /\ f \in Seq(Char)
        /\ Len(f) = Len(rxFifo) - 1 /\ Len(rxFifo) > 0
        /\ \A n \in 1..Len(f) : f[n] = rxFifo[n + 1]
    <3>1. Len(rxFifo) > 0 /\ rxFifo # <<>>
      BY <1>5, <1>9
    <3> QED
      BY <1>1, <3>1
  <2>3. /\ u \in Seq(Nat) /\ Len(u) = Len(got) + num + Len(f)
        /\ \A n \in 1..Len(u) : u[n] = Entry(got, ring, f, n)
    BY <1>1, <2>2, StreamAt DEF num
  <2> HIDE DEF f, o, u, p
  <2>4. p \in 1..Len(s) /\ s[p] = o /\ Len(u) = Len(s) - 1
    <3>1. p \in 1..Len(s) /\ ~(p <= Len(got) + num) /\ ~(p <= Len(got)) /\ p - Len(got) - num = 1
      BY <1>5, <2>2 DEF p
    <3>2. s[p] = rxFifo[p - Len(got) - num]
      BY <1>5, <3>1 DEF Entry, num
    <3>3. Len(u) = Len(s) - 1
      BY <1>5, <2>2, <2>3
    <3> QED
      BY <2>2, <3>1, <3>2, <3>3
  <2>5. ASSUME NEW n \in 1..Len(u)
        PROVE  u[n] = IF n < p THEN s[n] ELSE s[n + 1]
    <3>1. n \in 1..Len(s) /\ n + 1 \in 1..Len(s)
      BY <1>5, <2>4
    <3>2. CASE n < p
      <4>1. n <= Len(got) + num
        BY <1>5, <3>2 DEF p
      <4> QED
        BY <1>5, <2>3, <3>1, <3>2, <4>1 DEF Entry, num
    <3>3. CASE ~(n < p)
      <4>1. /\ ~(n <= Len(got) + num) /\ ~(n <= Len(got))
            /\ ~(n + 1 <= Len(got) + num) /\ ~(n + 1 <= Len(got))
            /\ n - Len(got) - num \in 1..Len(f)
            /\ (n + 1) - Len(got) - num = (n - Len(got) - num) + 1
        <5>1. Len(u) = Len(got) + num + Len(f) /\ Len(f) = Len(rxFifo) - 1
          BY <2>2, <2>3
        <5>2. n \in 1..Len(u) /\ n >= Len(got) + num + 1
          BY <1>5, <3>3, <5>1 DEF p
        <5>3. Len(got) \in Nat /\ num \in Nat /\ Len(rxFifo) \in Nat
          BY <1>5
        <5> HIDE DEF num
        <5> QED
          BY <5>1, <5>2, <5>3
      <4>2. u[n] = f[n - Len(got) - num] /\ s[n + 1] = rxFifo[(n + 1) - Len(got) - num]
        BY <1>5, <2>3, <3>1, <4>1 DEF Entry, num
      <4> QED
        BY <2>2, <3>3, <4>1, <4>2
    <3> QED
      BY <3>2, <3>3
  <2>6. Ascends(u) /\ Items(u) = Items(s) \ {o}
    BY <1>5, <2>3, <2>4, <2>5, OneDropped
  <2>7. o \in 1..arrived /\ o \in Nat
    <3>1. o \in Items(s)
      BY <2>4 DEF Items
    <3> QED
      BY <1>5, <3>1
  <2>8. /\ rxFifo' \in Seq(Char) /\ Len(rxFifo') = Len(f) + 1
        /\ rxFifo'[Len(rxFifo')] = new
        /\ \A n \in 1..Len(f) : rxFifo'[n] = f[n]
    BY <1>1, <1>2, <2>1, <2>2
  <2>9. t \in Seq(Nat) /\ Len(t) = Len(u) + 1 /\ Len(f) \in Nat
    BY <1>5, <1>6, <2>2, <2>3, <2>8
  <2>10. t[Len(t)] = new
    <3>1. Len(t) \in 1..Len(t) /\ Len(t) - Len(got) - num = Len(rxFifo')
      BY <1>5, <2>3, <2>8, <2>9
    <3>2. ~(Len(t) <= Len(got) + num) /\ ~(Len(t) <= Len(got))
      BY <1>5, <2>3, <2>9
    <3> QED
      BY <1>6, <2>8, <3>1, <3>2 DEF Entry, num
  <2>11. ASSUME NEW n \in 1..Len(u) PROVE t[n] = u[n]
    <3>1. n \in 1..Len(t)
      BY <2>3, <2>9
    <3>2. ~(n <= Len(got) + num) => n - Len(got) - num \in 1..Len(f)
      BY <1>5, <2>3, <2>9
    <3> QED
      BY <1>5, <1>6, <2>3, <2>8, <3>1, <3>2 DEF Entry, num
  <2>12. \A n \in 1..Len(u) : u[n] < new
    <3>1. \A n \in 1..Len(u) : u[n] \in Items(s)
      BY <2>6 DEF Items
    <3> QED
      BY <1>1, <1>5, <3>1
  <2>13. Ascends(t) /\ Items(t) = Items(u) \cup {new}
    BY <1>2, <2>3, <2>6, <2>9, <2>10, <2>11, <2>12, NewestAppended
  <2>14. Items(t) = (1..new) \ (overrun' \cup overwritten)
    <3>1. 1..new = (1..arrived) \cup {new} /\ new \notin 1..arrived
      BY <1>1
    <3>2. overrun \cup overwritten \subseteq 1..arrived
      BY <1>5
    <3>3. Items(t) = (((1..arrived) \ (overrun \cup overwritten)) \ {o}) \cup {new}
      BY <1>5, <2>6, <2>13
    <3> HIDE DEF new
    <3> QED
      BY <2>1, <2>7, <3>1, <3>2, <3>3
  <2>15. overrun' \cup overwritten \subseteq 1..new
    BY <1>1, <1>5, <2>1, <2>7
  <2> QED
    BY <1>2, <1>7, <2>13, <2>14, <2>15, ExactStream DEF LostArrived
<1> QED
  BY <1>8, <1>9

(* A step that leaves the stream as it is, and the marks of what is lost.  *)
LEMMA SameStream ==
    ASSUME IInv, Exact, UNCHANGED <<arrived, overrun, overwritten, raced>>,
           got' \in Seq(Char), ring' \in ring_buffer_t, rxFifo' \in Seq(Char),
           Len(got') + num' + Len(rxFifo') = Len(got) + num + Len(rxFifo),
           ~raced => \A n \in 1..(Len(got) + num + Len(rxFifo)) :
              Entry(got', ring', rxFifo', n) = Entry(got, ring, rxFifo, n)
    PROVE  ExactUnlessRaced' /\ LostArrived'
<1> DEFINE s == Joined(got, ring, rxFifo)
           t == Joined(got', ring', rxFifo')
<1>1. SUFFICES ASSUME ~raced PROVE ExactUnlessRaced' /\ LostArrived'
  BY DEF Exact, ExactUnlessRaced, LostArrived
<1>2. /\ s \in Seq(Nat) /\ Len(s) = Len(got) + num + Len(rxFifo)
      /\ \A n \in 1..Len(s) : s[n] = Entry(got, ring, rxFifo, n)
      /\ Ascends(s) /\ Items(s) = (1..arrived) \ (overrun \cup overwritten)
      /\ overrun \cup overwritten \subseteq 1..arrived
  BY <1>1, StreamNow
<1>3. /\ t \in Seq(Nat) /\ Len(t) = Len(got') + num' + Len(rxFifo')
      /\ \A n \in 1..Len(t) : t[n] = Entry(got', ring', rxFifo', n)
  BY StreamAt DEF num
<1> HIDE DEF s, t
<1>4. Len(t) = Len(s) /\ \A n \in 1..Len(s) : t[n] = s[n]
  BY <1>1, <1>2, <1>3
<1>5. Ascends(t) /\ Items(t) = Items(s)
  BY <1>2, <1>4 DEF Ascends, Items
<1> QED
  BY <1>2, <1>5, ExactStream DEF s, t, LostArrived

LEMMA HwiByteExact == IInv /\ Exact /\ rx_hwi_byte => Exact'
<1> SUFFICES ASSUME IInv, Exact, rx_hwi_byte PROVE Exact'
  OBVIOUS
<1> DEFINE new == Head(rxFifo)
           f == Tail(rxFifo)
           q == ring_buffer_queue(ring, new)
           N == ring_buffer_num_items(q)
           s == Joined(got, ring, rxFifo)
           t == Joined(got, q, f)
<1>1. /\ rxFifo \in Seq(Char) /\ got \in Seq(Char) /\ ring \in ring_buffer_t
      /\ num \in Nat /\ Len(got) \in Nat /\ Len(rxFifo) \in Nat /\ Len(rxFifo) > 0
      /\ arrived \in Nat /\ num < Size
  BY NumType DEF IInv, TypeOK, rx_hwi_byte
<1>2. /\ new \in Char /\ new = rxFifo[1] /\ f \in Seq(Char)
      /\ Len(f) = Len(rxFifo) - 1
      /\ \A n \in 1..Len(f) : f[n] = rxFifo[n + 1]
  <2>1. rxFifo # <<>>
    BY <1>1
  <2> QED
    BY <1>1, <2>1
<1>3. /\ ring' = q /\ rxFifo' = f
      /\ UNCHANGED <<pc, idx, data, arrived, got, overrun>>
  BY DEF rx_hwi_byte, task
<1>4. num' = N
  BY <1>3 DEF num
<1>5. /\ q \in ring_buffer_t
      /\ ring_buffer_is_full(ring) =>
            /\ N = num
            /\ \A k \in 0..(num - 2) : cell(q, k) = cell(ring, k + 1)
            /\ cell(q, num - 1) = new
      /\ ~ring_buffer_is_full(ring) =>
            /\ N = num + 1
            /\ \A k \in 0..(num - 1) : cell(q, k) = cell(ring, k)
            /\ cell(q, num) = new
  BY <1>1, <1>2, Queue DEF num
<1>6. ~ring_buffer_is_full(ring) => q.tail_index = ring.tail_index
  BY DEF ring_buffer_queue, drop_oldest, put_cell, advance_head
<1> HIDE DEF new, f, q, N
<1>7. CASE ~ring_buffer_is_full(ring)
  <2>1. UNCHANGED <<overwritten, raced>>
    BY <1>7 DEF rx_hwi_byte
  <2>2. ASSUME NEW n \in 1..(Len(got) + num + Len(rxFifo))
        PROVE  Entry(got, q, f, n) = Entry(got, ring, rxFifo, n)
    <3>1. CASE n <= Len(got)
      BY <3>1 DEF Entry
    <3>2. CASE n > Len(got) /\ n <= Len(got) + num
      <4>1. n - Len(got) - 1 \in 0..(num - 1) /\ n <= Len(got) + N /\ ~(n <= Len(got))
        BY <1>1, <1>5, <1>7, <3>2
      <4>2. cell(q, n - Len(got) - 1) = cell(ring, n - Len(got) - 1)
        BY <1>5, <1>7, <4>1
      <4> QED
        BY <3>2, <4>1, <4>2 DEF Entry, num, N
    <3>3. CASE n = Len(got) + num + 1
      <4>1. /\ n - Len(got) - 1 = num /\ n <= Len(got) + N /\ ~(n <= Len(got))
            /\ ~(n <= Len(got) + num) /\ n - Len(got) - num = 1
        BY <1>1, <1>5, <1>7, <3>3
      <4> QED
        BY <1>2, <1>5, <1>7, <4>1 DEF Entry, num, N
    <3>4. CASE n > Len(got) + num + 1
      <4>1. /\ ~(n <= Len(got)) /\ ~(n <= Len(got) + N) /\ ~(n <= Len(got) + num)
            /\ n - Len(got) - N \in 1..Len(f)
            /\ n - Len(got) - num = (n - Len(got) - N) + 1
        <5>1. N = num + 1 /\ Len(f) = Len(rxFifo) - 1
          BY <1>2, <1>5, <1>7
        <5>2. Len(got) \in Nat /\ num \in Nat /\ Len(rxFifo) \in Nat
          BY <1>1
        <5>3. n \in 1..(Len(got) + num + Len(rxFifo)) /\ n > Len(got) + num + 1
          BY <3>4
        <5> QED
          BY ONLY <5>1, <5>2, <5>3
      <4>2. f[n - Len(got) - N] = rxFifo[n - Len(got) - num]
        BY <1>2, <4>1
      <4> QED
        BY <4>1, <4>2 DEF Entry, num, N
    <3> QED
      BY <1>1, <3>1, <3>2, <3>3, <3>4
  <2>3. Len(got') + num' + Len(rxFifo') = Len(got) + num + Len(rxFifo)
    <3>1. Len(got') = Len(got) /\ num' = num + 1 /\ Len(rxFifo') = Len(rxFifo) - 1
      BY <1>2, <1>3, <1>4, <1>5, <1>7
    <3> QED
      BY <1>1, <3>1
  <2>4. ExactUnlessRaced' /\ LostArrived'
    BY <1>1, <1>2, <1>3, <1>5, <2>1, <2>2, <2>3, SameStream
  <2>5. AtTheTail'
    <3>1. pc = "advance" => oldest_byte(q) = oldest_byte(ring)
      <4>1. SUFFICES ASSUME pc = "advance" PROVE oldest_byte(q) = oldest_byte(ring)
        OBVIOUS
      <4>2. ~ring_buffer_is_empty(ring)
        BY <4>1 DEF IInv, TailNeverPassesHead
      <4>3. 0 \in 0..(num - 1) /\ N # 0
        BY <1>1, <1>5, <1>7, <4>2, NumItems DEF num
      <4>4. ~ring_buffer_is_empty(q)
        BY <1>5, <4>3, NumItems DEF N
      <4>5. cell(q, 0) = cell(ring, 0)
        BY <1>5, <1>7, <4>3
      <4> QED
        BY <1>1, <1>5, <4>2, <4>4, <4>5, AdvanceTail
    <3> QED
      BY <1>3, <1>6, <1>7, <2>1, <3>1 DEF Exact, AtTheTail
  <2> QED
    BY <2>4, <2>5 DEF Exact
<1>8. CASE ring_buffer_is_full(ring)
  <2> DEFINE o == oldest_byte(ring)
             p == Len(got) + 1
  <2>1. overwritten' = overwritten \cup {o} /\ raced' = (raced \/ pc \in {"read", "advance"})
    BY <1>8 DEF rx_hwi_byte
  <2>2. SUFFICES ASSUME ~raced, pc \notin {"read", "advance"} PROVE Exact'
    <3>1. raced' => Exact'
      BY DEF Exact, ExactUnlessRaced, LostArrived, AtTheTail
    <3> QED
      BY <2>1, <3>1
  <2>3. AtTheTail'
    BY <1>3, <2>2 DEF AtTheTail
  <2>4. /\ s \in Seq(Nat) /\ Len(s) = Len(got) + num + Len(rxFifo)
        /\ \A n \in 1..Len(s) : s[n] = Entry(got, ring, rxFifo, n)
        /\ Ascends(s) /\ Items(s) = (1..arrived) \ (overrun \cup overwritten)
        /\ overrun \cup overwritten \subseteq 1..arrived
    BY <2>2, StreamNow
  <2>5. /\ t \in Seq(Nat) /\ Len(t) = Len(got) + N + Len(f)
        /\ \A n \in 1..Len(t) : t[n] = Entry(got, q, f, n)
    BY <1>1, <1>2, <1>5, StreamAt DEF N
  <2>6. num > 0 /\ N = num /\ o = cell(ring, 0)
    <3>1. num = Size - 1
      BY <1>1, <1>8, NumItems DEF num
    <3>2. num > 0
      BY <3>1
    <3>3. ~ring_buffer_is_empty(ring)
      BY <1>1, <3>2, NumItems DEF num
    <3> QED
      BY <1>1, <1>5, <1>8, <3>2, <3>3, AdvanceTail
  <2>7. Joined(got', ring', rxFifo') = t
    BY <1>3
  <2> HIDE DEF s, t, o, p
  <2>8. p \in 1..Len(s) /\ s[p] = o /\ Len(t) = Len(s) - 1
    <3>1. /\ p \in 1..Len(s) /\ ~(p <= Len(got)) /\ p <= Len(got) + num
          /\ p - Len(got) - 1 = 0 /\ Len(t) = Len(s) - 1
      <4>1. /\ Len(s) = Len(got) + num + Len(rxFifo) /\ Len(t) = Len(got) + N + Len(f)
            /\ Len(f) = Len(rxFifo) - 1 /\ N = num /\ num > 0 /\ p = Len(got) + 1
        BY <1>2, <2>4, <2>5, <2>6 DEF p
      <4>2. Len(got) \in Nat /\ num \in Nat /\ Len(rxFifo) \in Nat /\ Len(rxFifo) > 0
        BY <1>1
      <4> QED
        BY ONLY <4>1, <4>2
    <3> QED
      BY <2>4, <2>6, <3>1 DEF Entry, num
  <2>9. ASSUME NEW n \in 1..Len(t)
        PROVE  t[n] = IF n < p THEN s[n] ELSE s[n + 1]
    <3>0. n \in 1..Len(s) /\ n + 1 \in 1..Len(s)
      BY <1>1, <2>4, <2>8
    <3>1. CASE n <= Len(got)
      <4>1. n < p
        BY <1>1, <3>1 DEF p
      <4> QED
        BY <2>4, <2>5, <3>0, <3>1, <4>1 DEF Entry
    <3>2. CASE n > Len(got) /\ n < Len(got) + num
      <4>1. /\ n - Len(got) - 1 \in 0..(num - 2)
            /\ (n + 1) - Len(got) - 1 = (n - Len(got) - 1) + 1
            /\ ~(n <= Len(got)) /\ n <= Len(got) + N /\ ~(n < p)
            /\ ~(n + 1 <= Len(got)) /\ n + 1 <= Len(got) + num
        BY <1>1, <2>6, <3>2 DEF p
      <4>2. cell(q, n - Len(got) - 1) = cell(ring, (n + 1) - Len(got) - 1)
        BY <1>5, <1>8, <4>1
      <4>3. t[n] = cell(q, n - Len(got) - 1) /\ s[n + 1] = cell(ring, (n + 1) - Len(got) - 1)
        BY <2>4, <2>5, <3>0, <4>1 DEF Entry, num, N
      <4> QED
        BY <4>1, <4>2, <4>3
    <3>3. CASE n = Len(got) + num
      <4>1. /\ n - Len(got) - 1 = num - 1 /\ (n + 1) - Len(got) - num = 1
            /\ ~(n <= Len(got)) /\ n <= Len(got) + N /\ ~(n < p)
            /\ ~(n + 1 <= Len(got)) /\ ~(n + 1 <= Len(got) + num)
        BY <1>1, <2>6, <3>3 DEF p
      <4>2. t[n] = cell(q, num - 1) /\ s[n + 1] = rxFifo[1]
        BY <2>4, <2>5, <3>0, <4>1 DEF Entry, num, N
      <4> QED
        BY <1>2, <1>5, <1>8, <4>1, <4>2
    <3>4. CASE n > Len(got) + num
      <4>1. /\ n - Len(got) - N \in 1..Len(f)
            /\ (n + 1) - Len(got) - num = (n - Len(got) - N) + 1
            /\ ~(n <= Len(got)) /\ ~(n <= Len(got) + N) /\ ~(n < p)
            /\ ~(n + 1 <= Len(got)) /\ ~(n + 1 <= Len(got) + num)
        <5>1. Len(t) = Len(got) + N + Len(f) /\ N = num /\ p = Len(got) + 1
          BY <2>5, <2>6 DEF p
        <5>2. n \in 1..Len(t) /\ n > Len(got) + num /\ Len(f) \in Nat
          BY <1>2, <3>4
        <5>3. Len(got) \in Nat /\ num \in Nat
          BY <1>1
        <5> QED
          BY <5>1, <5>2, <5>3
      <4>2. t[n] = f[n - Len(got) - N] /\ s[n + 1] = rxFifo[(n + 1) - Len(got) - num]
        BY <2>4, <2>5, <3>0, <4>1 DEF Entry, num, N
      <4> QED
        BY <1>2, <4>1, <4>2
    <3> QED
      BY <1>1, <3>1, <3>2, <3>3, <3>4
  <2>10. Ascends(t) /\ Items(t) = Items(s) \ {o}
    BY <2>4, <2>5, <2>8, <2>9, OneDropped
  <2>11. o \in 1..arrived
    <3>1. o \in Items(s)
      BY <2>8 DEF Items
    <3> QED
      BY <2>4, <3>1
  <2>12. /\ Items(t) = (1..arrived) \ (overrun \cup overwritten')
         /\ overrun \cup overwritten' \subseteq 1..arrived
    BY <2>1, <2>4, <2>10, <2>11
  <2>13. ExactUnlessRaced' /\ LostArrived'
    BY <1>3, <2>7, <2>10, <2>12, ExactStream DEF LostArrived
  <2> QED
    BY <2>3, <2>13 DEF Exact
<1> QED
  BY <1>7, <1>8

LEMMA DequeueAdvanceExact == IInv /\ Exact /\ dequeue_advance => Exact'
<1> SUFFICES ASSUME IInv, Exact, dequeue_advance PROVE Exact'
  OBVIOUS
<1> DEFINE r == advance_tail(ring)
           N == ring_buffer_num_items(r)
           g == Append(got, data)
<1>1. /\ rxFifo \in Seq(Char) /\ got \in Seq(Char) /\ ring \in ring_buffer_t
      /\ num \in Nat /\ Len(got) \in Nat /\ Len(rxFifo) \in Nat /\ data \in Char
  BY NumType DEF IInv, TypeOK
<1>2. /\ ring' = r /\ pc' = "loop" /\ got' = g
      /\ UNCHANGED <<rxFifo, arrived, overrun, overwritten, raced>>
  BY DEF dequeue_advance
<1>3. AtTheTail'
  BY <1>2 DEF AtTheTail
<1>4. ~ring_buffer_is_empty(ring)
  BY DEF IInv, dequeue_advance, TailNeverPassesHead
<1>5. /\ r \in ring_buffer_t /\ N = num - 1 /\ oldest_byte(ring) = cell(ring, 0)
      /\ \A k \in 0..(num - 2) : cell(r, k) = cell(ring, k + 1)
  BY <1>1, <1>4, AdvanceTail DEF num
<1>6. num > 0
  BY <1>1, <1>4, NumItems DEF num
<1>7. num' = N
  BY <1>2 DEF num
<1>8. /\ g \in Seq(Char) /\ Len(g) = Len(got) + 1 /\ g[Len(got) + 1] = data
      /\ \A n \in 1..Len(got) : g[n] = got[n]
  BY <1>1
<1> HIDE DEF r, N, g
<1>9. ASSUME ~raced, NEW n \in 1..(Len(got) + num + Len(rxFifo))
      PROVE  Entry(g, r, rxFifo, n) = Entry(got, ring, rxFifo, n)
  <2>1. CASE n <= Len(got)
    <3>1. n <= Len(g) /\ n \in 1..Len(got)
      BY <1>1, <1>8, <2>1
    <3> QED
      BY <1>8, <2>1, <3>1 DEF Entry
  <2>2. CASE n = Len(got) + 1
    <3>1. /\ n <= Len(g) /\ ~(n <= Len(got)) /\ n <= Len(got) + num
          /\ n - Len(got) - 1 = 0
      BY <1>1, <1>6, <1>8, <2>2
    <3>2. data = cell(ring, 0)
      BY <1>5, <1>9 DEF Exact, AtTheTail, dequeue_advance
    <3> QED
      BY <1>8, <2>2, <3>1, <3>2 DEF Entry, num
  <2>3. CASE n > Len(got) + 1 /\ n <= Len(got) + num
    <3>1. /\ ~(n <= Len(g)) /\ n <= Len(g) + N /\ ~(n <= Len(got))
          /\ n - Len(g) - 1 \in 0..(num - 2)
          /\ n - Len(got) - 1 = (n - Len(g) - 1) + 1
      BY <1>1, <1>5, <1>8, <2>3
    <3>2. cell(r, n - Len(g) - 1) = cell(ring, n - Len(got) - 1)
      BY <1>5, <3>1
    <3> QED
      BY <2>3, <3>1, <3>2 DEF Entry, num, N
  <2>4. CASE n > Len(got) + num
    <3>1. /\ ~(n <= Len(g)) /\ ~(n <= Len(g) + N) /\ ~(n <= Len(got)) /\ ~(n <= Len(got) + num)
          /\ n - Len(g) - N = n - Len(got) - num
      BY <1>1, <1>5, <1>6, <1>8, <2>4
    <3> QED
      BY <3>1 DEF Entry, num, N
  <2>5. \/ n <= Len(got) \/ n = Len(got) + 1
        \/ (n > Len(got) + 1 /\ n <= Len(got) + num) \/ n > Len(got) + num
    <3>1. Len(got) \in Nat /\ num \in Nat /\ n \in Int
      BY <1>1
    <3> QED
      BY ONLY <3>1
  <2> QED
    BY <2>1, <2>2, <2>3, <2>4, <2>5
<1>10. Len(got') + num' + Len(rxFifo') = Len(got) + num + Len(rxFifo)
  BY <1>1, <1>2, <1>5, <1>7, <1>8
<1>11. ExactUnlessRaced' /\ LostArrived'
  BY <1>1, <1>2, <1>5, <1>8, <1>9, <1>10, SameStream
<1> QED
  BY <1>3, <1>11 DEF Exact

(* A step that moves no byte.                                              *)
LEMMA NoByteMoves ==
    ASSUME Exact, UNCHANGED <<ring, rxFifo, arrived, got, overrun, overwritten, raced>>
    PROVE  ExactUnlessRaced' /\ LostArrived'
  BY DEF Exact, ExactUnlessRaced, LostArrived, Stream

LEMMA NextExact == IInv /\ Exact /\ [Next]_vars => Exact'
<1> SUFFICES ASSUME IInv, Exact, [Next]_vars PROVE Exact'
  OBVIOUS
<1>1. CASE Arrive
  BY <1>1, ArriveExact
<1>2. CASE rx_hwi_enter \/ rx_hwi_exit \/ UNCHANGED vars
  <2>1. UNCHANGED <<ring, rxFifo, arrived, got, overrun, overwritten, raced, pc, idx, data>>
    <3>1. rx_hwi_enter => UNCHANGED <<ring, rxFifo, task, arrived, history>>
      BY DEF rx_hwi_enter
    <3>2. rx_hwi_exit => UNCHANGED <<ring, rxFifo, task, arrived, history>>
      BY DEF rx_hwi_exit
    <3>3. UNCHANGED vars => UNCHANGED <<ring, rxFifo, task, arrived, history>>
      BY DEF vars
    <3> QED
      BY <1>2, <3>1, <3>2, <3>3 DEF task, history
  <2> QED
    BY <2>1, NoByteMoves DEF Exact, AtTheTail
<1>3. CASE rx_hwi_byte
  BY <1>3, HwiByteExact
<1>4. ASSUME NEW n \in Counts, UART_receive(n) PROVE Exact'
  <2>1. UNCHANGED <<ring, rxFifo, arrived, got, overrun, overwritten, raced>> /\ pc' = "loop"
    BY <1>4 DEF UART_receive, history
  <2> QED
    BY <2>1, NoByteMoves DEF Exact, AtTheTail
<1>5. CASE receive_loop
  <2>1. /\ UNCHANGED <<ring, rxFifo, arrived, got, overrun, overwritten, raced>>
        /\ pc' # "read" /\ pc' # "advance"
    BY <1>5 DEF receive_loop, history
  <2> QED
    BY <2>1, NoByteMoves DEF Exact, AtTheTail
<1>6. CASE dequeue_index
  <2>1. /\ UNCHANGED <<ring, rxFifo, arrived, got, overrun, overwritten, raced>>
        /\ pc' = "read" => idx' = ring.tail_index
        /\ pc' # "advance"
    BY <1>6 DEF dequeue_index, history
  <2> QED
    BY <2>1, NoByteMoves DEF Exact, AtTheTail
<1>7. CASE dequeue_read
  <2>1. /\ UNCHANGED <<ring, rxFifo, arrived, got, overrun, overwritten, raced>>
        /\ pc = "read" /\ pc' = "advance" /\ data' = ring.pBuffer[idx]
    BY <1>7 DEF dequeue_read, history
  <2>2. ~raced => data' = oldest_byte(ring)
    BY <2>1 DEF Exact, AtTheTail, oldest_byte
  <2> QED
    BY <2>1, <2>2, NoByteMoves DEF Exact, AtTheTail
<1>8. CASE dequeue_advance
  BY <1>8, DequeueAdvanceExact
<1> QED
  BY <1>1, <1>2, <1>3, <1>4, <1>5, <1>6, <1>7, <1>8
     DEF Next, uart_rx_hwi_handler, taskStep

------------------------------------------------------------------------------
LEMMA IInvAlways == Spec => []IInv
  BY InitIInv, NextIInv, PTL DEF Spec

(* Types: every state of the driver's receive side, at every size.         *)
THEOREM TypeCorrect == Spec => []TypeOK
<1>1. IInv => TypeOK
  BY DEF IInv
<1> QED
  BY <1>1, IInvAlways, PTL

(* The task never advances the tail of an empty ring: the byte its own     *)
(* test of the ring saw is there until its own advance, however many       *)
(* overwrites of uart_rx_hwi_handler come between the two.                 *)
THEOREM TailSafe == Spec => []TailNeverPassesHead
<1>1. IInv => TailNeverPassesHead
  BY DEF IInv
<1> QED
  BY <1>1, IInvAlways, PTL

(* What is held is the newest, whatever an overwrite did to the reader:    *)
(* ring_buffer_queue and ring_buffer_dequeue lose bytes from the old end   *)
(* only, although the handler and the task race on the tail.               *)
THEOREM NothingNewerIsLost == Spec => []TheNewestAreHeld
<1>1. IInv => TheNewestAreHeld
  BY DEF IInv
<1> QED
  BY <1>1, IInvAlways, PTL

(* As long as no overwrite of uart_rx_hwi_handler hit a dequeue between    *)
(* its loads and its advance, every byte that arrived is handed to the     *)
(* callers of UART_receive, waiting, overrun in the SCI FIFO or            *)
(* overwritten in the ring, exactly one of the four, and the bytes come    *)
(* in the order of the line.                                               *)
THEOREM ExactUnlessRacedHolds == Spec => []ExactUnlessRaced
<1>1. IInv /\ Exact /\ [Next]_vars => Exact'
  BY NextExact
<1>2. Exact => ExactUnlessRaced
  BY DEF Exact
<1> QED
  BY <1>1, <1>2, IInvAlways, InitExact, PTL DEF Spec

------------------------------------------------------------------------------
(* The refinement of ByteStream, for a sender that has at most Window      *)
(* bytes unread, fewer than the ring has cells.                            *)

(* The ring and then the FIFO hold the bytes after the n-th, up to a.      *)
InLine(n, r, f, a) ==
    /\ n + ring_buffer_num_items(r) + Len(f) = a
    /\ \A k \in 0..(ring_buffer_num_items(r) - 1) : cell(r, k) = n + k + 1
    /\ \A k \in 1..Len(f) : f[k] = n + ring_buffer_num_items(r) + k

(* Until the FIFO overruns nothing is lost, and no dequeue is raced.       *)
Lossless ==
    overrun = {} => /\ ~raced
                    /\ InLine(Len(got), ring, rxFifo, arrived)
                    /\ arrived - Len(got) <= Window

(* What is held is the bytes after the n-th, in order.                     *)
LEMMA WhatIsHeld ==
    ASSUME NEW n \in Nat, NEW r \in ring_buffer_t, NEW f \in Seq(Char), NEW a \in Nat,
           InLine(n, r, f, a)
    PROVE  Contents(r) \o f = Numbered(n, a) /\ n <= a
<1> DEFINE c == Contents(r)
           N == ring_buffer_num_items(r)
<1>1. c \in Seq(Char) /\ Len(c) = N /\ N \in Nat /\ \A k \in 1..N : c[k] = cell(r, k - 1)
  BY ContentsFacts
<1>2. /\ n + N + Len(f) = a /\ \A k \in 0..(N - 1) : cell(r, k) = n + k + 1
      /\ \A k \in 1..Len(f) : f[k] = n + N + k
  BY DEF InLine
<1> HIDE DEF c, N
<1>3. ASSUME NEW k \in 1..Len(c) PROVE c[k] = n + k
  <2>1. k - 1 \in 0..(N - 1) /\ n + (k - 1) + 1 = n + k /\ k \in 1..N
    BY <1>1
  <2>2. cell(r, k - 1) = n + (k - 1) + 1
    BY <1>2, <2>1
  <2> QED
    BY <1>1, <2>1, <2>2
<1>4. \A k \in 1..Len(f) : f[k] = n + Len(c) + k
  BY <1>1, <1>2
<1>5. c \o f = Numbered(n, n + Len(c) + Len(f))
  BY <1>1, <1>3, <1>4, NumberedJoined
<1>6. Len(f) \in Nat
  OBVIOUS
<1> QED
  BY <1>1, <1>2, <1>5, <1>6 DEF c

(* At the start nothing has arrived.                                       *)
LEMMA InitLossless == Init => Lossless
<1> SUFFICES ASSUME Init PROVE Lossless
  OBVIOUS
<1>1. got = <<>> /\ rxFifo = <<>> /\ arrived = 0 /\ ~raced
  BY DEF Init
<1>2. Len(got) = 0 /\ Len(rxFifo) = 0 /\ ring_buffer_num_items(ring) = 0
  BY <1>1, InitialRing DEF Init
<1> QED
  BY <1>1, <1>2, WindowAssumption DEF Lossless, InLine

(* A byte arrives behind the others.                                       *)
LEMMA ArriveLossless ==
    ASSUME IInv, Lossless, Arrive, overrun' = {}
    PROVE  Lossless' /\ overrun = {} /\ arrived' = arrived + 1 /\ got' = got
<1>1. /\ arrived' = arrived + 1 /\ arrived - Len(got) < Window
      /\ UNCHANGED <<ring, got, raced>>
  BY DEF Arrive
<1>2. rxFifo' = Append(rxFifo, arrived + 1) /\ overrun = {}
  BY DEF Arrive
<1>3. /\ arrived \in Nat /\ rxFifo \in Seq(Char) /\ num \in Nat /\ got \in Seq(Char)
      /\ Len(got) \in Nat /\ Len(rxFifo) \in Nat
  BY NumType DEF IInv, TypeOK
<1>4. ~raced /\ InLine(Len(got), ring, rxFifo, arrived)
  BY <1>2 DEF Lossless
<1>5. Len(got) + num + Len(rxFifo) = arrived
  BY <1>4 DEF InLine, num
<1>6. /\ Len(rxFifo') = Len(rxFifo) + 1 /\ rxFifo'[Len(rxFifo) + 1] = arrived + 1
      /\ \A k \in 1..Len(rxFifo) : rxFifo'[k] = rxFifo[k]
  BY <1>2, <1>3
<1>7. ASSUME NEW k \in 1..Len(rxFifo') PROVE rxFifo'[k] = Len(got) + num + k
  <2>1. CASE k \in 1..Len(rxFifo)
    BY <1>4, <1>6, <2>1 DEF InLine, num
  <2>2. CASE k \notin 1..Len(rxFifo)
    <3>1. k = Len(rxFifo) + 1
      BY <1>3, <1>6, <2>2
    <3>2. Len(got) + num + k = arrived + 1
      BY <1>3, <1>5, <3>1
    <3> QED
      BY <1>6, <3>1, <3>2
  <2> QED
    BY <2>1, <2>2
<1>8. Len(got) + num + Len(rxFifo') = arrived'
  <2>1. arrived' = arrived + 1 /\ Len(rxFifo') = Len(rxFifo) + 1
    BY <1>1, <1>6
  <2>2. num \in Nat /\ Len(got) \in Nat /\ Len(rxFifo) \in Nat
    BY <1>3
  <2> QED
    BY ONLY <1>5, <2>1, <2>2
<1>9. InLine(Len(got), ring, rxFifo', arrived')
  BY <1>4, <1>7, <1>8 DEF InLine, num
<1>10. arrived' - Len(got) <= Window
  BY <1>1, <1>3, WindowAssumption
<1> QED
  BY <1>1, <1>2, <1>4, <1>9, <1>10 DEF Lossless

(* The handler finds room in the ring for every byte.                      *)
LEMMA HwiByteLossless ==
    ASSUME Window < Size, IInv, Lossless, rx_hwi_byte, overrun = {}
    PROVE  Lossless'
<1> DEFINE new == Head(rxFifo)
           f == Tail(rxFifo)
           q == ring_buffer_queue(ring, new)
           N == ring_buffer_num_items(q)
<1>1. /\ ring' = q /\ rxFifo' = f
      /\ UNCHANGED <<arrived, got, overrun>>
      /\ ~ring_buffer_is_full(ring) => raced' = raced
  BY DEF rx_hwi_byte
<1>2. /\ arrived \in Nat /\ rxFifo \in Seq(Char) /\ num \in Nat /\ ring \in ring_buffer_t
      /\ Len(got) \in Nat /\ Len(rxFifo) \in Nat /\ Len(rxFifo) > 0
  BY NumType DEF IInv, TypeOK, rx_hwi_byte
<1>3. /\ ~raced /\ InLine(Len(got), ring, rxFifo, arrived)
      /\ Len(got) + num + Len(rxFifo) = arrived /\ arrived - Len(got) <= Window
  BY DEF Lossless, InLine, num
<1>4. num # Size - 1
  <2>1. Window < Size /\ Window \in Nat /\ Size \in Nat
    BY WindowAssumption, SizeAssumption
  <2> QED
    BY ONLY <1>2, <1>3, <2>1
<1>5. ~ring_buffer_is_full(ring)
  BY <1>2, <1>4, NumItems DEF num
<1>6. /\ new \in Char /\ new = rxFifo[1] /\ Len(f) = Len(rxFifo) - 1
      /\ \A k \in 1..Len(f) : f[k] = rxFifo[k + 1]
  <2>1. rxFifo # <<>>
    BY <1>2
  <2> QED
    BY <1>2, <2>1
<1>7. /\ N = num + 1
      /\ \A k \in 0..(num - 1) : cell(q, k) = cell(ring, k)
      /\ cell(q, num) = new
  BY <1>2, <1>5, <1>6, Queue DEF num
<1> HIDE DEF new, f, q, N
<1>8. new = Len(got) + num + 1
  <2>1. 1 \in 1..Len(rxFifo)
    BY <1>2
  <2> QED
    BY <1>3, <1>6, <2>1 DEF InLine, num
<1>9. ASSUME NEW k \in 0..(N - 1) PROVE cell(q, k) = Len(got) + k + 1
  <2>1. CASE k \in 0..(num - 1)
    BY <1>3, <1>7, <2>1 DEF InLine, num
  <2>2. CASE k \notin 0..(num - 1)
    <3>1. k = num
      BY <1>2, <1>7, <2>2
    <3> QED
      BY <1>7, <1>8, <3>1
  <2> QED
    BY <2>1, <2>2
<1>10. ASSUME NEW k \in 1..Len(f) PROVE f[k] = Len(got) + N + k
  <2>1. k + 1 \in 1..Len(rxFifo) /\ Len(got) + num + (k + 1) = Len(got) + N + k
    BY <1>2, <1>6, <1>7
  <2>2. rxFifo[k + 1] = Len(got) + num + (k + 1)
    BY <1>3, <2>1 DEF InLine, num
  <2> QED
    BY <1>6, <2>1, <2>2
<1>11. Len(got) + N + Len(f) = arrived
  <2>1. Len(got) + num + Len(rxFifo) = arrived /\ Len(f) = Len(rxFifo) - 1 /\ N = num + 1
    BY <1>3, <1>6, <1>7
  <2>2. num \in Nat /\ Len(got) \in Nat /\ Len(rxFifo) \in Nat
    BY <1>2
  <2> QED
    BY ONLY <2>1, <2>2
<1>12. InLine(Len(got), q, f, arrived)
  BY <1>9, <1>10, <1>11 DEF InLine, N
<1> QED
  BY <1>1, <1>3, <1>5, <1>12 DEF Lossless

(* A dequeue hands over the oldest byte that is held.                      *)
LEMMA DequeueLossless ==
    ASSUME IInv, Exact, Lossless, dequeue_advance, overrun = {}
    PROVE  /\ Lossless' /\ got' = Append(got, Len(got) + 1) /\ arrived' = arrived
           /\ Len(got)' = Len(got) + 1 /\ Len(got) < arrived
<1> DEFINE r == advance_tail(ring)
           N == ring_buffer_num_items(r)
<1>1. /\ ring' = r /\ got' = Append(got, data)
      /\ UNCHANGED <<rxFifo, arrived, overrun, raced>>
  BY DEF dequeue_advance
<1>2. /\ arrived \in Nat /\ rxFifo \in Seq(Char) /\ num \in Nat /\ ring \in ring_buffer_t
      /\ got \in Seq(Char) /\ Len(got) \in Nat /\ Len(rxFifo) \in Nat /\ data \in Char
  BY NumType DEF IInv, TypeOK
<1>3. /\ ~raced /\ InLine(Len(got), ring, rxFifo, arrived)
      /\ Len(got) + num + Len(rxFifo) = arrived /\ arrived - Len(got) <= Window
  BY DEF Lossless, InLine, num
<1>4. ~ring_buffer_is_empty(ring)
  BY DEF IInv, dequeue_advance, TailNeverPassesHead
<1>5. /\ N = num - 1 /\ oldest_byte(ring) = cell(ring, 0)
      /\ \A k \in 0..(num - 2) : cell(r, k) = cell(ring, k + 1)
  BY <1>2, <1>4, AdvanceTail DEF num
<1>6. num > 0
  BY <1>2, <1>4, NumItems DEF num
<1> HIDE DEF r, N
<1>7. data = Len(got) + 1
  <2>1. data = cell(ring, 0)
    BY <1>3, <1>5 DEF Exact, AtTheTail, dequeue_advance
  <2>2. 0 \in 0..(num - 1)
    BY <1>2, <1>6
  <2> QED
    BY <1>2, <1>3, <2>1, <2>2 DEF InLine, num
<1>8. Len(got') = Len(got) + 1
  BY <1>1, <1>2
<1>9. ASSUME NEW k \in 0..(N - 1) PROVE cell(r, k) = Len(got') + k + 1
  <2>1. /\ k \in 0..(num - 2) /\ k + 1 \in 0..(num - 1)
        /\ Len(got) + (k + 1) + 1 = Len(got') + k + 1
    BY <1>2, <1>5, <1>8
  <2>2. cell(ring, k + 1) = Len(got) + (k + 1) + 1
    BY <1>3, <2>1 DEF InLine, num
  <2> QED
    BY <1>5, <2>1, <2>2
<1>10. Len(got) + num = Len(got') + N
  BY <1>2, <1>5, <1>8
<1>11. InLine(Len(got'), r, rxFifo, arrived)
  BY <1>3, <1>9, <1>10 DEF InLine, N, num
<1>12. arrived - Len(got') <= Window /\ Len(got) < arrived
  BY <1>2, <1>3, <1>6, <1>8, WindowAssumption
<1> QED
  BY <1>1, <1>3, <1>7, <1>8, <1>11, <1>12 DEF Lossless

(* All other steps leave the bytes where they are.                         *)
LEMMA OthersMoveNothing ==
    ASSUME [Next]_vars
    PROVE  \/ Arrive \/ rx_hwi_byte \/ dequeue_advance
           \/ UNCHANGED <<ring, rxFifo, arrived, got, overrun, raced>>
<1>1. CASE rx_hwi_enter \/ rx_hwi_exit \/ UNCHANGED vars
  BY <1>1 DEF rx_hwi_enter, rx_hwi_exit, vars, history
<1>2. ASSUME NEW n \in Counts, UART_receive(n)
      PROVE  UNCHANGED <<ring, rxFifo, arrived, got, overrun, raced>>
  BY <1>2 DEF UART_receive, history
<1>3. CASE receive_loop \/ dequeue_index \/ dequeue_read
  BY <1>3 DEF receive_loop, dequeue_index, dequeue_read, history
<1> QED
  BY <1>1, <1>2, <1>3 DEF Next, uart_rx_hwi_handler, taskStep

(* Every step of the line, the handler and the task.                       *)
LEMMA NextLossless ==
    ASSUME Window < Size, IInv, Exact, Lossless, [Next]_vars
    PROVE  Lossless'
<1> SUFFICES ASSUME overrun' = {} PROVE Lossless'
  BY DEF Lossless
<1>1. CASE Arrive
  BY <1>1, ArriveLossless
<1>2. CASE rx_hwi_byte
  BY <1>2, HwiByteLossless DEF rx_hwi_byte
<1>3. CASE dequeue_advance
  BY <1>3, DequeueLossless DEF dequeue_advance
<1>4. CASE UNCHANGED <<ring, rxFifo, arrived, got, overrun, raced>>
  BY <1>4 DEF Lossless
<1> QED
  BY <1>1, <1>2, <1>3, <1>4, OthersMoveNothing

(* An arrival is a Put, the end of a dequeue a Get, and no other step is   *)
(* to be seen.                                                             *)
LEMMA StepRefines ==
    ASSUME Window < Size, IInv, IInv', Exact, Lossless, Lossless', overrun' = {}, [Next]_vars
    PROVE  [Abstract!Next]_Abstract!vars
<1> DEFINE pipe == Contents(ring) \o rxFifo
<1>1. /\ arrived \in Nat /\ rxFifo \in Seq(Char) /\ ring \in ring_buffer_t /\ Len(got) \in Nat
      /\ arrived' \in 0..MaxBytes /\ rxFifo' \in Seq(Char) /\ ring' \in ring_buffer_t
      /\ Len(got)' \in Nat
  BY DEF IInv, TypeOK
<1>2. pipe' = Numbered(Len(got)', arrived')
  <2>1. InLine(Len(got)', ring', rxFifo', arrived')
    BY DEF Lossless
  <2>2. arrived' \in Nat
    BY <1>1
  <2> QED
    BY <1>1, <2>1, <2>2, WhatIsHeld
<1>3. ASSUME overrun = {} PROVE pipe = Numbered(Len(got), arrived) /\ Len(got) <= arrived
  <2>1. InLine(Len(got), ring, rxFifo, arrived)
    BY <1>3 DEF Lossless
  <2> QED
    BY <1>1, <2>1, WhatIsHeld
<1> HIDE DEF pipe
<1>4. CASE Arrive
  <2>1. overrun = {} /\ arrived' = arrived + 1 /\ got' = got
    BY <1>4, ArriveLossless
  <2>2. pipe' = Append(pipe, arrived + 1)
    <3>1. pipe = Numbered(Len(got), arrived) /\ Len(got) <= arrived
      BY <1>3, <2>1
    <3>2. Append(Numbered(Len(got), arrived), arrived + 1) = Numbered(Len(got), arrived + 1)
      BY <1>1, <3>1, NumberedFacts
    <3> QED
      BY <1>2, <2>1, <3>1, <3>2
  <2>3. arrived + 1 \in Char
    BY <1>1, <2>1
  <2>4. Abstract!Put(arrived + 1)
    BY <2>1, <2>2 DEF Abstract!Put, pipe
  <2> QED
    BY <2>3, <2>4 DEF Abstract!Next
<1>5. CASE dequeue_advance
  <2>1. overrun = {}
    BY <1>5 DEF dequeue_advance
  <2>2. /\ got' = Append(got, Len(got) + 1) /\ arrived' = arrived
        /\ Len(got)' = Len(got) + 1 /\ Len(got) < arrived
    BY <1>5, <2>1, DequeueLossless
  <2>3. pipe # <<>> /\ Head(pipe) = Len(got) + 1 /\ Tail(pipe) = pipe'
    <3>1. pipe = Numbered(Len(got), arrived) /\ Len(got) <= arrived
      BY <1>3, <2>1
    <3>2. /\ Numbered(Len(got), arrived) # <<>>
          /\ Head(Numbered(Len(got), arrived)) = Len(got) + 1
          /\ Tail(Numbered(Len(got), arrived)) = Numbered(Len(got) + 1, arrived)
      BY <1>1, <2>2, <3>1, NumberedFacts
    <3> QED
      BY <1>2, <2>2, <3>1, <3>2
  <2>4. Abstract!Get
    BY <2>2, <2>3 DEF Abstract!Get, pipe
  <2> QED
    BY <2>4 DEF Abstract!Next
<1>6. CASE rx_hwi_byte
  <2>1. UNCHANGED <<arrived, got, overrun>>
    BY <1>6 DEF rx_hwi_byte
  <2>2. pipe' = pipe
    BY <1>2, <1>3, <2>1
  <2> QED
    BY <2>1, <2>2 DEF Abstract!vars, pipe
<1>7. CASE UNCHANGED <<ring, rxFifo, arrived, got, overrun, raced>>
  BY <1>7 DEF Abstract!vars
<1> QED
  BY <1>4, <1>5, <1>6, <1>7, OthersMoveNothing

(* The three invariants together.                                          *)
LEMMA LosslessAlways == Window < Size => (Spec => [](IInv /\ Exact /\ Lossless))
<1>1. CASE ~(Window < Size)
  BY <1>1
<1>2. ASSUME Window < Size PROVE Spec => [](IInv /\ Exact /\ Lossless)
  <2>1. IInv /\ Exact /\ Lossless /\ [Next]_vars => (IInv /\ Exact /\ Lossless)'
    BY <1>2, NextIInv, NextExact, NextLossless
  <2> QED
    BY <2>1, InitIInv, InitExact, InitLossless, PTL DEF Spec
<1> QED
  BY <1>1, <1>2

(* At the start the stream is empty.                                       *)
LEMMA InitRefines == Init => Abstract!Init
<1> SUFFICES ASSUME Init PROVE Abstract!Init
  OBVIOUS
<1>1. got = <<>> /\ rxFifo = <<>> /\ ring \in ring_buffer_t /\ ring_buffer_num_items(ring) = 0
  BY InitialRing DEF Init
<1>2. Contents(ring) \in Seq(Char) /\ Len(Contents(ring)) = 0
  BY <1>1, ContentsFacts
<1>3. Contents(ring) \o rxFifo = <<>>
  BY <1>1, <1>2
<1> QED
  BY <1>1, <1>3 DEF Abstract!Init

(* To a sender that never has as many bytes unread as the ring has cells   *)
(* the receive direction is a byte stream (see ByteStream), whose steps    *)
(* are a byte coming in and a dequeue of UART_receive handing one out, as  *)
(* long as the handler is in time for the SCI FIFO. That each byte is      *)
(* handed out rests on fairness and is not part of this.                   *)
THEOREM ReceiveIsAByteStream ==
    Window < Size => (Spec /\ [](overrun = {}) => Abstract!Spec)
<1>1. CASE ~(Window < Size)
  BY <1>1
<1>2. ASSUME Window < Size PROVE Spec /\ [](overrun = {}) => Abstract!Spec
  <2>1. /\ IInv /\ Exact /\ Lossless /\ overrun = {}
        /\ (IInv /\ Exact /\ Lossless /\ overrun = {})' /\ [Next]_vars
        => [Abstract!Next]_Abstract!vars
    BY <1>2, StepRefines
  <2>2. Spec => [](IInv /\ Exact /\ Lossless)
    BY <1>2, LosslessAlways
  <2> QED
    BY <2>1, <2>2, InitRefines, PTL DEF Spec, Abstract!Spec
<1> QED
  BY <1>1, <1>2

(* If the window fits the SCI FIFO too, the handler is always in time.     *)
THEOREM SmallWindowIsAByteStream ==
    Window < Size /\ Window <= FifoDepth => (Spec => Abstract!Spec)
<1>1. CASE ~(Window < Size /\ Window <= FifoDepth)
  BY <1>1
<1>2. ASSUME Window < Size /\ Window <= FifoDepth PROVE Spec => Abstract!Spec
  <2>1. Init => overrun = {}
    BY DEF Init
  <2>2. IInv /\ Exact /\ Lossless /\ overrun = {} /\ [Next]_vars => (overrun = {})'
    <3> SUFFICES ASSUME IInv, Lossless, overrun = {}, [Next]_vars PROVE overrun' = {}
      OBVIOUS
    <3>1. CASE Arrive
      <4>1. /\ arrived - Len(got) < Window /\ Len(got) + num + Len(rxFifo) = arrived
        BY <3>1 DEF Arrive, Lossless, InLine, num
      <4>2. /\ arrived \in Nat /\ num \in Nat /\ Len(got) \in Nat /\ Len(rxFifo) \in Nat
            /\ Window \in Nat /\ FifoDepth \in Nat
        BY NumType, WindowAssumption DEF IInv, TypeOK
      <4>3. Len(rxFifo) < FifoDepth
        BY ONLY <1>2, <4>1, <4>2
      <4> QED
        BY <3>1, <4>3 DEF Arrive
    <3>2. CASE rx_hwi_byte \/ dequeue_advance
      BY <3>2 DEF rx_hwi_byte, dequeue_advance
    <3> QED
      BY <3>1, <3>2, OthersMoveNothing
  <2>3. Spec => [](IInv /\ Exact /\ Lossless)
    BY <1>2, LosslessAlways
  <2>4. Spec => [](overrun = {})
    BY <2>1, <2>2, <2>3, PTL DEF Spec
  <2>5. Spec /\ [](overrun = {}) => Abstract!Spec
    BY <1>2, ReceiveIsAByteStream
  <2> QED
    BY <2>4, <2>5, PTL
<1> QED
  BY <1>1, <1>2
==============================================================================
