--------------------------- MODULE RingBufferProofs ---------------------------
(***************************************************************************)
(* What the operations of the ring do to the bytes it holds, for a ring of *)
(* any size.  The proofs about the two serial directions rest on these;    *)
(* the last part proves from them that the sequential interface implements *)
(* the bounded forgetful queue.                                            *)
(***************************************************************************)
EXTENDS RingBuffer, WellFoundedInduction, TLAPS

(* The mask, as arithmetic: an index plus one, the distance of two         *)
(* indexes, and an index plus an offset wrap at most once.                 *)
LEMMA NextIndex ==
    ASSUME NEW i \in Index
    PROVE  next_index(i) = IF i = Size - 1 THEN 0 ELSE i + 1
  BY SizeAssumption, SMT DEF Index, next_index

LEMMA Distance ==
    ASSUME NEW h \in Index, NEW t \in Index
    PROVE  (h - t) % Size = IF h >= t THEN h - t ELSE h - t + Size
  BY SizeAssumption, SMT DEF Index

LEMMA Offset ==
    ASSUME NEW t \in Index, NEW k \in Index
    PROVE  (t + k) % Size = IF t + k < Size THEN t + k ELSE t + k - Size
  BY SizeAssumption, SMT DEF Index

(* Distances and offsets when an index moves on.                           *)
LEMMA DistanceToNext ==
    ASSUME NEW h \in Index, NEW t \in Index
    PROVE  /\ h # t => (h - next_index(t)) % Size = ((h - t) % Size) - 1
           /\ (h - t) % Size # Size - 1 =>
                  (next_index(h) - t) % Size = ((h - t) % Size) + 1
<1> DEFINE nt == next_index(t)
           nh == next_index(h)
<1>1. /\ nt = IF t = Size - 1 THEN 0 ELSE t + 1
      /\ nh = IF h = Size - 1 THEN 0 ELSE h + 1
  BY NextIndex
<1>2. nt \in Index /\ nh \in Index
  BY <1>1, SizeAssumption DEF Index
<1> HIDE DEF nt, nh
<1>3. /\ (h - t) % Size = IF h >= t THEN h - t ELSE h - t + Size
      /\ (h - nt) % Size = IF h >= nt THEN h - nt ELSE h - nt + Size
      /\ (nh - t) % Size = IF nh >= t THEN nh - t ELSE nh - t + Size
  BY <1>2, Distance
<1>4. h \in Nat /\ h < Size /\ t \in Nat /\ t < Size /\ Size \in Nat
  BY SizeAssumption DEF Index
<1>5. h # t => (h - nt) % Size = ((h - t) % Size) - 1
  BY <1>1, <1>3, <1>4
<1>6. (h - t) % Size # Size - 1 => (nh - t) % Size = ((h - t) % Size) + 1
  BY <1>1, <1>3, <1>4
<1> QED
  BY <1>5, <1>6 DEF nt, nh

LEMMA OffsetFromNext ==
    ASSUME NEW t \in Index, NEW k \in Index, k + 1 \in Index
    PROVE  (next_index(t) + k) % Size = (t + (k + 1)) % Size
<1> DEFINE nt == next_index(t)
           l == k + 1
<1>1. nt = IF t = Size - 1 THEN 0 ELSE t + 1
  BY NextIndex
<1>2. nt \in Index /\ l \in Index
  BY <1>1, SizeAssumption DEF Index
<1>3. l = k + 1
  OBVIOUS
<1> HIDE DEF nt, l
<1>4. /\ (nt + k) % Size = IF nt + k < Size THEN nt + k ELSE nt + k - Size
      /\ (t + l) % Size = IF t + l < Size THEN t + l ELSE t + l - Size
  BY <1>2, Offset
<1>5. t \in Nat /\ t < Size /\ k \in Nat /\ k < Size /\ Size \in Nat
  BY SizeAssumption DEF Index
<1>6. (nt + k) % Size = (t + l) % Size
  BY <1>1, <1>3, <1>4, <1>5
<1> QED
  BY <1>6 DEF nt, l

(* The cell as far from the tail as the head is the head's cell, and none  *)
(* nearer is.                                                              *)
LEMMA OffsetOfHead ==
    ASSUME NEW h \in Index, NEW t \in Index, NEW k \in Index
    PROVE  /\ (t + k) % Size \in Index
           /\ (t + k) % Size = h <=> k = (h - t) % Size
<1>1. /\ (t + k) % Size = IF t + k < Size THEN t + k ELSE t + k - Size
      /\ (h - t) % Size = IF h >= t THEN h - t ELSE h - t + Size
  BY Offset, Distance
<1>2. /\ h \in Nat /\ h < Size /\ t \in Nat /\ t < Size
      /\ k \in Nat /\ k < Size /\ Size \in Nat
  BY SizeAssumption DEF Index
<1> QED
  BY <1>1, <1>2 DEF Index

(* The number of bytes held is an index, the ring is empty when it is zero *)
(* and full when it is all cells but one.                                  *)
LEMMA NumItems ==
    ASSUME NEW r \in ring_buffer_t
    PROVE  /\ ring_buffer_num_items(r) \in Index
           /\ ring_buffer_is_empty(r) <=> ring_buffer_num_items(r) = 0
           /\ ring_buffer_is_full(r) <=> ring_buffer_num_items(r) = Size - 1
<1> DEFINE h == r.head_index
           t == r.tail_index
<1>1. h \in Index /\ t \in Index
  BY DEF ring_buffer_t
<1> HIDE DEF h, t
<1>2. (h - t) % Size = IF h >= t THEN h - t ELSE h - t + Size
  BY <1>1, Distance
<1>3. h \in Nat /\ h < Size /\ t \in Nat /\ t < Size /\ Size \in Nat
  BY <1>1, SizeAssumption DEF Index
<1>4. (h - t) % Size \in Index /\ (h = t <=> (h - t) % Size = 0)
  BY <1>2, <1>3 DEF Index
<1> QED
  BY <1>4 DEF h, t, ring_buffer_num_items, ring_buffer_is_empty, ring_buffer_is_full

(* Every cell a reader can reach holds a byte.                             *)
LEMMA CellType ==
    ASSUME NEW r \in ring_buffer_t, NEW k \in Index
    PROVE  cell(r, k) \in Char
<1>1. r.tail_index \in Index /\ r.head_index \in Index /\ r.pBuffer \in [Index -> Char]
  BY DEF ring_buffer_t
<1>2. (r.tail_index + k) % Size \in Index
  BY <1>1, OffsetOfHead
<1> QED
  BY <1>1, <1>2 DEF cell

(* The ring after ring_buffer_init is one, and it is empty.                *)
LEMMA InitialRing ==
    /\ ring_buffer_init \in ring_buffer_t
    /\ ring_buffer_num_items(ring_buffer_init) = 0
<1>1. ring_buffer_init.head_index = 0 /\ ring_buffer_init.tail_index = 0
  BY DEF ring_buffer_init
<1>2. ring_buffer_init \in ring_buffer_t
  BY SizeAssumption, ZeroAssumption DEF ring_buffer_init, ring_buffer_t, Index
<1>3. ring_buffer_is_empty(ring_buffer_init)
  BY <1>1 DEF ring_buffer_is_empty
<1> QED
  BY <1>2, <1>3, NumItems

(* Advancing the tail of a ring that holds a byte takes its first byte.    *)
LEMMA AdvanceTail ==
    ASSUME NEW r \in ring_buffer_t, ~ring_buffer_is_empty(r)
    PROVE  /\ advance_tail(r) \in ring_buffer_t
           /\ ring_buffer_num_items(advance_tail(r)) = ring_buffer_num_items(r) - 1
           /\ \A k \in 0..(ring_buffer_num_items(r) - 2) :
                  cell(advance_tail(r), k) = cell(r, k + 1)
           /\ oldest_byte(r) = cell(r, 0)
<1> DEFINE s == advance_tail(r)
           n == ring_buffer_num_items(r)
<1>1. /\ r.tail_index \in Index /\ r.head_index \in Index
      /\ r.pBuffer \in [Index -> Char]
  BY DEF ring_buffer_t
<1>2. /\ s.tail_index = next_index(r.tail_index)
      /\ s.head_index = r.head_index
      /\ s.pBuffer = r.pBuffer
  BY DEF advance_tail, ring_buffer_t
<1>3. s.tail_index \in Index
  BY <1>1, <1>2, NextIndex, SizeAssumption DEF Index
<1>4. s \in ring_buffer_t
  BY <1>1, <1>2, <1>3 DEF advance_tail, ring_buffer_t
<1>5. n \in Index /\ n # 0
  BY NumItems
<1>6. ring_buffer_num_items(s) = n - 1
  BY <1>1, <1>2, DistanceToNext DEF ring_buffer_num_items, ring_buffer_is_empty
<1>7. ASSUME NEW k \in 0..(n - 2)
      PROVE  cell(s, k) = cell(r, k + 1)
  <2>1. k \in Index /\ k + 1 \in Index
    BY <1>5, SizeAssumption DEF Index
  <2>2. (s.tail_index + k) % Size = (r.tail_index + (k + 1)) % Size
    BY <1>1, <1>2, <2>1, OffsetFromNext
  <2> QED
    BY <1>2, <2>2 DEF cell
<1>8. oldest_byte(r) = cell(r, 0)
  <2>1. 0 \in Index /\ r.tail_index + 0 = r.tail_index /\ r.tail_index < Size
    BY <1>1, SizeAssumption DEF Index
  <2>2. (r.tail_index + 0) % Size = r.tail_index
    BY <1>1, <2>1, Offset
  <2> QED
    BY <2>2 DEF oldest_byte, cell
<1> QED
  BY <1>4, <1>6, <1>7, <1>8

(* Writing the free cell and advancing the head of a ring that is not full *)
(* appends one byte; the cell alone changes nothing a reader will get.     *)
LEMMA PutCell ==
    ASSUME NEW r \in ring_buffer_t, NEW c \in Char
    PROVE  /\ put_cell(r, c) \in ring_buffer_t
           /\ ring_buffer_num_items(put_cell(r, c)) = ring_buffer_num_items(r)
           /\ \A k \in 0..(ring_buffer_num_items(r) - 1) :
                  cell(put_cell(r, c), k) = cell(r, k)
           /\ cell(put_cell(r, c), ring_buffer_num_items(r)) = c
<1> DEFINE s == put_cell(r, c)
           n == ring_buffer_num_items(r)
<1>1. /\ r.tail_index \in Index /\ r.head_index \in Index
      /\ r.pBuffer \in [Index -> Char]
  BY DEF ring_buffer_t
<1>2. /\ s.tail_index = r.tail_index
      /\ s.head_index = r.head_index
      /\ s.pBuffer = [r.pBuffer EXCEPT ![r.head_index] = c]
  BY DEF put_cell, ring_buffer_t
<1>3. s \in ring_buffer_t
  BY <1>1, <1>2 DEF put_cell, ring_buffer_t
<1>4. ring_buffer_num_items(s) = n /\ n \in Index
  BY <1>2, NumItems DEF ring_buffer_num_items
<1>5. ASSUME NEW k \in 0..(n - 1)
      PROVE  cell(s, k) = cell(r, k)
  <2>1. k \in Index
    BY <1>4, SizeAssumption DEF Index
  <2>2. (r.tail_index + k) % Size \in Index
    BY <1>1, <2>1, OffsetOfHead
  <2>3. k # n
    BY <1>4, SizeAssumption DEF Index
  <2>4. (r.tail_index + k) % Size # r.head_index
    BY <1>1, <2>1, <2>3, OffsetOfHead DEF ring_buffer_num_items
  <2> QED
    BY <1>1, <1>2, <2>2, <2>4 DEF cell
<1>6. cell(s, n) = c
  <2>1. (r.tail_index + n) % Size = r.head_index
    BY <1>1, <1>4, OffsetOfHead DEF ring_buffer_num_items
  <2> QED
    BY <1>1, <1>2, <2>1 DEF cell
<1> QED
  BY <1>3, <1>4, <1>5, <1>6

LEMMA AdvanceHead ==
    ASSUME NEW r \in ring_buffer_t, ~ring_buffer_is_full(r)
    PROVE  /\ advance_head(r) \in ring_buffer_t
           /\ ring_buffer_num_items(advance_head(r)) = ring_buffer_num_items(r) + 1
           /\ \A k \in 0..ring_buffer_num_items(r) : cell(advance_head(r), k) = cell(r, k)
<1> DEFINE s == advance_head(r)
           n == ring_buffer_num_items(r)
<1>1. /\ r.tail_index \in Index /\ r.head_index \in Index
      /\ r.pBuffer \in [Index -> Char]
  BY DEF ring_buffer_t
<1>2. /\ s.tail_index = r.tail_index
      /\ s.head_index = next_index(r.head_index)
      /\ s.pBuffer = r.pBuffer
  BY DEF advance_head, ring_buffer_t
<1>3. s.head_index \in Index
  BY <1>1, <1>2, NextIndex, SizeAssumption DEF Index
<1>4. s \in ring_buffer_t
  BY <1>1, <1>2, <1>3 DEF advance_head, ring_buffer_t
<1>5. n \in Index /\ n # Size - 1
  BY NumItems
<1>6. ring_buffer_num_items(s) = n + 1
  BY <1>1, <1>2, DistanceToNext DEF ring_buffer_num_items, ring_buffer_is_full
<1>7. \A k \in 0..n : cell(s, k) = cell(r, k)
  BY <1>2 DEF cell
<1> QED
  BY <1>4, <1>6, <1>7

(* Queueing a byte on a full ring drops the first byte and keeps the       *)
(* number; otherwise it keeps them all. The new byte is the last one.      *)
LEMMA Queue ==
    ASSUME NEW r \in ring_buffer_t, NEW c \in Char
    PROVE  LET n == ring_buffer_num_items(r)
               q == ring_buffer_queue(r, c)
           IN  /\ q \in ring_buffer_t
               /\ ring_buffer_is_full(r) =>
                      /\ ring_buffer_num_items(q) = n
                      /\ \A k \in 0..(n - 2) : cell(q, k) = cell(r, k + 1)
                      /\ cell(q, n - 1) = c
               /\ ~ring_buffer_is_full(r) =>
                      /\ ring_buffer_num_items(q) = n + 1
                      /\ \A k \in 0..(n - 1) : cell(q, k) = cell(r, k)
                      /\ cell(q, n) = c
<1> DEFINE n == ring_buffer_num_items(r)
           d == drop_oldest(r)
           p == put_cell(d, c)
           q == advance_head(p)
           m == ring_buffer_num_items(d)
<1>1. q = ring_buffer_queue(r, c)
  BY DEF ring_buffer_queue
<1>2. n \in Index /\ n \in Nat /\ n < Size /\ Size > 1 /\ Size \in Nat
  BY NumItems, SizeAssumption DEF Index
<1>3. /\ d \in ring_buffer_t
      /\ ring_buffer_is_full(r) =>
             m = n - 1 /\ \A k \in 0..(n - 2) : cell(d, k) = cell(r, k + 1)
      /\ ~ring_buffer_is_full(r) => d = r
  <2>1. CASE ring_buffer_is_full(r)
    <3>1. ~ring_buffer_is_empty(r)
      BY <1>2, <2>1, NumItems
    <3> QED
      BY <2>1, <3>1, AdvanceTail DEF drop_oldest
  <2>2. CASE ~ring_buffer_is_full(r)
    BY <2>2 DEF drop_oldest
  <2> QED
    BY <2>1, <2>2
<1>4. m \in Nat /\ m < Size - 1
  <2>1. ring_buffer_is_full(r) => n = Size - 1
    BY NumItems
  <2>2. ~ring_buffer_is_full(r) => n # Size - 1
    BY NumItems
  <2> QED
    BY <1>2, <1>3, <2>1, <2>2
<1> HIDE DEF d
<1>5. /\ p \in ring_buffer_t
      /\ ring_buffer_num_items(p) = m
      /\ \A k \in 0..(m - 1) : cell(p, k) = cell(d, k)
      /\ cell(p, m) = c
  BY <1>3, PutCell
<1>6. ~ring_buffer_is_full(p)
  BY <1>4, <1>5, NumItems
<1> HIDE DEF p
<1>7. /\ q \in ring_buffer_t
      /\ ring_buffer_num_items(q) = m + 1
      /\ \A k \in 0..m : cell(q, k) = cell(p, k)
  BY <1>5, <1>6, AdvanceHead
<1> HIDE DEF q, m
<1>8. \A k \in 0..(m - 1) : cell(q, k) = cell(d, k)
  BY <1>4, <1>5, <1>7
<1>9. cell(q, m) = c
  BY <1>4, <1>5, <1>7
<1>10. ~ring_buffer_is_full(r) => m = n
  BY <1>3 DEF m
<1>11. CASE ring_buffer_is_full(r)
  <2>1. m = n - 1
    BY <1>3, <1>11 DEF m
  <2> QED
    BY <1>1, <1>2, <1>3, <1>7, <1>8, <1>9, <1>11, <2>1
<1>12. CASE ~ring_buffer_is_full(r)
  BY <1>1, <1>2, <1>3, <1>7, <1>8, <1>9, <1>10, <1>12
<1> QED
  BY <1>11, <1>12

------------------------------------------------------------------------------
(* Bytes that are numbered in the order they are put in.                   *)

(* The bytes after from, up to to.                                         *)
Numbered(from, to) == [k \in 1..(to - from) |-> from + k]

(* Two sequences of the same elements.                                     *)
LEMMA SameSequence ==
    ASSUME NEW S, NEW U, NEW x \in Seq(S), NEW y \in Seq(U), Len(x) = Len(y),
           \A k \in 1..Len(x) : x[k] = y[k]
    PROVE  x = y
OBVIOUS

(* They are a stream: a new byte goes to the end, and the next one to come *)
(* out is the one after from.                                              *)
LEMMA NumberedFacts ==
    ASSUME NEW a \in Nat, NEW b \in Nat, a <= b
    PROVE  /\ Numbered(a, b) \in Seq(Nat) /\ Len(Numbered(a, b)) = b - a
           /\ Append(Numbered(a, b), b + 1) = Numbered(a, b + 1)
           /\ a < b => /\ Numbered(a, b) # <<>>
                       /\ Head(Numbered(a, b)) = a + 1
                       /\ Tail(Numbered(a, b)) = Numbered(a + 1, b)
<1> DEFINE s == Numbered(a, b)
<1>1. /\ s \in Seq(Nat) /\ Len(s) = b - a /\ b - a \in Nat
      /\ \A k \in 1..(b - a) : s[k] = a + k
  BY DEF Numbered
<1>2. Append(s, b + 1) = Numbered(a, b + 1)
  <2> DEFINE t == Append(s, b + 1)
             u == Numbered(a, b + 1)
  <2>1. /\ t \in Seq(Nat) /\ Len(t) = b - a + 1 /\ t[b - a + 1] = b + 1
        /\ \A k \in 1..(b - a) : t[k] = s[k]
    BY <1>1
  <2>2. /\ u \in Seq(Nat) /\ Len(u) = b - a + 1
        /\ \A k \in 1..(b - a + 1) : u[k] = a + k
    <3>1. b + 1 - a = b - a + 1 /\ b - a + 1 \in Nat
      BY <1>1
    <3> QED
      BY <3>1 DEF Numbered
  <2>3. ASSUME NEW k \in 1..(b - a + 1) PROVE t[k] = u[k]
    <3>1. CASE k = b - a + 1
      <4>1. a + k = b + 1
        BY <1>1, <3>1
      <4> QED
        BY <2>1, <2>2, <3>1, <4>1
    <3>2. CASE k # b - a + 1
      <4>1. k \in 1..(b - a)
        BY <1>1, <3>2
      <4> QED
        BY <1>1, <2>1, <2>2, <4>1
    <3> QED
      BY <3>1, <3>2
  <2> HIDE DEF t, u
  <2>4. t = u
    BY <2>1, <2>2, <2>3, SameSequence
  <2> QED
    BY <2>4 DEF t, u
<1>3. ASSUME a < b
      PROVE  s # <<>> /\ Head(s) = a + 1 /\ Tail(s) = Numbered(a + 1, b)
  <2> DEFINE t == Tail(s)
             u == Numbered(a + 1, b)
  <2>1. s # <<>> /\ 1 \in 1..(b - a) /\ Head(s) = s[1]
    BY <1>1, <1>3
  <2>2. /\ t \in Seq(Nat) /\ Len(t) = b - a - 1
        /\ \A k \in 1..(b - a - 1) : t[k] = s[k + 1]
    BY <1>1, <2>1
  <2>3. /\ u \in Seq(Nat) /\ Len(u) = b - a - 1
        /\ \A k \in 1..(b - a - 1) : u[k] = a + 1 + k
    <3>1. b - (a + 1) = b - a - 1 /\ b - a - 1 \in Nat
      BY <1>1, <1>3
    <3> QED
      BY <3>1 DEF Numbered
  <2>4. ASSUME NEW k \in 1..(b - a - 1) PROVE t[k] = u[k]
    <3>1. k + 1 \in 1..(b - a) /\ a + (k + 1) = a + 1 + k
      BY <1>1
    <3> QED
      BY <1>1, <2>2, <2>3, <3>1
  <2> HIDE DEF t, u
  <2>5. t = u
    BY <2>2, <2>3, <2>4, SameSequence
  <2>6. s[1] = a + 1
    BY <1>1, <2>1
  <2> QED
    BY <2>1, <2>5, <2>6 DEF t, u
<1> HIDE DEF s
<1> QED
  BY <1>1, <1>2, <1>3 DEF s

(* The contents of a ring, as a sequence.                                  *)
LEMMA ContentsFacts ==
    ASSUME NEW r \in ring_buffer_t
    PROVE  /\ Contents(r) \in Seq(Char) /\ Len(Contents(r)) = ring_buffer_num_items(r)
           /\ ring_buffer_num_items(r) \in Nat
           /\ \A k \in 1..ring_buffer_num_items(r) : Contents(r)[k] = cell(r, k - 1)
<1> DEFINE N == ring_buffer_num_items(r)
<1>1. N \in Nat /\ N < Size /\ \A k \in Index : cell(r, k) \in Char
  BY SizeAssumption, NumItems, CellType DEF Index
<1>2. Contents(r) = [k \in 1..N |-> cell(r, k - 1)]
  BY DEF Contents
<1> HIDE DEF N
<1>3. ASSUME NEW k \in 1..N PROVE cell(r, k - 1) \in Char
  <2>1. k - 1 \in Index
    BY <1>1, SizeAssumption DEF Index
  <2> QED
    BY <1>1, <2>1
<1>4. /\ Contents(r) \in Seq(Char) /\ Len(Contents(r)) = N
      /\ \A k \in 1..N : Contents(r)[k] = cell(r, k - 1)
  BY <1>1, <1>2, <1>3
<1> QED
  BY <1>1, <1>4 DEF N

(* Two stretches that follow each other are one.                           *)
LEMMA NumberedJoined ==
    ASSUME NEW a \in Nat, NEW x \in Seq(Char), NEW y \in Seq(Char),
           \A k \in 1..Len(x) : x[k] = a + k,
           \A k \in 1..Len(y) : y[k] = a + Len(x) + k
    PROVE  x \o y = Numbered(a, a + Len(x) + Len(y))
<1> DEFINE N == Len(x) + Len(y)
           s == x \o y
           u == Numbered(a, a + Len(x) + Len(y))
<1>1. Len(x) \in Nat /\ Len(y) \in Nat /\ N \in Nat
  OBVIOUS
<1>2. /\ s \in Seq(Char) /\ Len(s) = N
      /\ \A k \in 1..N : s[k] = IF k <= Len(x) THEN x[k] ELSE y[k - Len(x)]
  OBVIOUS
<1>3. u \in Seq(Nat) /\ Len(u) = N /\ \A k \in 1..N : u[k] = a + k
  <2>1. a + Len(x) + Len(y) - a = N
    BY <1>1
  <2> QED
    BY <1>1, <2>1 DEF Numbered
<1>4. ASSUME NEW k \in 1..N PROVE s[k] = u[k]
  <2>1. CASE k <= Len(x)
    <3>1. k \in 1..Len(x)
      BY <1>1, <2>1
    <3> QED
      BY <1>2, <1>3, <2>1, <3>1
  <2>2. CASE ~(k <= Len(x))
    <3>1. k - Len(x) \in 1..Len(y) /\ a + Len(x) + (k - Len(x)) = a + k
      BY <1>1, <2>2
    <3> QED
      BY <1>2, <1>3, <2>2, <3>1
  <2> QED
    BY <2>1, <2>2
<1> HIDE DEF s, u
<1>5. s = u
  BY <1>2, <1>3, <1>4, SameSequence
<1> QED
  BY <1>5 DEF s, u

------------------------------------------------------------------------------
(* Loops.  The _arr functions are loops, modelled by recursive functions:  *)
(* what such a function is equal to is known once some function satisfies  *)
(* its equation, which is by induction on the number of iterations.        *)

(* A set of natural numbers that is not empty has a least element.         *)
LEMMA LeastOf ==
    ASSUME NEW U, U \subseteq Nat, U # {}
    PROVE  \E n \in U : \A k \in U : n <= k
<1> DEFINE Below == OpToRel(<, Nat)
<1>1. IsWellFoundedOn(Below, Nat)
  BY NatLessThanWellFounded
<1>2. \A a, b \in Nat : <<a, b>> \in Below <=> a < b
  BY DEF OpToRel
<1> HIDE DEF Below
<1>3. PICK n \in U : \A k \in U : ~(<<k, n>> \in Below)
  BY <1>1, WFMin
<1>4. ASSUME NEW k \in U PROVE n <= k
  <2>1. ~(<<k, n>> \in Below) /\ k \in Nat /\ n \in Nat
    BY <1>3
  <2> QED BY <1>2, <2>1
<1> QED
  BY <1>4

(* A set that holds 0, and the successor of every number in it, holds      *)
(* every natural number.                                                   *)
LEMMA SetInduction ==
    ASSUME NEW S, 0 \in S, \A n \in Nat : n \in S => n + 1 \in S
    PROVE  Nat \subseteq S
<1> SUFFICES ASSUME ~(Nat \subseteq S) PROVE FALSE
  OBVIOUS
<1> DEFINE U == Nat \ S
<1>1. U \subseteq Nat /\ U # {}
  OBVIOUS
<1>2. PICK n \in U : \A k \in U : n <= k
  BY <1>1, LeastOf
<1>3. n # 0 /\ n - 1 \in Nat /\ n - 1 \notin U
  BY <1>2
<1>4. n - 1 + 1 = n
  BY <1>2
<1> QED
  BY <1>2, <1>3, <1>4

(* What m iterations of a loop compute exists: step gives the state after  *)
(* an iteration from the state before it and the iteration's number.       *)
Loop(S, base, m, step) ==
    \E f \in [0..m -> S] :
        f[0] = base /\ \A n \in 1..m : f[n] = step[<<f[n - 1], n>>]

LEMMA LoopExists ==
    ASSUME NEW S, NEW base \in S, NEW m \in Nat, NEW step \in [S \X (1..m) -> S]
    PROVE  Loop(S, base, m, step)
<1> DEFINE P(f, k) == f[0] = base /\ \A n \in 1..k : f[n] = step[<<f[n - 1], n>>]
           Good == {k \in Nat : k <= m => \E f \in [0..k -> S] : P(f, k)}
<1>1. 0 \in Good
  <2> DEFINE f == [n \in 0..0 |-> base]
  <2>1. f \in [0..0 -> S] /\ P(f, 0)
    OBVIOUS
  <2> QED
    BY <2>1
<1>2. ASSUME NEW k \in Nat, k \in Good PROVE k + 1 \in Good
  <2> SUFFICES ASSUME k + 1 <= m PROVE \E g \in [0..(k + 1) -> S] : P(g, k + 1)
    OBVIOUS
  <2>1. PICK f \in [0..k -> S] : P(f, k)
    BY <1>2
  <2> DEFINE g == [n \in 0..(k + 1) |-> IF n <= k THEN f[n] ELSE step[<<f[k], k + 1>>]]
  <2>2. f[k] \in S /\ step[<<f[k], k + 1>>] \in S
    OBVIOUS
  <2>3. g \in [0..(k + 1) -> S]
    BY <2>2
  <2>4. g[0] = base
    BY <2>1
  <2>5. ASSUME NEW n \in 1..(k + 1)
        PROVE  g[n] = step[<<g[n - 1], n>>]
    <3>1. CASE n <= k
      <4>1. n - 1 \in 0..k /\ n - 1 \in 0..(k + 1) /\ n \in 0..k /\ n \in 1..k
        BY <3>1
      <4>2. g[n] = f[n] /\ g[n - 1] = f[n - 1]
        BY <3>1, <4>1
      <4>3. f[n] = step[<<f[n - 1], n>>]
        BY <2>1, <4>1
      <4> QED
        BY ONLY <4>2, <4>3
    <3>2. CASE n = k + 1
      <4>1. n - 1 = k /\ k \in 0..(k + 1) /\ ~(n <= k)
        BY <3>2
      <4>2. g[n] = step[<<f[k], k + 1>>] /\ g[k] = f[k]
        BY <4>1
      <4> QED
        BY ONLY <3>2, <4>1, <4>2
    <3> QED
      BY <3>1, <3>2
  <2> HIDE DEF g
  <2> QED
    BY <2>3, <2>4, <2>5
<1> HIDE DEF Good
<1>3. m \in Good /\ m <= m
  BY <1>1, <1>2, SetInduction
<1> QED
  BY <1>3 DEF Good, Loop

------------------------------------------------------------------------------
(* What the operations do to the contents, as sequences.                   *)

(* The newest bytes, as many as the ring can hold.                         *)
Kept(s) == IF Len(s) > Size - 1 THEN SubSeq(s, Len(s) - (Size - 1) + 1, Len(s)) ELSE s

(* The elements from the one after the a-th to the b-th.                   *)
LEMMA StretchFacts ==
    ASSUME NEW S, NEW s \in Seq(S), NEW a \in Nat, NEW b \in Nat, a <= b, b <= Len(s)
    PROVE  /\ SubSeq(s, a + 1, b) \in Seq(S) /\ Len(SubSeq(s, a + 1, b)) = b - a
           /\ \A k \in 1..(b - a) : SubSeq(s, a + 1, b)[k] = s[a + k]
<1>1. SubSeq(s, a + 1, b) \in Seq(S) /\ Len(SubSeq(s, a + 1, b)) = b - a
  OBVIOUS
<1>2. ASSUME NEW k \in 1..(b - a) PROVE SubSeq(s, a + 1, b)[k] = s[a + k]
  <2>1. a + 1 + k - 1 = a + k
    OBVIOUS
  <2> QED BY <2>1
<1> QED BY <1>1, <1>2

(* What is kept, element by element: all but the d oldest.                 *)
LEMMA KeptFacts ==
    ASSUME NEW S, NEW s \in Seq(S)
    PROVE  /\ Kept(s) \in Seq(S)
           /\ \E d \in 0..Len(s) :
                /\ d = IF Len(s) > Size - 1 THEN Len(s) - (Size - 1) ELSE 0
                /\ Len(Kept(s)) = Len(s) - d
                /\ \A k \in 1..(Len(s) - d) : Kept(s)[k] = s[d + k]
<1>0. Size \in Nat /\ Size > 1 /\ Len(s) \in Nat
  BY SizeAssumption
<1>1. CASE Len(s) > Size - 1
  <2> DEFINE d == Len(s) - (Size - 1)
  <2>1. d \in Nat /\ d \in 0..Len(s) /\ Kept(s) = SubSeq(s, d + 1, Len(s))
    BY <1>0, <1>1 DEF Kept
  <2> HIDE DEF d
  <2>2. /\ Kept(s) \in Seq(S) /\ Len(Kept(s)) = Len(s) - d
        /\ \A k \in 1..(Len(s) - d) : Kept(s)[k] = s[d + k]
    BY <1>0, <2>1, StretchFacts
  <2> QED
    BY <1>0, <1>1, <2>1, <2>2 DEF d
<1>2. CASE ~(Len(s) > Size - 1)
  <2>1. Kept(s) = s
    BY <1>2 DEF Kept
  <2>2. \A k \in 1..(Len(s) - 0) : Kept(s)[k] = s[0 + k]
    BY <1>0, <2>1
  <2> QED
    BY <1>0, <1>2, <2>1, <2>2
<1> QED
  BY <1>1, <1>2

(* What is forgotten in two goes and in one.                               *)
LEMMA ForgottenTogether ==
    ASSUME NEW n \in Nat, NEW N \in Nat, N > 0, NEW d \in Nat, NEW e \in Nat, NEW g \in Nat,
           d = (IF n > N THEN n - N ELSE 0),
           e = (IF n - d + 1 > N THEN n - d + 1 - N ELSE 0),
           g = (IF n + 1 > N THEN n + 1 - N ELSE 0)
    PROVE  g = d + e /\ n - d + 1 - e = n + 1 - g /\ n - d + 1 \in Nat
OBVIOUS

(* Forgetting early or late is the same.                                   *)
LEMMA KeptOnce ==
    ASSUME NEW S, NEW s \in Seq(S), NEW c \in S
    PROVE  Kept(Append(Kept(s), c)) = Kept(Append(s, c))
<1> DEFINE t == Append(s, c)
           k1 == Kept(s)
           u == Append(k1, c)
<1>0. Size \in Nat /\ Size > 1 /\ Len(s) \in Nat
  BY SizeAssumption
<1>1. /\ t \in Seq(S) /\ Len(t) = Len(s) + 1 /\ t[Len(s) + 1] = c
      /\ \A k \in 1..Len(s) : t[k] = s[k]
  OBVIOUS
<1>2. PICK d \in 0..Len(s) :
        /\ d = IF Len(s) > Size - 1 THEN Len(s) - (Size - 1) ELSE 0
        /\ Len(k1) = Len(s) - d
        /\ \A k \in 1..(Len(s) - d) : k1[k] = s[d + k]
  BY KeptFacts
<1>3. k1 \in Seq(S)
  BY KeptFacts
<1> HIDE DEF k1
<1>4. /\ u \in Seq(S) /\ Len(u) = Len(k1) + 1 /\ u[Len(k1) + 1] = c
      /\ \A k \in 1..Len(k1) : u[k] = k1[k]
  BY <1>3
<1> HIDE DEF t, u
<1>5. \A k \in 1..Len(u) : u[k] = t[d + k]
  <2> TAKE k \in 1..Len(u)
  <2>1. CASE k = Len(k1) + 1
    <3>1. d + k = Len(s) + 1
      BY <1>0, <1>2, <2>1
    <3> QED BY <1>1, <1>4, <2>1, <3>1
  <2>2. CASE k # Len(k1) + 1
    <3>1. /\ Len(k1) = Len(s) - d /\ Len(u) = Len(k1) + 1
          /\ d \in 0..Len(s) /\ Len(s) \in Nat
      BY <1>0, <1>2, <1>4
    <3>2. k \in 1..Len(k1) /\ k \in 1..(Len(s) - d) /\ d + k \in 1..Len(s)
      BY ONLY k \in 1..Len(u), <2>2, <3>1
    <3> QED BY <1>1, <1>2, <1>4, <3>2
  <2> QED BY <2>1, <2>2
<1>6. PICK e \in 0..Len(u) :
        /\ e = IF Len(u) > Size - 1 THEN Len(u) - (Size - 1) ELSE 0
        /\ Len(Kept(u)) = Len(u) - e
        /\ \A k \in 1..(Len(u) - e) : Kept(u)[k] = u[e + k]
  BY <1>4, KeptFacts
<1>7. PICK g \in 0..Len(t) :
        /\ g = IF Len(t) > Size - 1 THEN Len(t) - (Size - 1) ELSE 0
        /\ Len(Kept(t)) = Len(t) - g
        /\ \A k \in 1..(Len(t) - g) : Kept(t)[k] = t[g + k]
  BY <1>1, KeptFacts
<1>8. Kept(u) \in Seq(S) /\ Kept(t) \in Seq(S)
  BY <1>1, <1>4, KeptFacts
<1>9. g = d + e /\ Len(u) - e = Len(t) - g /\ Len(u) \in Nat
  <2>1. Len(u) = Len(s) - d + 1 /\ Len(t) = Len(s) + 1
    BY <1>1, <1>2, <1>4
  <2>2. /\ d = IF Len(s) > Size - 1 THEN Len(s) - (Size - 1) ELSE 0
        /\ e = IF Len(u) > Size - 1 THEN Len(u) - (Size - 1) ELSE 0
        /\ g = IF Len(t) > Size - 1 THEN Len(t) - (Size - 1) ELSE 0
    BY <1>2, <1>6, <1>7
  <2>3. d \in Nat /\ e \in Nat /\ g \in Nat /\ Size - 1 \in Nat /\ Size - 1 > 0
    <3>1. Len(u) \in Nat /\ Len(t) \in Nat
      BY <1>1, <1>4
    <3> QED BY <1>0, <3>1
  <2> DEFINE n == Len(s)
             N == Size - 1
  <2>4. /\ n \in Nat /\ N \in Nat /\ N > 0
        /\ Len(u) = n - d + 1 /\ Len(t) = n + 1
    BY <1>0, <2>1, <2>3
  <2>5. /\ d = (IF n > N THEN n - N ELSE 0)
        /\ e = (IF Len(u) > N THEN Len(u) - N ELSE 0)
        /\ g = (IF Len(t) > N THEN Len(t) - N ELSE 0)
    BY <2>2
  <2> HIDE DEF n, N
  <2>6. /\ e = (IF n - d + 1 > N THEN n - d + 1 - N ELSE 0)
        /\ g = (IF n + 1 > N THEN n + 1 - N ELSE 0)
    BY ONLY <2>4, <2>5
  <2>7. g = d + e /\ n - d + 1 - e = n + 1 - g /\ n - d + 1 \in Nat
    BY ONLY <2>3, <2>4, <2>5, <2>6, ForgottenTogether
  <2> QED BY <2>1, <2>7 DEF n
<1>10. ASSUME NEW k \in 1..(Len(u) - e) PROVE Kept(u)[k] = Kept(t)[k]
  <2>1. e + k \in 1..Len(u) /\ d + (e + k) = g + k /\ k \in 1..(Len(t) - g)
    BY <1>9
  <2>2. Kept(u)[k] = u[e + k] /\ Kept(t)[k] = t[g + k]
    BY <1>6, <1>7, <2>1
  <2>3. u[e + k] = t[d + (e + k)]
    BY <1>5, <2>1
  <2> QED BY <2>1, <2>2, <2>3
<1> QED
  BY <1>6, <1>7, <1>8, <1>9, <1>10, SameSequence DEF t, u, k1

(* Queueing a byte is appending it to the contents and forgetting what no  *)
(* longer fits.                                                            *)
LEMMA QueueContents ==
    ASSUME NEW r \in ring_buffer_t, NEW c \in Char
    PROVE  /\ ring_buffer_queue(r, c) \in ring_buffer_t
           /\ Contents(ring_buffer_queue(r, c)) = Kept(Append(Contents(r), c))
<1> DEFINE q == ring_buffer_queue(r, c)
           n == ring_buffer_num_items(r)
           m == ring_buffer_num_items(q)
           s == Contents(r)
           t == Append(s, c)
           x == Contents(q)
<1>1. /\ q \in ring_buffer_t
      /\ ring_buffer_is_full(r) =>
             /\ m = n
             /\ \A k \in 0..(n - 2) : cell(q, k) = cell(r, k + 1)
             /\ cell(q, n - 1) = c
      /\ ~ring_buffer_is_full(r) =>
             /\ m = n + 1
             /\ \A k \in 0..(n - 1) : cell(q, k) = cell(r, k)
             /\ cell(q, n) = c
  BY Queue
<1>2. /\ n \in Nat /\ n < Size /\ Size \in Nat /\ Size > 1
      /\ ring_buffer_is_full(r) <=> n = Size - 1
  BY NumItems, SizeAssumption DEF Index
<1>3. /\ s \in Seq(Char) /\ Len(s) = n
      /\ \A k \in 1..n : s[k] = cell(r, k - 1)
  BY ContentsFacts
<1> HIDE DEF q
<1>4. /\ x \in Seq(Char) /\ Len(x) = m
      /\ \A k \in 1..m : x[k] = cell(q, k - 1)
  BY <1>1, ContentsFacts
<1> HIDE DEF n, m, s, x
<1>5. /\ t \in Seq(Char) /\ Len(t) = n + 1 /\ t[n + 1] = c
      /\ \A k \in 1..n : t[k] = s[k]
  BY <1>2, <1>3
<1> HIDE DEF t
<1>6. PICK d \in 0..Len(t) :
        /\ d = IF Len(t) > Size - 1 THEN Len(t) - (Size - 1) ELSE 0
        /\ Len(Kept(t)) = Len(t) - d
        /\ \A k \in 1..(Len(t) - d) : Kept(t)[k] = t[d + k]
  BY <1>5, KeptFacts
<1>7. Kept(t) \in Seq(Char)
  BY <1>5, KeptFacts
<1>8. m = n + 1 - d /\ Len(Kept(t)) = m
  BY <1>1, <1>2, <1>5, <1>6
<1>9. ASSUME NEW k \in 1..m PROVE x[k] = Kept(t)[k]
  <2>1. Kept(t)[k] = t[d + k] /\ x[k] = cell(q, k - 1)
    BY <1>4, <1>5, <1>6, <1>8
  <2>2. CASE k = m
    <3>1. d + k = n + 1
      BY <1>2, <1>8, <2>2
    <3>2. cell(q, m - 1) = c
      <4>1. CASE n = Size - 1 BY <1>1, <1>2, <4>1
      <4>2. CASE n # Size - 1
        <5>1. m - 1 = n BY <1>1, <1>2, <4>2
        <5> QED BY <1>1, <1>2, <4>2, <5>1
      <4> QED BY <4>1, <4>2
    <3> QED BY <1>5, <2>1, <2>2, <3>1, <3>2
  <2>3. CASE k # m /\ n = Size - 1
    <3>1. d = 1 /\ m = n /\ k - 1 \in 0..(n - 2) /\ k - 1 + 1 = k /\ 1 + k \in 1..n /\ d + k - 1 = k
      BY <1>1, <1>2, <1>5, <1>6, <2>3
    <3>2. cell(q, k - 1) = cell(r, k)
      BY <1>1, <1>2, <2>3, <3>1
    <3>3. t[d + k] = s[d + k] /\ s[d + k] = cell(r, d + k - 1)
      BY <1>3, <1>5, <3>1
    <3> QED BY <2>1, <3>1, <3>2, <3>3
  <2>4. CASE k # m /\ n # Size - 1
    <3>1. d = 0 /\ m = n + 1 /\ k \in 1..n /\ k - 1 \in 0..(n - 1) /\ d + k = k
      BY <1>1, <1>2, <1>5, <1>6, <2>4
    <3>2. cell(q, k - 1) = cell(r, k - 1)
      BY <1>1, <1>2, <2>4, <3>1
    <3>3. t[k] = s[k] /\ s[k] = cell(r, k - 1)
      BY <1>3, <1>5, <3>1
    <3> QED BY <2>1, <3>1, <3>2, <3>3
  <2> QED BY <2>2, <2>3, <2>4
<1>10. x = Kept(t)
  BY <1>4, <1>7, <1>8, <1>9, SameSequence
<1> QED
  BY <1>1, <1>10 DEF x, t, s, q

(* One more element at the end of a sequence.                              *)
LEMMA OneMore ==
    ASSUME NEW S, NEW w \in Seq(S), NEW e \in S
    PROVE  /\ Append(w, e) \in Seq(S) /\ Len(Append(w, e)) = Len(w) + 1
           /\ \A k \in 1..Len(w) : Append(w, e)[k] = w[k]
           /\ Append(w, e)[Len(w) + 1] = e
OBVIOUS

(* The elements of two sequences put together.                             *)
LEMMA PutTogether ==
    ASSUME NEW S, NEW w \in Seq(S), NEW v \in Seq(S)
    PROVE  /\ w \o v \in Seq(S) /\ Len(w \o v) = Len(w) + Len(v)
           /\ \A k \in 1..Len(w) : (w \o v)[k] = w[k]
           /\ \A k \in 1..Len(v) : (w \o v)[Len(w) + k] = v[k]
OBVIOUS

(* One more element, and a sequence of it.                                 *)
LEMMA OneMoreJoined ==
    ASSUME NEW S, NEW w \in Seq(S), NEW v \in Seq(S), Len(v) = 1
    PROVE  w \o v = Append(w, v[1])
<1> DEFINE x == w \o v
           y == Append(w, v[1])
<1>1. v[1] \in S /\ Len(w) \in Nat
  OBVIOUS
<1>2. /\ x \in Seq(S) /\ Len(x) = Len(w) + Len(v)
      /\ \A k \in 1..Len(w) : x[k] = w[k]
      /\ \A k \in 1..Len(v) : x[Len(w) + k] = v[k]
  BY PutTogether
<1>3. /\ y \in Seq(S) /\ Len(y) = Len(w) + 1
      /\ \A k \in 1..Len(w) : y[k] = w[k]
      /\ y[Len(w) + 1] = v[1]
  BY <1>1, OneMore
<1> HIDE DEF x, y
<1>4. Len(x) = Len(w) + 1 /\ 1 \in 1..Len(v)
  BY <1>2
<1>5. ASSUME NEW k \in 1..Len(x) PROVE x[k] = y[k]
  <2>1. CASE k \in 1..Len(w)
    BY <1>2, <1>3, <2>1
  <2>2. CASE k = Len(w) + 1
    BY <1>2, <1>3, <1>4, <2>2
  <2> QED
    BY <1>1, <1>4, <2>1, <2>2
<1>6. x = y
  BY <1>2, <1>3, <1>4, <1>5, SameSequence
<1> QED
  BY <1>6 DEF x, y

(* A stretch with the byte after it is the longer stretch.                 *)
LEMMA StretchNext ==
    ASSUME NEW S, NEW c \in Seq(S), NEW s \in Seq(S), NEW n \in Nat, n + 1 <= Len(s)
    PROVE  Append(c \o SubSeq(s, 1, n), s[n + 1]) = c \o SubSeq(s, 1, n + 1)
<1> DEFINE u == SubSeq(s, 1, n)
           v == SubSeq(s, 1, n + 1)
           x == Append(c \o u, s[n + 1])
           y == c \o v
<1>1. /\ u \in Seq(S) /\ Len(u) = n /\ \A k \in 1..n : u[k] = s[k]
  OBVIOUS
<1>2. /\ v \in Seq(S) /\ Len(v) = n + 1 /\ \A k \in 1..(n + 1) : v[k] = s[k]
  OBVIOUS
<1>3. s[n + 1] \in S /\ Len(c) \in Nat
  OBVIOUS
<1> DEFINE e == s[n + 1]
<1>4. e \in S /\ v[n + 1] = e
  BY <1>2, <1>3
<1> HIDE DEF u, v, e
<1>5. /\ x \in Seq(S) /\ Len(x) = Len(c) + n + 1
      /\ \A k \in 1..Len(c) : x[k] = c[k]
      /\ \A k \in 1..n : x[Len(c) + k] = u[k]
      /\ x[Len(c) + n + 1] = e
  <2> DEFINE w == c \o u
  <2>1. /\ w \in Seq(S) /\ Len(w) = Len(c) + n
        /\ \A k \in 1..Len(c) : w[k] = c[k]
        /\ \A k \in 1..n : w[Len(c) + k] = u[k]
    BY <1>1
  <2> HIDE DEF w
  <2>2. /\ Append(w, e) \in Seq(S) /\ Len(Append(w, e)) = Len(c) + n + 1
        /\ \A k \in 1..(Len(c) + n) : Append(w, e)[k] = w[k]
        /\ Append(w, e)[Len(c) + n + 1] = e
    <3>1. /\ Append(w, e) \in Seq(S) /\ Len(Append(w, e)) = Len(w) + 1
          /\ \A k \in 1..Len(w) : Append(w, e)[k] = w[k]
          /\ Append(w, e)[Len(w) + 1] = e
      BY <2>1, <1>4, OneMore
    <3> QED BY <2>1, <3>1
  <2>3. x = Append(w, e)
    BY DEF w, e
  <2>4. \A k \in 1..n : Len(c) + k \in 1..(Len(c) + n)
    BY <1>3
  <2>5. \A k \in 1..Len(c) : k \in 1..(Len(c) + n)
    BY <1>3
  <2> HIDE DEF x
  <2> QED BY <2>1, <2>2, <2>3, <2>4, <2>5
<1>6. /\ y \in Seq(S) /\ Len(y) = Len(c) + n + 1
      /\ \A k \in 1..Len(c) : y[k] = c[k]
      /\ \A k \in 1..(n + 1) : y[Len(c) + k] = v[k]
  <2>1. /\ y \in Seq(S) /\ Len(y) = Len(c) + (n + 1)
        /\ \A k \in 1..Len(c) : y[k] = c[k]
        /\ \A k \in 1..(n + 1) : y[Len(c) + k] = v[k]
    BY <1>2
  <2> QED BY <1>3, <2>1
<1> HIDE DEF x, y
<1>7. ASSUME NEW k \in 1..(Len(c) + n + 1) PROVE x[k] = y[k]
  <2>1. CASE k \in 1..Len(c)
    BY <1>5, <1>6, <2>1
  <2>2. CASE k = Len(c) + n + 1
    <3>1. y[Len(c) + (n + 1)] = v[n + 1] /\ Len(c) + (n + 1) = k
      BY <1>3, <1>6, <2>2
    <3> QED BY <1>4, <1>5, <2>2, <3>1
  <2>3. CASE k \notin 1..Len(c) /\ k # Len(c) + n + 1
    <3>1. PICK j \in 1..n : k = Len(c) + j
      <4>1. k - Len(c) \in 1..n /\ k = Len(c) + (k - Len(c))
        BY <1>3, <2>3
      <4> QED BY <4>1
    <3>2. j \in 1..(n + 1)
      OBVIOUS
    <3> QED BY <1>1, <1>2, <1>5, <1>6, <3>1, <3>2
  <2> QED BY <2>1, <2>2, <2>3
<1>8. x = y
  BY <1>5, <1>6, <1>7, SameSequence
<1> QED
  BY <1>8 DEF x, y, u, v

(* A stretch of what follows j bytes.                                      *)
LEMMA StretchOfRest ==
    ASSUME NEW S, NEW s \in Seq(S), NEW j \in Nat, NEW k \in Nat, j + k <= Len(s)
    PROVE  LET u == SubSeq(s, j + 1, Len(s))
           IN  /\ u \in Seq(S) /\ Len(u) = Len(s) - j
               /\ SubSeq(s, 1, j) \o SubSeq(u, 1, k) = SubSeq(s, 1, j + k)
               /\ SubSeq(u, k + 1, Len(u)) = SubSeq(s, j + k + 1, Len(s))
<1> DEFINE u == SubSeq(s, j + 1, Len(s))
           N == Len(s)
<1>0. N \in Nat /\ j + k <= N /\ j <= N /\ N <= Len(s)
  OBVIOUS
<1>1. /\ u \in Seq(S) /\ Len(u) = N - j /\ \A i \in 1..(N - j) : u[i] = s[j + i]
  BY <1>0, StretchFacts
<1> HIDE DEF u
<1>2. SubSeq(u, k + 1, Len(u)) = SubSeq(s, j + k + 1, N)
  <2> DEFINE x == SubSeq(u, k + 1, Len(u))
             y == SubSeq(s, j + k + 1, N)
             M == N - j - k
  <2>1. N - j \in Nat /\ k <= N - j /\ N - j <= Len(u) /\ N - j - k = M /\ M \in Nat
    BY <1>0, <1>1
  <2>2. /\ x \in Seq(S) /\ Len(x) = M /\ \A i \in 1..M : x[i] = u[k + i]
    <3>1. /\ SubSeq(u, k + 1, N - j) \in Seq(S) /\ Len(SubSeq(u, k + 1, N - j)) = N - j - k
          /\ \A i \in 1..(N - j - k) : SubSeq(u, k + 1, N - j)[i] = u[k + i]
      BY <1>1, <2>1, StretchFacts
    <3> QED BY <1>1, <2>1, <3>1
  <2>3. /\ y \in Seq(S) /\ Len(y) = M /\ \A i \in 1..M : y[i] = s[j + k + i]
    <3>1. j + k \in Nat /\ N - (j + k) = M
      BY <1>0
    <3>2. /\ y \in Seq(S) /\ Len(y) = N - (j + k)
          /\ \A i \in 1..(N - (j + k)) : y[i] = s[j + k + i]
      BY <1>0, <3>1, StretchFacts
    <3> QED BY <3>1, <3>2
  <2>4. ASSUME NEW i \in 1..M PROVE x[i] = y[i]
    <3>1. k + i \in 1..(N - j) /\ j + (k + i) = j + k + i
      BY <1>0
    <3> QED BY <1>1, <2>2, <2>3, <3>1
  <2> HIDE DEF x, y, M
  <2>5. x = y
    BY <2>2, <2>3, <2>4, SameSequence
  <2> QED BY <2>5 DEF x, y
<1>3. SubSeq(s, 1, j) \o SubSeq(u, 1, k) = SubSeq(s, 1, j + k)
  <2> DEFINE a == SubSeq(s, 1, j)
             b == SubSeq(u, 1, k)
             x == a \o b
             y == SubSeq(s, 1, j + k)
  <2>1. /\ a \in Seq(S) /\ Len(a) = j /\ \A i \in 1..j : a[i] = s[i]
    BY <1>0
  <2>2. /\ b \in Seq(S) /\ Len(b) = k /\ \A i \in 1..k : b[i] = u[i]
    BY <1>0, <1>1
  <2>3. /\ y \in Seq(S) /\ Len(y) = j + k /\ \A i \in 1..(j + k) : y[i] = s[i]
    BY <1>0
  <2> HIDE DEF a, b
  <2>4. /\ x \in Seq(S) /\ Len(x) = Len(a) + Len(b)
        /\ \A i \in 1..Len(a) : x[i] = a[i]
        /\ \A i \in 1..Len(b) : x[Len(a) + i] = b[i]
    BY <2>1, <2>2
  <2> HIDE DEF x, y
  <2>5. /\ x \in Seq(S) /\ Len(x) = j + k
        /\ \A i \in 1..j : x[i] = a[i]
        /\ \A i \in 1..k : x[j + i] = b[i]
    BY ONLY <2>1, <2>2, <2>4
  <2>6. ASSUME NEW i \in 1..(j + k) PROVE x[i] = y[i]
    <3>1. CASE i \in 1..j
      BY <2>1, <2>3, <2>5, <3>1
    <3>2. CASE i \notin 1..j
      <4>1. PICK h \in 1..k : i = j + h
        <5>1. i - j \in 1..k /\ i = j + (i - j)
          BY <3>2
        <5> QED BY <5>1
      <4>2. h \in 1..(N - j)
        BY <1>0
      <4> QED BY <1>1, <2>2, <2>3, <2>5, <4>1, <4>2
    <3> QED BY <3>1, <3>2
  <2>7. x = y
    BY <2>3, <2>5, <2>6, SameSequence
  <2> QED BY <2>7 DEF x, y, a, b
<1> QED
  BY <1>1, <1>2, <1>3 DEF u

(* How many of the bytes of s a reader who asks for n gets.                *)
Taken(n, s) == IF n < Len(s) THEN n ELSE Len(s)

(* Dequeueing takes the first byte, if there is one.                       *)
LEMMA DequeueContents ==
    ASSUME NEW r \in ring_buffer_t
    PROVE  LET d == ring_buffer_dequeue(r)
               s == Contents(r)
               k == Taken(1, s)
           IN  /\ d = [ring |-> d.ring, data |-> d.data]
               /\ d.ring \in ring_buffer_t /\ d.data \in Seq(Char)
               /\ k \in Nat /\ k <= Len(s)
               /\ d.data = SubSeq(s, 1, k)
               /\ Contents(d.ring) = SubSeq(s, k + 1, Len(s))
<1> DEFINE d == ring_buffer_dequeue(r)
           s == Contents(r)
           k == Taken(1, s)
           n == ring_buffer_num_items(r)
<1>1. /\ s \in Seq(Char) /\ Len(s) = n /\ n \in Nat
      /\ \A i \in 1..n : s[i] = cell(r, i - 1)
  BY ContentsFacts
<1>2. ring_buffer_is_empty(r) <=> n = 0
  BY NumItems
<1>3. CASE n = 0
  <2>1. d = [ring |-> r, data |-> <<>>]
    BY <1>2, <1>3 DEF ring_buffer_dequeue
  <2>2. k = 0
    BY <1>1, <1>3 DEF Taken
  <2>3. d.ring = r /\ d.data = <<>>
    BY <2>1
  <2> HIDE DEF d, s, k, n
  <2>4. SubSeq(s, 1, 0) = <<>> /\ SubSeq(s, 1, Len(s)) = s /\ <<>> \in Seq(Char)
    BY <1>1
  <2> QED BY <1>1, <2>1, <2>2, <2>3, <2>4 DEF s, k, d
<1>4. CASE n # 0
  <2> DEFINE t == advance_tail(r)
  <2>1. d = [ring |-> t, data |-> <<oldest_byte(r)>>]
    BY <1>2, <1>4 DEF ring_buffer_dequeue
  <2>2. /\ t \in ring_buffer_t
        /\ ring_buffer_num_items(t) = n - 1
        /\ \A i \in 0..(n - 2) : cell(t, i) = cell(r, i + 1)
        /\ oldest_byte(r) = cell(r, 0)
    BY <1>2, <1>4, AdvanceTail
  <2>3. k = 1
    BY <1>1, <1>4 DEF Taken
  <2> HIDE DEF t
  <2>4. /\ Contents(t) \in Seq(Char) /\ Len(Contents(t)) = n - 1
        /\ \A i \in 1..(n - 1) : Contents(t)[i] = cell(t, i - 1)
    BY <2>2, ContentsFacts
  <2> HIDE DEF s, k, n, d
  <2>5. /\ SubSeq(s, 1 + 1, n) \in Seq(Char) /\ Len(SubSeq(s, 1 + 1, n)) = n - 1
        /\ \A i \in 1..(n - 1) : SubSeq(s, 1 + 1, n)[i] = s[1 + i]
    BY <1>1, <1>4, StretchFacts
  <2>6. ASSUME NEW i \in 1..(n - 1) PROVE Contents(t)[i] = SubSeq(s, 1 + 1, n)[i]
    <3>1. i - 1 \in 0..(n - 2) /\ 1 + i \in 1..n /\ i - 1 + 1 = i /\ 1 + i - 1 = i
      BY <1>1, <1>4
    <3>2. Contents(t)[i] = cell(r, i)
      BY <2>2, <2>4, <3>1
    <3>3. s[1 + i] = cell(r, i)
      BY <1>1, <3>1
    <3> QED BY <2>5, <3>2, <3>3
  <2>7. Contents(t) = SubSeq(s, 1 + 1, n)
    BY <2>4, <2>5, <2>6, SameSequence
  <2>8. s[1] = oldest_byte(r) /\ s[1] \in Char
    <3>1. 1 \in 1..n /\ 1 - 1 = 0
      BY <1>1, <1>4
    <3> QED BY <1>1, <2>2, <3>1
  <2>9. SubSeq(s, 1, 1) = <<s[1]>>
    <3>1. SubSeq(s, 1, 1) \in Seq(Char) /\ Len(SubSeq(s, 1, 1)) = 1 /\ SubSeq(s, 1, 1)[1] = s[1]
      BY <1>1, <1>4
    <3>2. <<s[1]>> \in Seq(Char) /\ Len(<<s[1]>>) = 1 /\ <<s[1]>>[1] = s[1]
      BY <2>8
    <3>3. \A i \in 1..1 : SubSeq(s, 1, 1)[i] = <<s[1]>>[i]
      BY <3>1, <3>2
    <3> QED BY <3>1, <3>2, <3>3, SameSequence
  <2>10. d.ring = t /\ d.data = <<s[1]>> /\ <<s[1]>> \in Seq(Char)
    BY <2>1, <2>8
  <2>11. 1 <= n
    BY <1>1, <1>4
  <2>12. d = [ring |-> d.ring, data |-> d.data]
    BY <2>1, <2>8, <2>10
  <2> QED BY <1>1, <2>2, <2>3, <2>7, <2>9, <2>10, <2>11, <2>12 DEF d, s, k
<1> QED
  BY <1>3, <1>4

(* The loop of ring_buffer_queue_arr, over any array: the ring holds the   *)
(* newest bytes of those it held and those of the array.                   *)
LEMMA QueueLoop ==
    ASSUME NEW r \in ring_buffer_t, NEW data \in Seq(Char), NEW after,
           after[0] = r,
           \A n \in 1..Len(data) : after[n] = ring_buffer_queue(after[n - 1], data[n])
    PROVE  /\ after[Len(data)] \in ring_buffer_t
           /\ Contents(after[Len(data)]) = Kept(Contents(r) \o data)
<1> DEFINE c == Contents(r)
           head(k) == SubSeq(data, 1, k)
           Good == {k \in Nat : k <= Len(data) =>
                        /\ after[k] \in ring_buffer_t
                        /\ Contents(after[k]) = Kept(c \o head(k))}
<1>1. c \in Seq(Char) /\ Len(c) < Size /\ Len(c) \in Nat /\ Size \in Nat /\ Len(data) \in Nat
  BY ContentsFacts, NumItems, SizeAssumption DEF Index
<1>2. 0 \in Good
  <2>1. after[0] = r
    BY <1>1
  <2>2. c \o head(0) = c
    BY <1>1
  <2>3. Kept(c) = c
    BY <1>1 DEF Kept
  <2> QED
    BY <2>1, <2>2, <2>3
<1>3. ASSUME NEW k \in Nat, k \in Good PROVE k + 1 \in Good
  <2> SUFFICES ASSUME k + 1 <= Len(data)
               PROVE  /\ after[k + 1] \in ring_buffer_t
                      /\ Contents(after[k + 1]) = Kept(c \o head(k + 1))
    OBVIOUS
  <2>1. after[k] \in ring_buffer_t /\ Contents(after[k]) = Kept(c \o head(k))
    BY <1>1, <1>3
  <2>2. k + 1 \in 1..Len(data) /\ k + 1 - 1 = k
    BY <1>1
  <2>3. after[k + 1] = ring_buffer_queue(after[k], data[k + 1])
    BY <2>2
  <2>4. data[k + 1] \in Char
    BY <2>2
  <2> DEFINE w == c \o head(k)
  <2>5. w \in Seq(Char)
    BY <1>1
  <2>6. Append(w, data[k + 1]) = c \o head(k + 1)
    BY <1>1, StretchNext
  <2>7. /\ ring_buffer_queue(after[k], data[k + 1]) \in ring_buffer_t
        /\ Contents(ring_buffer_queue(after[k], data[k + 1])) =
               Kept(Append(Contents(after[k]), data[k + 1]))
    BY <2>1, <2>4, QueueContents
  <2>8. Kept(Append(Kept(w), data[k + 1])) = Kept(Append(w, data[k + 1]))
    BY <2>4, <2>5, KeptOnce
  <2>9. Contents(after[k]) = Kept(w)
    BY <2>1
  <2> HIDE DEF w, head, c
  <2> QED
    BY <2>3, <2>6, <2>7, <2>8, <2>9
<1> HIDE DEF Good
<1>4. Len(data) \in Good
  BY <1>1, <1>2, <1>3, SetInduction
<1>5. head(Len(data)) = data
  BY <1>1
<1>6. /\ after[Len(data)] \in ring_buffer_t
      /\ Contents(after[Len(data)]) = Kept(c \o head(Len(data)))
  <2>1. Len(data) <= Len(data)
    BY <1>1
  <2> QED
    BY <1>4, <2>1 DEF Good
<1> HIDE DEF head
<1> QED
  BY <1>5, <1>6

(* An iteration of ring_buffer_dequeue_arr's loop.                         *)
OneByte(before) ==
    LET d == ring_buffer_dequeue(before.ring)
    IN  [ring |-> d.ring, data |-> before.data \o d.data]

(* A byte more, while there is one.                                        *)
LEMMA TakenNext ==
    ASSUME NEW S, NEW s \in Seq(S), NEW n \in Nat, NEW u, Len(u) = Len(s) - Taken(n, s)
    PROVE  /\ Taken(n, s) \in Nat /\ Taken(n, s) <= Len(s) /\ Taken(1, u) \in Nat
           /\ Taken(n, s) + Taken(1, u) = Taken(n + 1, s)
           /\ Taken(n, s) + Taken(1, u) <= Len(s)
<1> DEFINE j == Taken(n, s)
           k == Taken(1, u)
           i == Taken(n + 1, s)
           N == Len(s)
           M == Len(u)
<1>1. N \in Nat /\ M = N - j
  OBVIOUS
<1>2. /\ k = IF 1 < M THEN 1 ELSE M
      /\ j = IF n < N THEN n ELSE N
      /\ i = IF n + 1 < N THEN n + 1 ELSE N
  BY DEF Taken
<1> HIDE DEF i, j, k, N, M
<1>3. j \in Nat /\ j <= N
  BY <1>1, <1>2
<1>4. M \in Nat
  BY <1>1, <1>3
<1>5. k \in Nat /\ j + k = i /\ j + k <= N
  BY <1>1, <1>2, <1>3, <1>4
<1> QED
  BY <1>3, <1>5 DEF i, j, k, N

(* An iteration that follows n others.                                     *)
LEMMA OneByteMore ==
    ASSUME NEW s \in Seq(Char), NEW n \in Nat, NEW b,
           b.ring \in ring_buffer_t,
           b.data = SubSeq(s, 1, Taken(n, s)),
           Contents(b.ring) = SubSeq(s, Taken(n, s) + 1, Len(s))
    PROVE  /\ OneByte(b).ring \in ring_buffer_t
           /\ OneByte(b).data = SubSeq(s, 1, Taken(n + 1, s))
           /\ Contents(OneByte(b).ring) = SubSeq(s, Taken(n + 1, s) + 1, Len(s))
<1> DEFINE j == Taken(n, s)
           u == SubSeq(s, j + 1, Len(s))
           k == Taken(1, u)
           R == b.ring
           d == ring_buffer_dequeue(R)
<1>1. Contents(R) = u /\ R \in ring_buffer_t
  OBVIOUS
<1>2. /\ d.ring \in ring_buffer_t
      /\ d.data = SubSeq(u, 1, k)
      /\ Contents(d.ring) = SubSeq(u, k + 1, Len(u))
  <2> HIDE DEF R
  <2> QED
    BY <1>1, DequeueContents
<1>3. OneByte(b).ring = d.ring /\ OneByte(b).data = b.data \o d.data
  BY DEF OneByte
<1> HIDE DEF d
<1>4. j \in Nat /\ j <= Len(s)
  BY DEF Taken
<1> DEFINE v == SubSeq(s, 1, j)
<1>5. b.data = v
  OBVIOUS
<1> HIDE DEF j
<1>6. Len(u) = Len(s) - j
  BY <1>4
<1> HIDE DEF u
<1>7. k \in Nat /\ j + k <= Len(s) /\ j + k = Taken(n + 1, s)
  BY <1>6, TakenNext DEF j
<1> HIDE DEF k
<1>8. /\ v \o SubSeq(u, 1, k) = SubSeq(s, 1, j + k)
      /\ SubSeq(u, k + 1, Len(u)) = SubSeq(s, j + k + 1, Len(s))
  BY <1>4, <1>7, StretchOfRest DEF u
<1> HIDE DEF v
<1> QED
  BY ONLY <1>2, <1>3, <1>5, <1>7, <1>8

(* The loop of ring_buffer_dequeue_arr, for any length asked for: what it  *)
(* hands out is the oldest bytes, and the ring holds the rest.             *)
LEMMA DequeueLoop ==
    ASSUME NEW r \in ring_buffer_t, NEW len \in Nat, NEW after,
           after[0] = [ring |-> r, data |-> <<>>],
           \A n \in 1..len : after[n] = OneByte(after[n - 1])
    PROVE  LET s == Contents(r)
               k == Taken(len, s)
           IN  /\ after[len].ring \in ring_buffer_t
               /\ after[len].data = SubSeq(s, 1, k)
               /\ Contents(after[len].ring) = SubSeq(s, k + 1, Len(s))
<1> DEFINE s == Contents(r)
           Holds(n) == /\ after[n].ring \in ring_buffer_t
                       /\ after[n].data = SubSeq(s, 1, Taken(n, s))
                       /\ Contents(after[n].ring) = SubSeq(s, Taken(n, s) + 1, Len(s))
           Good == {n \in Nat : n <= len => Holds(n)}
<1>1. s \in Seq(Char) /\ Len(s) \in Nat
  BY ContentsFacts
<1>2. Holds(0)
  <2>1. after[0] = [ring |-> r, data |-> <<>>]
    OBVIOUS
  <2>2. after[0].ring = r /\ after[0].data = <<>>
    BY <2>1
  <2>3. Taken(0, s) = 0
    BY <1>1 DEF Taken
  <2>4. Contents(r) = s
    OBVIOUS
  <2> HIDE DEF s
  <2>5. SubSeq(s, 1, 0) = <<>> /\ SubSeq(s, 0 + 1, Len(s)) = s
    BY <1>1
  <2> QED
    BY <2>2, <2>3, <2>4, <2>5
<1>3. ASSUME NEW n \in Nat, n + 1 <= len, Holds(n) PROVE Holds(n + 1)
  <2>1. n + 1 \in 1..len /\ n + 1 - 1 = n
    BY <1>3
  <2>2. after[n + 1] = OneByte(after[n])
    BY <2>1
  <2>3. Holds(n)
    BY <1>3
  <2> DEFINE b == after[n]
             a == after[n + 1]
  <2>4. /\ b.ring \in ring_buffer_t
        /\ b.data = SubSeq(s, 1, Taken(n, s))
        /\ Contents(b.ring) = SubSeq(s, Taken(n, s) + 1, Len(s))
    BY <2>3
  <2>5. a = OneByte(b)
    BY <2>2
  <2> HIDE DEF a, b, s
  <2>6. /\ a.ring \in ring_buffer_t
        /\ a.data = SubSeq(s, 1, Taken(n + 1, s))
        /\ Contents(a.ring) = SubSeq(s, Taken(n + 1, s) + 1, Len(s))
    BY <1>1, <2>4, <2>5, OneByteMore
  <2> QED
    BY <2>6 DEF a
<1>4. Holds(len)
  <2> HIDE DEF Holds
  <2>1. 0 \in Good
    BY <1>2
  <2>2. \A n \in Nat : n \in Good => n + 1 \in Good
    <3> TAKE n \in Nat
    <3> HAVE n \in Good
    <3>1. ASSUME n + 1 <= len PROVE Holds(n + 1)
      <4>1. n <= len
        BY <3>1
      <4> QED
        BY <1>3, <3>1, <4>1
    <3> QED
      BY <3>1
  <2> HIDE DEF Good
  <2>3. len \in Good
    BY <2>1, <2>2, SetInduction
  <2> QED
    BY <2>3 DEF Good
<1> QED
  BY <1>4

(* Peeking reads the contents at the index, from 0.                        *)
LEMMA PeekContents ==
    ASSUME NEW r \in ring_buffer_t, NEW i \in Index
    PROVE  ring_buffer_peek(r, i) =
               IF i < Len(Contents(r)) THEN <<Contents(r)[i + 1]>> ELSE <<>>
<1> DEFINE n == ring_buffer_num_items(r)
<1>1. /\ Len(Contents(r)) = n /\ n \in Nat /\ i \in Nat
      /\ \A k \in 1..n : Contents(r)[k] = cell(r, k - 1)
  BY ContentsFacts, SizeAssumption DEF Index
<1>2. ring_buffer_peek(r, i) = IF i >= n THEN <<>> ELSE <<cell(r, i)>>
  BY DEF ring_buffer_peek, cell
<1> HIDE DEF n
<1>3. CASE i < n
  <2>1. i + 1 \in 1..n /\ i + 1 - 1 = i
    BY <1>1, <1>3
  <2> QED BY <1>1, <1>2, <1>3, <2>1
<1>4. CASE ~(i < n)
  BY <1>1, <1>2, <1>4
<1> QED
  BY <1>3, <1>4

(* Resetting leaves nothing to read.                                       *)
LEMMA ResetContents ==
    ASSUME NEW r \in ring_buffer_t
    PROVE  LET q == [r EXCEPT !.tail_index = 0, !.head_index = 0]
           IN  q \in ring_buffer_t /\ Contents(q) = <<>>
<1> DEFINE q == [r EXCEPT !.tail_index = 0, !.head_index = 0]
<1>1. q \in ring_buffer_t
  <2>1. 0 \in Index
    BY SizeAssumption DEF Index
  <2> QED
    BY <2>1 DEF ring_buffer_t
<1>2. ring_buffer_is_empty(q)
  BY DEF ring_buffer_is_empty, ring_buffer_t
<1> HIDE DEF q
<1>3. Contents(q) \in Seq(Char) /\ Len(Contents(q)) = 0
  BY <1>1, <1>2, ContentsFacts, NumItems
<1> QED
  BY <1>1, <1>3 DEF q

------------------------------------------------------------------------------
(* The refinement.                                                         *)

(* The sequential interface, for a caller whose longest array is MaxLen.   *)
Api(MaxLen, ring, out) == INSTANCE RingBufferApi

(* Its operations are those the lemmas above are about.                    *)
LEMMA ApiOperations ==
    ASSUME NEW CONSTANT MaxLen, NEW VARIABLE ring, NEW VARIABLE out
    PROVE  /\ \A r, c : Api(MaxLen, ring, out)!ring_buffer_queue(r, c) = ring_buffer_queue(r, c)
           /\ \A r : Api(MaxLen, ring, out)!ring_buffer_dequeue(r) = ring_buffer_dequeue(r)
           /\ \A r, i : Api(MaxLen, ring, out)!ring_buffer_peek(r, i) = ring_buffer_peek(r, i)
           /\ \A r : Api(MaxLen, ring, out)!Contents(r) = Contents(r)
           /\ Api(MaxLen, ring, out)!ring_buffer_init = ring_buffer_init
           /\ Api(MaxLen, ring, out)!Index = Index
<1>1. ASSUME NEW r, NEW c
      PROVE  Api(MaxLen, ring, out)!ring_buffer_queue(r, c) = ring_buffer_queue(r, c)
  BY DEF ring_buffer_queue, advance_head, put_cell, drop_oldest,
         ring_buffer_is_full, advance_tail, next_index,
         Api!ring_buffer_queue, Api!advance_head, Api!put_cell, Api!drop_oldest,
         Api!ring_buffer_is_full, Api!advance_tail, Api!next_index
<1>2. ASSUME NEW r
      PROVE  Api(MaxLen, ring, out)!ring_buffer_dequeue(r) = ring_buffer_dequeue(r)
  BY DEF ring_buffer_dequeue, ring_buffer_is_empty, advance_tail, oldest_byte, next_index,
         Api!ring_buffer_dequeue, Api!ring_buffer_is_empty, Api!advance_tail,
         Api!oldest_byte, Api!next_index
<1>3. ASSUME NEW r, NEW i
      PROVE  Api(MaxLen, ring, out)!ring_buffer_peek(r, i) = ring_buffer_peek(r, i)
  BY DEF ring_buffer_peek, ring_buffer_num_items, Api!ring_buffer_peek,
         Api!ring_buffer_num_items
<1>4. ASSUME NEW r
      PROVE  Api(MaxLen, ring, out)!Contents(r) = Contents(r)
  BY DEF Contents, cell, ring_buffer_num_items, Api!Contents, Api!cell,
         Api!ring_buffer_num_items
<1>5. /\ Api(MaxLen, ring, out)!ring_buffer_init = ring_buffer_init
      /\ Api(MaxLen, ring, out)!Index = Index
  BY DEF ring_buffer_init, Index, Api!ring_buffer_init, Api!Index
<1> QED
  BY <1>1, <1>2, <1>3, <1>4, <1>5

(* ring_buffer_queue_arr appends the array and forgets what does not fit.  *)
LEMMA ApiQueueArr ==
    ASSUME NEW CONSTANT MaxLen, NEW VARIABLE ring, NEW VARIABLE out,
           NEW r \in ring_buffer_t, NEW data \in Seq(Char)
    PROVE  LET q == Api(MaxLen, ring, out)!ring_buffer_queue_arr(r, data)
           IN  q \in ring_buffer_t /\ Contents(q) = Kept(Contents(r) \o data)
<1> DEFINE N == Len(data)
           Iter(f) == [n \in 0..N |->
                          IF n = 0 THEN r
                          ELSE Api(MaxLen, ring, out)!ring_buffer_queue(f[n - 1], data[n])]
           q == Api(MaxLen, ring, out)!ring_buffer_queue_arr(r, data)
<1>1. q = (CHOOSE f : f = Iter(f))[N]
  BY DEF Api!ring_buffer_queue_arr
<1>2. N \in Nat
  OBVIOUS
<1>3. \A x, c : Api(MaxLen, ring, out)!ring_buffer_queue(x, c) = ring_buffer_queue(x, c)
  BY ApiOperations
<1>4. PICK f \in [0..N -> ring_buffer_t] :
        f[0] = r /\ \A n \in 1..N : f[n] = ring_buffer_queue(f[n - 1], data[n])
  <2> DEFINE step == [a \in ring_buffer_t \X (1..N) |-> ring_buffer_queue(a[1], data[a[2]])]
  <2>1. step \in [ring_buffer_t \X (1..N) -> ring_buffer_t]
    <3>1. ASSUME NEW a \in ring_buffer_t \X (1..N)
          PROVE  ring_buffer_queue(a[1], data[a[2]]) \in ring_buffer_t
      <4>1. a[1] \in ring_buffer_t /\ data[a[2]] \in Char
        OBVIOUS
      <4> QED
        BY <4>1, QueueContents
    <3> QED
      BY <3>1
  <2>2. \A b \in ring_buffer_t, n \in 1..N : step[<<b, n>>] = ring_buffer_queue(b, data[n])
    OBVIOUS
  <2> HIDE DEF step, N
  <2>3. PICK f \in [0..N -> ring_buffer_t] :
          f[0] = r /\ \A n \in 1..N : f[n] = step[<<f[n - 1], n>>]
    <3>1. Loop(ring_buffer_t, r, N, step)
      BY <1>2, <2>1, LoopExists
    <3> QED
      BY <3>1 DEF Loop
  <2>4. ASSUME NEW n \in 1..N
        PROVE  f[n] = ring_buffer_queue(f[n - 1], data[n])
    <3>1. f[n - 1] \in ring_buffer_t
      BY <1>2
    <3> QED
      BY <2>2, <2>3, <3>1
  <2> QED
    BY <2>3, <2>4
<1> HIDE DEF N
<1>5. f = Iter(f)
  <2>1. ASSUME NEW n \in 0..N PROVE f[n] = Iter(f)[n]
    <3>1. CASE n = 0
      BY <1>4, <3>1
    <3>2. CASE n # 0
      <4>1. n \in 1..N
        BY <1>2, <3>2
      <4>2. f[n] = Api(MaxLen, ring, out)!ring_buffer_queue(f[n - 1], data[n])
        BY <1>4, <1>3, <4>1
      <4>3. Iter(f)[n] = Api(MaxLen, ring, out)!ring_buffer_queue(f[n - 1], data[n])
        BY <3>2
      <4> QED
        BY ONLY <4>2, <4>3
    <3> QED
      BY <3>1, <3>2
  <2>2. f = [n \in 0..N |-> f[n]]
    OBVIOUS
  <2> QED
    BY <2>1, <2>2
<1> DEFINE g == CHOOSE h : h = Iter(h)
<1>6. g = Iter(g)
  <2> HIDE DEF Iter
  <2> QED
    BY <1>5
<1>7. q = g[N]
  BY <1>1
<1> HIDE DEF g, q
<1>8. g[0] = r /\ \A n \in 1..N : g[n] = ring_buffer_queue(g[n - 1], data[n])
  <2>1. 0 \in 0..N
    BY <1>2
  <2>2. g[0] = r
    BY <1>6, <2>1
  <2>3. ASSUME NEW n \in 1..N PROVE g[n] = ring_buffer_queue(g[n - 1], data[n])
    <3>1. n \in 0..N /\ n # 0
      BY <1>2
    <3>2. g[n] = Api(MaxLen, ring, out)!ring_buffer_queue(g[n - 1], data[n])
      BY <1>6, <3>1
    <3> QED
      BY <1>3, <3>2
  <2> QED
    BY <2>2, <2>3
<1>9. g[N] \in ring_buffer_t /\ Contents(g[N]) = Kept(Contents(r) \o data)
  BY <1>8, QueueLoop DEF N
<1> QED
  BY <1>7, <1>9 DEF q

(* d is what a reader who asks for n bytes of s leaves and gets.           *)
Took(d, s, n) ==
    /\ d.ring \in ring_buffer_t
    /\ d.data = SubSeq(s, 1, Taken(n, s))
    /\ Contents(d.ring) = SubSeq(s, Taken(n, s) + 1, Len(s))

(* ring_buffer_dequeue_arr takes what is there of the bytes asked for.     *)
LEMMA ApiDequeueArr ==
    ASSUME NEW CONSTANT MaxLen, NEW VARIABLE ring, NEW VARIABLE out,
           NEW r \in ring_buffer_t, NEW len \in Nat
    PROVE  Took(Api(MaxLen, ring, out)!ring_buffer_dequeue_arr(r, len), Contents(r), len)
<1> DEFINE empty == [ring |-> r, data |-> <<>>]
           One(b) == LET d == Api(MaxLen, ring, out)!ring_buffer_dequeue(b.ring)
                     IN  [ring |-> d.ring, data |-> b.data \o d.data]
           Iter(f) == [n \in 0..len |-> IF n = 0 THEN empty ELSE One(f[n - 1])]
           q == Api(MaxLen, ring, out)!ring_buffer_dequeue_arr(r, len)
           S == [ring : ring_buffer_t, data : Seq(Char)]
<1>1. q = (CHOOSE f : f = Iter(f))[len]
  BY DEF Api!ring_buffer_dequeue_arr
<1>2. \A b : One(b) = OneByte(b)
  BY ApiOperations DEF OneByte
<1>3. \A b \in S : OneByte(b) \in S
  <2> TAKE b \in S
  <2> DEFINE d == ring_buffer_dequeue(b.ring)
  <2>1. b.ring \in ring_buffer_t /\ b.data \in Seq(Char)
    OBVIOUS
  <2>2. d.ring \in ring_buffer_t /\ d.data \in Seq(Char)
    BY <2>1, DequeueContents
  <2>3. OneByte(b) = [ring |-> d.ring, data |-> b.data \o d.data]
    BY DEF OneByte
  <2> HIDE DEF d
  <2>4. b.data \o d.data \in Seq(Char)
    BY <2>1, <2>2
  <2> QED
    BY <2>2, <2>3, <2>4
<1>4. empty \in S
  OBVIOUS
<1> HIDE DEF S, One, empty
<1>5. PICK f \in [0..len -> S] :
        f[0] = empty /\ \A n \in 1..len : f[n] = OneByte(f[n - 1])
  <2> DEFINE step == [a \in S \X (1..len) |-> OneByte(a[1])]
  <2>1. step \in [S \X (1..len) -> S]
    BY <1>3
  <2>2. \A b \in S, n \in 1..len : step[<<b, n>>] = OneByte(b)
    OBVIOUS
  <2> HIDE DEF step
  <2>3. PICK f \in [0..len -> S] :
          f[0] = empty /\ \A n \in 1..len : f[n] = step[<<f[n - 1], n>>]
    <3>1. Loop(S, empty, len, step)
      BY <1>4, <2>1, LoopExists
    <3> QED
      BY <3>1 DEF Loop
  <2>4. ASSUME NEW n \in 1..len
        PROVE  f[n] = OneByte(f[n - 1])
    <3>1. f[n - 1] \in S
      OBVIOUS
    <3> QED
      BY <2>2, <2>3, <3>1
  <2> QED
    BY <2>3, <2>4
<1>6. f = Iter(f)
  <2>1. ASSUME NEW n \in 0..len PROVE f[n] = Iter(f)[n]
    <3>1. CASE n = 0
      BY <1>5, <3>1
    <3>2. CASE n # 0
      <4>1. n \in 1..len
        BY <3>2
      <4>2. f[n] = One(f[n - 1])
        BY <1>2, <1>5, <4>1
      <4>3. Iter(f)[n] = One(f[n - 1])
        BY <3>2
      <4> QED
        BY ONLY <4>2, <4>3
    <3> QED
      BY <3>1, <3>2
  <2>2. f = [n \in 0..len |-> f[n]]
    OBVIOUS
  <2> QED
    BY <2>1, <2>2
<1> DEFINE g == CHOOSE h : h = Iter(h)
<1>7. g = Iter(g)
  <2> HIDE DEF Iter
  <2> QED
    BY <1>6
<1>8. q = g[len]
  BY <1>1
<1> HIDE DEF g, q
<1>9. g[0] = empty /\ \A n \in 1..len : g[n] = OneByte(g[n - 1])
  <2>1. g[0] = empty
    BY <1>7
  <2>2. ASSUME NEW n \in 1..len PROVE g[n] = OneByte(g[n - 1])
    <3>1. n \in 0..len /\ n # 0
      OBVIOUS
    <3>2. g[n] = One(g[n - 1])
      BY <1>7, <3>1
    <3> QED
      BY <1>2, <3>2
  <2> QED
    BY <2>1, <2>2
<1>10. Took(g[len], Contents(r), len)
  BY <1>9, DequeueLoop DEF empty, Took
<1> QED
  BY <1>8, <1>10 DEF q

(* The start of the interface is the start of the queue.                   *)
LEMMA ApiInit ==
    ASSUME NEW CONSTANT MaxLen, NEW VARIABLE ring, NEW VARIABLE out,
           Api(MaxLen, ring, out)!Init
    PROVE  ring \in ring_buffer_t /\ Api(MaxLen, ring, out)!Abstract!Init
<1>1. ring = ring_buffer_init /\ out = <<>>
  BY ApiOperations DEF Api!Init
<1>2. ring \in ring_buffer_t /\ Len(Contents(ring)) = 0 /\ Contents(ring) \in Seq(Char)
  BY <1>1, InitialRing, ContentsFacts
<1>3. Contents(ring) = <<>>
  BY <1>2
<1>4. Api(MaxLen, ring, out)!Contents(ring) = <<>>
  BY <1>3, ApiOperations
<1> QED
  BY <1>1, <1>2, <1>4 DEF Api!Abstract!Init

(* A step of the queue, in the terms of the lemmas.                        *)
LEMMA ApiQueueSteps ==
    ASSUME NEW CONSTANT MaxLen, MaxLen \in Nat \ {0}, NEW VARIABLE ring, NEW VARIABLE out
    PROVE  LET s == Contents(ring)
               t == Contents(ring')
           IN  /\ t = <<>> /\ out' = out => Api(MaxLen, ring, out)!Abstract!Next
               /\ \A n \in 0..MaxLen : \A data \in [1..n -> Char] :
                      t = Kept(s \o data) /\ out' = out => Api(MaxLen, ring, out)!Abstract!Next
               /\ \A n \in 0..MaxLen :
                      /\ out' = SubSeq(s, 1, Taken(n, s))
                      /\ t = SubSeq(s, Taken(n, s) + 1, Len(s))
                      => Api(MaxLen, ring, out)!Abstract!Next
               /\ \A i \in Index :
                      /\ out' = IF i < Len(s) THEN <<s[i + 1]>> ELSE <<>>
                      /\ t = s
                      => Api(MaxLen, ring, out)!Abstract!Next
<1> DEFINE s == Contents(ring)
           t == Contents(ring')
<1>1. Api(MaxLen, ring, out)!Contents(ring) = s
  BY ApiOperations
<1>2. Api(MaxLen, ring, out)!Contents(ring)' = t
  BY DEF Contents, cell, ring_buffer_num_items, Api!Contents, Api!cell,
         Api!ring_buffer_num_items
<1>3. t = <<>> /\ out' = out => Api(MaxLen, ring, out)!Abstract!Next
  BY <1>2 DEF Api!Abstract!Next, Api!Abstract!Reset
<1>4. ASSUME NEW n \in 0..MaxLen, NEW data \in [1..n -> Char],
             t = Kept(s \o data), out' = out
      PROVE  Api(MaxLen, ring, out)!Abstract!Next
  <2>1. Api(MaxLen, ring, out)!Abstract!Newest(s \o data) = Kept(s \o data)
    BY DEF Api!Abstract!Newest, Kept
  <2>2. Api(MaxLen, ring, out)!Abstract!Put(data)
    BY <1>1, <1>2, <1>4, <2>1 DEF Api!Abstract!Put
  <2> QED
    BY <2>2 DEF Api!Abstract!Next
<1>5. ASSUME NEW n \in 0..MaxLen,
             out' = SubSeq(s, 1, Taken(n, s)),
             t = SubSeq(s, Taken(n, s) + 1, Len(s))
      PROVE  Api(MaxLen, ring, out)!Abstract!Next
  <2>1. Api(MaxLen, ring, out)!Abstract!Take(n)
    BY <1>1, <1>2, <1>5 DEF Api!Abstract!Take, Taken
  <2> QED
    BY <2>1 DEF Api!Abstract!Next
<1>6. ASSUME NEW i \in Index,
             out' = IF i < Len(s) THEN <<s[i + 1]>> ELSE <<>>,
             t = s
      PROVE  Api(MaxLen, ring, out)!Abstract!Next
  <2>1. Api(MaxLen, ring, out)!Abstract!Peek(i)
    BY <1>1, <1>2, <1>6 DEF Api!Abstract!Peek
  <2>2. i \in 0..(Size - 1)
    BY DEF Index
  <2> QED
    BY <2>1, <2>2 DEF Api!Abstract!Next
<1> QED
  BY <1>3, <1>4, <1>5, <1>6

(* Every call keeps a ring a ring and is a step of the queue.              *)
LEMMA ApiNext ==
    ASSUME NEW CONSTANT MaxLen, MaxLen \in Nat \ {0}, NEW VARIABLE ring, NEW VARIABLE out,
           ring \in ring_buffer_t, Api(MaxLen, ring, out)!Next
    PROVE  ring' \in ring_buffer_t /\ Api(MaxLen, ring, out)!Abstract!Next
<1> DEFINE s == Contents(ring)
           A == Api(MaxLen, ring, out)!Abstract!Next
<1>0. s \in Seq(Char)
  BY ContentsFacts
<1>1. CASE Api(MaxLen, ring, out)!Reset
  <2>1. ring' = [ring EXCEPT !.tail_index = 0, !.head_index = 0] /\ out' = out
    BY <1>1 DEF Api!Reset
  <2>2. ring' \in ring_buffer_t /\ Contents(ring') = <<>>
    BY <2>1, ResetContents
  <2> QED
    BY <2>1, <2>2, ApiQueueSteps
<1>2. ASSUME NEW c \in Char, Api(MaxLen, ring, out)!Queue(c)
      PROVE  ring' \in ring_buffer_t /\ A
  <2>1. ring' = ring_buffer_queue(ring, c) /\ out' = out
    BY <1>2, ApiOperations DEF Api!Queue
  <2>2. ring' \in ring_buffer_t /\ Contents(ring') = Kept(Append(s, c))
    BY <2>1, QueueContents
  <2> DEFINE data == [k \in 1..1 |-> c]
  <2>3. data \in [1..1 -> Char] /\ 1 \in 0..MaxLen
    OBVIOUS
  <2>4. Append(s, c) = s \o data
    <3> HIDE DEF s
    <3>1. data \in Seq(Char) /\ Len(data) = 1 /\ data[1] = c
      OBVIOUS
    <3> HIDE DEF data
    <3> QED
      BY <1>0, <3>1, OneMoreJoined
  <2> HIDE DEF data
  <2> QED
    BY <2>1, <2>2, <2>3, <2>4, ApiQueueSteps
<1>3. ASSUME NEW n \in 0..MaxLen, NEW data \in [1..n -> Char],
             Api(MaxLen, ring, out)!QueueArr(data)
      PROVE  ring' \in ring_buffer_t /\ A
  <2>1. data \in Seq(Char)
    BY <1>3
  <2>2. /\ ring' = Api(MaxLen, ring, out)!ring_buffer_queue_arr(ring, data)
        /\ out' = out
    BY <1>3 DEF Api!QueueArr
  <2>3. ring' \in ring_buffer_t /\ Contents(ring') = Kept(s \o data)
    BY <2>1, <2>2, ApiQueueArr
  <2> QED
    BY <2>2, <2>3, ApiQueueSteps
<1>4. CASE Api(MaxLen, ring, out)!Dequeue
  <2> DEFINE d == ring_buffer_dequeue(ring)
  <2>1. ring' = d.ring /\ out' = d.data
    BY <1>4, ApiOperations DEF Api!Dequeue
  <2>2. /\ d.ring \in ring_buffer_t
        /\ d.data = SubSeq(s, 1, Taken(1, s))
        /\ Contents(d.ring) = SubSeq(s, Taken(1, s) + 1, Len(s))
    BY DequeueContents
  <2>3. 1 \in 0..MaxLen
    OBVIOUS
  <2> HIDE DEF d
  <2>4. /\ ring' \in ring_buffer_t
        /\ out' = SubSeq(s, 1, Taken(1, s))
        /\ Contents(ring') = SubSeq(s, Taken(1, s) + 1, Len(s))
    BY <2>1, <2>2
  <2> QED
    BY <2>3, <2>4, ApiQueueSteps
<1>5. ASSUME NEW n \in 0..MaxLen, Api(MaxLen, ring, out)!DequeueArr(n)
      PROVE  ring' \in ring_buffer_t /\ A
  <2> DEFINE d == Api(MaxLen, ring, out)!ring_buffer_dequeue_arr(ring, n)
  <2>1. ring' = d.ring /\ out' = d.data
    BY <1>5 DEF Api!DequeueArr
  <2>2. n \in Nat
    OBVIOUS
  <2>3. Took(d, Contents(ring), n)
    BY <2>2, ApiDequeueArr
  <2> HIDE DEF d
  <2>4. /\ ring' \in ring_buffer_t
        /\ out' = SubSeq(s, 1, Taken(n, s))
        /\ Contents(ring') = SubSeq(s, Taken(n, s) + 1, Len(s))
    BY <2>1, <2>3 DEF Took
  <2> QED
    BY <2>4, ApiQueueSteps
<1>6. ASSUME NEW i \in Index, Api(MaxLen, ring, out)!Peek(i)
      PROVE  ring' \in ring_buffer_t /\ A
  <2>1. out' = ring_buffer_peek(ring, i) /\ ring' = ring
    BY <1>6, ApiOperations DEF Api!Peek
  <2>2. out' = IF i < Len(s) THEN <<s[i + 1]>> ELSE <<>>
    BY <2>1, PeekContents
  <2>3. Contents(ring') = s
    BY <2>1
  <2> QED
    BY <2>1, <2>2, <2>3, ApiQueueSteps
<1>7. Api(MaxLen, ring, out)!Index = Index
  BY ApiOperations
<1> QED
  BY <1>1, <1>2, <1>3, <1>4, <1>5, <1>6, <1>7 DEF Api!Next

(* What the sequential caller is promised, for a ring of any size, any     *)
(* bytes and arrays of any length: from every state its calls can reach,   *)
(* whatever the indexes have wrapped to, each function does to the bytes   *)
(* held what the bounded forgetful queue does, and returns what it         *)
(* returns.  (ringbuffer.c, all functions.)                                *)
THEOREM ImplementsOverwriteQueueHolds ==
    ASSUME NEW CONSTANT MaxLen, MaxLen \in Nat \ {0}, NEW VARIABLE ring, NEW VARIABLE out
    PROVE  Api(MaxLen, ring, out)!Spec => Api(MaxLen, ring, out)!ImplementsOverwriteQueue
<1> DEFINE Inv == ring \in ring_buffer_t
<1>1. Api(MaxLen, ring, out)!Init => Inv /\ Api(MaxLen, ring, out)!Abstract!Init
  BY ApiInit
<1>2. Inv /\ [Api(MaxLen, ring, out)!Next]_(Api(MaxLen, ring, out)!vars)
        => Inv' /\ [Api(MaxLen, ring, out)!Abstract!Next]_(Api(MaxLen, ring, out)!Abstract!vars)
  <2> SUFFICES ASSUME Inv, [Api(MaxLen, ring, out)!Next]_(Api(MaxLen, ring, out)!vars)
               PROVE  Inv' /\ [Api(MaxLen, ring, out)!Abstract!Next]_(Api(MaxLen, ring, out)!Abstract!vars)
    OBVIOUS
  <2>1. CASE Api(MaxLen, ring, out)!Next
    BY <2>1, ApiNext
  <2>2. CASE UNCHANGED Api(MaxLen, ring, out)!vars
    <3>1. ring' = ring /\ out' = out
      BY <2>2 DEF Api!vars
    <3>2. UNCHANGED Api(MaxLen, ring, out)!Abstract!vars
      BY <3>1 DEF Api!Abstract!vars, Api!Contents, Api!cell, Api!ring_buffer_num_items
    <3> QED
      BY <3>1, <3>2
  <2> QED
    BY <2>1, <2>2
<1> QED
  BY <1>1, <1>2, PTL DEF Api!Spec, Api!ImplementsOverwriteQueue, Api!Abstract!Spec
==============================================================================
