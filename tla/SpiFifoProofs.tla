----------------------------- MODULE SpiFifoProofs -----------------------------
(***************************************************************************)
(* The safety properties of SpiFifo, for every FIFO size, mailbox size and *)
(* set of lengths.                                                         *)
(*                                                                         *)
(* The argument counts words.  Every word of the request is in one place:  *)
(* still in the buffer, in the transmit FIFO, in the shift register, in    *)
(* the receive FIFO, or answered in the buffer.  A chunk starts when the   *)
(* one before has been read completely, so that it fits into either FIFO;  *)
(* the receive handler cannot run before the whole chunk is through,       *)
(* because its level is never below the length of the chunk.               *)
(***************************************************************************)
EXTENDS SpiFifo, TLAPS

Sent == pc \in {"clear", "enableTx", "enableRx", "wait"}
Active == Sent \/ pc = "push"

(* Where the words are.                                                    *)
Counts ==
    /\ Len(wire) + Len(TXFIFO) = txIdx
    /\ rxIdx + Len(RXFIFO) + Len(shifter) = Len(wire)
    /\ ~Active => rxIdx = txIdx
    /\ pc = "setup" => txIdx = 0
    /\ Active =>
        /\ txIdx + remaining = len[request]
        /\ txIdx - i <= rxIdx
        /\ selected
    /\ pc = "push" => i < Fifo /\ remaining > 0 /\ rxIdx = txIdx - i
    /\ Sent => i >= 1 /\ (remaining > 0 => i = Fifo)
    /\ ~overrun

(* When the receive handler runs.                                          *)
Receiving ==
    /\ RXFFIENA => RXFFIL >= 1
    /\ Active /\ RXFFIENA /\ pc # "wait" => RXFFIL = Fifo
    /\ pc = "wait" => RXFFIENA /\ RXFFIL = i
    /\ rxHwi >= 0 => Sent /\ rxIdx + rxHwi = txIdx /\ rxHwi = Len(RXFIFO)
    /\ Sent /\ rxHwi = -1 => rxIdx \in {txIdx - i, txIdx}
    /\ pc \in {"enableTx", "enableRx", "wait"} /\ RX \in events => rxIdx = txIdx

(* What the words are.                                                     *)
Contents ==
    /\ \A k \in 1..Len(wire) : wire[k] = Word(request, k)
    /\ \A k \in 1..Len(TXFIFO) : TXFIFO[k] = Word(request, Len(wire) + k)
    /\ \A k \in 1..Len(shifter) : shifter[k] = Word(request, Len(wire))
    /\ \A k \in 1..Len(RXFIFO) : RXFIFO[k] = Reply(Word(request, rxIdx + k))
    /\ \A r \in Requests : Len(buf[r]) = len[r]
    /\ pc # "idle" => \A k \in 1..len[request] :
            buf[request][k] = IF k <= rxIdx THEN Reply(Word(request, k)) ELSE Word(request, k)

(* Requests are served in the order in which they were accepted.           *)
Order ==
    /\ request = asked - Len(mbx)
    /\ \A j \in 1..Len(mbx) : mbx[j] = request + j
    /\ \A r \in Requests : r > request =>
            /\ status[r] = "none"
            /\ buf[r] = Words(r, len[r])
    /\ \A j \in 1..asked : len[j] >= 1
    /\ pc # "idle" => status[request] = "none" /\ mode[request]

(* Whether the task will be told.                                          *)
Told ==
    /\ ~overtaken /\ pc \in {"clear", "enableTx", "enableRx"} => rxIdx = txIdx - i /\ rxHwi = -1
    /\ ~overtaken /\ pc = "wait" /\ rxHwi = -1 /\ rxIdx = txIdx => RX \in events
    /\ pc \in {"enableRx", "wait"} /\ Chunked => TXFFIENA \/ TX \in events

IInv ==
    /\ TypeOK
    /\ Counts
    /\ Receiving
    /\ Contents
    /\ Order
    /\ Told
    /\ OkMeansExchanged
    /\ FailsOnlyWhenOvertaken

------------------------------------------------------------------------------
(* Sequences.                                                              *)
LEMMA EmptyFacts ==
    ASSUME NEW S
    PROVE  /\ <<>> \in Seq(S) /\ Len(<<>>) = 0
           /\ \A s \in Seq(S) : Len(s) \in Nat /\ (Len(s) = 0 <=> s = <<>>)
           /\ \A s \in Seq(S) : \A k \in 1..Len(s) : s[k] \in S
           /\ \A e \in S : <<e>> \in Seq(S) /\ Len(<<e>>) = 1 /\ <<e>>[1] = e
OBVIOUS

(* What Append does to a sequence of words: the new last word, the others  *)
(* as they were.                                                           *)
LEMMA AppendFacts ==
    ASSUME NEW S, NEW s \in Seq(S), NEW e \in S
    PROVE  /\ Append(s, e) \in Seq(S) /\ Len(Append(s, e)) = Len(s) + 1
           /\ \A k \in 1..Len(s) : Append(s, e)[k] = s[k]
           /\ Append(s, e)[Len(s) + 1] = e
OBVIOUS

(* What Tail does: every word moves one place forward.                     *)
LEMMA TailFacts ==
    ASSUME NEW S, NEW s \in Seq(S), s # <<>>
    PROVE  /\ Len(s) \in Nat /\ Len(s) >= 1
           /\ Head(s) = s[1] /\ Head(s) \in S
           /\ Tail(s) \in Seq(S) /\ Len(Tail(s)) = Len(s) - 1
           /\ \A k \in 1..(Len(s) - 1) : Tail(s)[k] = s[k + 1]
OBVIOUS

(* What EXCEPT does to one cell of a buffer.                               *)
LEMMA ExceptFacts ==
    ASSUME NEW S, NEW s \in Seq(S), NEW k \in 1..Len(s), NEW e \in S
    PROVE  /\ [s EXCEPT ![k] = e] \in Seq(S) /\ Len([s EXCEPT ![k] = e]) = Len(s)
           /\ [s EXCEPT ![k] = e][k] = e
           /\ \A j \in 1..Len(s) : j # k => [s EXCEPT ![k] = e][j] = s[j]
OBVIOUS

(* The words of a request, as its caller gives them.                       *)
LEMMA WordsFacts ==
    ASSUME NEW r \in Requests, NEW n \in Nat
    PROVE  Words(r, n) \in Seq(WordSet) /\ Len(Words(r, n)) = n
BY MaxRequestsAssumption DEF Words, Word, WordSet, Requests

(* SPI_transact keeps the invariant.                                       *)
LEMMA Step_SPI_transact ==
    ASSUME NEW n \in Lengths, NEW valid \in BOOLEAN, IInv, SPI_transact(n, valid)
    PROVE  IInv'
<1>fresh. /\ asked' = asked + 1 /\ asked' \in Requests /\ asked \in Nat /\ Len(mbx) \in Nat
          /\ request = asked - Len(mbx) /\ asked' > request
  <2>1. asked < MaxRequests /\ asked' = asked + 1
    BY DEF SPI_transact
  <2>2. asked \in 0..MaxRequests /\ Len(mbx) \in Nat
    BY DEF IInv, TypeOK
  <2>3. request = asked - Len(mbx)
    BY DEF IInv, Order
  <2> QED BY <2>1, <2>2, <2>3, MaxRequestsAssumption DEF Requests
<1>words. /\ Words(asked', n) \in Seq(WordSet) /\ Len(Words(asked', n)) = n
          /\ n \in Nat /\ n >= 1
  BY <1>fresh, WordsFacts, LengthsAssumption
<1>mbx. /\ mbx' \in Seq(Requests) /\ Len(mbx') = Len(mbx) + 1
        /\ \A j \in 1..Len(mbx) : mbx'[j] = mbx[j]
        /\ mbx'[Len(mbx) + 1] = asked'
  BY <1>fresh, AppendFacts DEF IInv, TypeOK, SPI_transact
<1>rest. \A r \in Requests : r # asked' => len'[r] = len[r] /\ mode'[r] = mode[r] /\ buf'[r] = buf[r]
  BY <1>fresh DEF IInv, TypeOK, SPI_transact
<1>new. len'[asked'] = n /\ mode'[asked'] = valid /\ buf'[asked'] = Words(asked', n)
  BY <1>fresh DEF IInv, TypeOK, SPI_transact
<1>kept. UNCHANGED <<task, rxIdx, events, enables, TXFIFO, shifter, RXFIFO, rxHwi, answer, wire,
                     overrun, overtaken>>
  BY DEF SPI_transact
<1>1. TypeOK'
  <2>1. asked' \in 0..MaxRequests /\ Len(mbx') <= MbxSize
    BY <1>fresh, <1>mbx, FifoAssumption DEF SPI_transact, Requests, IInv, TypeOK
  <2>2. len' \in [Requests -> Nat] /\ mode' \in [Requests -> BOOLEAN]
    BY <1>fresh, <1>words DEF IInv, TypeOK, SPI_transact
  <2>3. buf' \in [Requests -> Seq(WordSet)]
    BY <1>fresh, <1>words DEF IInv, TypeOK, SPI_transact
  <2> QED BY <1>mbx, <1>kept, <2>1, <2>2, <2>3 DEF IInv, TypeOK, task, enables, answer
<1>2. Counts'
  BY <1>fresh, <1>rest, <1>kept
     DEF IInv, TypeOK, Counts, Active, Sent, NoRequest, Requests, caller, task, enables,
         answer
<1>3. Receiving'
  BY <1>fresh, <1>rest, <1>kept
     DEF IInv, TypeOK, Receiving, Active, Sent, NoRequest, Requests, caller, task, enables,
         answer
<1>4. Contents'
  <2>1. /\ \A k \in 1..Len(wire) : wire[k] = Word(request, k)
        /\ \A k \in 1..Len(TXFIFO) : TXFIFO[k] = Word(request, Len(wire) + k)
        /\ \A k \in 1..Len(shifter) : shifter[k] = Word(request, Len(wire))
        /\ \A k \in 1..Len(RXFIFO) : RXFIFO[k] = Reply(Word(request, rxIdx + k))
    BY DEF IInv, Contents
  <2>2. \A r \in Requests : Len(buf'[r]) = len'[r]
    BY <1>rest, <1>new, <1>words DEF IInv, Contents
  <2>3. pc # "idle" => request \in Requests /\ request # asked'
    BY <1>fresh DEF IInv, TypeOK
  <2>4. pc # "idle" => \A k \in 1..len'[request] :
            buf'[request][k] = IF k <= rxIdx THEN Reply(Word(request, k)) ELSE Word(request, k)
    BY <1>rest, <2>3 DEF IInv, Contents
  <2> QED BY <1>kept, <2>1, <2>2, <2>4 DEF Contents, task
<1>5. Order'
  <2>1. \A j \in 1..Len(mbx) : mbx[j] = request + j
    BY DEF IInv, Order
  <2>2. request' = asked' - Len(mbx') /\ \A j \in 1..Len(mbx') : mbx'[j] = request' + j
    <3>1. request' = request /\ request' = asked' - Len(mbx')
      BY <1>fresh, <1>mbx, <1>kept DEF task
    <3>2. ASSUME NEW j \in 1..Len(mbx') PROVE mbx'[j] = request + j
      <4>1. CASE j = Len(mbx) + 1
        <5>1. asked + 1 = request + (Len(mbx) + 1)
          BY <1>fresh
        <5>2. mbx'[Len(mbx) + 1] = asked'
          BY <1>mbx
        <5>3. asked' = request + j
          BY <1>fresh, <4>1, <5>1
        <5> QED BY <4>1, <5>2, <5>3
      <4>2. CASE j \in 1..Len(mbx)
        BY <1>mbx, <2>1, <4>2
      <4> QED BY <1>fresh, <1>mbx, <4>1, <4>2
    <3> QED BY <3>1, <3>2
  <2>3. \A r \in Requests : r > request => status[r] = "none" /\ buf[r] = Words(r, len[r])
    BY DEF IInv, Order
  <2>4. \A r \in Requests : r > request' => status'[r] = "none" /\ buf'[r] = Words(r, len'[r])
    BY <1>fresh, <1>rest, <1>new, <1>kept, <2>3 DEF task, answer
  <2>5. \A j \in 1..asked' : len'[j] >= 1
    <3>1. \A j \in 1..asked : len[j] >= 1
      BY DEF IInv, Order
    <3>2. ASSUME NEW j \in 1..asked' PROVE len'[j] >= 1
      <4>1. CASE j = asked'
        BY <1>new, <1>words, <4>1
      <4>2. CASE j # asked'
        <5>1. j \in 1..(asked + 1) /\ j # asked + 1
          BY <1>fresh, <4>2
        <5>2. j \in 1..asked
          BY <1>fresh, <5>1
        <5>3. j \in Requests
          BY <1>fresh, <5>1, MaxRequestsAssumption DEF Requests
        <5> QED BY <1>rest, <3>1, <4>2, <5>2, <5>3
      <4> QED BY <4>1, <4>2
    <3> QED BY <3>2
  <2>6. pc # "idle" => request \in Requests /\ request # asked'
    BY <1>fresh DEF IInv, TypeOK
  <2>7. pc' # "idle" => status'[request'] = "none" /\ mode'[request']
    BY <1>rest, <1>kept, <2>6 DEF IInv, Order, task, answer
  <2> QED BY <2>2, <2>4, <2>5, <2>7 DEF Order
<1>6. Told'
  BY <1>fresh, <1>rest, <1>kept
     DEF IInv, TypeOK, Told, Chunked, NoRequest, Requests, caller, task, enables, answer
<1>7. OkMeansExchanged'
  <2>1. \A r \in Requests : status'[r] = "ok" => status[r] = "ok" /\ r # asked'
    BY <1>fresh, <1>rest, <1>kept DEF IInv, Order, answer
  <2>2. \A r \in Requests : r # asked' => buf'[r] = buf[r] /\ len'[r] = len[r]
    BY <1>rest
  <2> QED BY <2>1, <2>2 DEF IInv, OkMeansExchanged
<1>8. FailsOnlyWhenOvertaken'
  BY <1>fresh, <1>rest, <1>kept
     DEF IInv, TypeOK, FailsOnlyWhenOvertaken, NoRequest, Requests, caller, task, enables,
         answer
<1> QED BY <1>1, <1>2, <1>3, <1>4, <1>5, <1>6, <1>7, <1>8 DEF IInv

(* pend_request keeps the invariant.                                       *)
LEMMA Step_pend_request ==
    ASSUME IInv, pend_request
    PROVE  IInv'
<1>idle. /\ pc = "idle" /\ mbx # <<>> /\ request' = Head(mbx) /\ mbx' = Tail(mbx)
         /\ txIdx' = 0 /\ rxIdx' = 0 /\ wire' = <<>> /\ overtaken' = FALSE
         /\ UNCHANGED <<caller, buf, remaining, i, events, enables, TXFIFO, shifter, RXFIFO,
                        rxHwi, selected, overrun>>
  BY DEF pend_request, TaskAt
<1>mbx. /\ Head(mbx) = mbx[1] /\ Head(mbx) \in Requests
        /\ Tail(mbx) \in Seq(Requests) /\ Len(Tail(mbx)) = Len(mbx) - 1 /\ Len(mbx) \in Nat
        /\ Len(mbx) >= 1
        /\ \A j \in 1..(Len(mbx) - 1) : Tail(mbx)[j] = mbx[j + 1]
  BY <1>idle, TailFacts DEF IInv, TypeOK
<1>next. request' = request + 1 /\ request' \in Requests /\ request \in Nat
  <2>1. mbx[1] = request + 1
    BY <1>mbx DEF IInv, Order
  <2>2. request \in Nat
    BY MaxRequestsAssumption DEF IInv, TypeOK, Requests, NoRequest
  <2> QED BY <1>idle, <1>mbx, <2>1, <2>2
<1>empty. TXFIFO = <<>> /\ shifter = <<>> /\ RXFIFO = <<>> /\ rxHwi = -1
  <2>1. /\ Len(TXFIFO) \in Nat /\ Len(shifter) \in Nat /\ Len(RXFIFO) \in Nat
        /\ Len(wire) \in Nat /\ txIdx \in Nat
    BY DEF IInv, TypeOK
  <2>2. /\ Len(wire) + Len(TXFIFO) = txIdx /\ rxIdx = txIdx
        /\ rxIdx + Len(RXFIFO) + Len(shifter) = Len(wire)
    BY <1>idle DEF IInv, Counts, Active, Sent
  <2>3. Len(TXFIFO) = 0 /\ Len(shifter) = 0 /\ Len(RXFIFO) = 0
    BY <2>1, <2>2
  <2> QED BY <2>3, EmptyFacts DEF IInv, TypeOK, pend_request, TaskAt
<1>none. Len(<<>>) = 0 /\ <<>> \in Seq(WordSet)
  BY EmptyFacts
<1>then. \/ pc' = "setup" /\ mode[request'] /\ UNCHANGED <<status, posts>>
         \/ /\ pc' = "idle" /\ ~mode[request']
            /\ status' = [status EXCEPT ![request'] = "failed"]
            /\ posts' = [posts EXCEPT ![request'] = @ + 1]
  BY <1>idle DEF pend_request, Answered
<1>1. TypeOK'
  <2>1. mbx' \in Seq(Requests) /\ Len(mbx') <= MbxSize
    BY <1>idle, <1>mbx, FifoAssumption DEF IInv, TypeOK
  <2>2. /\ status' \in [Requests -> {"none", "ok", "failed"}] /\ posts' \in [Requests -> Nat]
        /\ pc' \in {"idle", "setup"}
    <3>1. status \in [Requests -> {"none", "ok", "failed"}] /\ posts \in [Requests -> Nat]
      BY DEF IInv, TypeOK
    <3>2. status' \in [Requests -> {"none", "ok", "failed"}]
      BY <1>next, <1>then, <3>1
    <3>3. posts' \in [Requests -> Nat]
      BY <1>next, <1>then, <3>1
    <3> QED BY <1>then, <3>2, <3>3
  <2>3. wire' \in Seq(WordSet) /\ txIdx' \in Nat /\ rxIdx' \in Nat /\ overtaken' \in BOOLEAN
    BY <1>idle, <1>none
  <2> QED BY <1>idle, <1>next, <2>1, <2>2, <2>3 DEF IInv, TypeOK, caller, enables
<1>2. Counts'
  BY <1>idle, <1>mbx, <1>next, <1>empty, <1>none, <1>then
     DEF IInv, TypeOK, Counts, Active, Sent, NoRequest, Requests, caller, task, enables,
         answer
<1>3. Receiving'
  BY <1>idle, <1>mbx, <1>next, <1>empty, <1>none, <1>then
     DEF IInv, TypeOK, Receiving, Active, Sent, NoRequest, Requests, caller, task, enables,
         answer
<1>4. Contents'
  <2>1. buf'[request'] = Words(request', len[request'])
    BY <1>idle, <1>next DEF IInv, TypeOK, Order, caller, Requests
  <2>2. \A k \in 1..len[request'] : buf'[request'][k] = Word(request', k)
    BY <2>1 DEF Words
  <2> QED BY <1>idle, <1>mbx, <1>next, <1>empty, <1>none, <1>then, <2>2
             DEF IInv, TypeOK, Contents, NoRequest, Requests, caller, task, enables, answer
<1>5. Order'
  <2>1. \A j \in 1..Len(mbx) : mbx[j] = request + j
    BY DEF IInv, Order
  <2>2. asked \in Nat /\ request = asked - Len(mbx)
    BY MaxRequestsAssumption DEF IInv, TypeOK, Order
  <2>3. request' = asked' - Len(mbx') /\ \A j \in 1..Len(mbx') : mbx'[j] = request' + j
    BY <1>idle, <1>mbx, <1>next, <2>1, <2>2 DEF caller
  <2>4. \A r \in Requests : r > request => status[r] = "none" /\ buf[r] = Words(r, len[r])
    BY DEF IInv, Order
  <2>5. \A r \in Requests : r > request' => status'[r] = "none" /\ buf'[r] = Words(r, len'[r])
    <3>1. \A r \in Requests : r > request' => r > request /\ r # request'
      BY <1>next DEF Requests
    <3>2. \A r \in Requests : r # request' => status'[r] = status[r]
      BY <1>then DEF IInv, TypeOK
    <3> QED BY <1>idle, <2>4, <3>1, <3>2 DEF caller
  <2>6. pc' # "idle" => status'[request'] = "none" /\ mode'[request']
    BY <1>idle, <1>next, <1>then, <2>4 DEF caller
  <2> QED BY <1>idle, <2>3, <2>5, <2>6 DEF IInv, Order, caller
<1>6. Told'
  BY <1>idle, <1>mbx, <1>next, <1>empty, <1>none, <1>then
     DEF IInv, TypeOK, Told, NoRequest, Requests, caller, task, enables, answer
<1>7. OkMeansExchanged'
  <2>1. \A r \in Requests : status'[r] = "ok" => status[r] = "ok"
    BY <1>then DEF IInv, TypeOK
  <2>2. UNCHANGED <<buf, len>>
    BY <1>idle DEF caller
  <2> QED BY <2>1, <2>2 DEF IInv, OkMeansExchanged
<1>8. FailsOnlyWhenOvertaken'
  <2>1. status[request'] = "none"
    BY <1>next DEF IInv, Order
  <2>2. status'[request'] = "none" \/ ~mode'[request']
    BY <1>idle, <1>then, <2>1 DEF caller
  <2> QED BY <2>2 DEF FailsOnlyWhenOvertaken
<1> QED BY <1>1, <1>2, <1>3, <1>4, <1>5, <1>6, <1>7, <1>8 DEF IInv

(* setup keeps the invariant.                                              *)
LEMMA Step_setup ==
    ASSUME IInv, setup
    PROVE  IInv'
<1>idle. /\ pc = "setup" /\ pc' = "push" /\ rxHwi = -1
         /\ TXFIFO' = <<>> /\ RXFIFO' = <<>> /\ shifter' = <<>>
         /\ ~TXFFIENA' /\ ~RXFFIENA' /\ TXFFIENA' \in BOOLEAN /\ RXFFIENA' \in BOOLEAN
         /\ selected' = TRUE /\ remaining' = len[request] /\ i' = 0
         /\ UNCHANGED <<caller, buf, mbx, request, txIdx, rxIdx, events, RXFFIL, rxHwi, status,
                        posts, wire, overrun, overtaken>>
  BY DEF setup, TaskAt
<1>none. /\ Len(<<>>) = 0 /\ <<>> \in Seq(WordSet)
         /\ txIdx = 0 /\ rxIdx = 0 /\ Len(wire) = 0 /\ Len(TXFIFO) = 0 /\ Len(RXFIFO) = 0
  BY <1>idle, EmptyFacts DEF IInv, TypeOK, Counts, Active, Sent
<1>some. request \in Requests /\ len[request] \in Nat /\ len[request] >= 1
  BY <1>idle DEF IInv, TypeOK, Order, Requests, NoRequest
<1>1. TypeOK'
  BY FifoAssumption, MaxRequestsAssumption, LengthsAssumption, <1>idle, <1>none, <1>some
     DEF IInv, TypeOK, NoRequest, Requests, caller, task, enables, answer
<1>2. Counts'
  BY FifoAssumption, MaxRequestsAssumption, LengthsAssumption, <1>idle, <1>none, <1>some
     DEF IInv, TypeOK, Counts, Active, Sent, NoRequest, Requests, caller, task, enables,
         answer
<1>3. Receiving'
  BY <1>idle, <1>none, <1>some
     DEF IInv, TypeOK, Receiving, Active, Sent, NoRequest, Requests, caller, task, enables,
         answer
<1>4. Contents'
  BY <1>idle, <1>none, <1>some
     DEF IInv, TypeOK, Contents, NoRequest, Requests, caller, task, enables, answer
<1>5. Order'
  BY <1>idle, <1>none, <1>some
     DEF IInv, TypeOK, Order, NoRequest, Requests, caller, task, enables, answer
<1>6. Told'
  BY <1>idle, <1>none, <1>some
     DEF IInv, TypeOK, Told, NoRequest, Requests, caller, task, enables, answer
<1>7. OkMeansExchanged'
  BY <1>idle, <1>none, <1>some
     DEF IInv, TypeOK, OkMeansExchanged, NoRequest, Requests, caller, task, enables, answer
<1>8. FailsOnlyWhenOvertaken'
  BY <1>idle, <1>none, <1>some
     DEF IInv, TypeOK, FailsOnlyWhenOvertaken, NoRequest, Requests, caller, task, enables,
         answer
<1> QED BY <1>1, <1>2, <1>3, <1>4, <1>5, <1>6, <1>7, <1>8 DEF IInv

(* push keeps the invariant.                                               *)
LEMMA Step_push ==
    ASSUME IInv, push
    PROVE  IInv'
<1>at. /\ pc = "push" /\ rxHwi = -1 /\ request \in Requests
       /\ txIdx' = txIdx + 1 /\ remaining' = remaining - 1 /\ i' = i + 1
       /\ pc' = IF remaining' = 0 \/ i' = Fifo THEN "clear" ELSE "push"
       /\ UNCHANGED <<caller, buf, mbx, request, rxIdx, events, enables, shifter, RXFIFO, rxHwi,
                      answer, wire, overrun, overtaken>>
  BY DEF IInv, TypeOK, push, TaskAt
<1>num. /\ txIdx \in Nat /\ rxIdx \in Nat /\ remaining \in Nat /\ i \in Nat /\ Fifo \in Nat
        /\ Len(wire) \in Nat /\ Len(TXFIFO) \in Nat /\ Len(RXFIFO) \in Nat /\ Len(shifter) \in Nat
        /\ i < Fifo /\ remaining > 0 /\ rxIdx = txIdx - i /\ txIdx + remaining = len[request]
        /\ Len(wire) + Len(TXFIFO) = txIdx /\ rxIdx + Len(RXFIFO) + Len(shifter) = Len(wire)
  BY <1>at, FifoAssumption DEF IInv, TypeOK, Counts, Active, Sent
<1>word. buf[request][txIdx + 1] = Word(request, txIdx + 1) /\ Word(request, txIdx + 1) \in WordSet
  <2>1. txIdx + 1 \in 1..len[request] /\ ~(txIdx + 1 <= rxIdx) /\ pc # "idle"
    BY <1>at, <1>num
  <2>2. buf[request][txIdx + 1] = Word(request, txIdx + 1)
    BY <2>1 DEF IInv, Contents
  <2>3. Word(request, txIdx + 1) \in WordSet
    BY <1>at, <1>num DEF Word, WordSet
  <2> QED BY <2>2, <2>3
<1>fifo. /\ TXFIFO' \in Seq(WordSet) /\ Len(TXFIFO') = Len(TXFIFO) + 1
         /\ \A k \in 1..Len(TXFIFO) : TXFIFO'[k] = TXFIFO[k]
         /\ TXFIFO'[Len(TXFIFO) + 1] = Word(request, txIdx + 1)
  BY <1>word, AppendFacts DEF IInv, TypeOK, push
<1>1. TypeOK'
  BY SMTT(30), FifoAssumption, MaxRequestsAssumption, LengthsAssumption, <1>at, <1>num, <1>fifo
     DEF IInv, TypeOK, NoRequest, Requests, caller, task, enables, answer
<1>2. Counts'
  BY SMTT(30), <1>at, <1>num, <1>fifo
     DEF IInv, TypeOK, Counts, Active, Sent, NoRequest, Requests, caller, task, enables,
         answer
<1>3. Receiving'
  BY <1>at, <1>num, <1>fifo
     DEF IInv, TypeOK, Receiving, Active, Sent, NoRequest, Requests, caller, task, enables,
         answer
<1>4. Contents'
  <2>1. \A k \in 1..Len(TXFIFO) : TXFIFO[k] = Word(request, Len(wire) + k)
    BY DEF IInv, Contents
  <2>2. \A k \in 1..Len(TXFIFO') : TXFIFO'[k] = Word(request, Len(wire) + k)
    <3>1. ASSUME NEW k \in 1..Len(TXFIFO') PROVE TXFIFO'[k] = Word(request, Len(wire) + k)
      <4>1. CASE k = Len(TXFIFO) + 1
        <5>1. Len(wire) + k = txIdx + 1
          BY <1>num, <4>1
        <5> QED BY <1>num, <1>fifo, <4>1, <5>1
      <4>2. CASE k \in 1..Len(TXFIFO)
        BY <1>fifo, <2>1, <4>2
      <4> QED BY <1>num, <1>fifo, <4>1, <4>2
    <3> QED BY <3>1
  <2> QED BY <1>at, <2>2 DEF IInv, Contents, caller
<1>5. Order'
  BY <1>at, <1>num, <1>fifo
     DEF IInv, TypeOK, Order, NoRequest, Requests, caller, task, enables, answer
<1>6. Told'
  BY <1>at, <1>num, <1>fifo
     DEF IInv, TypeOK, Told, NoRequest, Requests, caller, task, enables, answer
<1>7. OkMeansExchanged'
  BY <1>at, <1>num, <1>fifo
     DEF IInv, TypeOK, OkMeansExchanged, NoRequest, Requests, caller, task, enables, answer
<1>8. FailsOnlyWhenOvertaken'
  BY <1>at, <1>num, <1>fifo
     DEF IInv, TypeOK, FailsOnlyWhenOvertaken, NoRequest, Requests, caller, task, enables,
         answer
<1> QED BY <1>1, <1>2, <1>3, <1>4, <1>5, <1>6, <1>7, <1>8 DEF IInv

(* clear_events keeps the invariant.                                       *)
LEMMA Step_clear_events ==
    ASSUME IInv, clear_events
    PROVE  IInv'
<1> USE FifoAssumption, MaxRequestsAssumption, LengthsAssumption
    DEF NoRequest, Requests, caller, task, enables, answer, clear_events, TaskAt, Awaited, Chunked
<1>1. TypeOK'
  BY DEF IInv, TypeOK, Counts, Receiving, Order, Active, Sent
<1>2. Counts'
  BY DEF IInv, TypeOK, Counts, Receiving, Order, Active, Sent
<1>3. Receiving'
  BY DEF IInv, TypeOK, Counts, Receiving, Order, Active, Sent
<1>4. Contents'
  BY DEF IInv, TypeOK, Counts, Receiving, Order, Active, Sent, Contents, Word, Reply
<1>5. Order'
  BY DEF IInv, TypeOK, Counts, Receiving, Order, Active, Sent
<1>6. Told'
  BY DEF IInv, TypeOK, Counts, Receiving, Order, Active, Sent, Told, Chunked
<1>7. OkMeansExchanged'
  BY DEF IInv, TypeOK, Counts, Receiving, Order, Active, Sent, OkMeansExchanged
<1>8. FailsOnlyWhenOvertaken'
  BY DEF IInv, TypeOK, Counts, Receiving, Order, Active, Sent, FailsOnlyWhenOvertaken
<1> QED BY <1>1, <1>2, <1>3, <1>4, <1>5, <1>6, <1>7, <1>8 DEF IInv

(* enable_tx keeps the invariant.                                          *)
LEMMA Step_enable_tx ==
    ASSUME IInv, enable_tx
    PROVE  IInv'
<1> USE FifoAssumption, MaxRequestsAssumption, LengthsAssumption
    DEF NoRequest, Requests, caller, task, enables, answer, enable_tx, TaskAt
<1>1. TypeOK'
  BY DEF IInv, TypeOK, Counts, Receiving, Order, Active, Sent
<1>2. Counts'
  BY DEF IInv, TypeOK, Counts, Receiving, Order, Active, Sent
<1>3. Receiving'
  BY DEF IInv, TypeOK, Counts, Receiving, Order, Active, Sent
<1>4. Contents'
  BY DEF IInv, TypeOK, Counts, Receiving, Order, Active, Sent, Contents, Word, Reply
<1>5. Order'
  BY DEF IInv, TypeOK, Counts, Receiving, Order, Active, Sent
<1>6. Told'
  BY DEF IInv, TypeOK, Counts, Receiving, Order, Active, Sent, Told, Chunked
<1>7. OkMeansExchanged'
  BY DEF IInv, TypeOK, Counts, Receiving, Order, Active, Sent, OkMeansExchanged
<1>8. FailsOnlyWhenOvertaken'
  BY DEF IInv, TypeOK, Counts, Receiving, Order, Active, Sent, FailsOnlyWhenOvertaken
<1> QED BY <1>1, <1>2, <1>3, <1>4, <1>5, <1>6, <1>7, <1>8 DEF IInv

(* enable_rx keeps the invariant.                                          *)
LEMMA Step_enable_rx ==
    ASSUME IInv, enable_rx
    PROVE  IInv'
<1> USE FifoAssumption, MaxRequestsAssumption, LengthsAssumption
    DEF NoRequest, Requests, caller, task, enables, answer, enable_rx, TaskAt
<1>1. TypeOK'
  BY DEF IInv, TypeOK, Counts, Receiving, Order, Active, Sent
<1>2. Counts'
  BY DEF IInv, TypeOK, Counts, Receiving, Order, Active, Sent
<1>3. Receiving'
  BY DEF IInv, TypeOK, Counts, Receiving, Order, Active, Sent
<1>4. Contents'
  BY DEF IInv, TypeOK, Counts, Receiving, Order, Active, Sent, Contents, Word, Reply
<1>5. Order'
  BY DEF IInv, TypeOK, Counts, Receiving, Order, Active, Sent
<1>6. Told'
  BY DEF IInv, TypeOK, Counts, Receiving, Order, Active, Sent, Told, Chunked
<1>7. OkMeansExchanged'
  BY DEF IInv, TypeOK, Counts, Receiving, Order, Active, Sent, OkMeansExchanged
<1>8. FailsOnlyWhenOvertaken'
  BY DEF IInv, TypeOK, Counts, Receiving, Order, Active, Sent, FailsOnlyWhenOvertaken
<1> QED BY <1>1, <1>2, <1>3, <1>4, <1>5, <1>6, <1>7, <1>8 DEF IInv

(* pend_events keeps the invariant.                                        *)
LEMMA Step_pend_events ==
    ASSUME IInv, pend_events
    PROVE  IInv'
<1>at. /\ pc = "wait" /\ rxHwi = -1 /\ RX \in events /\ request \in Requests
       /\ events' \subseteq events /\ RX \notin events'
       /\ UNCHANGED <<caller, buf, mbx, request, txIdx, rxIdx, remaining, enables, TXFIFO,
                      shifter, RXFIFO, rxHwi, wire, overrun, overtaken>>
  BY DEF IInv, TypeOK, pend_events, TaskAt, Awaited
<1>through. /\ rxIdx = txIdx /\ Len(wire) = txIdx /\ Len(TXFIFO) = 0 /\ Len(RXFIFO) = 0
            /\ Len(shifter) = 0 /\ txIdx \in Nat /\ remaining \in Nat /\ i \in Nat
            /\ txIdx + remaining = len[request] /\ (remaining > 0 => i = Fifo)
            /\ RXFFIL = i /\ Fifo \in Nat /\ Fifo > 0 /\ i >= 1
  BY <1>at, EmptyFacts, FifoAssumption DEF IInv, TypeOK, Counts, Receiving, Active, Sent
<1>then. \/ remaining > 0 /\ pc' = "push" /\ i' = 0 /\ UNCHANGED answer
         \/ /\ remaining = 0 /\ pc' = "idle" /\ UNCHANGED i /\ selected' = FALSE
            /\ status' = [status EXCEPT ![request] = "ok"]
            /\ posts' = [posts EXCEPT ![request] = @ + 1]
  BY <1>through DEF pend_events, Finish, Answered
<1>1. TypeOK'
  <2>1. status \in [Requests -> {"none", "ok", "failed"}] /\ posts \in [Requests -> Nat]
    BY DEF IInv, TypeOK
  <2>2. status' \in [Requests -> {"none", "ok", "failed"}]
    BY <1>at, <1>then, <2>1 DEF answer
  <2>3. posts' \in [Requests -> Nat]
    BY <1>at, <1>then, <2>1 DEF answer
  <2>4. pc' \in {"idle", "push"} /\ selected' \in BOOLEAN /\ i' \in 0..Fifo
    <3>1. i' \in 0..Fifo
      BY <1>then, FifoAssumption DEF IInv, TypeOK
    <3>2. pc' \in {"idle", "push"}
      BY <1>then
    <3>3. selected' \in BOOLEAN
      BY <1>then DEF IInv, TypeOK, answer
    <3> QED BY <3>1, <3>2, <3>3
  <2> QED BY <1>at, <2>2, <2>3, <2>4 DEF IInv, TypeOK, caller, enables
<1>2. Counts'
  <2>1. CASE pc' = "push"
    <3>1. i' = 0 /\ remaining > 0 /\ selected' /\ ~overrun
      BY <1>at, <1>then, <2>1 DEF IInv, Counts, Active, Sent, answer
    <3> QED BY <1>at, <1>through, <2>1, <3>1 DEF Counts, Active, Sent, caller
  <2>2. CASE pc' = "idle"
    BY <1>at, <1>through, <2>2 DEF IInv, Counts, Active, Sent, caller
  <2> QED BY <1>then, <2>1, <2>2
<1>3. Receiving'
  BY <1>at, <1>through, <1>then
     DEF IInv, TypeOK, Receiving, Active, Sent, NoRequest, Requests, caller, task, enables,
         answer
<1>4. Contents'
  BY <1>at, <1>through, <1>then
     DEF IInv, TypeOK, Contents, NoRequest, Requests, caller, task, enables, answer
<1>5. Order'
  <2>1. \A r \in Requests : r # request => status'[r] = status[r]
    BY <1>then DEF IInv, TypeOK, answer
  <2>2. \A r \in Requests : r > request => r # request
    BY <1>at DEF Requests
  <2>3. pc' # "idle" => status'[request] = "none" /\ mode[request]
    BY <1>at, <1>then DEF IInv, Order, answer
  <2> QED BY <1>at, <2>1, <2>2, <2>3 DEF IInv, Order, caller
<1>6. Told'
  BY <1>at, <1>through, <1>then
     DEF IInv, TypeOK, Told, NoRequest, Requests, caller, task, enables, answer
<1>7. OkMeansExchanged'
  <2>1. CASE remaining > 0
    <3>1. status' = status
      BY <1>then, <1>through, <2>1 DEF answer
    <3> QED BY <1>at, <3>1 DEF IInv, OkMeansExchanged, caller
  <2>2. CASE remaining = 0
    <3>1. /\ buf[request] \in Seq(WordSet) /\ Len(buf[request]) = len[request]
          /\ \A k \in 1..len[request] : buf[request][k] = Reply(Word(request, k))
      BY <1>at, <1>through, <1>then, <2>2 DEF IInv, TypeOK, Contents
    <3>2. buf[request] = Replies(request, len[request])
      BY <3>1 DEF Replies
    <3> QED BY <1>at, <1>through, <1>then, <2>2, <3>2
               DEF IInv, TypeOK, OkMeansExchanged, NoRequest, Requests, caller, task, enables,
                   answer
  <2> QED BY <1>through, <2>1, <2>2
<1>8. FailsOnlyWhenOvertaken'
  BY <1>at, <1>through, <1>then
     DEF IInv, TypeOK, Order, FailsOnlyWhenOvertaken, NoRequest, Requests, caller, task,
         enables, answer
<1> QED BY <1>1, <1>2, <1>3, <1>4, <1>5, <1>6, <1>7, <1>8 DEF IInv

(* timed_out keeps the invariant.                                          *)
LEMMA Step_timed_out ==
    ASSUME IInv, timed_out
    PROVE  IInv'
<1>at. /\ pc = "wait" /\ rxHwi = -1 /\ request \in Requests /\ pc' = "idle" /\ selected' = FALSE
       /\ TXFIFO = <<>> /\ shifter = <<>>
       /\ status' = [status EXCEPT ![request] = "failed"]
       /\ posts' = [posts EXCEPT ![request] = @ + 1]
       /\ UNCHANGED <<caller, buf, mbx, request, txIdx, rxIdx, remaining, i, events, enables,
                      TXFIFO, shifter, RXFIFO, rxHwi, wire, overrun, overtaken>>
  BY DEF IInv, TypeOK, timed_out, TaskAt, NothingUnderWay, Finish, Answered
<1>level. /\ RXFFIENA /\ RXFFIL = i /\ i \in Nat /\ i >= 1 /\ Len(RXFIFO) \in Nat /\ Len(RXFIFO) < i
  BY <1>at, FifoAssumption
     DEF IInv, TypeOK, Counts, Receiving, Sent, timed_out, NothingUnderWay, RxRequest
<1>through. /\ rxIdx = txIdx /\ Len(wire) = txIdx /\ Len(RXFIFO) = 0
  BY <1>at, <1>level, EmptyFacts DEF IInv, TypeOK, Counts, Receiving, Active, Sent
<1>lost. overtaken
  BY <1>at, <1>through, FifoAssumption
    DEF IInv, TypeOK, Told, Chunked, timed_out, Awaited, NothingUnderWay, TxRequest
<1>1. TypeOK'
  <2>1. status' \in [Requests -> {"none", "ok", "failed"}] /\ posts' \in [Requests -> Nat]
    BY <1>at DEF IInv, TypeOK
  <2> QED BY <1>at, <2>1 DEF IInv, TypeOK, caller, enables
<1>2. Counts'
  BY <1>at, <1>through, <1>level
     DEF IInv, TypeOK, Counts, Active, Sent, NoRequest, Requests, caller, task, enables,
         answer
<1>3. Receiving'
  BY <1>at, <1>through, <1>level
     DEF IInv, TypeOK, Receiving, Active, Sent, NoRequest, Requests, caller, task, enables,
         answer
<1>4. Contents'
  BY <1>at, <1>through, <1>level
     DEF IInv, TypeOK, Contents, NoRequest, Requests, caller, task, enables, answer
<1>5. Order'
  BY <1>at, <1>through, <1>level
     DEF IInv, TypeOK, Order, NoRequest, Requests, caller, task, enables, answer
<1>6. Told'
  BY <1>at, <1>through, <1>level
     DEF IInv, TypeOK, Told, NoRequest, Requests, caller, task, enables, answer
<1>7. OkMeansExchanged'
  BY <1>at, <1>through, <1>level
     DEF IInv, TypeOK, OkMeansExchanged, NoRequest, Requests, caller, task, enables, answer
<1>8. FailsOnlyWhenOvertaken'
  BY <1>at, <1>through, <1>level, <1>lost DEF FailsOnlyWhenOvertaken
<1> QED BY <1>1, <1>2, <1>3, <1>4, <1>5, <1>6, <1>7, <1>8 DEF IInv

(* spi_tx_fifo_hwi_handler keeps the invariant.                            *)
LEMMA Step_spi_tx_fifo_hwi_handler ==
    ASSUME IInv, spi_tx_fifo_hwi_handler
    PROVE  IInv'
<1> USE FifoAssumption, MaxRequestsAssumption, LengthsAssumption
    DEF NoRequest, Requests, caller, task, enables, answer, spi_tx_fifo_hwi_handler, TxRequest
<1>1. TypeOK'
  BY DEF IInv, TypeOK, Counts, Receiving, Order, Active, Sent
<1>2. Counts'
  BY DEF IInv, TypeOK, Counts, Receiving, Order, Active, Sent
<1>3. Receiving'
  BY DEF IInv, TypeOK, Receiving, Active, Sent, TX, RX
<1>4. Contents'
  BY DEF IInv, TypeOK, Counts, Receiving, Order, Active, Sent, Contents, Word, Reply
<1>5. Order'
  BY DEF IInv, TypeOK, Counts, Receiving, Order, Active, Sent
<1>6. Told'
  BY DEF IInv, TypeOK, Counts, Receiving, Order, Active, Sent, Told, Chunked
<1>7. OkMeansExchanged'
  BY DEF IInv, TypeOK, Counts, Receiving, Order, Active, Sent, OkMeansExchanged
<1>8. FailsOnlyWhenOvertaken'
  BY DEF IInv, TypeOK, Counts, Receiving, Order, Active, Sent, FailsOnlyWhenOvertaken
<1> QED BY <1>1, <1>2, <1>3, <1>4, <1>5, <1>6, <1>7, <1>8 DEF IInv

(* rx_hwi_enter keeps the invariant.                                       *)
LEMMA Step_rx_hwi_enter ==
    ASSUME IInv, rx_hwi_enter
    PROVE  IInv'
<1>at. /\ rxHwi = -1 /\ rxHwi' = Len(RXFIFO) /\ overtaken' = (overtaken \/ pc # "wait")
       /\ RXFFIENA /\ Len(RXFIFO) >= RXFFIL
       /\ UNCHANGED <<caller, buf, mbx, task, rxIdx, events, enables, TXFIFO, shifter, RXFIFO,
                      answer, wire, overrun>>
  BY DEF rx_hwi_enter, RxRequest
<1>num. /\ txIdx \in Nat /\ rxIdx \in Nat /\ i \in 0..Fifo /\ Fifo \in Nat /\ RXFFIL \in 0..Fifo
        /\ Len(wire) \in Nat /\ Len(TXFIFO) \in Nat /\ Len(RXFIFO) \in 0..Fifo /\ Len(shifter) \in Nat
  BY FifoAssumption DEF IInv, TypeOK
<1>whole. Sent /\ rxIdx + Len(RXFIFO) = txIdx /\ rxIdx = txIdx - i
  BY <1>at, <1>num DEF IInv, Counts, Receiving, Active, Sent
<1>1. TypeOK'
  BY <1>at, <1>num, <1>whole
     DEF IInv, TypeOK, TypeOK, NoRequest, Requests, caller, task, enables, answer
<1>2. Counts'
  BY <1>at, <1>num, <1>whole
     DEF IInv, TypeOK, Counts, Active, Sent, NoRequest, Requests, caller, task, enables,
         answer
<1>3. Receiving'
  BY <1>at, <1>num, <1>whole
     DEF IInv, TypeOK, Receiving, Active, Sent, NoRequest, Requests, caller, task, enables,
         answer
<1>4. Contents'
  BY <1>at, <1>num, <1>whole
     DEF IInv, TypeOK, Contents, NoRequest, Requests, caller, task, enables, answer
<1>5. Order'
  BY <1>at, <1>num, <1>whole
     DEF IInv, TypeOK, Order, NoRequest, Requests, caller, task, enables, answer
<1>6. Told'
  BY <1>at, <1>num, <1>whole
     DEF IInv, TypeOK, Told, Chunked, NoRequest, Requests, caller, task, enables, answer
<1>7. OkMeansExchanged'
  BY <1>at, <1>num, <1>whole
     DEF IInv, TypeOK, OkMeansExchanged, NoRequest, Requests, caller, task, enables, answer
<1>8. FailsOnlyWhenOvertaken'
  BY <1>at, <1>num, <1>whole
     DEF IInv, TypeOK, FailsOnlyWhenOvertaken, NoRequest, Requests, caller, task, enables,
         answer
<1> QED BY <1>1, <1>2, <1>3, <1>4, <1>5, <1>6, <1>7, <1>8 DEF IInv

(* rx_hwi_word keeps the invariant.                                        *)
LEMMA Step_rx_hwi_word ==
    ASSUME IInv, rx_hwi_word
    PROVE  IInv'
<1>at. /\ rxHwi > 0 /\ rxHwi' = rxHwi - 1 /\ rxIdx' = rxIdx + 1 /\ RXFIFO' = Tail(RXFIFO)
       /\ buf' = [buf EXCEPT ![request] = [buf[request] EXCEPT ![rxIdx + 1] = Head(RXFIFO)]]
       /\ UNCHANGED <<caller, mbx, task, events, enables, TXFIFO, shifter, answer, wire, overrun,
                      overtaken>>
  BY DEF rx_hwi_word
<1>num. /\ Sent /\ pc # "idle" /\ request \in Requests
        /\ txIdx \in Nat /\ rxIdx \in Nat /\ Fifo \in Nat /\ rxHwi \in 1..Fifo
        /\ Len(wire) \in Nat /\ Len(TXFIFO) \in Nat /\ Len(RXFIFO) \in Nat /\ Len(shifter) \in Nat
        /\ rxIdx + rxHwi = txIdx /\ rxHwi = Len(RXFIFO)
        /\ txIdx + remaining = len[request] /\ remaining \in Nat
  <2>1. Sent /\ rxIdx + rxHwi = txIdx /\ rxHwi = Len(RXFIFO)
    BY <1>at DEF IInv, TypeOK, Receiving
  <2>2. pc # "idle" /\ request \in Requests /\ Active
    BY <2>1 DEF IInv, TypeOK, Sent, Active
  <2>3. txIdx + remaining = len[request]
    BY <2>2 DEF IInv, Counts
  <2>4. /\ txIdx \in Nat /\ rxIdx \in Nat /\ remaining \in Nat /\ Fifo \in Nat
        /\ rxHwi \in -1..Fifo
    BY FifoAssumption DEF IInv, TypeOK
  <2>5. /\ Len(wire) \in Nat /\ Len(TXFIFO) \in Nat /\ Len(RXFIFO) \in Nat
        /\ Len(shifter) \in Nat
    BY DEF IInv, TypeOK
  <2>6. rxHwi \in 1..Fifo
    BY <1>at, <2>4
  <2> QED BY <2>1, <2>2, <2>3, <2>4, <2>5, <2>6
<1>fifo. /\ Head(RXFIFO) = RXFIFO[1] /\ Head(RXFIFO) \in WordSet
         /\ RXFIFO' \in Seq(WordSet) /\ Len(RXFIFO') = Len(RXFIFO) - 1
         /\ \A k \in 1..(Len(RXFIFO) - 1) : RXFIFO'[k] = RXFIFO[k + 1]
  BY <1>at, <1>num, TailFacts, EmptyFacts DEF IInv, TypeOK
<1>word. Head(RXFIFO) = Reply(Word(request, rxIdx + 1))
  BY <1>num, <1>fifo DEF IInv, Contents
<1>buf. /\ buf'[request] \in Seq(WordSet) /\ Len(buf'[request]) = len[request]
        /\ buf'[request][rxIdx + 1] = Head(RXFIFO)
        /\ \A k \in 1..len[request] : k # rxIdx + 1 => buf'[request][k] = buf[request][k]
  <2>1. /\ buf[request] \in Seq(WordSet) /\ Len(buf[request]) = len[request]
        /\ rxIdx + 1 \in 1..len[request] /\ len[request] \in Nat
    BY <1>num DEF IInv, TypeOK, Contents
  <2>2. buf'[request] = [buf[request] EXCEPT ![rxIdx + 1] = Head(RXFIFO)]
    BY <1>at, <1>num DEF IInv, TypeOK
  <2> QED BY <1>fifo, <2>1, <2>2, ExceptFacts
<1>others. \A r \in Requests : r # request => buf'[r] = buf[r]
  BY <1>at, <1>num DEF IInv, TypeOK
<1>1. TypeOK'
  BY SMTT(30), <1>at, <1>num, <1>fifo, <1>buf
     DEF IInv, TypeOK, NoRequest, Requests, caller, task, enables, answer
<1>2. Counts'
  BY SMTT(30), <1>at, <1>num, <1>fifo
     DEF IInv, TypeOK, Counts, Active, Sent, NoRequest, Requests, caller, task, enables,
         answer
<1>3. Receiving'
  <2>1. rxIdx' + rxHwi' = txIdx /\ rxHwi' = Len(RXFIFO') /\ rxHwi' >= 0
    BY <1>at, <1>num, <1>fifo
  <2>2. pc \in {"enableTx", "enableRx", "wait"} /\ RX \in events => rxIdx = txIdx
    BY DEF IInv, Receiving
  <2>3. ~(pc \in {"enableTx", "enableRx", "wait"} /\ RX \in events)
    BY <1>num, <2>2
  <2> QED BY <1>at, <1>num, <2>1, <2>3 DEF IInv, Receiving, Active, Sent, task, enables
<1>4. Contents'
  <2>1. \A k \in 1..Len(RXFIFO) : RXFIFO[k] = Reply(Word(request, rxIdx + k))
    BY DEF IInv, Contents
  <2>2. \A k \in 1..Len(RXFIFO') : RXFIFO'[k] = Reply(Word(request, rxIdx' + k))
    <3>1. TAKE k \in 1..Len(RXFIFO')
    <3>2. k + 1 \in 1..Len(RXFIFO) /\ RXFIFO'[k] = RXFIFO[k + 1] /\ rxIdx + (k + 1) = rxIdx' + k
      BY <1>at, <1>num, <1>fifo, <3>1
    <3> QED BY <2>1, <3>2
  <2>3. \A k \in 1..len[request] : buf[request][k] =
            IF k <= rxIdx THEN Reply(Word(request, k)) ELSE Word(request, k)
    BY <1>num DEF IInv, Contents
  <2>4. \A k \in 1..len[request] : buf'[request][k] =
            IF k <= rxIdx + 1 THEN Reply(Word(request, k)) ELSE Word(request, k)
    BY SMTT(30), <1>num, <1>buf, <1>word, <2>3
  <2>5. \A r \in Requests : Len(buf'[r]) = len[r]
    BY <1>buf, <1>others DEF IInv, Contents
  <2> QED BY <1>at, <2>2, <2>4, <2>5 DEF IInv, Contents, caller, task
<1>5. Order'
  <2>1. \A r \in Requests : r > request => r # request
    BY <1>num DEF Requests
  <2> QED BY <1>at, <1>others, <2>1 DEF IInv, Order, caller, task, answer
<1>6. Told'
  BY <1>at, <1>num, <1>fifo
     DEF IInv, TypeOK, Told, NoRequest, Requests, caller, task, enables, answer, Chunked, Sent
<1>7. OkMeansExchanged'
  BY <1>at, <1>num, <1>fifo, <1>others
     DEF IInv, TypeOK, Order, OkMeansExchanged, NoRequest, Requests, caller, task, enables,
         answer
<1>8. FailsOnlyWhenOvertaken'
  BY <1>at, <1>num, <1>fifo
     DEF IInv, TypeOK, FailsOnlyWhenOvertaken, NoRequest, Requests, caller, task, enables,
         answer
<1> QED BY <1>1, <1>2, <1>3, <1>4, <1>5, <1>6, <1>7, <1>8 DEF IInv

(* rx_hwi_exit keeps the invariant.                                        *)
LEMMA Step_rx_hwi_exit ==
    ASSUME IInv, rx_hwi_exit
    PROVE  IInv'
<1>at. /\ rxHwi = 0 /\ rxHwi' = -1 /\ events' = events \cup {RX}
       /\ UNCHANGED <<caller, buf, mbx, task, rxIdx, enables, TXFIFO, shifter, RXFIFO, answer,
                      wire, overrun, overtaken>>
  BY DEF rx_hwi_exit
<1>done. Sent /\ rxIdx = txIdx /\ rxIdx \in Nat
  BY <1>at DEF IInv, TypeOK, Receiving
<1>1. TypeOK'
  BY <1>at, FifoAssumption DEF IInv, TypeOK, caller, task, enables, answer
<1>2. Counts'
  BY <1>at, <1>done
     DEF IInv, TypeOK, Counts, Active, Sent, NoRequest, Requests, caller, task, enables,
         answer
<1>3. Receiving'
  BY <1>at, <1>done DEF IInv, Receiving, Active, Sent, task, enables
<1>4. Contents'
  BY <1>at, <1>done DEF IInv, TypeOK, Contents, NoRequest, Requests, caller, task, enables, answer
<1>5. Order'
  BY <1>at, <1>done DEF IInv, TypeOK, Order, NoRequest, Requests, caller, task, enables, answer
<1>6. Told'
  BY <1>at, <1>done
     DEF IInv, TypeOK, Told, Chunked, Sent, NoRequest, Requests, caller, task, enables, answer
<1>7. OkMeansExchanged'
  BY <1>at, <1>done
     DEF IInv, TypeOK, OkMeansExchanged, NoRequest, Requests, caller, task, enables, answer
<1>8. FailsOnlyWhenOvertaken'
  BY <1>at, <1>done
     DEF IInv, TypeOK, FailsOnlyWhenOvertaken, NoRequest, Requests, caller, task, enables,
         answer
<1> QED BY <1>1, <1>2, <1>3, <1>4, <1>5, <1>6, <1>7, <1>8 DEF IInv

(* shift_begins keeps the invariant.                                       *)
LEMMA Step_shift_begins ==
    ASSUME IInv, shift_begins
    PROVE  IInv'
<1>at. /\ TXFIFO # <<>> /\ shifter = <<>> /\ shifter' = <<Head(TXFIFO)>> /\ TXFIFO' = Tail(TXFIFO)
       /\ wire' = Append(wire, Head(TXFIFO))
       /\ UNCHANGED <<caller, buf, mbx, task, rxIdx, events, enables, RXFIFO, rxHwi, answer,
                      overrun, overtaken>>
  BY DEF shift_begins
<1>fifo. /\ Head(TXFIFO) = TXFIFO[1] /\ Head(TXFIFO) \in WordSet /\ Len(TXFIFO) >= 1
         /\ TXFIFO' \in Seq(WordSet) /\ Len(TXFIFO') = Len(TXFIFO) - 1
         /\ \A k \in 1..(Len(TXFIFO) - 1) : TXFIFO'[k] = TXFIFO[k + 1]
  BY <1>at, TailFacts DEF IInv, TypeOK
<1>wire. /\ wire' \in Seq(WordSet) /\ Len(wire') = Len(wire) + 1
         /\ \A k \in 1..Len(wire) : wire'[k] = wire[k]
         /\ wire'[Len(wire) + 1] = Head(TXFIFO)
  BY <1>at, <1>fifo, AppendFacts DEF IInv, TypeOK
<1>shifter. shifter' \in Seq(WordSet) /\ Len(shifter') = 1 /\ shifter'[1] = Head(TXFIFO) /\ Len(shifter) = 0
  BY <1>at, <1>fifo, EmptyFacts
<1>num. /\ txIdx \in Nat /\ rxIdx \in Nat /\ i \in 0..Fifo /\ Fifo \in Nat
        /\ Len(wire) \in Nat /\ Len(TXFIFO) \in Nat /\ Len(RXFIFO) \in 0..Fifo
        /\ rxHwi \in -1..Fifo
  BY FifoAssumption DEF IInv, TypeOK
<1>word. Head(TXFIFO) = Word(request, Len(wire) + 1)
  BY <1>fifo, <1>num DEF IInv, Contents
<1>1. TypeOK'
  BY <1>at, <1>fifo, <1>wire, <1>shifter, <1>num
     DEF IInv, TypeOK, NoRequest, Requests, caller, task, enables, answer
<1>2. Counts'
  <2>1. Len(wire) + Len(TXFIFO) = txIdx /\ rxIdx + Len(RXFIFO) + Len(shifter) = Len(wire)
    BY DEF IInv, Counts
  <2>2. Len(wire') + Len(TXFIFO') = txIdx /\ rxIdx + Len(RXFIFO) + Len(shifter') = Len(wire')
    <3>1. Len(wire) + 1 + (Len(TXFIFO) - 1) = txIdx
      BY <1>num, <2>1
    <3>2. rxIdx + Len(RXFIFO) + 1 = Len(wire) + 1
      BY <1>num, <1>shifter, <2>1
    <3> QED BY <1>fifo, <1>wire, <1>shifter, <3>1, <3>2
  <2> QED BY <1>at, <2>2 DEF IInv, Counts, Active, Sent, caller, task, answer
<1>3. Receiving'
  <2>1. rxIdx + Len(RXFIFO) + Len(TXFIFO) = txIdx
    BY <1>shifter, <1>num DEF IInv, Counts
  <2>2. rxHwi = -1
    BY <1>fifo, <1>num, <2>1 DEF IInv, Receiving
  <2> QED BY <1>at, <2>2 DEF IInv, Receiving, Active, Sent, task, enables
<1>4. Contents'
  BY <1>at, <1>fifo, <1>wire, <1>shifter, <1>num, <1>word
     DEF IInv, TypeOK, Contents, NoRequest, Requests, caller, task, enables, answer
<1>5. Order'
  BY <1>at, <1>fifo, <1>wire, <1>shifter, <1>num
     DEF IInv, TypeOK, Order, NoRequest, Requests, caller, task, enables, answer
<1>6. Told'
  BY <1>at, <1>fifo, <1>wire, <1>shifter, <1>num
     DEF IInv, TypeOK, Told, NoRequest, Requests, caller, task, enables, answer, Chunked
<1>7. OkMeansExchanged'
  BY <1>at, <1>fifo, <1>wire, <1>shifter, <1>num
     DEF IInv, TypeOK, OkMeansExchanged, NoRequest, Requests, caller, task, enables, answer
<1>8. FailsOnlyWhenOvertaken'
  BY <1>at, <1>fifo, <1>wire, <1>shifter, <1>num
     DEF IInv, TypeOK, FailsOnlyWhenOvertaken, NoRequest, Requests, caller, task, enables,
         answer
<1> QED BY <1>1, <1>2, <1>3, <1>4, <1>5, <1>6, <1>7, <1>8 DEF IInv

(* shift_ends keeps the invariant.                                         *)
LEMMA Step_shift_ends ==
    ASSUME IInv, shift_ends
    PROVE  IInv'
<1>num. /\ txIdx \in Nat /\ rxIdx \in Nat /\ i \in 0..Fifo /\ Fifo \in Nat
        /\ Len(wire) \in Nat /\ Len(TXFIFO) \in Nat /\ Len(RXFIFO) \in 0..Fifo
        /\ shifter \in Seq(WordSet) /\ Len(shifter) = 1 /\ shifter[1] \in WordSet
  <2>1. shifter # <<>>
    BY DEF shift_ends
  <2>2. shifter \in Seq(WordSet) /\ Len(shifter) <= 1
    BY DEF IInv, TypeOK
  <2>3. Len(shifter) = 1 /\ shifter[1] \in WordSet
    BY <2>1, <2>2, EmptyFacts
  <2> QED BY <2>2, <2>3, FifoAssumption DEF IInv, TypeOK
<1>room. Active /\ Len(RXFIFO) < Fifo
  BY <1>num DEF IInv, Counts, Active, Sent
<1>at. /\ shifter' = <<>> /\ RXFIFO' = Append(RXFIFO, Reply(shifter[1])) /\ UNCHANGED overrun
       /\ UNCHANGED <<caller, buf, mbx, task, rxIdx, events, enables, TXFIFO, rxHwi, answer, wire,
                      overtaken>>
  BY <1>room DEF shift_ends
<1>word. /\ shifter[1] = Word(request, Len(wire)) /\ Reply(shifter[1]) \in WordSet
         /\ Len(wire) = rxIdx + Len(RXFIFO) + 1
  <2>1. shifter[1] = Word(request, Len(wire))
    BY <1>num DEF IInv, Contents
  <2>2. Len(wire) = rxIdx + Len(RXFIFO) + 1
    BY <1>num DEF IInv, Counts
  <2>3. Reply(shifter[1]) \in WordSet
    BY <1>num DEF Reply, WordSet
  <2> QED BY <2>1, <2>2, <2>3
<1>fifo. /\ RXFIFO' \in Seq(WordSet) /\ Len(RXFIFO') = Len(RXFIFO) + 1
         /\ \A k \in 1..Len(RXFIFO) : RXFIFO'[k] = RXFIFO[k]
         /\ RXFIFO'[Len(RXFIFO) + 1] = Reply(shifter[1])
  BY <1>at, <1>word, AppendFacts DEF IInv, TypeOK
<1>none. shifter' \in Seq(WordSet) /\ Len(shifter') = 0
  BY <1>at, EmptyFacts
<1>1. TypeOK'
  BY <1>at, <1>num, <1>room, <1>fifo, <1>none
     DEF IInv, TypeOK, NoRequest, Requests, caller, task, enables, answer
<1>2. Counts'
  <2>1. rxIdx + Len(RXFIFO) + Len(shifter) = Len(wire)
    BY DEF IInv, Counts
  <2>2. rxIdx + Len(RXFIFO') + Len(shifter') = Len(wire)
    BY <1>num, <1>fifo, <1>none, <2>1
  <2> QED BY <1>at, <2>2 DEF IInv, Counts, Active, Sent, caller, task, answer
<1>3. Receiving'
  BY <1>at, <1>num, <1>room, <1>fifo, <1>none
     DEF IInv, Counts, Receiving, Active, Sent, NoRequest, Requests, caller, task, enables,
         answer
<1>4. Contents'
  <2>1. \A k \in 1..Len(RXFIFO) : RXFIFO[k] = Reply(Word(request, rxIdx + k))
    BY DEF IInv, Contents
  <2>2. \A k \in 1..Len(RXFIFO') : RXFIFO'[k] = Reply(Word(request, rxIdx + k))
    <3>1. ASSUME NEW k \in 1..Len(RXFIFO') PROVE RXFIFO'[k] = Reply(Word(request, rxIdx + k))
      <4>1. CASE k = Len(RXFIFO) + 1
        <5>1. rxIdx + k = Len(wire)
          BY <1>num, <1>word, <4>1
        <5> QED BY <1>fifo, <1>word, <4>1, <5>1
      <4>2. CASE k \in 1..Len(RXFIFO)
        BY <1>fifo, <2>1, <4>2
      <4> QED BY <1>num, <1>fifo, <4>1, <4>2
    <3> QED BY <3>1
  <2> QED BY <1>at, <1>none, <2>2 DEF IInv, Contents, caller, task
<1>5. Order'
  BY <1>at, <1>num, <1>room, <1>fifo, <1>none
     DEF IInv, TypeOK, Order, NoRequest, Requests, caller, task, enables, answer
<1>6. Told'
  BY <1>at, <1>num, <1>room, <1>fifo, <1>none
     DEF IInv, TypeOK, Told, NoRequest, Requests, caller, task, enables, answer, Chunked
<1>7. OkMeansExchanged'
  BY <1>at, <1>num, <1>room, <1>fifo, <1>none
     DEF IInv, TypeOK, OkMeansExchanged, NoRequest, Requests, caller, task, enables, answer
<1>8. FailsOnlyWhenOvertaken'
  BY <1>at, <1>num, <1>room, <1>fifo, <1>none
     DEF IInv, TypeOK, FailsOnlyWhenOvertaken, NoRequest, Requests, caller, task, enables,
         answer
<1> QED BY <1>1, <1>2, <1>3, <1>4, <1>5, <1>6, <1>7, <1>8 DEF IInv

(* Every step keeps the invariant.                                         *)
LEMMA Step ==
    ASSUME IInv, [Next]_vars
    PROVE  IInv'
<1>1. CASE \E n \in Lengths, valid \in BOOLEAN : SPI_transact(n, valid)
  BY <1>1, Step_SPI_transact
<1>2. CASE tsk_spi_fifo
  BY <1>2, Step_pend_request, Step_setup, Step_push, Step_clear_events, Step_enable_tx,
     Step_enable_rx,
     Step_pend_events, Step_timed_out
     DEF tsk_spi_fifo
<1>3. CASE Handlers
  BY <1>3, Step_spi_tx_fifo_hwi_handler, Step_rx_hwi_enter, Step_rx_hwi_word, Step_rx_hwi_exit
     DEF Handlers, spi_rx_fifo_hwi_handler
<1>4. CASE Peripheral
  BY <1>4, Step_shift_begins, Step_shift_ends DEF Peripheral
<1>5. CASE UNCHANGED vars
  <2>1. TypeOK'
    BY <1>5 DEF IInv, TypeOK, vars, caller, task, enables, answer
  <2>2. Counts' /\ Receiving'
    BY <1>5 DEF IInv, Counts, Receiving, Active, Sent, vars, caller, task, enables, answer
  <2>3. Contents'
    BY <1>5 DEF IInv, Contents, vars, caller, task
  <2>4. Order' /\ OkMeansExchanged' /\ FailsOnlyWhenOvertaken'
    BY <1>5 DEF IInv, Order, OkMeansExchanged, FailsOnlyWhenOvertaken, vars, caller, task, answer
  <2>5. Told'
    BY <1>5 DEF IInv, Told, Chunked, vars, caller, task, enables
  <2> QED BY <2>1, <2>2, <2>3, <2>4, <2>5 DEF IInv
<1> QED BY <1>1, <1>2, <1>3, <1>4, <1>5 DEF Next

(* It holds at first.                                                      *)
LEMMA Start == Init => IInv
<1> SUFFICES ASSUME Init PROVE IInv
  OBVIOUS
<1>1. <<>> \in Seq(WordSet) /\ <<>> \in Seq(Requests) /\ Len(<<>>) = 0
  BY EmptyFacts
<1>2. TypeOK
  <2>1. /\ buf \in [Requests -> Seq(WordSet)] /\ mbx \in Seq(Requests) /\ Len(mbx) = 0
        /\ TXFIFO \in Seq(WordSet) /\ RXFIFO \in Seq(WordSet) /\ shifter \in Seq(WordSet)
        /\ wire \in Seq(WordSet)
        /\ Len(TXFIFO) = 0 /\ Len(RXFIFO) = 0 /\ Len(shifter) = 0
    BY <1>1 DEF Init
  <2>2. /\ len \in [Requests -> Nat] /\ mode \in [Requests -> BOOLEAN]
        /\ status \in [Requests -> {"none", "ok", "failed"}] /\ posts \in [Requests -> Nat]
    BY DEF Init
  <2>3. /\ asked \in 0..MaxRequests /\ pc \in {"idle"} /\ request \in {NoRequest}
        /\ txIdx \in Nat /\ rxIdx \in Nat /\ remaining \in Nat /\ i \in 0..Fifo
        /\ events \subseteq {TX, RX} /\ RXFFIL \in 0..Fifo /\ rxHwi \in -1..Fifo
    BY FifoAssumption, MaxRequestsAssumption DEF Init
  <2>4. /\ TXFFIENA \in BOOLEAN /\ RXFFIENA \in BOOLEAN /\ selected \in BOOLEAN
        /\ overrun \in BOOLEAN /\ overtaken \in BOOLEAN
    BY DEF Init
  <2> QED BY <2>1, <2>2, <2>3, <2>4, FifoAssumption DEF TypeOK
<1>3. Counts /\ Receiving /\ Contents /\ Told
  BY <1>1 DEF Init, Counts, Receiving, Contents, Told, Active, Sent, Requests
<1>4. Order
  <2>1. \A r \in Requests : Words(r, 0) = <<>>
    BY WordsFacts, EmptyFacts
  <2>2. \A r \in Requests : buf[r] = Words(r, len[r]) /\ status[r] = "none"
    BY <2>1 DEF Init
  <2>3. /\ request = asked - Len(mbx) /\ pc = "idle"
        /\ ~\E j \in 1..Len(mbx) : TRUE
        /\ ~\E j \in 1..asked : TRUE
    <3>1. request = 0 /\ asked = 0 /\ pc = "idle"
      BY DEF Init, NoRequest
    <3>2. Len(mbx) = 0
      BY <1>1 DEF Init
    <3>3. request = asked - Len(mbx)
      BY <3>1, <3>2, SMT
    <3>4. ~(\E j \in 1..Len(mbx) : TRUE) /\ ~(\E j \in 1..asked : TRUE)
      BY <3>1, <3>2, SMT
    <3> QED BY <3>1, <3>3, <3>4
  <2> QED BY <2>2, <2>3 DEF Order
<1>5. OkMeansExchanged /\ FailsOnlyWhenOvertaken
  BY DEF Init, OkMeansExchanged, FailsOnlyWhenOvertaken
<1> QED BY <1>2, <1>3, <1>4, <1>5 DEF IInv

(* The invariant of spi.c's FIFO path, for any requests, FIFO depth and    *)
(* timeout: words counted from the caller's buffer to the wire and back.   *)
THEOREM Invariant == Spec => []IInv
<1>1. Init => IInv
  BY Start
<1>2. IInv /\ [Next]_vars => IInv'
  BY Step
<1> QED BY <1>1, <1>2, PTL DEF Spec

------------------------------------------------------------------------------
(* The variables have their types; the FIFOs hold no more than they can,   *)
(* and the level of the receive interrupt is one they can reach.           *)
THEOREM TypeCorrect == Spec => []TypeOK
BY Invariant, PTL DEF IInv

(* The words on the wire are the caller's, each once and in order, although*)
(* the replies go into the same buffer.                                    *)
THEOREM CallersWordsGoOut == Spec => []SentAsGiven
<1>1. IInv => SentAsGiven
  <2> SUFFICES ASSUME IInv PROVE SentAsGiven
    OBVIOUS
  <2>1. /\ wire \in Seq(WordSet) /\ \A k \in 1..Len(wire) : wire[k] = Word(request, k)
    BY DEF IInv, TypeOK, Contents
  <2>2. wire = Words(request, Len(wire))
    BY <2>1 DEF Words
  <2>3. Len(wire) <= txIdx
    BY DEF IInv, TypeOK, Counts
  <2> QED BY <2>2, <2>3 DEF SentAsGiven
<1> QED BY <1>1, Invariant, PTL

(* The receive handler never passes the words that have gone out, so that  *)
(* it neither overwrites one that has not, nor leaves the caller's buffer. *)
THEOREM HandlerStaysBehind == Spec => []StaysBehind
<1>1. IInv => StaysBehind
  BY DEF IInv, TypeOK, Counts, StaysBehind
<1> QED BY <1>1, Invariant, PTL

(* A request is answered with TRUE only when its buffer holds the replies  *)
(* to all of its words, in order.                                          *)
THEOREM TrueMeansExchanged == Spec => []OkMeansExchanged
BY Invariant, PTL DEF IInv

(* The receive FIFO never meets a word it has no room for.                 *)
THEOREM NoWordLost == Spec => []NoOverrun
<1>1. IInv => NoOverrun
  BY DEF IInv, Counts, NoOverrun
<1> QED BY <1>1, Invariant, PTL

(* The chip select is held while a word is on its way.                     *)
THEOREM HeldWhileBusy == Spec => []SelectedWhileBusy
<1>1. IInv => SelectedWhileBusy
  <2> SUFFICES ASSUME IInv, TXFIFO # <<>> \/ shifter # <<>> PROVE selected
    BY DEF SelectedWhileBusy
  <2>1. Len(TXFIFO) \in Nat /\ Len(shifter) \in Nat /\ Len(RXFIFO) \in Nat /\ Len(wire) \in Nat
    BY DEF IInv, TypeOK
  <2>2. Len(TXFIFO) > 0 \/ Len(shifter) > 0
    BY <2>1, EmptyFacts DEF IInv, TypeOK
  <2>3. Active
    BY <2>1, <2>2 DEF IInv, TypeOK, Counts
  <2> QED BY <2>3 DEF IInv, Counts
<1> QED BY <1>1, Invariant, PTL

(* The only transfers that fail are those whose handler took a chunk       *)
(* before the task cleared the events of the one before.                   *)
THEOREM FailureIsTheRace == Spec => []FailsOnlyWhenOvertaken
BY Invariant, PTL DEF IInv
==============================================================================
