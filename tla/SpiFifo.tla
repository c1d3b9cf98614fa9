-------------------------------- MODULE SpiFifo --------------------------------
(***************************************************************************)
(* driver/spi/spi.c, the path through the FIFOs of the SPI-A peripheral:   *)
(* tsk_spi_fifo with its two interrupt handlers, and SPI_transact before   *)
(* it.  The shipped configuration does not enable it.                      *)
(*                                                                         *)
(* A transfer replaces each word of the caller's buffer by the word that   *)
(* came back for it.  One that fits into the FIFO is sent at once, a longer*)
(* one in chunks.  The words are bytes, as SPI_transact_8bit sends them:   *)
(* the shift by 8 on the way out and the mask on the way in undo each      *)
(* other.                                                                  *)
(*                                                                         *)
(* The handlers run between any two steps of the task and keep the task    *)
(* and each other out; the shift register goes on meanwhile, and other     *)
(* tasks may delay this one anywhere.  The FIFO interrupts are levels: a   *)
(* request stands as long as its condition holds and its enable bit is     *)
(* set.  The peripheral needs far less than the timeout of 100 ticks, so   *)
(* that a wait runs out only when nothing is going to end it.              *)
(***************************************************************************)
EXTENDS Integers, Sequences

CONSTANTS
    Fifo,           \* 16
    MbxSize,        \* CONFIG_FIFO_SPI_MAX_REQUEST_COUNT
    Lengths,        \* of the transfers asked for
    MaxRequests     \* how many: a bound of the model

ASSUME FifoAssumption == Fifo \in Nat \ {0} /\ MbxSize \in Nat \ {0}
ASSUME LengthsAssumption == Lengths \subseteq Nat \ {0}
ASSUME MaxRequestsAssumption == MaxRequests \in Nat

NoRequest == 0
Requests == 1..MaxRequests

VARIABLES
    asked,          \* SPI_transact has accepted so many requests
    len, mode,      \* of each request; mode is FALSE for one that is no SPI_MODE_T
    buf,            \* the buffer of each
    mbx,            \* the mailbox
    pc, request, txIdx, rxIdx, remaining,   \* the task
    i,              \* words of this chunk that it has pushed
    events,         \* posted to spi_evt
    TXFFIENA, RXFFIENA, RXFFIL,             \* SpiaRegs
    TXFIFO, shifter, RXFIFO,                \* sequences of words
    rxHwi,          \* words the receive handler has still to read, -1 outside it
    selected,       \* the chip select
    status, posts,  \* of each request: *pStatus, and posts of semRequestor
    \* history
    wire,           \* words of this request that have gone into the shift register
    overrun,        \* a word met a full receive FIFO
    overtaken       \* the handler took a chunk while the task was not yet waiting for it

caller == <<asked, len, mode>>
task == <<pc, request, txIdx, remaining, i>>
enables == <<TXFFIENA, RXFFIENA, RXFFIL>>
answer == <<selected, status, posts>>
vars == <<caller, buf, mbx, task, rxIdx, events, enables, TXFIFO, shifter, RXFIFO, rxHwi,
          answer, wire, overrun, overtaken>>

(* Word k of a request as its caller left it, and what comes back for it.  *)
Word(r, k) == [of |-> r, no |-> k, back |-> FALSE]
Reply(word) == [word EXCEPT !.back = TRUE]

Words(r, n) == [k \in 1..n |-> Word(r, k)]
Replies(r, n) == [k \in 1..n |-> Reply(Word(r, k))]

TX == "SPI_EVENT_TX_HWI"
RX == "SPI_EVENT_RX_HWI"

Init ==
    /\ asked = 0
    /\ len = [r \in Requests |-> 0] /\ mode = [r \in Requests |-> TRUE]
    /\ buf = [r \in Requests |-> <<>>]
    /\ mbx = <<>>
    /\ pc = "idle" /\ request = NoRequest /\ txIdx = 0 /\ rxIdx = 0 /\ remaining = 0 /\ i = 0
    /\ events = {}
    /\ TXFFIENA = FALSE /\ RXFFIENA = FALSE /\ RXFFIL = 0
    /\ TXFIFO = <<>> /\ shifter = <<>> /\ RXFIFO = <<>>
    /\ rxHwi = -1
    /\ selected = FALSE
    /\ status = [r \in Requests |-> "none"] /\ posts = [r \in Requests |-> 0]
    /\ wire = <<>> /\ overrun = FALSE /\ overtaken = FALSE

------------------------------------------------------------------------------
(* A caller. Without room in the mailbox it is refused.                    *)
SPI_transact(n, valid) ==
    /\ asked < MaxRequests
    /\ Len(mbx) < MbxSize
    /\ asked' = asked + 1
    /\ len' = [len EXCEPT ![asked'] = n]
    /\ mode' = [mode EXCEPT ![asked'] = valid]
    /\ buf' = [buf EXCEPT ![asked'] = Words(asked', n)]
    /\ mbx' = Append(mbx, asked')
    /\ UNCHANGED <<task, rxIdx, events, enables, TXFIFO, shifter, RXFIFO, rxHwi, answer,
                   wire, overrun, overtaken>>

------------------------------------------------------------------------------
(* tsk_spi_fifo, when no handler runs.                                     *)
TaskAt(place) == pc = place /\ rxHwi = -1

Answered(r, result) ==
    /\ status' = [status EXCEPT ![r] = result]
    /\ posts' = [posts EXCEPT ![r] = @ + 1]

(* Mutant: an invalid request is not answered. *)
pend_request_mute ==
    /\ TaskAt("idle")
    /\ mbx # <<>>
    /\ request' = Head(mbx) /\ mbx' = Tail(mbx)
    /\ txIdx' = 0 /\ rxIdx' = 0
    /\ wire' = <<>> /\ overtaken' = FALSE
    /\ pc' = IF mode[Head(mbx)] THEN "setup" ELSE "idle"
    /\ UNCHANGED <<caller, buf, remaining, i, events, enables, TXFIFO, shifter, RXFIFO, rxHwi, answer,
                   overrun>>

(* Mailbox_pend, and the test of the request. Its length is not 0 and its  *)
(* buffer not NULL: SPI_transact has seen to that.                         *)
pend_request ==
    /\ TaskAt("idle")
    /\ mbx # <<>>
    /\ request' = Head(mbx) /\ mbx' = Tail(mbx)
    /\ txIdx' = 0 /\ rxIdx' = 0
    /\ wire' = <<>> /\ overtaken' = FALSE
    /\ IF mode[Head(mbx)]
       THEN pc' = "setup" /\ UNCHANGED <<status, posts>>
       ELSE Answered(Head(mbx), "failed") /\ UNCHANGED pc
    /\ UNCHANGED <<caller, buf, remaining, i, events, enables, TXFIFO, shifter, RXFIFO, rxHwi, selected,
                   overrun>>

(* The peripheral is reset and the device selected.                        *)
setup ==
    /\ TaskAt("setup")
    /\ TXFIFO' = <<>> /\ RXFIFO' = <<>> /\ shifter' = <<>>
    /\ TXFFIENA' = FALSE /\ RXFFIENA' = FALSE
    /\ selected' = TRUE
    /\ remaining' = len[request] /\ i' = 0
    /\ pc' = "push"
    /\ UNCHANGED <<caller, buf, mbx, request, txIdx, rxIdx, events, RXFFIL, rxHwi, status, posts,
                   wire, overrun, overtaken>>

(* Mutant: every chunk begins at the start of the buffer. *)
push_from_start ==
    /\ TaskAt("push")
    /\ TXFIFO' = Append(TXFIFO, buf[request][i + 1])
    /\ txIdx' = txIdx + 1 /\ remaining' = remaining - 1 /\ i' = i + 1
    /\ pc' = IF remaining' = 0 \/ i' = Fifo THEN "clear" ELSE "push"
    /\ UNCHANGED <<caller, buf, mbx, request, rxIdx, events, enables, shifter, RXFIFO, rxHwi,
                   answer, wire, overrun, overtaken>>

(* One word into the transmit FIFO.                                        *)
push ==
    /\ TaskAt("push")
    /\ TXFIFO' = Append(TXFIFO, buf[request][txIdx + 1])
    /\ txIdx' = txIdx + 1 /\ remaining' = remaining - 1 /\ i' = i + 1
    /\ pc' = IF remaining' = 0 \/ i' = Fifo THEN "clear" ELSE "push"
    /\ UNCHANGED <<caller, buf, mbx, request, rxIdx, events, enables, shifter, RXFIFO, rxHwi,
                   answer, wire, overrun, overtaken>>

(* A transfer that fits waits for RX only.                                 *)
Chunked == len[request] > Fifo

Awaited == IF Chunked THEN {RX, TX} ELSE {RX}

clear_events ==
    /\ TaskAt("clear")
    /\ events' = events \ Awaited
    /\ pc' = IF Chunked THEN "enableTx" ELSE "enableRx"
    /\ UNCHANGED <<caller, buf, mbx, request, txIdx, rxIdx, remaining, i, enables, TXFIFO, shifter,
                   RXFIFO, rxHwi, answer, wire, overrun, overtaken>>

(* TXFFIL is 0: the interrupt comes when the FIFO is empty.                *)
enable_tx ==
    /\ TaskAt("enableTx")
    /\ TXFFIENA' = TRUE
    /\ pc' = "enableRx"
    /\ UNCHANGED <<caller, buf, mbx, request, txIdx, rxIdx, remaining, i, events, RXFFIENA, RXFFIL,
                   TXFIFO, shifter, RXFIFO, rxHwi, answer, wire, overrun, overtaken>>

(* Mutant: the level is one too low. *)
enable_rx_early ==
    /\ TaskAt("enableRx")
    /\ RXFFIL' = IF i > 1 THEN i - 1 ELSE 1
    /\ RXFFIENA' = TRUE
    /\ pc' = "wait"
    /\ UNCHANGED <<caller, buf, mbx, request, txIdx, rxIdx, remaining, i, events, TXFFIENA,
                   TXFIFO, shifter, RXFIFO, rxHwi, answer, wire, overrun, overtaken>>

(* Mutant: the level is always that of a full chunk. *)
enable_rx_full ==
    /\ TaskAt("enableRx")
    /\ RXFFIL' = IF Chunked THEN Fifo ELSE i
    /\ RXFFIENA' = TRUE
    /\ pc' = "wait"
    /\ UNCHANGED <<caller, buf, mbx, request, txIdx, rxIdx, remaining, i, events, TXFFIENA,
                   TXFIFO, shifter, RXFIFO, rxHwi, answer, wire, overrun, overtaken>>

enable_rx ==
    /\ TaskAt("enableRx")
    /\ RXFFIL' = i
    /\ RXFFIENA' = TRUE
    /\ pc' = "wait"
    /\ UNCHANGED <<caller, buf, mbx, request, txIdx, rxIdx, remaining, i, events, TXFFIENA,
                   TXFIFO, shifter, RXFIFO, rxHwi, answer, wire, overrun, overtaken>>

Finish(result) ==
    /\ selected' = FALSE
    /\ Answered(request, result)
    /\ pc' = "idle"

(* Mutant: of the two events one is enough. *)
pend_events_any ==
    /\ TaskAt("wait")
    /\ Awaited \cap events # {}
    /\ events' = events \ Awaited
    /\ IF remaining > 0
       THEN pc' = "push" /\ i' = 0 /\ UNCHANGED answer
       ELSE Finish("ok") /\ UNCHANGED i
    /\ UNCHANGED <<caller, buf, mbx, request, txIdx, rxIdx, remaining, enables, TXFIFO, shifter,
                   RXFIFO, rxHwi, wire, overrun, overtaken>>

(* Event_pend returns when all of the events are there.                    *)
pend_events ==
    /\ TaskAt("wait")
    /\ Awaited \subseteq events
    /\ events' = events \ Awaited
    /\ IF remaining > 0
       THEN pc' = "push" /\ i' = 0 /\ UNCHANGED answer
       ELSE Finish("ok") /\ UNCHANGED i
    /\ UNCHANGED <<caller, buf, mbx, request, txIdx, rxIdx, remaining, enables, TXFIFO, shifter,
                   RXFIFO, rxHwi, wire, overrun, overtaken>>

TxRequest == TXFFIENA /\ TXFIFO = <<>>
RxRequest == RXFFIENA /\ Len(RXFIFO) >= RXFFIL

NothingUnderWay == TXFIFO = <<>> /\ shifter = <<>> /\ ~TxRequest /\ ~RxRequest

timed_out ==
    /\ TaskAt("wait")
    /\ ~(Awaited \subseteq events)
    /\ NothingUnderWay
    /\ Finish("failed")
    /\ UNCHANGED <<caller, buf, mbx, request, txIdx, rxIdx, remaining, i, events, enables, TXFIFO,
                   shifter, RXFIFO, rxHwi, wire, overrun, overtaken>>

tsk_spi_fifo ==
    \/ pend_request \/ setup \/ push \/ clear_events \/ enable_tx \/ enable_rx
    \/ pend_events \/ timed_out

------------------------------------------------------------------------------
(* The handlers.                                                           *)
spi_tx_fifo_hwi_handler ==
    /\ rxHwi = -1
    /\ TxRequest
    /\ TXFFIENA' = FALSE
    /\ events' = events \cup {TX}
    /\ UNCHANGED <<caller, buf, mbx, task, rxIdx, RXFFIENA, RXFFIL, TXFIFO, shifter, RXFIFO,
                   rxHwi, answer, wire, overrun, overtaken>>

(* It reads RXFFST once.                                                   *)
rx_hwi_enter ==
    /\ rxHwi = -1
    /\ RxRequest
    /\ rxHwi' = Len(RXFIFO)
    /\ overtaken' = (overtaken \/ pc # "wait")
    /\ UNCHANGED <<caller, buf, mbx, task, rxIdx, events, enables, TXFIFO, shifter, RXFIFO,
                   answer, wire, overrun>>

rx_hwi_word ==
    /\ rxHwi > 0
    /\ buf' = [buf EXCEPT ![request] = [@ EXCEPT ![rxIdx + 1] = Head(RXFIFO)]]
    /\ RXFIFO' = Tail(RXFIFO)
    /\ rxIdx' = rxIdx + 1
    /\ rxHwi' = rxHwi - 1
    /\ UNCHANGED <<caller, mbx, task, events, enables, TXFIFO, shifter, answer,
                   wire, overrun, overtaken>>

rx_hwi_exit ==
    /\ rxHwi = 0
    /\ rxHwi' = -1
    /\ events' = events \cup {RX}
    /\ UNCHANGED <<caller, buf, mbx, task, rxIdx, enables, TXFIFO, shifter, RXFIFO, answer,
                   wire, overrun, overtaken>>

spi_rx_fifo_hwi_handler == rx_hwi_enter \/ rx_hwi_word \/ rx_hwi_exit

------------------------------------------------------------------------------
(* The peripheral: a word goes into the shift register, and another one is *)
(* there when it has gone out.                                             *)
shift_begins ==
    /\ TXFIFO # <<>> /\ shifter = <<>>
    /\ shifter' = <<Head(TXFIFO)>>
    /\ TXFIFO' = Tail(TXFIFO)
    /\ wire' = Append(wire, Head(TXFIFO))
    /\ UNCHANGED <<caller, buf, mbx, task, rxIdx, events, enables, RXFIFO, rxHwi, answer,
                   overrun, overtaken>>

shift_ends ==
    /\ shifter # <<>>
    /\ shifter' = <<>>
    /\ IF Len(RXFIFO) < Fifo
       THEN RXFIFO' = Append(RXFIFO, Reply(shifter[1])) /\ UNCHANGED overrun
       ELSE overrun' = TRUE /\ UNCHANGED RXFIFO
    /\ UNCHANGED <<caller, buf, mbx, task, rxIdx, events, enables, TXFIFO, rxHwi, answer,
                   wire, overtaken>>

Handlers == spi_tx_fifo_hwi_handler \/ spi_rx_fifo_hwi_handler
Peripheral == shift_begins \/ shift_ends

Next ==
    \/ \E n \in Lengths, valid \in BOOLEAN : SPI_transact(n, valid)
    \/ tsk_spi_fifo
    \/ Handlers
    \/ Peripheral

Spec == Init /\ [][Next]_vars

(* The task is scheduled, handlers run when they are requested, and words  *)
(* are clocked out. Callers need not call.                                 *)
FairSpec == Spec /\ WF_vars(tsk_spi_fifo) /\ WF_vars(Handlers) /\ WF_vars(Peripheral)

------------------------------------------------------------------------------
WordSet == [of : Requests, no : Nat, back : BOOLEAN]

TypeOK ==
    /\ asked \in 0..MaxRequests
    /\ len \in [Requests -> Nat] /\ mode \in [Requests -> BOOLEAN]
    /\ buf \in [Requests -> Seq(WordSet)]
    /\ mbx \in Seq(Requests) /\ Len(mbx) <= MbxSize
    /\ pc \in {"idle", "setup", "push", "clear", "enableTx", "enableRx", "wait"}
    /\ request \in {NoRequest} \cup Requests
    /\ pc # "idle" => request \in Requests
    /\ txIdx \in Nat /\ rxIdx \in Nat /\ remaining \in Nat /\ i \in 0..Fifo
    /\ events \subseteq {TX, RX}
    /\ TXFFIENA \in BOOLEAN /\ RXFFIENA \in BOOLEAN /\ RXFFIL \in 0..Fifo
    /\ TXFIFO \in Seq(WordSet) /\ Len(TXFIFO) <= Fifo
    /\ RXFIFO \in Seq(WordSet) /\ Len(RXFIFO) <= Fifo
    /\ shifter \in Seq(WordSet) /\ Len(shifter) <= 1
    /\ rxHwi \in -1..Fifo
    /\ selected \in BOOLEAN
    /\ status \in [Requests -> {"none", "ok", "failed"}] /\ posts \in [Requests -> Nat]
    /\ wire \in Seq(WordSet) /\ overrun \in BOOLEAN /\ overtaken \in BOOLEAN

(* What goes out on the wire are the words the caller has asked to send,   *)
(* each once and in order, although the handler writes what comes back     *)
(* into the same buffer (:623, :737, :764).                                *)
SentAsGiven == wire = Words(request, Len(wire)) /\ Len(wire) <= txIdx

(* The handler stays behind the task in the buffer they share, and within  *)
(* it.                                                                     *)
StaysBehind == rxIdx <= Len(wire)

(* *pStatus is TRUE only when every word has been exchanged: the buffer    *)
(* then holds the replies, in order (:753, :803).                          *)
OkMeansExchanged ==
    \A r \in Requests : status[r] = "ok" => buf[r] = Replies(r, len[r])

(* No word is lost in the receive FIFO: a chunk is not longer than it, and *)
(* it is empty when the next one is sent.                                  *)
NoOverrun == ~overrun

(* A word is on the wire only while its device is selected: the chip       *)
(* select is not released before the last one is through (:749, :785,      *)
(* :799).                                                                  *)
SelectedWhileBusy == TXFIFO # <<>> \/ shifter # <<>> => selected

(* A transfer fails only when the handler overtakes the task: it takes a   *)
(* whole chunk before the task has cleared the events of the one before    *)
(* (:772), and the task then waits for an event it has thrown away.        *)
FailsOnlyWhenOvertaken ==
    request # NoRequest /\ status[request] = "failed" /\ mode[request] => overtaken

(* Every request is answered once and not again, whether it was valid or   *)
(* not: the caller waits for the semaphore, perhaps for ever, and may then *)
(* use its buffer and its status for the next request (:667, :757, :807).  *)
EveryRequestAnswered == \A r \in Requests : asked >= r ~> [](posts[r] = 1)
==============================================================================
