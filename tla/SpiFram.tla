------------------------------- MODULE SpiFram -------------------------------
(***************************************************************************)
(* driver/fram/fm25w256/fm25w256.c over driver/spi/spi.c: the tasks that   *)
(* call FM25W256_write and FM25W256_read, the SPI task tsk_spi_dma, the    *)
(* DMA channels with their two interrupt handlers, and the FRAM chip as    *)
(* far as chip select and the write-enable latch go.                       *)
(*                                                                         *)
(* The tasks' priorities are configured, so tasks interleave freely        *)
(* between the steps below.  Time is the SYS/BIOS tick: what the CPU does  *)
(* between two blocking calls takes less than a tick, though a tick can    *)
(* fall into it.  A DMA transfer takes less than a tick too, or it stalls: *)
(* it stops half way, or finishes any time later.                          *)
(*                                                                         *)
(* The state is the one FM25W256_init and SPI_init leave.  Buffers passed  *)
(* are the DMARAM ones every caller uses, so SPI_transact's tests of its   *)
(* arguments succeed.                                                      *)
(***************************************************************************)
EXTENDS Integers, Sequences, FiniteSets

CONSTANTS
    Callers,        \* tasks that use the FRAM
    MaxCalls,       \* calls of each task: the bound of the model
    MbxSize,        \* CONFIG_MCBSPB_SPI_MAX_REQUEST_COUNT
    SpiTimeout,     \* DEFAULT_TIMEOUT[id], ticks
    FramTimeout,    \* CONFIG_SPI_FM25W256_DEFAULT_TIMEOUT, ticks
    NoOne           \* no task

ASSUME MaxCallsAssumption == MaxCalls \in [Callers -> Nat]
ASSUME MbxSizeAssumption == MbxSize \in Nat /\ MbxSize > 0
ASSUME SpiTimeoutAssumption == SpiTimeout \in Nat /\ SpiTimeout > 0
ASSUME FramTimeoutAssumption == FramTimeout \in Nat /\ FramTimeout > 0
ASSUME NoOneAssumption == NoOne \notin Callers

VARIABLES
    \* FM25W256_transact, per task
    pc,             \* where the task is
    calls,          \* calls begun
    isWrite,        \* the argument of the last one
    phase,          \* the transfer it is at: "wren" or "data"
    bResult,        \* its stack variable, written through pStatus
    framTimer,      \* ticks left of its Semaphore_pend
    ret,            \* what the last call returned
    \* shared kernel objects
    fm25w256_mutex, \* the task that holds the gate
    sem_sync,       \* the binary semaphore
    mbx_spi,        \* the mailbox of requests
    spi_evt,        \* the posted events
    \* tsk_spi_dma
    spiPc,
    spi_transaction_request,
    posted,         \* whether Event_pend returned the events
    spiTimer,       \* ticks left of its Event_pend
    \* DMA and chip
    dma,            \* "off", "run", or "sent" when all words have gone out
    dmaRequest,     \* the request the channels were set up for
    selected,       \* chip select is low
    clocked,        \* transfers the chip has seen since it was selected
    WEL,            \* the chip's write-enable latch
    straddled,      \* a tick has fallen into the CPU's current work
    \* history
    transferred,    \* requests whose transfer has completed
    stored,         \* requests whose write the chip has carried out
    deadWrite,      \* *pStatus was written after its call had returned
    stalled         \* a transfer has stalled

framVars == <<pc, calls, isWrite, phase, framTimer, ret>>
kernelVars == <<fm25w256_mutex, sem_sync, mbx_spi, spi_evt>>
spiVars == <<spiPc, spi_transaction_request, posted, spiTimer>>
chipVars == <<selected, clocked, WEL, stored>>
vars == <<framVars, bResult, kernelVars, spiVars, dma, dmaRequest, chipVars, straddled,
          transferred, deadWrite, stalled>>

(* A mailbox message: whose call it is for, and which transfer of it.      *)
Kinds == {"wren", "write", "read"}
Request == [caller : Callers, call : Nat \ {0}, kind : Kinds]
NoRequest == [caller |-> NoOne, call |-> 0, kind |-> "read"]

Init ==
    /\ pc = [c \in Callers |-> "idle"]
    /\ calls = [c \in Callers |-> 0]
    /\ isWrite = [c \in Callers |-> FALSE]
    /\ phase = [c \in Callers |-> "data"]
    /\ bResult = [c \in Callers |-> FALSE]
    /\ framTimer = [c \in Callers |-> 0]
    /\ ret = [c \in Callers |-> "none"]
    /\ fm25w256_mutex = NoOne /\ sem_sync = 0 /\ mbx_spi = <<>> /\ spi_evt = {}
    /\ spiPc = "mailbox" /\ spi_transaction_request = NoRequest
    /\ posted = FALSE /\ spiTimer = 0
    /\ dma = "off" /\ dmaRequest = NoRequest /\ selected = FALSE /\ clocked = <<>> /\ WEL = FALSE
    /\ straddled = FALSE
    /\ transferred = {} /\ stored = {} /\ deadWrite = FALSE /\ stalled = FALSE

------------------------------------------------------------------------------
(* The FRAM chip. The first transfer after it was selected is the command; *)
(* what follows before it is deselected belongs to that command. The       *)
(* command takes effect when the chip is deselected.                       *)
CS_select ==
    /\ selected' = TRUE
    /\ UNCHANGED <<clocked, WEL, stored>>

CS_deselect ==
    /\ selected' = FALSE
    /\ clocked' = <<>>
    /\ IF clocked # <<>>
       THEN /\ WEL' = CASE Head(clocked).kind = "wren" -> TRUE
                        [] Head(clocked).kind = "write" -> FALSE
                        [] OTHER -> WEL
            /\ stored' = IF Head(clocked).kind = "write" /\ WEL
                         THEN stored \cup {Head(clocked)} ELSE stored
       ELSE UNCHANGED <<WEL, stored>>

(* The DMA. The transmit channel has put the last word out; the receive    *)
(* channel has taken the last one in. Each interrupts, and its handler     *)
(* stops the channel and posts its event; the receive handler deselects    *)
(* the device first.                                                       *)
spi_tx_dma_hwi_handler ==
    /\ dma = "run"
    /\ dma' = "sent"
    /\ clocked' = Append(clocked, dmaRequest)
    /\ spi_evt' = spi_evt \cup {"tx"}
    /\ UNCHANGED <<framVars, bResult, fm25w256_mutex, sem_sync, mbx_spi, spiVars,
                   dmaRequest, selected, WEL, stored, straddled, transferred, deadWrite, stalled>>

(* Mutant: the device stays selected. *)
spi_rx_dma_hwi_handler_keeps_cs ==
    /\ dma = "sent"
    /\ dma' = "off"
    /\ transferred' = transferred \cup {dmaRequest}
    /\ UNCHANGED chipVars
    /\ spi_evt' = spi_evt \cup {"rx"}
    /\ UNCHANGED <<framVars, bResult, fm25w256_mutex, sem_sync, mbx_spi, spiVars,
                   dmaRequest, straddled, deadWrite, stalled>>

spi_rx_dma_hwi_handler ==
    /\ dma = "sent"
    /\ dma' = "off"
    /\ transferred' = transferred \cup {dmaRequest}
    /\ CS_deselect
    /\ spi_evt' = spi_evt \cup {"rx"}
    /\ UNCHANGED <<framVars, bResult, fm25w256_mutex, sem_sync, mbx_spi, spiVars,
                   dmaRequest, straddled, deadWrite, stalled>>

------------------------------------------------------------------------------
(* tsk_spi_dma                                                             *)

spi_mailbox_pend ==
    /\ spiPc = "mailbox" /\ mbx_spi # <<>>
    /\ spi_transaction_request' = Head(mbx_spi)
    /\ mbx_spi' = Tail(mbx_spi)
    /\ spiPc' = "setup"
    /\ UNCHANGED <<framVars, bResult, fm25w256_mutex, sem_sync, spi_evt, posted,
                   spiTimer, dma, dmaRequest, chipVars, straddled, transferred, deadWrite, stalled>>

(* Mode, width, and the channels: SOFTRESET ends what they were doing.     *)
spi_setup_dma ==
    /\ spiPc = "setup"
    /\ dma' = "off"
    /\ dmaRequest' = spi_transaction_request
    /\ spiPc' = "clear"
    /\ UNCHANGED <<framVars, bResult, kernelVars, spi_transaction_request, posted,
                   spiTimer, chipVars, straddled, transferred, deadWrite, stalled>>

(* Mutant: the events of an earlier transfer are left posted. *)
spi_clear_events_not ==
    /\ spiPc = "clear"
    /\ spiPc' = "run"
    /\ UNCHANGED <<framVars, bResult, kernelVars, spi_transaction_request, posted,
                   spiTimer, dma, dmaRequest, chipVars, straddled, transferred, deadWrite, stalled>>

spi_clear_events ==
    /\ spiPc = "clear"
    /\ spi_evt' = {}
    /\ spiPc' = "run"
    /\ UNCHANGED <<framVars, bResult, fm25w256_mutex, sem_sync, mbx_spi,
                   spi_transaction_request, posted, spiTimer, dma, dmaRequest,
                   chipVars, straddled, transferred, deadWrite, stalled>>

(* Mutant: the wait is one tick too short. *)
spi_run_short ==
    /\ spiPc = "run"
    /\ CS_select
    /\ dma' = "run"
    /\ spiPc' = "wait"
    /\ spiTimer' = SpiTimeout - 1
    /\ UNCHANGED <<framVars, bResult, kernelVars, spi_transaction_request, posted,
                   dmaRequest, straddled, transferred, deadWrite, stalled>>

(* Select, start the channels, and begin to wait for both events.          *)
spi_run ==
    /\ spiPc = "run"
    /\ CS_select
    /\ dma' = "run"
    /\ spiPc' = "wait"
    /\ spiTimer' = SpiTimeout
    /\ UNCHANGED <<framVars, bResult, kernelVars, spi_transaction_request, posted,
                   dmaRequest, straddled, transferred, deadWrite, stalled>>

(* Mutant: the masks of Event_pend are swapped, and either event ends the  *)
(* wait.                                                                   *)
spi_event_pend_either ==
    /\ spiPc = "wait" /\ spi_evt # {}
    /\ spi_evt' = {}
    /\ posted' = TRUE
    /\ spiPc' = "status" /\ spiTimer' = 0
    /\ UNCHANGED <<framVars, bResult, fm25w256_mutex, sem_sync, mbx_spi,
                   spi_transaction_request, dma, dmaRequest, chipVars, straddled,
                   transferred, deadWrite, stalled>>

spi_event_pend ==
    /\ spiPc = "wait" /\ spi_evt = {"tx", "rx"}
    /\ spi_evt' = {}
    /\ posted' = TRUE
    /\ spiPc' = "status" /\ spiTimer' = 0
    /\ UNCHANGED <<framVars, bResult, fm25w256_mutex, sem_sync, mbx_spi,
                   spi_transaction_request, dma, dmaRequest, chipVars, straddled,
                   transferred, deadWrite, stalled>>

(* *pStatus is bResult of the call that made the request, on the stack of  *)
(* its task: if that call has returned, whatever the task has there now.   *)
InProgress(r) == pc[r.caller] # "idle" /\ calls[r.caller] = r.call

spi_write_status ==
    /\ spiPc = "status"
    /\ bResult' = [bResult EXCEPT ![spi_transaction_request.caller] = posted]
    /\ deadWrite' = (deadWrite \/ ~InProgress(spi_transaction_request))
    /\ spiPc' = "post"
    /\ UNCHANGED <<framVars, kernelVars, spi_transaction_request, posted, spiTimer,
                   dma, dmaRequest, chipVars, straddled, transferred, stalled>>

(* Semaphore_post readies the task that pends, or counts up to one.        *)
Pending(c) == pc[c] = "pend" /\ framTimer[c] > 0

spi_post_requestor ==
    /\ spiPc = "post"
    /\ IF \E c \in Callers : Pending(c)
       THEN /\ \E c \in Callers :
                  /\ Pending(c)
                  /\ pc' = [pc EXCEPT ![c] = "got"]
                  /\ framTimer' = [framTimer EXCEPT ![c] = 0]
            /\ UNCHANGED sem_sync
       ELSE sem_sync' = 1 /\ UNCHANGED <<pc, framTimer>>
    /\ spiPc' = "mailbox" /\ posted' = FALSE
    /\ UNCHANGED <<calls, isWrite, phase, ret, bResult, fm25w256_mutex, mbx_spi,
                   spi_evt, spi_transaction_request, spiTimer, dma, dmaRequest,
                   chipVars, straddled, transferred, deadWrite, stalled>>

tsk_spi_dma ==
    \/ spi_mailbox_pend
    \/ spi_setup_dma
    \/ spi_clear_events
    \/ spi_run
    \/ spi_event_pend
    \/ spi_write_status
    \/ spi_post_requestor

------------------------------------------------------------------------------
(* FM25W256_transact. bResult starts with what the stack held.             *)
othersOfCall == <<sem_sync, spi_evt, spiVars, dma, dmaRequest, chipVars,
                  straddled, transferred, deadWrite, stalled>>

transact_begin(c, write) ==
    /\ pc[c] = "idle" /\ calls[c] < MaxCalls[c]
    /\ calls' = [calls EXCEPT ![c] = @ + 1]
    /\ isWrite' = [isWrite EXCEPT ![c] = write]
    /\ \E b \in BOOLEAN : bResult' = [bResult EXCEPT ![c] = b]
    /\ ret' = [ret EXCEPT ![c] = "none"]
    /\ pc' = [pc EXCEPT ![c] = "enter"]
    /\ UNCHANGED <<phase, framTimer, fm25w256_mutex, mbx_spi, othersOfCall>>

transact_enter(c) ==
    /\ pc[c] = "enter" /\ fm25w256_mutex = NoOne
    /\ fm25w256_mutex' = c
    /\ phase' = [phase EXCEPT ![c] = IF isWrite[c] THEN "wren" ELSE "data"]
    /\ pc' = [pc EXCEPT ![c] = "post"]
    /\ UNCHANGED <<calls, isWrite, framTimer, ret, bResult, mbx_spi, othersOfCall>>

(* Every way out of the call leaves the gate.                              *)
Return(c, value) ==
    /\ pc' = [pc EXCEPT ![c] = "idle"]
    /\ ret' = [ret EXCEPT ![c] = value]
    /\ fm25w256_mutex' = NoOne

Kind(c) == IF phase[c] = "wren" THEN "wren"
           ELSE IF isWrite[c] THEN "write" ELSE "read"

(* SPI_transact: Mailbox_post does not wait for room.                      *)
SPI_transact(c) ==
    /\ pc[c] = "post"
    /\ IF Len(mbx_spi) < MbxSize
       THEN /\ mbx_spi' = Append(mbx_spi,
                    [caller |-> c, call |-> calls[c], kind |-> Kind(c)])
            /\ pc' = [pc EXCEPT ![c] = "sem"]
            /\ UNCHANGED <<ret, fm25w256_mutex>>
       ELSE Return(c, "ERROR") /\ UNCHANGED mbx_spi
    /\ UNCHANGED <<calls, isWrite, phase, framTimer, bResult, othersOfCall>>

(* Mutant: the wait is no longer than the driver's own. *)
transact_pend_no_longer(c) ==
    /\ pc[c] = "sem"
    /\ IF sem_sync = 1
       THEN pc' = [pc EXCEPT ![c] = "got"] /\ sem_sync' = 0 /\ UNCHANGED framTimer
       ELSE /\ pc' = [pc EXCEPT ![c] = "pend"]
            /\ framTimer' = [framTimer EXCEPT ![c] = SpiTimeout]
            /\ UNCHANGED sem_sync
    /\ UNCHANGED <<calls, isWrite, phase, ret, bResult, fm25w256_mutex, mbx_spi,
                   spi_evt, spiVars, dma, dmaRequest, chipVars, straddled,
                   transferred, deadWrite, stalled>>

(* Semaphore_pend takes a count that is there, or begins to wait.          *)
transact_pend(c) ==
    /\ pc[c] = "sem"
    /\ IF sem_sync = 1
       THEN pc' = [pc EXCEPT ![c] = "got"] /\ sem_sync' = 0 /\ UNCHANGED framTimer
       ELSE /\ pc' = [pc EXCEPT ![c] = "pend"]
            /\ framTimer' = [framTimer EXCEPT ![c] = FramTimeout]
            /\ UNCHANGED sem_sync
    /\ UNCHANGED <<calls, isWrite, phase, ret, bResult, fm25w256_mutex, mbx_spi,
                   spi_evt, spiVars, dma, dmaRequest, chipVars, straddled,
                   transferred, deadWrite, stalled>>

transact_got(c) ==
    /\ pc[c] = "got"
    /\ CASE ~bResult[c] -> Return(c, "ERROR") /\ UNCHANGED phase
         [] bResult[c] /\ phase[c] = "wren" ->
                /\ phase' = [phase EXCEPT ![c] = "data"]
                /\ pc' = [pc EXCEPT ![c] = "post"]
                /\ UNCHANGED <<ret, fm25w256_mutex>>
         [] OTHER -> Return(c, "OK") /\ UNCHANGED phase
    /\ UNCHANGED <<calls, isWrite, framTimer, bResult, mbx_spi, othersOfCall>>

(* Mutant: the gate is kept on the way out of a timeout. *)
transact_timed_out_keeps_gate(c) ==
    /\ pc[c] = "pend" /\ framTimer[c] = 0
    /\ pc' = [pc EXCEPT ![c] = "idle"]
    /\ ret' = [ret EXCEPT ![c] = "TIMEOUT"]
    /\ UNCHANGED <<calls, isWrite, phase, framTimer, bResult, fm25w256_mutex,
                   mbx_spi, othersOfCall>>

transact_timed_out(c) ==
    /\ pc[c] = "pend" /\ framTimer[c] = 0
    /\ Return(c, "TIMEOUT")
    /\ UNCHANGED <<calls, isWrite, phase, framTimer, bResult, mbx_spi, othersOfCall>>

FM25W256_transact(c) ==
    \/ transact_enter(c)
    \/ SPI_transact(c)
    \/ transact_pend(c)
    \/ transact_got(c)
    \/ transact_timed_out(c)

------------------------------------------------------------------------------
(* The tick. It counts down the pends nothing has satisfied; one that      *)
(* reaches zero has timed out. A transfer the tick finds alone at work has *)
(* stalled.                                                                *)
CallerWaits(c) ==
    \/ pc[c] = "idle"
    \/ pc[c] = "enter" /\ fm25w256_mutex # NoOne
    \/ Pending(c)

SpiWaits ==
    \/ spiPc = "mailbox" /\ mbx_spi = <<>>
    \/ spiPc = "wait" /\ spiTimer > 0 /\ spi_evt # {"tx", "rx"}

Quiet == (\A c \in Callers : CallerWaits(c)) /\ SpiWaits

Tick ==
    /\ Quiet \/ ~straddled
    /\ straddled' = ~Quiet
    /\ stalled' = (stalled \/ (Quiet /\ dma # "off"))
    /\ framTimer' = [c \in Callers |->
                         IF Pending(c) THEN framTimer[c] - 1 ELSE framTimer[c]]
    /\ IF spiPc = "wait" /\ spiTimer > 0 /\ spi_evt # {"tx", "rx"}
       THEN /\ spiTimer' = spiTimer - 1
            /\ spiPc' = IF spiTimer = 1 THEN "status" ELSE "wait"
       ELSE UNCHANGED <<spiTimer, spiPc>>
    /\ UNCHANGED <<pc, calls, isWrite, phase, ret, bResult, kernelVars,
                   spi_transaction_request, posted, dma, dmaRequest, chipVars,
                   transferred, deadWrite>>

Next ==
    \/ \E c \in Callers, write \in BOOLEAN : transact_begin(c, write)
    \/ \E c \in Callers : FM25W256_transact(c)
    \/ tsk_spi_dma
    \/ spi_tx_dma_hwi_handler
    \/ spi_rx_dma_hwi_handler
    \/ Tick

Spec == Init /\ [][Next]_vars

(* The scheduler runs every task that can run, and time goes on. Nobody    *)
(* has to call, and a transfer may stall for ever.                         *)
Fairness ==
    /\ \A c \in Callers : WF_vars(FM25W256_transact(c))
    /\ WF_vars(tsk_spi_dma)
    /\ WF_vars(Tick)

FairSpec == Spec /\ Fairness

------------------------------------------------------------------------------
TypeOK ==
    /\ pc \in [Callers -> {"idle", "enter", "post", "sem", "pend", "got"}]
    /\ calls \in [Callers -> Nat] /\ \A c \in Callers : calls[c] <= MaxCalls[c]
    /\ isWrite \in [Callers -> BOOLEAN]
    /\ phase \in [Callers -> {"wren", "data"}]
    /\ bResult \in [Callers -> BOOLEAN]
    /\ framTimer \in [Callers -> 0..FramTimeout]
    /\ ret \in [Callers -> {"none", "OK", "ERROR", "TIMEOUT"}]
    /\ fm25w256_mutex \in Callers \cup {NoOne}
    /\ sem_sync \in {0, 1}
    /\ mbx_spi \in Seq(Request) /\ Len(mbx_spi) <= MbxSize
    /\ spi_evt \subseteq {"tx", "rx"}
    /\ spiPc \in {"mailbox", "setup", "clear", "run", "wait", "status", "post"}
    /\ spi_transaction_request \in Request \cup {NoRequest}
    /\ posted \in BOOLEAN
    /\ spiTimer \in 0..SpiTimeout
    /\ dma \in {"off", "run", "sent"}
    /\ dmaRequest \in Request \cup {NoRequest}
    /\ selected \in BOOLEAN /\ clocked \in Seq(Request) /\ WEL \in BOOLEAN
    /\ straddled \in BOOLEAN /\ deadWrite \in BOOLEAN /\ stalled \in BOOLEAN
    /\ transferred \subseteq Request /\ stored \subseteq Request

Done(c, kind) == [caller |-> c, call |-> calls[c], kind |-> kind] \in transferred

(* FM25W256_OK, "No Error": a call that returns it has had its own         *)
(* transfers carried out, the write enable and the data, to the last word. *)
OkMeansTransferred ==
    \A c \in Callers :
        pc[c] = "idle" /\ ret[c] = "OK" =>
            IF isWrite[c] THEN Done(c, "wren") /\ Done(c, "write") ELSE Done(c, "read")

(* As long as no transfer has stalled, a write that returns FM25W256_OK    *)
(* has been carried out by the chip: its write enable and its data were    *)
(* commands of their own.                                                  *)
WriteOkMeansStored ==
    ~stalled => \A c \in Callers :
        pc[c] = "idle" /\ ret[c] = "OK" /\ isWrite[c] =>
            [caller |-> c, call |-> calls[c], kind |-> "write"] \in stored

(* As long as no transfer has stalled, the channels read and write the     *)
(* caller's buffer only while the call that passed it goes on.             *)
DmaEndsInTheCall == ~stalled /\ dma # "off" => InProgress(dmaRequest)

(* The SPI task writes *pStatus only while the call whose stack variable   *)
(* it is goes on.                                                          *)
NoDeadFrameWrite == ~deadWrite

(* Between two calls the semaphore they share is empty and no request of   *)
(* the earlier call is left behind: a call pairs with its own post.        *)
NothingLeftBehind ==
    fm25w256_mutex = NoOne => sem_sync = 0 /\ mbx_spi = <<>> /\ spiPc = "mailbox"

(* One call at a time talks to the SPI task, and never more than one       *)
(* request of it waits: the mailbox cannot be full.                        *)
OneRequestAtATime ==
    /\ Len(mbx_spi) <= 1
    /\ \A c \in Callers : pc[c] \in {"post", "sem", "pend", "got"} => fm25w256_mutex = c

(* Every call returns: a stalled transfer ends in a timeout, and the gate  *)
(* is left on every path.                                                  *)
EveryCallReturns == \A c \in Callers : pc[c] # "idle" ~> pc[c] = "idle"

(* As long as no transfer has stalled every call succeeds: no tick,        *)
(* however it falls, times out a transfer that is under way.               *)
NoFalseAlarm == ~stalled => \A c \in Callers : ret[c] \in {"none", "OK"}
==============================================================================
