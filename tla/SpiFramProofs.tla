----------------------------- MODULE SpiFramProofs -----------------------------
(***************************************************************************)
(* SpiFram for any number of tasks and calls, any mailbox and any timeout: *)
(* first the types; then, if FM25W256_transact waits at least three ticks  *)
(* longer than the SPI task does, that every call is paired with its own   *)
(* transfer; then, for timeouts of two ticks or more, the equal ones of    *)
(* the shipped configuration among them, that the FRAM works until a       *)
(* transfer stalls.                                                        *)
(*                                                                         *)
(* The argument of the second part is a budget of ticks.  The call begins  *)
(* to wait when its request is in the mailbox.  One tick can fall before   *)
(* the SPI task begins to wait, SpiTimeout of them into that wait, one     *)
(* between its end and the post.  So the post comes while the call waits,  *)
(* and the next call finds semaphore and mailbox as the first one did.     *)
(***************************************************************************)
EXTENDS SpiFram, TLAPS

(* The types, and the requests that are real ones.                         *)
FramTypes ==
    /\ pc \in [Callers -> {"idle", "enter", "post", "sem", "pend", "got"}]
    /\ calls \in [Callers -> Nat] /\ \A c \in Callers : calls[c] <= MaxCalls[c]
    /\ \A c \in Callers : pc[c] # "idle" => calls[c] >= 1
    /\ framTimer \in [Callers -> 0..FramTimeout]

ArgumentTypes ==
    /\ isWrite \in [Callers -> BOOLEAN]
    /\ phase \in [Callers -> {"wren", "data"}]
    /\ bResult \in [Callers -> BOOLEAN]
    /\ ret \in [Callers -> {"none", "OK", "ERROR", "TIMEOUT"}]

KernelTypes ==
    /\ fm25w256_mutex \in Callers \cup {NoOne}
    /\ sem_sync \in {0, 1}
    /\ mbx_spi \in Seq(Request) /\ Len(mbx_spi) <= MbxSize
    /\ spi_evt \subseteq {"tx", "rx"}

SpiTypes ==
    /\ spiPc \in {"mailbox", "setup", "clear", "run", "wait", "status", "post"}
    /\ spi_transaction_request \in Request \cup {NoRequest}
    /\ spiPc # "mailbox" => spi_transaction_request \in Request
    /\ spiTimer \in 0..SpiTimeout

ChipTypes ==
    /\ dma \in {"off", "run", "sent"}
    /\ dmaRequest \in Request \cup {NoRequest}
    /\ dma # "off" \/ spiPc \in {"clear", "run"} => dmaRequest \in Request
    /\ clocked \in Seq(Request)
    /\ transferred \subseteq Request /\ stored \subseteq Request

FlagTypes ==
    /\ posted \in BOOLEAN /\ selected \in BOOLEAN /\ WEL \in BOOLEAN
    /\ straddled \in BOOLEAN /\ deadWrite \in BOOLEAN /\ stalled \in BOOLEAN

Types == FramTypes /\ ArgumentTypes /\ KernelTypes /\ SpiTypes /\ ChipTypes /\ FlagTypes

(* The gate.                                                               *)
Inside == {"post", "sem", "pend", "got"}

Gate ==
    /\ \A c \in Callers : pc[c] \in Inside => fm25w256_mutex = c
    /\ fm25w256_mutex # NoOne => pc[fm25w256_mutex] \in Inside

(* Where the request of the task in the gate is.                           *)
RequestOf(c) == [caller |-> c, call |-> calls[c], kind |-> Kind(c)]

AtRest == mbx_spi = <<>> /\ spiPc = "mailbox" /\ sem_sync = 0

UnderWay(c) ==
    /\ sem_sync = 0
    /\ \/ spiPc = "mailbox" /\ mbx_spi = <<RequestOf(c)>>
       \/ spiPc # "mailbox" /\ mbx_spi = <<>> /\ spi_transaction_request = RequestOf(c)

Posted(c) ==
    /\ mbx_spi = <<>> /\ spiPc = "mailbox" /\ sem_sync = 1
    /\ bResult[c] => RequestOf(c) \in transferred

Pairing ==
    /\ fm25w256_mutex = NoOne => AtRest
    /\ \A c \in Callers :
        /\ pc[c] = "post" => AtRest
        /\ pc[c] = "sem" => UnderWay(c) \/ Posted(c)
        /\ pc[c] = "pend" => UnderWay(c)
        /\ pc[c] = "got" => AtRest /\ (bResult[c] => RequestOf(c) \in transferred)
        /\ pc[c] \in Inside /\ phase[c] = "wren" => isWrite[c]
        /\ pc[c] \in Inside /\ phase[c] = "data" /\ isWrite[c] => Done(c, "wren")

(* The SPI task.                                                           *)
Service ==
    /\ spiPc \in {"clear", "run", "wait"} => dmaRequest = spi_transaction_request
    /\ spiPc \in {"clear", "run"} => dma = "off"
    /\ spiPc = "run" => spi_evt = {}
    /\ spiPc = "wait" =>
        /\ spiTimer >= 1
        /\ "rx" \in spi_evt => spi_transaction_request \in transferred
    /\ spiPc = "status" /\ posted => spi_transaction_request \in transferred
    /\ spiPc = "post" /\ bResult[spi_transaction_request.caller] =>
            spi_transaction_request \in transferred
    /\ spiPc \notin {"status", "post"} => ~posted

(* The ticks that are left.                                                *)
Straddle == IF straddled THEN 1 ELSE 0
Both == {"tx", "rx"}

Budget ==
    \A c \in Callers : pc[c] = "pend" =>
        /\ spiPc \in {"mailbox", "setup", "clear", "run"} => framTimer[c] >= FramTimeout - Straddle
        /\ spiPc = "wait" /\ spi_evt # Both =>
                framTimer[c] >= FramTimeout - 1 - (SpiTimeout - spiTimer)
        /\ spiPc = "wait" /\ spi_evt = Both =>
                framTimer[c] >= FramTimeout - 1 - (SpiTimeout - spiTimer) - Straddle
        /\ spiPc \in {"status", "post"} => framTimer[c] >= FramTimeout - 1 - SpiTimeout - Straddle

Longer == FramTimeout >= SpiTimeout + 3

IInv ==
    /\ Gate
    /\ Pairing
    /\ Service
    /\ Budget
    /\ OkMeansTransferred
    /\ NoDeadFrameWrite

------------------------------------------------------------------------------
(* Only one task is in the gate, and a request that is being served is its.*)
LEMMA Alone ==
    ASSUME IInv, NEW c \in Callers, NEW d \in Callers, pc[c] \in Inside, pc[d] \in Inside
    PROVE  c = d
BY DEF IInv, Gate

(* While the SPI task serves a request, the task in the gate owns it.      *)
LEMMA Owner ==
    ASSUME Types, IInv, spiPc # "mailbox"
    PROVE  \E d \in Callers :
              /\ pc[d] \in {"sem", "pend"} /\ UnderWay(d)
              /\ mbx_spi = <<>> /\ sem_sync = 0
              /\ spi_transaction_request = RequestOf(d) /\ spi_transaction_request.caller = d
<1>1. fm25w256_mutex \in Callers /\ pc[fm25w256_mutex] \in Inside
  BY DEF IInv, Pairing, AtRest, Gate, Types, KernelTypes
<1>2. pc[fm25w256_mutex] \in {"sem", "pend"}
  BY <1>1 DEF IInv, Pairing, AtRest, Inside
<1>3. UnderWay(fm25w256_mutex)
  BY <1>1, <1>2 DEF IInv, Pairing, Posted
<1> QED BY <1>1, <1>2, <1>3 DEF UnderWay, RequestOf

------------------------------------------------------------------------------
(* transact_begin keeps the types.                                         *)
LEMMA Types_transact_begin ==
    ASSUME NEW c \in Callers, NEW write \in BOOLEAN, Types, transact_begin(c, write)
    PROVE  Types'
<1> USE MaxCallsAssumption, MbxSizeAssumption, SpiTimeoutAssumption, FramTimeoutAssumption,
        NoOneAssumption
    DEF transact_begin, framVars, kernelVars, spiVars, chipVars, othersOfCall
<1>1. FramTypes'
  <2>1. calls \in [Callers -> Nat] /\ MaxCalls \in [Callers -> Nat] /\ calls[c] < MaxCalls[c]
    BY DEF Types, FramTypes
  <2>2. calls' \in [Callers -> Nat] /\ calls'[c] = calls[c] + 1
    BY <2>1
  <2>3. \A d \in Callers : d # c => calls'[d] = calls[d] /\ pc'[d] = pc[d]
    BY <2>1 DEF Types, FramTypes
  <2>4. calls'[c] <= MaxCalls[c] /\ calls'[c] >= 1
    BY <2>1, <2>2
  <2>5. pc' \in [Callers -> {"idle", "enter", "post", "sem", "pend", "got"}]
    BY DEF Types, FramTypes
  <2> QED BY <2>2, <2>3, <2>4, <2>5 DEF Types, FramTypes
<1>2. ArgumentTypes'
  BY DEF Types, FramTypes, SpiTypes, ArgumentTypes, FlagTypes
<1>3. KernelTypes'
  BY DEF Types, FramTypes, SpiTypes, KernelTypes
<1>4. SpiTypes'
  BY DEF Types, FramTypes, SpiTypes, KernelTypes, Request
<1>5. ChipTypes'
  BY DEF Types, FramTypes, SpiTypes, ChipTypes, KernelTypes, Request
<1>6. FlagTypes'
  BY DEF Types, FramTypes, SpiTypes, FlagTypes
<1> QED BY <1>1, <1>2, <1>3, <1>4, <1>5, <1>6 DEF Types

(* transact_enter keeps the types.                                         *)
LEMMA Types_transact_enter ==
    ASSUME NEW c \in Callers, Types, transact_enter(c)
    PROVE  Types'
<1> USE MaxCallsAssumption, MbxSizeAssumption, SpiTimeoutAssumption, FramTimeoutAssumption,
        NoOneAssumption
    DEF transact_enter, framVars, kernelVars, spiVars, chipVars, othersOfCall
<1>1. FramTypes'
  BY DEF Types, FramTypes, SpiTypes
<1>2. ArgumentTypes'
  BY DEF Types, FramTypes, SpiTypes, ArgumentTypes, FlagTypes
<1>3. KernelTypes'
  BY DEF Types, FramTypes, SpiTypes, KernelTypes
<1>4. SpiTypes'
  BY DEF Types, FramTypes, SpiTypes, KernelTypes, Request
<1>5. ChipTypes'
  BY DEF Types, FramTypes, SpiTypes, ChipTypes, KernelTypes, Request
<1>6. FlagTypes'
  BY DEF Types, FramTypes, SpiTypes, FlagTypes
<1> QED BY <1>1, <1>2, <1>3, <1>4, <1>5, <1>6 DEF Types

(* SPI_transact keeps the types.                                           *)
LEMMA Types_SPI_transact ==
    ASSUME NEW c \in Callers, Types, SPI_transact(c)
    PROVE  Types'
<1> USE MaxCallsAssumption, MbxSizeAssumption, SpiTimeoutAssumption, FramTimeoutAssumption,
        NoOneAssumption
    DEF SPI_transact, framVars, kernelVars, spiVars, chipVars, othersOfCall, Return, Kind
<1>1. FramTypes'
  BY DEF Types, FramTypes, SpiTypes
<1>2. ArgumentTypes'
  BY DEF Types, FramTypes, SpiTypes, ArgumentTypes, FlagTypes
<1>3. KernelTypes'
  <2> DEFINE r == [caller |-> c, call |-> calls[c], kind |-> Kind(c)]
  <2>1. r \in Request
    <3>1. Kind(c) \in Kinds
      BY DEF Kind, Kinds
    <3>2. calls[c] \in Nat \ {0}
      <4>1. pc[c] # "idle" /\ calls[c] \in Nat /\ (pc[c] # "idle" => calls[c] >= 1)
        BY DEF Types, FramTypes
      <4> QED BY <4>1
    <3> HIDE DEF Kind
    <3> QED BY <3>1, <3>2 DEF Request
  <2>2. mbx_spi \in Seq(Request) /\ Len(mbx_spi) <= MbxSize /\ Len(mbx_spi) \in Nat
    BY DEF Types, KernelTypes
  <2>3. Append(mbx_spi, r) \in Seq(Request) /\ Len(Append(mbx_spi, r)) = Len(mbx_spi) + 1
    BY <2>1, <2>2
  <2>4. mbx_spi' \in Seq(Request) /\ Len(mbx_spi') <= MbxSize
    <3>1. CASE Len(mbx_spi) < MbxSize
      BY <2>2, <2>3, <3>1
    <3>2. CASE ~(Len(mbx_spi) < MbxSize)
      BY <2>2, <3>2
    <3> QED BY <3>1, <3>2
  <2> QED BY <2>4 DEF Types, KernelTypes
<1>4. SpiTypes'
  BY DEF Types, FramTypes, SpiTypes, KernelTypes, Request
<1>5. ChipTypes'
  BY DEF Types, FramTypes, SpiTypes, ChipTypes, KernelTypes, Request
<1>6. FlagTypes'
  BY DEF Types, FramTypes, SpiTypes, FlagTypes
<1> QED BY <1>1, <1>2, <1>3, <1>4, <1>5, <1>6 DEF Types

(* transact_pend keeps the types.                                          *)
LEMMA Types_transact_pend ==
    ASSUME NEW c \in Callers, Types, transact_pend(c)
    PROVE  Types'
<1> USE MaxCallsAssumption, MbxSizeAssumption, SpiTimeoutAssumption, FramTimeoutAssumption,
        NoOneAssumption
    DEF transact_pend, framVars, kernelVars, spiVars, chipVars, othersOfCall
<1>1. FramTypes'
  BY DEF Types, FramTypes, SpiTypes
<1>2. ArgumentTypes'
  BY DEF Types, FramTypes, SpiTypes, ArgumentTypes, FlagTypes
<1>3. KernelTypes'
  BY DEF Types, FramTypes, SpiTypes, KernelTypes
<1>4. SpiTypes'
  BY DEF Types, FramTypes, SpiTypes, KernelTypes, Request
<1>5. ChipTypes'
  BY DEF Types, FramTypes, SpiTypes, ChipTypes, KernelTypes, Request
<1>6. FlagTypes'
  BY DEF Types, FramTypes, SpiTypes, FlagTypes
<1> QED BY <1>1, <1>2, <1>3, <1>4, <1>5, <1>6 DEF Types

(* transact_got keeps the types.                                           *)
LEMMA Types_transact_got ==
    ASSUME NEW c \in Callers, Types, transact_got(c)
    PROVE  Types'
<1> USE MaxCallsAssumption, MbxSizeAssumption, SpiTimeoutAssumption, FramTimeoutAssumption,
        NoOneAssumption
    DEF transact_got, framVars, kernelVars, spiVars, chipVars, othersOfCall, Return
<1>1. FramTypes'
  BY DEF Types, FramTypes, SpiTypes
<1>2. ArgumentTypes'
  BY DEF Types, FramTypes, SpiTypes, ArgumentTypes, FlagTypes
<1>3. KernelTypes'
  BY DEF Types, FramTypes, SpiTypes, KernelTypes
<1>4. SpiTypes'
  BY DEF Types, FramTypes, SpiTypes, KernelTypes, Request
<1>5. ChipTypes'
  BY DEF Types, FramTypes, SpiTypes, ChipTypes, KernelTypes, Request
<1>6. FlagTypes'
  BY DEF Types, FramTypes, SpiTypes, FlagTypes
<1> QED BY <1>1, <1>2, <1>3, <1>4, <1>5, <1>6 DEF Types

(* transact_timed_out keeps the types.                                     *)
LEMMA Types_transact_timed_out ==
    ASSUME NEW c \in Callers, Types, transact_timed_out(c)
    PROVE  Types'
<1> USE MaxCallsAssumption, MbxSizeAssumption, SpiTimeoutAssumption, FramTimeoutAssumption,
        NoOneAssumption
    DEF transact_timed_out, framVars, kernelVars, spiVars, chipVars, othersOfCall, Return
<1>1. FramTypes'
  BY DEF Types, FramTypes, SpiTypes
<1>2. ArgumentTypes'
  BY DEF Types, FramTypes, SpiTypes, ArgumentTypes, FlagTypes
<1>3. KernelTypes'
  BY DEF Types, FramTypes, SpiTypes, KernelTypes
<1>4. SpiTypes'
  BY DEF Types, FramTypes, SpiTypes, KernelTypes, Request
<1>5. ChipTypes'
  BY DEF Types, FramTypes, SpiTypes, ChipTypes, KernelTypes, Request
<1>6. FlagTypes'
  BY DEF Types, FramTypes, SpiTypes, FlagTypes
<1> QED BY <1>1, <1>2, <1>3, <1>4, <1>5, <1>6 DEF Types

(* spi_mailbox_pend keeps the types.                                       *)
LEMMA Types_spi_mailbox_pend ==
    ASSUME Types, spi_mailbox_pend
    PROVE  Types'
<1> USE MaxCallsAssumption, MbxSizeAssumption, SpiTimeoutAssumption, FramTimeoutAssumption,
        NoOneAssumption
    DEF spi_mailbox_pend, framVars, kernelVars, spiVars, chipVars, othersOfCall
<1>1. FramTypes'
  BY DEF Types, FramTypes, SpiTypes
<1>2. ArgumentTypes'
  BY DEF Types, FramTypes, SpiTypes, ArgumentTypes, FlagTypes
<1>3. KernelTypes'
  BY DEF Types, FramTypes, SpiTypes, KernelTypes
<1>4. SpiTypes'
  <2>1. Head(mbx_spi) \in Request
    BY DEF Types, KernelTypes
  <2> QED BY <2>1 DEF Types, SpiTypes
<1>5. ChipTypes'
  BY DEF Types, FramTypes, SpiTypes, ChipTypes, KernelTypes, Request
<1>6. FlagTypes'
  BY DEF Types, FramTypes, SpiTypes, FlagTypes
<1> QED BY <1>1, <1>2, <1>3, <1>4, <1>5, <1>6 DEF Types

(* spi_setup_dma keeps the types.                                          *)
LEMMA Types_spi_setup_dma ==
    ASSUME Types, spi_setup_dma
    PROVE  Types'
<1> USE MaxCallsAssumption, MbxSizeAssumption, SpiTimeoutAssumption, FramTimeoutAssumption,
        NoOneAssumption
    DEF spi_setup_dma, framVars, kernelVars, spiVars, chipVars, othersOfCall
<1>1. FramTypes'
  BY DEF Types, FramTypes, SpiTypes
<1>2. ArgumentTypes'
  BY DEF Types, FramTypes, SpiTypes, ArgumentTypes, FlagTypes
<1>3. KernelTypes'
  BY DEF Types, FramTypes, SpiTypes, KernelTypes
<1>4. SpiTypes'
  BY DEF Types, FramTypes, SpiTypes, KernelTypes, Request
<1>5. ChipTypes'
  BY DEF Types, FramTypes, SpiTypes, ChipTypes, KernelTypes, Request
<1>6. FlagTypes'
  BY DEF Types, FramTypes, SpiTypes, FlagTypes
<1> QED BY <1>1, <1>2, <1>3, <1>4, <1>5, <1>6 DEF Types

(* spi_clear_events keeps the types.                                       *)
LEMMA Types_spi_clear_events ==
    ASSUME Types, spi_clear_events
    PROVE  Types'
<1> USE MaxCallsAssumption, MbxSizeAssumption, SpiTimeoutAssumption, FramTimeoutAssumption,
        NoOneAssumption
    DEF spi_clear_events, framVars, kernelVars, spiVars, chipVars, othersOfCall
<1>1. FramTypes'
  BY DEF Types, FramTypes, SpiTypes
<1>2. ArgumentTypes'
  BY DEF Types, FramTypes, SpiTypes, ArgumentTypes, FlagTypes
<1>3. KernelTypes'
  BY DEF Types, FramTypes, SpiTypes, KernelTypes
<1>4. SpiTypes'
  BY DEF Types, FramTypes, SpiTypes, KernelTypes, Request
<1>5. ChipTypes'
  BY DEF Types, FramTypes, SpiTypes, ChipTypes, KernelTypes, Request
<1>6. FlagTypes'
  BY DEF Types, FramTypes, SpiTypes, FlagTypes
<1> QED BY <1>1, <1>2, <1>3, <1>4, <1>5, <1>6 DEF Types

(* spi_run keeps the types.                                                *)
LEMMA Types_spi_run ==
    ASSUME Types, spi_run
    PROVE  Types'
<1> USE MaxCallsAssumption, MbxSizeAssumption, SpiTimeoutAssumption, FramTimeoutAssumption,
        NoOneAssumption
    DEF spi_run, framVars, kernelVars, spiVars, chipVars, othersOfCall, CS_select
<1>1. FramTypes'
  BY DEF Types, FramTypes, SpiTypes
<1>2. ArgumentTypes'
  BY DEF Types, FramTypes, SpiTypes, ArgumentTypes, FlagTypes
<1>3. KernelTypes'
  BY DEF Types, FramTypes, SpiTypes, KernelTypes
<1>4. SpiTypes'
  BY DEF Types, FramTypes, SpiTypes, KernelTypes, Request
<1>5. ChipTypes'
  BY DEF Types, FramTypes, SpiTypes, ChipTypes, KernelTypes, Request
<1>6. FlagTypes'
  BY DEF Types, FramTypes, SpiTypes, FlagTypes
<1> QED BY <1>1, <1>2, <1>3, <1>4, <1>5, <1>6 DEF Types

(* spi_event_pend keeps the types.                                         *)
LEMMA Types_spi_event_pend ==
    ASSUME Types, spi_event_pend
    PROVE  Types'
<1> USE MaxCallsAssumption, MbxSizeAssumption, SpiTimeoutAssumption, FramTimeoutAssumption,
        NoOneAssumption
    DEF spi_event_pend, framVars, kernelVars, spiVars, chipVars, othersOfCall
<1>1. FramTypes'
  BY DEF Types, FramTypes, SpiTypes
<1>2. ArgumentTypes'
  BY DEF Types, FramTypes, SpiTypes, ArgumentTypes, FlagTypes
<1>3. KernelTypes'
  BY DEF Types, FramTypes, SpiTypes, KernelTypes
<1>4. SpiTypes'
  BY DEF Types, FramTypes, SpiTypes, KernelTypes, Request
<1>5. ChipTypes'
  BY DEF Types, FramTypes, SpiTypes, ChipTypes, KernelTypes, Request
<1>6. FlagTypes'
  BY DEF Types, FramTypes, SpiTypes, FlagTypes
<1> QED BY <1>1, <1>2, <1>3, <1>4, <1>5, <1>6 DEF Types

(* spi_write_status keeps the types.                                       *)
LEMMA Types_spi_write_status ==
    ASSUME Types, spi_write_status
    PROVE  Types'
<1> USE MaxCallsAssumption, MbxSizeAssumption, SpiTimeoutAssumption, FramTimeoutAssumption,
        NoOneAssumption
    DEF spi_write_status, framVars, kernelVars, spiVars, chipVars, othersOfCall
<1>1. FramTypes'
  BY DEF Types, FramTypes, SpiTypes
<1>2. ArgumentTypes'
  BY DEF Types, FramTypes, SpiTypes, ArgumentTypes, FlagTypes
<1>3. KernelTypes'
  BY DEF Types, FramTypes, SpiTypes, KernelTypes
<1>4. SpiTypes'
  BY DEF Types, FramTypes, SpiTypes, KernelTypes, Request
<1>5. ChipTypes'
  BY DEF Types, FramTypes, SpiTypes, ChipTypes, KernelTypes, Request
<1>6. FlagTypes'
  BY DEF Types, FramTypes, SpiTypes, FlagTypes
<1> QED BY <1>1, <1>2, <1>3, <1>4, <1>5, <1>6 DEF Types

(* spi_post_requestor keeps the types.                                     *)
LEMMA Types_spi_post_requestor ==
    ASSUME Types, spi_post_requestor
    PROVE  Types'
<1> USE MaxCallsAssumption, MbxSizeAssumption, SpiTimeoutAssumption, FramTimeoutAssumption,
        NoOneAssumption
    DEF spi_post_requestor, framVars, kernelVars, spiVars, chipVars, othersOfCall, Pending
<1>1. FramTypes'
  BY DEF Types, FramTypes, SpiTypes
<1>2. ArgumentTypes'
  BY DEF Types, FramTypes, SpiTypes, ArgumentTypes, FlagTypes
<1>3. KernelTypes'
  BY DEF Types, FramTypes, SpiTypes, KernelTypes
<1>4. SpiTypes'
  BY DEF Types, FramTypes, SpiTypes, KernelTypes, Request
<1>5. ChipTypes'
  BY DEF Types, FramTypes, SpiTypes, ChipTypes, KernelTypes, Request
<1>6. FlagTypes'
  BY DEF Types, FramTypes, SpiTypes, FlagTypes
<1> QED BY <1>1, <1>2, <1>3, <1>4, <1>5, <1>6 DEF Types

(* spi_tx_dma_hwi_handler keeps the types.                                 *)
LEMMA Types_spi_tx_dma_hwi_handler ==
    ASSUME Types, spi_tx_dma_hwi_handler
    PROVE  Types'
<1> USE MaxCallsAssumption, MbxSizeAssumption, SpiTimeoutAssumption, FramTimeoutAssumption,
        NoOneAssumption
    DEF spi_tx_dma_hwi_handler, framVars, kernelVars, spiVars, chipVars, othersOfCall
<1>1. FramTypes'
  BY DEF Types, FramTypes, SpiTypes
<1>2. ArgumentTypes'
  BY DEF Types, FramTypes, SpiTypes, ArgumentTypes, FlagTypes
<1>3. KernelTypes'
  BY DEF Types, FramTypes, SpiTypes, KernelTypes
<1>4. SpiTypes'
  BY DEF Types, FramTypes, SpiTypes, KernelTypes, Request
<1>5. ChipTypes'
  BY DEF Types, FramTypes, SpiTypes, ChipTypes, KernelTypes, Request
<1>6. FlagTypes'
  BY DEF Types, FramTypes, SpiTypes, FlagTypes
<1> QED BY <1>1, <1>2, <1>3, <1>4, <1>5, <1>6 DEF Types

(* spi_rx_dma_hwi_handler keeps the types.                                 *)
LEMMA Types_spi_rx_dma_hwi_handler ==
    ASSUME Types, spi_rx_dma_hwi_handler
    PROVE  Types'
<1> USE MaxCallsAssumption, MbxSizeAssumption, SpiTimeoutAssumption, FramTimeoutAssumption,
        NoOneAssumption
    DEF spi_rx_dma_hwi_handler, framVars, kernelVars, spiVars, chipVars, othersOfCall, CS_deselect
<1>1. FramTypes'
  BY DEF Types, FramTypes, SpiTypes
<1>2. ArgumentTypes'
  BY DEF Types, FramTypes, SpiTypes, ArgumentTypes, FlagTypes
<1>3. KernelTypes'
  BY DEF Types, FramTypes, SpiTypes, KernelTypes
<1>4. SpiTypes'
  BY DEF Types, FramTypes, SpiTypes, KernelTypes, Request
<1>5. ChipTypes'
  <2>1. clocked # <<>> => Head(clocked) \in Request
    BY DEF Types, ChipTypes
  <2>2. stored' \subseteq Request /\ clocked' = <<>>
    BY <2>1 DEF Types, ChipTypes
  <2>3. clocked' \in Seq(Request)
    BY <2>2
  <2> QED BY <2>2, <2>3 DEF Types, ChipTypes
<1>6. FlagTypes'
  BY DEF Types, FramTypes, SpiTypes, FlagTypes
<1> QED BY <1>1, <1>2, <1>3, <1>4, <1>5, <1>6 DEF Types

(* Tick keeps the types.                                                   *)
LEMMA Types_Tick ==
    ASSUME Types, Tick
    PROVE  Types'
<1> USE MaxCallsAssumption, MbxSizeAssumption, SpiTimeoutAssumption, FramTimeoutAssumption,
        NoOneAssumption
    DEF Tick, framVars, kernelVars, spiVars, chipVars, othersOfCall, Pending
<1>1. FramTypes'
  BY DEF Types, FramTypes, SpiTypes
<1>2. ArgumentTypes'
  BY DEF Types, FramTypes, SpiTypes, ArgumentTypes, FlagTypes
<1>3. KernelTypes'
  BY DEF Types, FramTypes, SpiTypes, KernelTypes
<1>4. SpiTypes'
  BY DEF Types, FramTypes, SpiTypes, KernelTypes, Request
<1>5. ChipTypes'
  BY DEF Types, FramTypes, SpiTypes, ChipTypes, KernelTypes, Request
<1>6. FlagTypes'
  BY DEF Types, FramTypes, SpiTypes, FlagTypes
<1> QED BY <1>1, <1>2, <1>3, <1>4, <1>5, <1>6 DEF Types

(* transact_begin keeps the invariant.                                     *)
LEMMA Step_transact_begin ==
    ASSUME NEW c \in Callers, NEW write \in BOOLEAN, Longer, Types, IInv, transact_begin(c, write)
    PROVE  IInv'
<1> USE MaxCallsAssumption, MbxSizeAssumption, SpiTimeoutAssumption, FramTimeoutAssumption,
        NoOneAssumption
    DEF transact_begin, framVars, kernelVars, spiVars, chipVars, othersOfCall
<1>1. Gate'
  BY DEF IInv, Types, FramTypes, ArgumentTypes, KernelTypes, SpiTypes, ChipTypes, FlagTypes,
         Gate, Inside
<1>2. Pairing'
  BY DEF IInv, Types, FramTypes, ArgumentTypes, KernelTypes, SpiTypes, ChipTypes, FlagTypes,
         Gate, Inside, Pairing, AtRest, UnderWay, Posted, RequestOf, Kind, Done
<1>3. Service'
  <2>1. spiPc = "post" => spi_transaction_request.caller # c
    BY Owner
  <2>2. spiPc = "post" => spi_transaction_request.caller \in Callers
    BY Owner
  <2>3. spiPc = "post" => bResult'[spi_transaction_request.caller] = bResult[spi_transaction_request.caller]
    BY <2>1, <2>2 DEF Types, ArgumentTypes
  <2> QED BY <2>3 DEF IInv, Service
<1>4. Budget'
  BY DEF IInv, Types, FramTypes, ArgumentTypes, KernelTypes, SpiTypes, ChipTypes, FlagTypes,
         Budget, Straddle, Both, Longer
<1>5. OkMeansTransferred'
  BY DEF IInv, Types, FramTypes, ArgumentTypes, KernelTypes, SpiTypes, ChipTypes, FlagTypes,
         OkMeansTransferred, Done
<1>6. NoDeadFrameWrite'
  BY DEF IInv, Types, FramTypes, ArgumentTypes, KernelTypes, SpiTypes, ChipTypes, FlagTypes,
         NoDeadFrameWrite
<1> QED BY <1>1, <1>2, <1>3, <1>4, <1>5, <1>6 DEF IInv

(* transact_enter keeps the invariant.                                     *)
LEMMA Step_transact_enter ==
    ASSUME NEW c \in Callers, Longer, Types, IInv, transact_enter(c)
    PROVE  IInv'
<1> USE MaxCallsAssumption, MbxSizeAssumption, SpiTimeoutAssumption, FramTimeoutAssumption,
        NoOneAssumption
    DEF transact_enter, framVars, kernelVars, spiVars, chipVars, othersOfCall
<1>1. Gate'
  BY DEF IInv, Types, FramTypes, ArgumentTypes, KernelTypes, SpiTypes, ChipTypes, FlagTypes,
         Gate, Inside
<1>2. Pairing'
  BY DEF IInv, Types, FramTypes, ArgumentTypes, KernelTypes, SpiTypes, ChipTypes, FlagTypes,
         Gate, Inside, Pairing, AtRest, UnderWay, Posted, RequestOf, Kind, Done
<1>3. Service'
  BY DEF IInv, Types, FramTypes, ArgumentTypes, KernelTypes, SpiTypes, ChipTypes, FlagTypes,
         Service, Request
<1>4. Budget'
  BY DEF IInv, Types, FramTypes, ArgumentTypes, KernelTypes, SpiTypes, ChipTypes, FlagTypes,
         Budget, Straddle, Both, Longer
<1>5. OkMeansTransferred'
  BY DEF IInv, Types, FramTypes, ArgumentTypes, KernelTypes, SpiTypes, ChipTypes, FlagTypes,
         OkMeansTransferred, Done
<1>6. NoDeadFrameWrite'
  BY DEF IInv, Types, FramTypes, ArgumentTypes, KernelTypes, SpiTypes, ChipTypes, FlagTypes,
         NoDeadFrameWrite
<1> QED BY <1>1, <1>2, <1>3, <1>4, <1>5, <1>6 DEF IInv

(* SPI_transact keeps the invariant.                                       *)
LEMMA Step_SPI_transact ==
    ASSUME NEW c \in Callers, Longer, Types, IInv, SPI_transact(c)
    PROVE  IInv'
<1>rest. pc[c] = "post" /\ AtRest
  BY DEF IInv, Pairing, SPI_transact
<1>sent. /\ mbx_spi' = <<RequestOf(c)>> /\ pc' = [pc EXCEPT ![c] = "sem"]
         /\ UNCHANGED <<calls, isWrite, phase, framTimer, ret, fm25w256_mutex, bResult, othersOfCall>>
  <2>1. Len(mbx_spi) < MbxSize
    BY <1>rest, MbxSizeAssumption DEF AtRest
  <2>2. Append(mbx_spi, RequestOf(c)) = <<RequestOf(c)>>
    BY <1>rest DEF AtRest
  <2> QED BY <2>1, <2>2 DEF SPI_transact, RequestOf
<1>others. \A d \in Callers : pc'[d] = IF d = c THEN "sem" ELSE pc[d]
  BY <1>sent DEF Types, FramTypes
<1>alone. \A d \in Callers : d # c => pc[d] \notin Inside
  BY <1>rest, Alone DEF Inside
<1>1. Gate'
  BY <1>rest, <1>sent, <1>others, <1>alone DEF IInv, Gate, Inside, Types, KernelTypes
<1>2. Pairing'
  <2>1. UnderWay(c)'
    BY <1>rest, <1>sent DEF AtRest, UnderWay, RequestOf, Kind, othersOfCall, spiVars
  <2>2. fm25w256_mutex' = c
    BY <1>rest, <1>sent DEF IInv, Gate, Inside
  <2>3. phase[c] = "data" /\ isWrite[c] => Done(c, "wren")'
    BY <1>rest, <1>sent DEF IInv, Pairing, Inside, Done, othersOfCall
  <2>4. phase[c] = "wren" => isWrite[c]
    BY <1>rest DEF IInv, Pairing, Inside
  <2> QED BY <1>rest, <1>sent, <1>others, <1>alone, <2>1, <2>2, <2>3, <2>4, NoOneAssumption
             DEF Pairing, Inside
<1>3. Service'
  BY <1>rest, <1>sent, <1>others, <1>alone DEF IInv, Service, AtRest, othersOfCall, spiVars
<1>4. Budget'
  BY <1>rest, <1>sent, <1>others, <1>alone DEF IInv, Budget, Straddle, Both, othersOfCall, spiVars
<1>5. OkMeansTransferred'
  BY <1>rest, <1>sent, <1>others, <1>alone DEF IInv, OkMeansTransferred, Done, othersOfCall
<1>6. NoDeadFrameWrite'
  BY <1>rest, <1>sent, <1>others, <1>alone DEF IInv, NoDeadFrameWrite, othersOfCall
<1> QED BY <1>1, <1>2, <1>3, <1>4, <1>5, <1>6 DEF IInv

(* transact_pend keeps the invariant.                                      *)
LEMMA Step_transact_pend ==
    ASSUME NEW c \in Callers, Longer, Types, IInv, transact_pend(c)
    PROVE  IInv'
<1> USE MaxCallsAssumption, MbxSizeAssumption, SpiTimeoutAssumption, FramTimeoutAssumption,
        NoOneAssumption
    DEF transact_pend, framVars, kernelVars, spiVars, chipVars, othersOfCall
<1>1. Gate'
  BY DEF IInv, Types, FramTypes, ArgumentTypes, KernelTypes, SpiTypes, ChipTypes, FlagTypes,
         Gate, Inside
<1>2. Pairing'
  BY DEF IInv, Types, FramTypes, ArgumentTypes, KernelTypes, SpiTypes, ChipTypes, FlagTypes,
         Gate, Inside, Pairing, AtRest, UnderWay, Posted, RequestOf, Kind, Done
<1>3. Service'
  BY DEF IInv, Types, FramTypes, ArgumentTypes, KernelTypes, SpiTypes, ChipTypes, FlagTypes,
         Service, Request
<1>4. Budget'
  <2>1. pc[c] = "sem" /\ \A d \in Callers : d # c => pc'[d] # "pend"
    BY Alone DEF Inside, Types, FramTypes
  <2>2. pc'[c] = "pend" => framTimer'[c] = FramTimeout
    BY DEF Types, FramTypes, KernelTypes
  <2>3. spiTimer \in 0..SpiTimeout /\ Straddle \in {0, 1} /\ UNCHANGED <<Straddle, spiTimer, spiPc, spi_evt>>
    BY DEF Types, SpiTypes, Straddle
  <2>4. FramTimeout >= FramTimeout - 1 - (SpiTimeout - spiTimer) - Straddle
    BY <2>3
  <2>5. FramTimeout >= FramTimeout - 1 - (SpiTimeout - spiTimer) /\ FramTimeout >= FramTimeout - Straddle
    BY <2>3
  <2>6. FramTimeout >= FramTimeout - 1 - SpiTimeout - Straddle
    BY <2>3
  <2> QED BY <2>1, <2>2, <2>3, <2>4, <2>5, <2>6 DEF Budget
<1>5. OkMeansTransferred'
  BY DEF IInv, Types, FramTypes, ArgumentTypes, KernelTypes, SpiTypes, ChipTypes, FlagTypes,
         OkMeansTransferred, Done
<1>6. NoDeadFrameWrite'
  BY DEF IInv, Types, FramTypes, ArgumentTypes, KernelTypes, SpiTypes, ChipTypes, FlagTypes,
         NoDeadFrameWrite
<1> QED BY <1>1, <1>2, <1>3, <1>4, <1>5, <1>6 DEF IInv

(* transact_got keeps the invariant.                                       *)
LEMMA Step_transact_got ==
    ASSUME NEW c \in Callers, Longer, Types, IInv, transact_got(c)
    PROVE  IInv'
<1>at. /\ pc[c] = "got" /\ AtRest /\ (bResult[c] => RequestOf(c) \in transferred)
       /\ fm25w256_mutex = c
  BY DEF IInv, Pairing, Gate, Inside, transact_got
<1>then. \/ /\ ~bResult[c] /\ UNCHANGED phase /\ pc' = [pc EXCEPT ![c] = "idle"]
            /\ ret' = [ret EXCEPT ![c] = "ERROR"] /\ fm25w256_mutex' = NoOne
         \/ /\ bResult[c] /\ phase[c] = "wren" /\ phase' = [phase EXCEPT ![c] = "data"]
            /\ pc' = [pc EXCEPT ![c] = "post"] /\ UNCHANGED <<ret, fm25w256_mutex>>
         \/ /\ bResult[c] /\ phase[c] = "data" /\ UNCHANGED phase /\ pc' = [pc EXCEPT ![c] = "idle"]
            /\ ret' = [ret EXCEPT ![c] = "OK"] /\ fm25w256_mutex' = NoOne
  BY DEF transact_got, Return, Types, ArgumentTypes
<1>same. /\ UNCHANGED <<calls, isWrite, framTimer, bResult, mbx_spi, othersOfCall>>
  BY DEF transact_got
<1>others. \A d \in Callers : d # c => pc'[d] = pc[d] /\ phase'[d] = phase[d] /\ ret'[d] = ret[d]
  BY <1>then DEF Types, FramTypes, ArgumentTypes
<1>alone. \A d \in Callers : d # c => pc[d] \notin Inside
  BY <1>at, Alone DEF Inside
<1>rest. AtRest' /\ UNCHANGED <<isWrite, calls, transferred>>
  BY <1>at, <1>same DEF AtRest, othersOfCall, spiVars
<1>mine. /\ pc'[c] \in {"idle", "post"}
         /\ pc'[c] = "idle" => fm25w256_mutex' = NoOne
         /\ pc'[c] = "post" => fm25w256_mutex' = c /\ phase[c] = "wren" /\ phase'[c] = "data" /\ bResult[c]
  BY <1>at, <1>then DEF Types, FramTypes, ArgumentTypes
<1>1. Gate'
  <2>1. \A d \in Callers : pc'[d] \in Inside => fm25w256_mutex' = d
    BY <1>others, <1>alone, <1>rest, <1>mine DEF Inside
  <2>2. fm25w256_mutex' # NoOne => pc'[fm25w256_mutex'] \in Inside
    BY <1>mine DEF Inside
  <2> QED BY <2>1, <2>2 DEF Gate
<1>2. Pairing'
  <2>1. pc'[c] = "post" => Done(c, "wren")'
    <3>1. ASSUME pc'[c] = "post" PROVE Done(c, "wren")
      <4>1. phase[c] = "wren" /\ bResult[c]
        BY <1>mine, <3>1
      <4>2. RequestOf(c) \in transferred
        BY <1>at, <4>1
      <4>3. Kind(c) = "wren"
        BY <4>1 DEF Kind
      <4> QED BY <4>2, <4>3 DEF RequestOf, Done
    <3> QED BY <3>1, <1>rest DEF Done
  <2>2. \A d \in Callers : d # c => pc'[d] \notin Inside
    BY <1>others, <1>alone
  <2> QED BY <1>mine, <1>rest, <2>1, <2>2 DEF Pairing, Inside
<1>3. Service'
  BY <1>same DEF IInv, Service, othersOfCall, spiVars
<1>4. Budget'
  BY <1>alone, <1>others, <1>mine DEF Budget, Inside
<1>5. OkMeansTransferred'
  <2>1. ASSUME pc'[c] = "idle", ret'[c] = "OK"
        PROVE  phase[c] = "data" /\ RequestOf(c) \in transferred
    BY <1>at, <1>then, <2>1 DEF Types, FramTypes, ArgumentTypes
  <2>2. phase[c] = "data" /\ isWrite[c] => Done(c, "wren")
    BY <1>at DEF IInv, Pairing, Inside
  <2>3. ASSUME pc'[c] = "idle", ret'[c] = "OK"
        PROVE  (IF isWrite[c] THEN Done(c, "wren") /\ Done(c, "write") ELSE Done(c, "read"))'
    BY <2>1, <2>2, <2>3, <1>rest DEF RequestOf, Kind, Done
  <2> QED BY <2>3, <1>others, <1>rest DEF IInv, OkMeansTransferred, Done
<1>6. NoDeadFrameWrite'
  BY <1>same DEF IInv, NoDeadFrameWrite, othersOfCall
<1> QED BY <1>1, <1>2, <1>3, <1>4, <1>5, <1>6 DEF IInv

(* transact_timed_out keeps the invariant.                                 *)
LEMMA Step_transact_timed_out ==
    ASSUME NEW c \in Callers, Longer, Types, IInv, transact_timed_out(c)
    PROVE  IInv'
<1>never. FALSE
  <2>1. pc[c] = "pend" /\ framTimer[c] = 0 /\ spiTimer \in 0..SpiTimeout /\ Straddle \in {0, 1}
    BY DEF transact_timed_out, Types, SpiTypes, Straddle
  <2>2. \/ 0 >= FramTimeout - Straddle
        \/ 0 >= FramTimeout - 1 - (SpiTimeout - spiTimer)
        \/ 0 >= FramTimeout - 1 - (SpiTimeout - spiTimer) - Straddle
        \/ 0 >= FramTimeout - 1 - SpiTimeout - Straddle
    BY <2>1 DEF IInv, Budget, Types, SpiTypes
  <2> QED BY <2>1, <2>2, SpiTimeoutAssumption, FramTimeoutAssumption DEF Longer
<1>1. Gate'
  BY <1>never
<1>2. Pairing'
  BY <1>never
<1>3. Service'
  BY <1>never
<1>4. Budget'
  BY <1>never
<1>5. OkMeansTransferred'
  BY <1>never
<1>6. NoDeadFrameWrite'
  BY <1>never
<1> QED BY <1>1, <1>2, <1>3, <1>4, <1>5, <1>6 DEF IInv

(* spi_mailbox_pend keeps the invariant.                                   *)
LEMMA Step_spi_mailbox_pend ==
    ASSUME Longer, Types, IInv, spi_mailbox_pend
    PROVE  IInv'
<1> USE MaxCallsAssumption, MbxSizeAssumption, SpiTimeoutAssumption, FramTimeoutAssumption,
        NoOneAssumption
    DEF spi_mailbox_pend, framVars, kernelVars, spiVars, chipVars, othersOfCall
<1>1. Gate'
  BY DEF IInv, Types, FramTypes, ArgumentTypes, KernelTypes, SpiTypes, ChipTypes, FlagTypes,
         Gate, Inside
<1>2. Pairing'
  <2>1. PICK d \in Callers : fm25w256_mutex = d /\ pc[d] \in Inside
    BY DEF IInv, Pairing, AtRest, Gate, Types, KernelTypes
  <2>2. pc[d] \in {"sem", "pend"} /\ UnderWay(d) /\ mbx_spi = <<RequestOf(d)>>
    BY <2>1 DEF IInv, Pairing, AtRest, Posted, UnderWay, Inside
  <2>3. Head(mbx_spi) = RequestOf(d) /\ Tail(mbx_spi) = <<>>
    BY <2>2
  <2>4. UnderWay(d)'
    BY <2>2, <2>3 DEF UnderWay, RequestOf, Kind
  <2>5. \A e \in Callers : e # d => pc[e] \notin Inside
    BY <2>1, Alone
  <2> QED BY <2>1, <2>2, <2>4, <2>5, NoOneAssumption DEF IInv, Pairing, Inside, Done
<1>3. Service'
  BY DEF IInv, Types, FramTypes, ArgumentTypes, KernelTypes, SpiTypes, ChipTypes, FlagTypes,
         Service, Request
<1>4. Budget'
  BY DEF IInv, Types, FramTypes, ArgumentTypes, KernelTypes, SpiTypes, ChipTypes, FlagTypes,
         Budget, Straddle, Both, Longer
<1>5. OkMeansTransferred'
  BY DEF IInv, Types, FramTypes, ArgumentTypes, KernelTypes, SpiTypes, ChipTypes, FlagTypes,
         OkMeansTransferred, Done
<1>6. NoDeadFrameWrite'
  BY DEF IInv, Types, FramTypes, ArgumentTypes, KernelTypes, SpiTypes, ChipTypes, FlagTypes,
         NoDeadFrameWrite
<1> QED BY <1>1, <1>2, <1>3, <1>4, <1>5, <1>6 DEF IInv

(* spi_setup_dma keeps the invariant.                                      *)
LEMMA Step_spi_setup_dma ==
    ASSUME Longer, Types, IInv, spi_setup_dma
    PROVE  IInv'
<1> USE MaxCallsAssumption, MbxSizeAssumption, SpiTimeoutAssumption, FramTimeoutAssumption,
        NoOneAssumption
    DEF spi_setup_dma, framVars, kernelVars, spiVars, chipVars, othersOfCall
<1>1. Gate'
  BY DEF IInv, Types, FramTypes, ArgumentTypes, KernelTypes, SpiTypes, ChipTypes, FlagTypes,
         Gate, Inside
<1>2. Pairing'
  BY DEF IInv, Types, FramTypes, ArgumentTypes, KernelTypes, SpiTypes, ChipTypes, FlagTypes,
         Gate, Inside, Pairing, AtRest, UnderWay, Posted, RequestOf, Kind, Done
<1>3. Service'
  BY DEF IInv, Types, FramTypes, ArgumentTypes, KernelTypes, SpiTypes, ChipTypes, FlagTypes,
         Service, Request
<1>4. Budget'
  BY DEF IInv, Types, FramTypes, ArgumentTypes, KernelTypes, SpiTypes, ChipTypes, FlagTypes,
         Budget, Straddle, Both, Longer
<1>5. OkMeansTransferred'
  BY DEF IInv, Types, FramTypes, ArgumentTypes, KernelTypes, SpiTypes, ChipTypes, FlagTypes,
         OkMeansTransferred, Done
<1>6. NoDeadFrameWrite'
  BY DEF IInv, Types, FramTypes, ArgumentTypes, KernelTypes, SpiTypes, ChipTypes, FlagTypes,
         NoDeadFrameWrite
<1> QED BY <1>1, <1>2, <1>3, <1>4, <1>5, <1>6 DEF IInv

(* spi_clear_events keeps the invariant.                                   *)
LEMMA Step_spi_clear_events ==
    ASSUME Longer, Types, IInv, spi_clear_events
    PROVE  IInv'
<1> USE MaxCallsAssumption, MbxSizeAssumption, SpiTimeoutAssumption, FramTimeoutAssumption,
        NoOneAssumption
    DEF spi_clear_events, framVars, kernelVars, spiVars, chipVars, othersOfCall
<1>1. Gate'
  BY DEF IInv, Types, FramTypes, ArgumentTypes, KernelTypes, SpiTypes, ChipTypes, FlagTypes,
         Gate, Inside
<1>2. Pairing'
  BY DEF IInv, Types, FramTypes, ArgumentTypes, KernelTypes, SpiTypes, ChipTypes, FlagTypes,
         Gate, Inside, Pairing, AtRest, UnderWay, Posted, RequestOf, Kind, Done
<1>3. Service'
  BY DEF IInv, Types, FramTypes, ArgumentTypes, KernelTypes, SpiTypes, ChipTypes, FlagTypes,
         Service, Request
<1>4. Budget'
  BY DEF IInv, Types, FramTypes, ArgumentTypes, KernelTypes, SpiTypes, ChipTypes, FlagTypes,
         Budget, Straddle, Both, Longer
<1>5. OkMeansTransferred'
  BY DEF IInv, Types, FramTypes, ArgumentTypes, KernelTypes, SpiTypes, ChipTypes, FlagTypes,
         OkMeansTransferred, Done
<1>6. NoDeadFrameWrite'
  BY DEF IInv, Types, FramTypes, ArgumentTypes, KernelTypes, SpiTypes, ChipTypes, FlagTypes,
         NoDeadFrameWrite
<1> QED BY <1>1, <1>2, <1>3, <1>4, <1>5, <1>6 DEF IInv

(* spi_run keeps the invariant.                                            *)
LEMMA Step_spi_run ==
    ASSUME Longer, Types, IInv, spi_run
    PROVE  IInv'
<1> USE MaxCallsAssumption, MbxSizeAssumption, SpiTimeoutAssumption, FramTimeoutAssumption,
        NoOneAssumption
    DEF spi_run, framVars, kernelVars, spiVars, chipVars, othersOfCall, CS_select
<1>1. Gate'
  BY DEF IInv, Types, FramTypes, ArgumentTypes, KernelTypes, SpiTypes, ChipTypes, FlagTypes,
         Gate, Inside
<1>2. Pairing'
  BY DEF IInv, Types, FramTypes, ArgumentTypes, KernelTypes, SpiTypes, ChipTypes, FlagTypes,
         Gate, Inside, Pairing, AtRest, UnderWay, Posted, RequestOf, Kind, Done
<1>3. Service'
  BY DEF IInv, Types, FramTypes, ArgumentTypes, KernelTypes, SpiTypes, ChipTypes, FlagTypes,
         Service, Request
<1>4. Budget'
  BY DEF IInv, Types, FramTypes, ArgumentTypes, KernelTypes, SpiTypes, ChipTypes, FlagTypes,
         Budget, Straddle, Both, Longer
<1>5. OkMeansTransferred'
  BY DEF IInv, Types, FramTypes, ArgumentTypes, KernelTypes, SpiTypes, ChipTypes, FlagTypes,
         OkMeansTransferred, Done
<1>6. NoDeadFrameWrite'
  BY DEF IInv, Types, FramTypes, ArgumentTypes, KernelTypes, SpiTypes, ChipTypes, FlagTypes,
         NoDeadFrameWrite
<1> QED BY <1>1, <1>2, <1>3, <1>4, <1>5, <1>6 DEF IInv

(* spi_event_pend keeps the invariant.                                     *)
LEMMA Step_spi_event_pend ==
    ASSUME Longer, Types, IInv, spi_event_pend
    PROVE  IInv'
<1> USE MaxCallsAssumption, MbxSizeAssumption, SpiTimeoutAssumption, FramTimeoutAssumption,
        NoOneAssumption
    DEF spi_event_pend, framVars, kernelVars, spiVars, chipVars, othersOfCall
<1>1. Gate'
  BY DEF IInv, Types, FramTypes, ArgumentTypes, KernelTypes, SpiTypes, ChipTypes, FlagTypes,
         Gate, Inside
<1>2. Pairing'
  BY DEF IInv, Types, FramTypes, ArgumentTypes, KernelTypes, SpiTypes, ChipTypes, FlagTypes,
         Gate, Inside, Pairing, AtRest, UnderWay, Posted, RequestOf, Kind, Done
<1>3. Service'
  BY DEF IInv, Types, FramTypes, ArgumentTypes, KernelTypes, SpiTypes, ChipTypes, FlagTypes,
         Service, Request
<1>4. Budget'
  BY DEF IInv, Types, FramTypes, ArgumentTypes, KernelTypes, SpiTypes, ChipTypes, FlagTypes,
         Budget, Straddle, Both, Longer
<1>5. OkMeansTransferred'
  BY DEF IInv, Types, FramTypes, ArgumentTypes, KernelTypes, SpiTypes, ChipTypes, FlagTypes,
         OkMeansTransferred, Done
<1>6. NoDeadFrameWrite'
  BY DEF IInv, Types, FramTypes, ArgumentTypes, KernelTypes, SpiTypes, ChipTypes, FlagTypes,
         NoDeadFrameWrite
<1> QED BY <1>1, <1>2, <1>3, <1>4, <1>5, <1>6 DEF IInv

(* spi_write_status keeps the invariant.                                   *)
LEMMA Step_spi_write_status ==
    ASSUME Longer, Types, IInv, spi_write_status
    PROVE  IInv'
<1> USE MaxCallsAssumption, MbxSizeAssumption, SpiTimeoutAssumption, FramTimeoutAssumption,
        NoOneAssumption
    DEF spi_write_status, framVars, kernelVars, spiVars, chipVars, othersOfCall
<1>1. Gate'
  BY DEF IInv, Types, FramTypes, ArgumentTypes, KernelTypes, SpiTypes, ChipTypes, FlagTypes,
         Gate, Inside
<1>2. Pairing'
  BY DEF IInv, Types, FramTypes, ArgumentTypes, KernelTypes, SpiTypes, ChipTypes, FlagTypes,
         Gate, Inside, Pairing, AtRest, UnderWay, Posted, RequestOf, Kind, Done
<1>3. Service'
  BY DEF IInv, Types, FramTypes, ArgumentTypes, KernelTypes, SpiTypes, ChipTypes, FlagTypes,
         Service, Request
<1>4. Budget'
  BY DEF IInv, Types, FramTypes, ArgumentTypes, KernelTypes, SpiTypes, ChipTypes, FlagTypes,
         Budget, Straddle, Both, Longer
<1>5. OkMeansTransferred'
  BY DEF IInv, Types, FramTypes, ArgumentTypes, KernelTypes, SpiTypes, ChipTypes, FlagTypes,
         OkMeansTransferred, Done
<1>6. NoDeadFrameWrite'
  <2>1. PICK d \in Callers : /\ pc[d] \in {"sem", "pend"}
                             /\ spi_transaction_request = RequestOf(d)
    BY Owner
  <2>2. InProgress(spi_transaction_request)
    BY <2>1 DEF InProgress, RequestOf
  <2> QED BY <2>2 DEF IInv, NoDeadFrameWrite
<1> QED BY <1>1, <1>2, <1>3, <1>4, <1>5, <1>6 DEF IInv

(* spi_post_requestor keeps the invariant.                                 *)
LEMMA Step_spi_post_requestor ==
    ASSUME Longer, Types, IInv, spi_post_requestor
    PROVE  IInv'
<1>at. spiPc = "post" /\ spiPc' = "mailbox"
  BY DEF spi_post_requestor
<1>owner. PICK d \in Callers : /\ pc[d] \in {"sem", "pend"} /\ mbx_spi = <<>> /\ sem_sync = 0
          /\ spi_transaction_request = RequestOf(d)
          /\ spi_transaction_request.caller = d
  BY <1>at, Owner
<1>alone. fm25w256_mutex = d /\ \A e \in Callers : e # d => pc[e] \notin Inside
  BY <1>owner, Alone DEF Inside, IInv, Gate
<1>kept. UNCHANGED <<calls, isWrite, phase, ret, bResult, fm25w256_mutex, mbx_spi, spi_evt,
         spi_transaction_request, dma, dmaRequest, straddled, transferred, deadWrite>>
  BY DEF spi_post_requestor
<1>timer. pc[d] = "pend" => Pending(d)
  <2>1. spiTimer \in 0..SpiTimeout /\ Straddle \in {0, 1}
    BY DEF Types, SpiTypes, Straddle
  <2>2. pc[d] = "pend" => framTimer[d] >= FramTimeout - 1 - SpiTimeout - Straddle
    BY <1>at DEF IInv, Budget
  <2>3. framTimer[d] \in 0..FramTimeout
    BY DEF Types, FramTypes
  <2> QED BY <2>1, <2>2, <2>3, SpiTimeoutAssumption, FramTimeoutAssumption DEF Longer, Pending
<1>then. \/ pc[d] = "pend" /\ pc' = [pc EXCEPT ![d] = "got"] /\ sem_sync' = 0
         \/ pc[d] = "sem" /\ pc' = pc /\ sem_sync' = 1
  BY <1>at, <1>owner, <1>alone, <1>timer DEF spi_post_requestor, Pending, Inside
<1>pcs. /\ \A e \in Callers : e # d => pc'[e] \notin Inside
        /\ (pc'[d] = "got" /\ sem_sync' = 0) \/ (pc'[d] = "sem" /\ sem_sync' = 1)
        /\ \A e \in Callers : e # d => pc'[e] = pc[e]
  BY <1>then, <1>alone DEF Types, FramTypes
<1>result. bResult[d] => RequestOf(d) \in transferred
  BY <1>at, <1>owner DEF IInv, Service
<1>1. Gate'
  BY <1>at, <1>owner, <1>alone, <1>kept, <1>pcs DEF Gate, Inside
<1>2. Pairing'
  <2>1. RequestOf(d)' = RequestOf(d)
    BY <1>kept DEF RequestOf, Kind
  <2>2. pc'[d] = "got" => AtRest' /\ (bResult'[d] => RequestOf(d)' \in transferred')
    BY <1>at, <1>owner, <1>alone, <1>kept, <1>pcs, <1>result, <2>1 DEF AtRest
  <2>3. pc'[d] = "sem" => Posted(d)'
    BY <1>at, <1>owner, <1>alone, <1>kept, <1>pcs, <1>result, <2>1 DEF Posted
  <2>4. (phase[d] = "wren" => isWrite[d]) /\ (phase[d] = "data" /\ isWrite[d] => Done(d, "wren")')
    BY <1>owner, <1>kept DEF IInv, Pairing, Inside, Done
  <2> QED BY <1>at, <1>owner, <1>alone, <1>kept, <1>pcs, <2>2, <2>3, <2>4, NoOneAssumption
             DEF Pairing, Inside
<1>3. Service'
  BY DEF IInv, Service, spi_post_requestor
<1>4. Budget'
  BY <1>pcs DEF Budget, Inside
<1>5. OkMeansTransferred'
  BY <1>at, <1>owner, <1>alone, <1>kept, <1>pcs DEF IInv, OkMeansTransferred, Done
<1>6. NoDeadFrameWrite'
  BY <1>kept DEF IInv, NoDeadFrameWrite
<1> QED BY <1>1, <1>2, <1>3, <1>4, <1>5, <1>6 DEF IInv

(* spi_tx_dma_hwi_handler keeps the invariant.                             *)
LEMMA Step_spi_tx_dma_hwi_handler ==
    ASSUME Longer, Types, IInv, spi_tx_dma_hwi_handler
    PROVE  IInv'
<1> USE MaxCallsAssumption, MbxSizeAssumption, SpiTimeoutAssumption, FramTimeoutAssumption,
        NoOneAssumption
    DEF spi_tx_dma_hwi_handler, framVars, kernelVars, spiVars, chipVars, othersOfCall
<1>1. Gate'
  BY DEF IInv, Types, FramTypes, ArgumentTypes, KernelTypes, SpiTypes, ChipTypes, FlagTypes,
         Gate, Inside
<1>2. Pairing'
  BY DEF IInv, Types, FramTypes, ArgumentTypes, KernelTypes, SpiTypes, ChipTypes, FlagTypes,
         Gate, Inside, Pairing, AtRest, UnderWay, Posted, RequestOf, Kind, Done
<1>3. Service'
  BY DEF IInv, Types, FramTypes, ArgumentTypes, KernelTypes, SpiTypes, ChipTypes, FlagTypes,
         Service, Request
<1>4. Budget'
  BY DEF IInv, Types, FramTypes, ArgumentTypes, KernelTypes, SpiTypes, ChipTypes, FlagTypes,
         Budget, Straddle, Both, Longer
<1>5. OkMeansTransferred'
  BY DEF IInv, Types, FramTypes, ArgumentTypes, KernelTypes, SpiTypes, ChipTypes, FlagTypes,
         OkMeansTransferred, Done
<1>6. NoDeadFrameWrite'
  BY DEF IInv, Types, FramTypes, ArgumentTypes, KernelTypes, SpiTypes, ChipTypes, FlagTypes,
         NoDeadFrameWrite
<1> QED BY <1>1, <1>2, <1>3, <1>4, <1>5, <1>6 DEF IInv

(* spi_rx_dma_hwi_handler keeps the invariant.                             *)
LEMMA Step_spi_rx_dma_hwi_handler ==
    ASSUME Longer, Types, IInv, spi_rx_dma_hwi_handler
    PROVE  IInv'
<1> USE MaxCallsAssumption, MbxSizeAssumption, SpiTimeoutAssumption, FramTimeoutAssumption,
        NoOneAssumption
    DEF spi_rx_dma_hwi_handler, framVars, kernelVars, spiVars, chipVars, othersOfCall, CS_deselect
<1>1. Gate'
  BY DEF IInv, Types, FramTypes, ArgumentTypes, KernelTypes, SpiTypes, ChipTypes, FlagTypes,
         Gate, Inside
<1>2. Pairing'
  BY DEF IInv, Types, FramTypes, ArgumentTypes, KernelTypes, SpiTypes, ChipTypes, FlagTypes,
         Gate, Inside, Pairing, AtRest, UnderWay, Posted, RequestOf, Kind, Done
<1>3. Service'
  BY DEF IInv, Types, FramTypes, ArgumentTypes, KernelTypes, SpiTypes, ChipTypes, FlagTypes,
         Service, Request
<1>4. Budget'
  BY SMTT(30) DEF IInv, Types, FramTypes, ArgumentTypes, KernelTypes, SpiTypes, ChipTypes, FlagTypes,
         Budget, Straddle, Both, Longer
<1>5. OkMeansTransferred'
  BY DEF IInv, Types, FramTypes, ArgumentTypes, KernelTypes, SpiTypes, ChipTypes, FlagTypes,
         OkMeansTransferred, Done
<1>6. NoDeadFrameWrite'
  BY DEF IInv, Types, FramTypes, ArgumentTypes, KernelTypes, SpiTypes, ChipTypes, FlagTypes,
         NoDeadFrameWrite
<1> QED BY <1>1, <1>2, <1>3, <1>4, <1>5, <1>6 DEF IInv

(* Tick keeps the invariant.                                               *)
LEMMA Step_Tick ==
    ASSUME Longer, Types, IInv, Tick
    PROVE  IInv'
<1> USE MaxCallsAssumption, MbxSizeAssumption, SpiTimeoutAssumption, FramTimeoutAssumption,
        NoOneAssumption
    DEF Tick, framVars, kernelVars, spiVars, chipVars, othersOfCall, Pending
<1>1. Gate'
  BY DEF IInv, Types, FramTypes, ArgumentTypes, KernelTypes, SpiTypes, ChipTypes, FlagTypes,
         Gate, Inside
<1>2. Pairing'
  BY DEF IInv, Types, FramTypes, ArgumentTypes, KernelTypes, SpiTypes, ChipTypes, FlagTypes,
         Gate, Inside, Pairing, AtRest, UnderWay, Posted, RequestOf, Kind, Done
<1>3. Service'
  BY DEF IInv, Types, FramTypes, ArgumentTypes, KernelTypes, SpiTypes, ChipTypes, FlagTypes,
         Service, Request
<1>4. Budget'
  <2> SUFFICES ASSUME NEW c \in Callers, pc[c] = "pend"
               PROVE  /\ spiPc' \in {"mailbox", "setup", "clear", "run"} =>
                            framTimer'[c] >= FramTimeout - Straddle'
                      /\ spiPc' = "wait" /\ spi_evt # Both =>
                            framTimer'[c] >= FramTimeout - 1 - (SpiTimeout - spiTimer')
                      /\ spiPc' = "wait" /\ spi_evt = Both =>
                            framTimer'[c] >= FramTimeout - 1 - (SpiTimeout - spiTimer') - Straddle'
                      /\ spiPc' \in {"status", "post"} =>
                            framTimer'[c] >= FramTimeout - 1 - SpiTimeout - Straddle'
    BY DEF Budget, Both
  <2>1. /\ framTimer[c] \in 0..FramTimeout /\ spiTimer \in 0..SpiTimeout
        /\ framTimer'[c] \in {framTimer[c], framTimer[c] - 1}
    BY DEF Types, FramTypes, SpiTypes
  <2>2. /\ spiPc \in {"mailbox", "setup", "clear", "run"} => framTimer[c] >= FramTimeout - Straddle
        /\ spiPc = "wait" /\ spi_evt # Both =>
                framTimer[c] >= FramTimeout - 1 - (SpiTimeout - spiTimer)
        /\ spiPc = "wait" /\ spi_evt = Both =>
                framTimer[c] >= FramTimeout - 1 - (SpiTimeout - spiTimer) - Straddle
        /\ spiPc \in {"status", "post"} => framTimer[c] >= FramTimeout - 1 - SpiTimeout - Straddle
    BY DEF IInv, Budget
  <2>3. UnderWay(c)
    BY DEF IInv, Pairing
  <2>4. CASE Quiet
    <3>1. spiPc = "wait" /\ spiTimer > 0 /\ spi_evt # Both
      <4>1. mbx_spi # <<>> \/ spiPc # "mailbox"
        <5>1. CASE spiPc = "mailbox"
          <6>1. mbx_spi = <<RequestOf(c)>>
            BY <2>3, <5>1 DEF UnderWay
          <6>2. Len(<<RequestOf(c)>>) = 1 /\ Len(<<>>) = 0
            OBVIOUS
          <6> QED BY <6>1, <6>2
        <5> QED BY <5>1
      <4> QED BY <2>4, <4>1 DEF Quiet, SpiWaits, Both
    <3>2. spiTimer' = spiTimer - 1 /\ spiPc' = IF spiTimer = 1 THEN "status" ELSE "wait"
      BY <3>1 DEF Both
    <3>3. Straddle' = 0
      BY <2>4 DEF Straddle
    <3> QED BY <2>1, <2>2, <3>1, <3>2, <3>3
  <2>5. CASE ~Quiet
    <3>1. Straddle = 0 /\ Straddle' = 1
      BY <2>5 DEF Straddle
    <3>2. ~(spiPc = "wait" /\ spi_evt # Both)
      <4>1. ASSUME spiPc = "wait", spi_evt # Both PROVE Quiet
        <5>1. spiTimer > 0
          BY <4>1 DEF IInv, Service, Types, SpiTypes
        <5>2. framTimer[c] > 0
          BY <2>1, <2>2, <4>1 DEF Longer
        <5>3. fm25w256_mutex = c /\ fm25w256_mutex # NoOne
          BY NoOneAssumption DEF IInv, Gate, Inside
        <5>4. \A d \in Callers : CallerWaits(d)
          <6>1. \A d \in Callers : d # c => pc[d] \in {"idle", "enter"}
            BY Alone DEF Inside, Types, FramTypes
          <6> QED BY <5>2, <5>3, <6>1 DEF CallerWaits, Pending
        <5> QED BY <4>1, <5>1, <5>4 DEF Quiet, SpiWaits, Both
      <4> QED BY <2>5, <4>1
    <3>3. UNCHANGED <<spiPc, spiTimer>>
      BY <3>2 DEF Both
    <3> QED BY <2>1, <2>2, <3>1, <3>2, <3>3
  <2> QED BY <2>4, <2>5
<1>5. OkMeansTransferred'
  BY DEF IInv, Types, FramTypes, ArgumentTypes, KernelTypes, SpiTypes, ChipTypes, FlagTypes,
         OkMeansTransferred, Done
<1>6. NoDeadFrameWrite'
  BY DEF IInv, Types, FramTypes, ArgumentTypes, KernelTypes, SpiTypes, ChipTypes, FlagTypes,
         NoDeadFrameWrite
<1> QED BY <1>1, <1>2, <1>3, <1>4, <1>5, <1>6 DEF IInv

(* Every step keeps the types ...                                          *)
LEMMA TypesStep ==
    ASSUME Types, [Next]_vars
    PROVE  Types'
<1>1. CASE \E c \in Callers, write \in BOOLEAN : transact_begin(c, write)
  BY <1>1, Types_transact_begin
<1>2. CASE \E c \in Callers : FM25W256_transact(c)
  BY <1>2, Types_transact_enter, Types_SPI_transact, Types_transact_pend, Types_transact_got,
     Types_transact_timed_out
     DEF FM25W256_transact
<1>3. CASE tsk_spi_dma
  BY <1>3, Types_spi_mailbox_pend, Types_spi_setup_dma, Types_spi_clear_events, Types_spi_run,
     Types_spi_event_pend, Types_spi_write_status, Types_spi_post_requestor
     DEF tsk_spi_dma
<1>4. CASE UNCHANGED vars
  BY <1>4 DEF Types, FramTypes, ArgumentTypes, KernelTypes, SpiTypes, ChipTypes, FlagTypes,
     vars, framVars, kernelVars, spiVars, chipVars
<1> QED BY <1>1, <1>2, <1>3, <1>4, Types_spi_tx_dma_hwi_handler, Types_spi_rx_dma_hwi_handler,
           Types_Tick
        DEF Next

(* ... which hold at first ...                                             *)
LEMMA TypesStart == Init => Types
<1> SUFFICES ASSUME Init PROVE Types
  OBVIOUS
<1>1. FramTypes
  BY MaxCallsAssumption, FramTimeoutAssumption DEF Init, FramTypes
<1>2. ArgumentTypes
  BY DEF Init, ArgumentTypes
<1>3. KernelTypes
  <2>1. mbx_spi \in Seq(Request) /\ Len(mbx_spi) = 0
    BY DEF Init
  <2> QED BY <2>1, MbxSizeAssumption DEF Init, KernelTypes
<1>4. SpiTypes
  BY SpiTimeoutAssumption DEF Init, SpiTypes
<1>5. ChipTypes
  BY DEF Init, ChipTypes
<1>6. FlagTypes
  BY DEF Init, FlagTypes
<1> QED BY <1>1, <1>2, <1>3, <1>4, <1>5, <1>6 DEF Types

(* ... and so always, whatever the timeouts.                               *)
LEMMA TypesHold == Spec => []Types
<1>1. Init => Types
  BY TypesStart
<1>2. Types /\ [Next]_vars => Types'
  BY TypesStep
<1> QED BY <1>1, <1>2, PTL DEF Spec

(* The variables have their types, whatever the timeouts: the semaphore    *)
(* counts no further than one, and what the DMA clocks out is a request.   *)
THEOREM TypeCorrect == Spec => []TypeOK
<1>1. Types => TypeOK
  BY DEF Types, FramTypes, ArgumentTypes, KernelTypes, SpiTypes, ChipTypes, FlagTypes, TypeOK
<1> QED BY <1>1, TypesHold, PTL

------------------------------------------------------------------------------
(* Every step keeps the invariant.                                         *)
LEMMA Step ==
    ASSUME Longer, Types, IInv, [Next]_vars
    PROVE  IInv'
<1>1. CASE \E c \in Callers, write \in BOOLEAN : transact_begin(c, write)
  BY <1>1, Step_transact_begin
<1>2. CASE \E c \in Callers : FM25W256_transact(c)
  BY <1>2, Step_transact_enter, Step_SPI_transact, Step_transact_pend, Step_transact_got,
     Step_transact_timed_out
     DEF FM25W256_transact
<1>3. CASE tsk_spi_dma
  BY <1>3, Step_spi_mailbox_pend, Step_spi_setup_dma, Step_spi_clear_events, Step_spi_run,
     Step_spi_event_pend, Step_spi_write_status, Step_spi_post_requestor
     DEF tsk_spi_dma
<1>4. CASE UNCHANGED vars
  <2> USE <1>4 DEF vars, framVars, kernelVars, spiVars, chipVars
  <2>1. Gate' /\ Budget' /\ Service'
    BY DEF IInv, Gate, Budget, Straddle, Service
  <2>2. Pairing'
    BY DEF IInv, Pairing, AtRest, UnderWay, Posted, RequestOf, Kind, Done
  <2>3. OkMeansTransferred' /\ NoDeadFrameWrite'
    BY DEF IInv, OkMeansTransferred, NoDeadFrameWrite, Done
  <2> QED BY <2>1, <2>2, <2>3 DEF IInv
<1> QED BY <1>1, <1>2, <1>3, <1>4, Step_spi_tx_dma_hwi_handler, Step_spi_rx_dma_hwi_handler,
           Step_Tick
        DEF Next

(* It holds at first.                                                      *)
LEMMA Start == Init => IInv
<1> SUFFICES ASSUME Init PROVE IInv
  OBVIOUS
<1>1. Gate /\ Pairing
  BY DEF Init, Gate, Pairing, Inside, AtRest
<1>2. Service /\ Budget
  BY DEF Init, Service, Budget
<1>3. OkMeansTransferred /\ NoDeadFrameWrite
  BY DEF Init, OkMeansTransferred, NoDeadFrameWrite
<1> QED BY <1>1, <1>2, <1>3 DEF IInv

(* The invariant, when the call outlasts the transfer.                     *)
LEMMA Invariant ==
    ASSUME Longer
    PROVE  Spec => [](Types /\ IInv)
<1>1. Init => Types /\ IInv
  BY TypesStart, Start
<1>2. Types /\ IInv /\ [Next]_vars => (Types /\ IInv)'
  BY TypesStep, Step
<1> QED BY <1>1, <1>2, PTL DEF Spec

(* If the call waits three ticks longer than the SPI task, FM25W256_OK     *)
(* means that the call's own transfers were carried out.                   *)
THEOREM LongerOkMeansTransferred ==
    ASSUME Longer
    PROVE  Spec => []OkMeansTransferred
BY Invariant, PTL DEF IInv

(* ... *pStatus is never written into the frame of a call that has         *)
(* returned.                                                               *)
THEOREM LongerNoDeadFrameWrite ==
    ASSUME Longer
    PROVE  Spec => []NoDeadFrameWrite
BY Invariant, PTL DEF IInv

(* ... a call leaves neither a post nor a request behind for the next one. *)
THEOREM LongerNothingLeftBehind ==
    ASSUME Longer
    PROVE  Spec => []NothingLeftBehind
<1>1. Types /\ IInv => NothingLeftBehind
  BY DEF IInv, Pairing, AtRest, NothingLeftBehind
<1> QED BY <1>1, Invariant, PTL

(* ... and the mailbox never holds more than one request: with any number  *)
(* of tasks, Mailbox_post always finds room.                               *)
THEOREM LongerOneRequestAtATime ==
    ASSUME Longer
    PROVE  Spec => []OneRequestAtATime
<1>1. Types /\ IInv => OneRequestAtATime
  <2> SUFFICES ASSUME Types, IInv PROVE OneRequestAtATime
    OBVIOUS
  <2>1. Len(mbx_spi) <= 1
    <3>1. CASE fm25w256_mutex = NoOne
      <4>1. mbx_spi = <<>>
        BY <3>1 DEF IInv, Pairing, AtRest
      <4> QED BY <4>1
    <3>2. CASE fm25w256_mutex # NoOne
      <4>1. fm25w256_mutex \in Callers /\ pc[fm25w256_mutex] \in Inside
        BY <3>2 DEF IInv, Gate, Types, KernelTypes
      <4>2. mbx_spi = <<>> \/ mbx_spi = <<RequestOf(fm25w256_mutex)>>
        BY <4>1 DEF IInv, Pairing, AtRest, UnderWay, Posted, Inside
      <4>3. ASSUME NEW x PROVE Len(<<x>>) = 1
        OBVIOUS
      <4>4. CASE mbx_spi = <<>>
        BY <4>4
      <4>5. CASE mbx_spi = <<RequestOf(fm25w256_mutex)>>
        BY <4>3, <4>5
      <4> QED BY <4>2, <4>4, <4>5
    <3> QED BY <3>1, <3>2
  <2> QED BY <2>1 DEF OneRequestAtATime, IInv, Gate, Inside
<1> QED BY <1>1, Invariant, PTL

------------------------------------------------------------------------------
(* The configuration as shipped, whatever the timeouts, two ticks or more: *)
(* as long as no transfer has stalled.  Then a tick that finds everybody   *)
(* waiting finds no request under way, so that one tick at the most falls  *)
(* into the service of a request.  The chip is followed from command to    *)
(* command: the write enable, and what of a write it has carried out.      *)

AtLeastTwo == SpiTimeout >= 2 /\ FramTimeout >= 2

(* What the chip has done of a request, and what it needs to do it.        *)
CarriedOut(r) == (r.kind = "wren" => WEL) /\ (r.kind = "write" => r \in stored)
MayWrite(r) == r.kind = "write" => WEL

Answered(c) == bResult[c] /\ CarriedOut(RequestOf(c))

CalmCalls ==
    /\ fm25w256_mutex = NoOne => AtRest
    /\ \A c \in Callers :
        /\ pc[c] = "post" => AtRest /\ MayWrite(RequestOf(c))
        /\ pc[c] = "sem" => \/ UnderWay(c)
                            \/ mbx_spi = <<>> /\ spiPc = "mailbox" /\ sem_sync = 1 /\ Answered(c)
        /\ pc[c] = "pend" => UnderWay(c) /\ framTimer[c] >= FramTimeout - Straddle
        /\ pc[c] = "got" => AtRest /\ Answered(c)
        /\ pc[c] \in Inside /\ phase[c] = "wren" => isWrite[c]

(* A transfer under way: running, sent, or done.                           *)
CalmTransfer ==
    \/ dma = "run" /\ spi_evt = {} /\ clocked = <<>> /\ MayWrite(dmaRequest)
    \/ dma = "sent" /\ spi_evt = {"tx"} /\ clocked = <<dmaRequest>> /\ MayWrite(dmaRequest)
    \/ dma = "off" /\ spi_evt = Both /\ clocked = <<>> /\ CarriedOut(dmaRequest)

CalmService ==
    /\ spiPc \in {"clear", "run", "wait"} => dmaRequest = spi_transaction_request
    /\ spiPc # "wait" => dma = "off" /\ clocked = <<>>
    /\ mbx_spi # <<>> => MayWrite(Head(mbx_spi))
    /\ spiPc \in {"setup", "clear", "run"} => MayWrite(spi_transaction_request)
    /\ spiPc = "run" => spi_evt = {}
    /\ spiPc = "wait" => spiTimer >= SpiTimeout - Straddle /\ CalmTransfer
    /\ spiPc \in {"status", "post"} => CarriedOut(spi_transaction_request)
    /\ spiPc = "status" => posted
    /\ spiPc = "post" => bResult[spi_transaction_request.caller]

CalmAnswers ==
    \A c \in Callers :
        /\ ret[c] \in {"none", "OK"}
        /\ pc[c] = "idle" /\ ret[c] = "OK" /\ isWrite[c] =>
               [caller |-> c, call |-> calls[c], kind |-> "write"] \in stored

Calm == Gate /\ CalmCalls /\ CalmService /\ CalmAnswers

(* Only one task is in the gate.                                           *)
LEMMA CalmAlone ==
    ASSUME Calm, NEW c \in Callers, NEW d \in Callers, pc[c] \in Inside, pc[d] \in Inside
    PROVE  c = d
BY DEF Calm, Gate

(* While a request waits or is served, the task in the gate owns it.       *)
LEMMA CalmOwner ==
    ASSUME Types, Calm, spiPc # "mailbox" \/ mbx_spi # <<>>
    PROVE  \E d \in Callers :
              /\ pc[d] \in {"sem", "pend"} /\ UnderWay(d) /\ fm25w256_mutex = d
              /\ \A e \in Callers : e # d => pc[e] \notin Inside
<1>1. fm25w256_mutex \in Callers /\ pc[fm25w256_mutex] \in Inside
  BY DEF Calm, CalmCalls, AtRest, Gate, Types, KernelTypes
<1>2. pc[fm25w256_mutex] \in {"sem", "pend"}
  BY <1>1 DEF Calm, CalmCalls, AtRest, Inside
<1>3. UnderWay(fm25w256_mutex)
  BY <1>1, <1>2 DEF Calm, CalmCalls
<1> QED BY <1>1, <1>2, <1>3, CalmAlone

(* A call goes on as it is when nothing of it changes.                     *)
LEMMA CalmRequest ==
    ASSUME NEW c \in Callers, calls'[c] = calls[c], phase'[c] = phase[c], isWrite'[c] = isWrite[c]
    PROVE  RequestOf(c)' = RequestOf(c)
BY DEF RequestOf, Kind

(* Nothing the SPI task and the chip have changes.                         *)
LEMMA SameService ==
    ASSUME CalmService,
           UNCHANGED <<mbx_spi, spi_evt, spiPc, spi_transaction_request, posted, spiTimer, dma,
                       dmaRequest, clocked, WEL, stored, straddled, bResult>>
    PROVE  CalmService'
BY DEF CalmService, CalmTransfer, CarriedOut, MayWrite, Straddle

(* transact_begin keeps the service calm.                                  *)
LEMMA Calm_transact_begin ==
    ASSUME NEW c \in Callers, NEW write \in BOOLEAN,
           AtLeastTwo, Types, Calm, transact_begin(c, write)
    PROVE  Calm'
<1> USE NoOneAssumption
    DEF transact_begin, othersOfCall, framVars, kernelVars, spiVars, chipVars
<1>1. Gate'
  BY DEF Calm, Gate, Inside, Types, FramTypes, KernelTypes
<1>2. CalmCalls'
  BY DEF Calm, CalmCalls, Gate, Inside, AtRest, UnderWay, Answered, CarriedOut, MayWrite,
         RequestOf, Kind, Straddle, Types, FramTypes, ArgumentTypes, KernelTypes, SpiTypes
<1>3. CalmService'
  <2>1. ASSUME spiPc = "post" PROVE bResult'[spi_transaction_request.caller]
    <3>1. PICK d \in Callers : pc[d] \in {"sem", "pend"} /\ UnderWay(d)
      BY <2>1, CalmOwner
    <3>2. d # c /\ spi_transaction_request.caller = d
      BY <2>1, <3>1 DEF UnderWay, RequestOf
    <3>3. bResult[d]
      BY <2>1, <3>2 DEF Calm, CalmService
    <3>4. bResult'[d] = bResult[d]
      BY <3>2 DEF Types, ArgumentTypes
    <3> QED BY <3>2, <3>3, <3>4
  <2> QED BY <2>1 DEF Calm, CalmService, CalmTransfer, CarriedOut, MayWrite, Straddle
<1>4. CalmAnswers'
  BY DEF Calm, CalmAnswers, Types, FramTypes, ArgumentTypes
<1> QED BY <1>1, <1>2, <1>3, <1>4 DEF Calm

(* transact_enter keeps the service calm.                                  *)
LEMMA Calm_transact_enter ==
    ASSUME NEW c \in Callers, AtLeastTwo, Types, Calm, transact_enter(c)
    PROVE  Calm'
<1> USE NoOneAssumption
    DEF transact_enter, othersOfCall, framVars, kernelVars, spiVars, chipVars
<1>1. Gate'
  BY DEF Calm, Gate, Inside, Types, FramTypes, KernelTypes
<1>2. CalmCalls'
  BY DEF Calm, CalmCalls, Gate, Inside, AtRest, UnderWay, Answered, CarriedOut, MayWrite,
         RequestOf, Kind, Straddle, Types, FramTypes, ArgumentTypes, KernelTypes, SpiTypes
<1>3. CalmService'
  BY SameService DEF Calm
<1>4. CalmAnswers'
  BY DEF Calm, CalmAnswers, Types, FramTypes, ArgumentTypes
<1> QED BY <1>1, <1>2, <1>3, <1>4 DEF Calm

(* SPI_transact keeps the service calm.                                    *)
LEMMA Calm_SPI_transact ==
    ASSUME NEW c \in Callers, AtLeastTwo, Types, Calm, SPI_transact(c)
    PROVE  Calm'
<1>at. pc[c] = "post" /\ AtRest /\ MayWrite(RequestOf(c)) /\ fm25w256_mutex = c
  BY DEF Calm, CalmCalls, Gate, Inside, SPI_transact
<1>sent. /\ mbx_spi' = <<RequestOf(c)>> /\ pc' = [pc EXCEPT ![c] = "sem"]
         /\ UNCHANGED <<calls, isWrite, phase, framTimer, ret, fm25w256_mutex, bResult, othersOfCall>>
  <2>1. Len(mbx_spi) < MbxSize
    BY <1>at, MbxSizeAssumption DEF AtRest
  <2>2. Append(mbx_spi, RequestOf(c)) = <<RequestOf(c)>>
    BY <1>at DEF AtRest
  <2> QED BY <2>1, <2>2 DEF SPI_transact, RequestOf
<1>kept. UNCHANGED <<spiPc, sem_sync, spi_evt, spi_transaction_request, posted, spiTimer, dma,
         dmaRequest, clocked, WEL, stored, straddled>>
  BY <1>sent DEF othersOfCall, spiVars, chipVars
<1>others. \A d \in Callers : pc'[d] = IF d = c THEN "sem" ELSE pc[d]
  BY <1>sent DEF Types, FramTypes
<1>alone. \A d \in Callers : d # c => pc[d] \notin Inside
  BY <1>at, CalmAlone DEF Inside
<1>1. Gate'
  BY <1>at, <1>sent, <1>others, <1>alone DEF Gate, Inside
<1>2. CalmCalls'
  <2>1. UnderWay(c)'
    BY <1>at, <1>sent, <1>kept DEF AtRest, UnderWay, RequestOf, Kind
  <2>2. phase'[c] = "wren" => isWrite'[c]
    BY <1>at, <1>sent DEF Calm, CalmCalls, Inside
  <2> QED BY <1>at, <1>sent, <1>others, <1>alone, <2>1, <2>2, NoOneAssumption DEF CalmCalls, Inside
<1>3. CalmService'
  <2>1. Head(mbx_spi') = RequestOf(c) /\ spiPc' = "mailbox"
    BY <1>at, <1>sent, <1>kept DEF AtRest
  <2>2. MayWrite(Head(mbx_spi))'
    BY <1>at, <1>kept, <2>1 DEF MayWrite
  <2>3. (dma = "off" /\ clocked = <<>>)'
    BY <1>at, <1>kept DEF AtRest, Calm, CalmService
  <2> QED BY <2>1, <2>2, <2>3 DEF CalmService
<1>4. CalmAnswers'
  BY <1>sent, <1>kept, <1>others DEF Calm, CalmAnswers
<1> QED BY <1>1, <1>2, <1>3, <1>4 DEF Calm

(* transact_pend keeps the service calm.                                   *)
LEMMA Calm_transact_pend ==
    ASSUME NEW c \in Callers, AtLeastTwo, Types, Calm, transact_pend(c)
    PROVE  Calm'
<1> USE NoOneAssumption
    DEF transact_pend, framVars, kernelVars, spiVars, chipVars
<1>1. Gate'
  BY DEF Calm, Gate, Inside, Types, FramTypes, KernelTypes
<1>2. CalmCalls'
  <2>1. /\ pc[c] = "sem" /\ fm25w256_mutex = c
        /\ \A d \in Callers : d # c => pc[d] \notin Inside /\ pc'[d] = pc[d]
    BY CalmAlone DEF Calm, Gate, Inside, Types, FramTypes
  <2>2. RequestOf(c)' = RequestOf(c)
    BY CalmRequest
  <2>3. CASE sem_sync = 1
    <3>1. pc'[c] = "got" /\ sem_sync' = 0 /\ ~UnderWay(c)
      BY <2>1, <2>3 DEF UnderWay, Types, FramTypes
    <3>2. mbx_spi = <<>> /\ spiPc = "mailbox" /\ Answered(c)
      BY <2>1, <3>1 DEF Calm, CalmCalls
    <3>3. AtRest' /\ Answered(c)'
      BY <2>2, <3>1, <3>2 DEF AtRest, Answered, CarriedOut
    <3> QED BY <2>1, <3>1, <3>3 DEF CalmCalls, Calm, Inside
  <2>4. CASE sem_sync # 1
    <3>1. /\ pc'[c] = "pend" /\ framTimer'[c] = FramTimeout /\ sem_sync' = sem_sync
          /\ (Straddle' = 0 \/ Straddle' = 1)
      BY <2>1, <2>4 DEF Types, FramTypes, Straddle
    <3>2. UnderWay(c)
      BY <2>1, <2>4 DEF Calm, CalmCalls
    <3>3. UnderWay(c)'
      BY <2>2, <3>1, <3>2 DEF UnderWay
    <3>4. framTimer'[c] >= FramTimeout - Straddle'
      <4>1. Straddle' = 0 \/ Straddle' = 1
        BY <3>1
      <4>2. FramTimeout >= FramTimeout - Straddle'
        BY ONLY <4>1, FramTimeoutAssumption
      <4> QED BY <3>1, <4>2
    <3> QED BY <2>1, <3>1, <3>3, <3>4 DEF CalmCalls, Calm, Inside
  <2> QED BY <2>3, <2>4
<1>3. CalmService'
  BY DEF Calm, CalmService, CalmTransfer, CarriedOut, MayWrite, Straddle, Both,
         Types, ArgumentTypes, KernelTypes, SpiTypes, ChipTypes, Request
<1>4. CalmAnswers'
  BY DEF Calm, CalmAnswers, Types, FramTypes, ArgumentTypes
<1> QED BY <1>1, <1>2, <1>3, <1>4 DEF Calm

(* transact_got keeps the service calm.                                    *)
LEMMA Calm_transact_got ==
    ASSUME NEW c \in Callers, AtLeastTwo, Types, Calm, transact_got(c)
    PROVE  Calm'
<1>at. /\ pc[c] = "got" /\ AtRest /\ bResult[c] /\ CarriedOut(RequestOf(c))
       /\ fm25w256_mutex = c /\ (phase[c] = "wren" => isWrite[c])
  BY DEF Calm, CalmCalls, Answered, Gate, Inside, transact_got
<1>then. \/ /\ phase[c] = "wren" /\ phase' = [phase EXCEPT ![c] = "data"]
            /\ pc' = [pc EXCEPT ![c] = "post"] /\ UNCHANGED <<ret, fm25w256_mutex>>
         \/ /\ phase[c] = "data" /\ UNCHANGED phase /\ pc' = [pc EXCEPT ![c] = "idle"]
            /\ ret' = [ret EXCEPT ![c] = "OK"] /\ fm25w256_mutex' = NoOne
  BY <1>at DEF transact_got, Return, Types, ArgumentTypes
<1>same. UNCHANGED <<calls, isWrite, framTimer, bResult, mbx_spi, othersOfCall>>
  BY DEF transact_got
<1>kept. UNCHANGED <<spiPc, sem_sync, spi_evt, spi_transaction_request, posted, spiTimer, dma,
         dmaRequest, clocked, WEL, stored, straddled>>
  BY <1>same DEF othersOfCall, spiVars, chipVars
<1>others. \A d \in Callers : d # c => pc'[d] = pc[d] /\ phase'[d] = phase[d] /\ ret'[d] = ret[d]
  BY <1>then DEF Types, FramTypes, ArgumentTypes
<1>alone. \A d \in Callers : d # c => pc[d] \notin Inside
  BY <1>at, CalmAlone DEF Inside
<1>mine. \/ /\ phase[c] = "wren" /\ phase'[c] = "data" /\ pc'[c] = "post"
            /\ ret'[c] = ret[c] /\ fm25w256_mutex' = c
         \/ /\ phase[c] = "data" /\ pc'[c] = "idle" /\ ret'[c] = "OK" /\ fm25w256_mutex' = NoOne
  BY <1>at, <1>then DEF Types, FramTypes, ArgumentTypes
<1>rest. AtRest'
  BY <1>at, <1>same, <1>kept DEF AtRest
<1>1. Gate'
  BY <1>others, <1>alone, <1>mine DEF Gate, Inside
<1>2. CalmCalls'
  <2>1. pc'[c] = "post" => MayWrite(RequestOf(c))'
    <3>1. ASSUME pc'[c] = "post" PROVE WEL
      <4>1. RequestOf(c).kind = "wren"
        BY <1>mine, <3>1 DEF RequestOf, Kind
      <4> QED BY <1>at, <4>1 DEF CarriedOut
    <3> QED BY <1>kept, <3>1 DEF MayWrite
  <2> QED BY <1>others, <1>alone, <1>mine, <1>rest, <2>1 DEF CalmCalls, Inside
<1>3. CalmService'
  BY <1>same, <1>kept, SameService DEF Calm
<1>4. CalmAnswers'
  <2>1. ASSUME pc'[c] = "idle", isWrite[c]
        PROVE  [caller |-> c, call |-> calls[c], kind |-> "write"] \in stored
    <3>1. RequestOf(c) = [caller |-> c, call |-> calls[c], kind |-> "write"]
      BY <1>mine, <2>1 DEF RequestOf, Kind
    <3> QED BY <1>at, <3>1 DEF CarriedOut
  <2>2. ret'[c] \in {"none", "OK"}
    BY <1>mine DEF Calm, CalmAnswers
  <2>3. ASSUME NEW d \in Callers, d # c
        PROVE  /\ ret'[d] \in {"none", "OK"}
               /\ pc'[d] = "idle" /\ ret'[d] = "OK" /\ isWrite[d] =>
                      [caller |-> d, call |-> calls[d], kind |-> "write"] \in stored
    BY <1>others, <2>3 DEF Calm, CalmAnswers
  <2> QED BY <1>same, <1>kept, <2>1, <2>2, <2>3 DEF CalmAnswers
<1> QED BY <1>1, <1>2, <1>3, <1>4 DEF Calm

(* transact_timed_out keeps the service calm.                              *)
LEMMA Calm_transact_timed_out ==
    ASSUME NEW c \in Callers, AtLeastTwo, Types, Calm, transact_timed_out(c)
    PROVE  Calm'
<1>1. pc[c] = "pend" /\ framTimer[c] = 0 /\ framTimer[c] >= FramTimeout - Straddle
  BY DEF transact_timed_out, Calm, CalmCalls
<1>2. Straddle \in {0, 1}
  BY DEF Straddle
<1> QED BY <1>1, <1>2, FramTimeoutAssumption DEF AtLeastTwo

(* spi_mailbox_pend keeps the service calm.                                *)
LEMMA Calm_spi_mailbox_pend ==
    ASSUME AtLeastTwo, Types, Calm, spi_mailbox_pend
    PROVE  Calm'
<1> USE NoOneAssumption
    DEF spi_mailbox_pend, framVars, kernelVars, spiVars, chipVars
<1>owner. PICK d \in Callers :
              /\ pc[d] \in {"sem", "pend"} /\ UnderWay(d) /\ fm25w256_mutex = d
              /\ \A e \in Callers : e # d => pc[e] \notin Inside
  BY CalmOwner
<1>taken. /\ mbx_spi = <<RequestOf(d)>> /\ spi_transaction_request' = RequestOf(d)
          /\ mbx_spi' = <<>> /\ RequestOf(d)' = RequestOf(d)
  <2>1. mbx_spi = <<RequestOf(d)>>
    BY <1>owner DEF UnderWay
  <2>2. Head(mbx_spi) = RequestOf(d) /\ Tail(mbx_spi) = <<>>
    BY <2>1
  <2> QED BY <2>1, <2>2, CalmRequest
<1>1. Gate'
  BY DEF Calm, Gate, Inside, Types, FramTypes, KernelTypes
<1>2. CalmCalls'
  <2>1. UnderWay(d)'
    BY <1>owner, <1>taken DEF UnderWay
  <2> QED BY <1>owner, <1>taken, <2>1 DEF Calm, CalmCalls, Inside, Straddle
<1>3. CalmService'
  <2>1. MayWrite(spi_transaction_request)'
    BY <1>taken DEF Calm, CalmService, MayWrite
  <2> QED BY <1>taken, <2>1 DEF Calm, CalmService
<1>4. CalmAnswers'
  BY DEF Calm, CalmAnswers, Types, FramTypes, ArgumentTypes
<1> QED BY <1>1, <1>2, <1>3, <1>4 DEF Calm

(* spi_setup_dma keeps the service calm.                                   *)
LEMMA Calm_spi_setup_dma ==
    ASSUME AtLeastTwo, Types, Calm, spi_setup_dma
    PROVE  Calm'
<1> USE NoOneAssumption
    DEF spi_setup_dma, framVars, kernelVars, spiVars, chipVars
<1>1. Gate'
  BY DEF Calm, Gate, Inside, Types, FramTypes, KernelTypes
<1>2. CalmCalls'
  BY DEF Calm, CalmCalls, Gate, Inside, AtRest, UnderWay, Answered, CarriedOut, MayWrite,
         RequestOf, Kind, Straddle, Types, FramTypes, ArgumentTypes, KernelTypes, SpiTypes
<1>3. CalmService'
  BY DEF Calm, CalmService, CalmTransfer, CarriedOut, MayWrite, Straddle, Both,
         Types, ArgumentTypes, KernelTypes, SpiTypes, ChipTypes, Request
<1>4. CalmAnswers'
  BY DEF Calm, CalmAnswers, Types, FramTypes, ArgumentTypes
<1> QED BY <1>1, <1>2, <1>3, <1>4 DEF Calm

(* spi_clear_events keeps the service calm.                                *)
LEMMA Calm_spi_clear_events ==
    ASSUME AtLeastTwo, Types, Calm, spi_clear_events
    PROVE  Calm'
<1> USE NoOneAssumption
    DEF spi_clear_events, framVars, kernelVars, spiVars, chipVars
<1>1. Gate'
  BY DEF Calm, Gate, Inside, Types, FramTypes, KernelTypes
<1>2. CalmCalls'
  BY DEF Calm, CalmCalls, Gate, Inside, AtRest, UnderWay, Answered, CarriedOut, MayWrite,
         RequestOf, Kind, Straddle, Types, FramTypes, ArgumentTypes, KernelTypes, SpiTypes
<1>3. CalmService'
  BY DEF Calm, CalmService, CalmTransfer, CarriedOut, MayWrite, Straddle, Both,
         Types, ArgumentTypes, KernelTypes, SpiTypes, ChipTypes, Request
<1>4. CalmAnswers'
  BY DEF Calm, CalmAnswers, Types, FramTypes, ArgumentTypes
<1> QED BY <1>1, <1>2, <1>3, <1>4 DEF Calm

(* spi_run keeps the service calm.                                         *)
LEMMA Calm_spi_run ==
    ASSUME AtLeastTwo, Types, Calm, spi_run
    PROVE  Calm'
<1> USE NoOneAssumption
    DEF spi_run, CS_select, framVars, kernelVars, spiVars, chipVars
<1>1. Gate'
  BY DEF Calm, Gate, Inside, Types, FramTypes, KernelTypes
<1>2. CalmCalls'
  BY DEF Calm, CalmCalls, Gate, Inside, AtRest, UnderWay, Answered, CarriedOut, MayWrite,
         RequestOf, Kind, Straddle, Types, FramTypes, ArgumentTypes, KernelTypes, SpiTypes
<1>3. CalmService'
  <2>1. /\ dmaRequest = spi_transaction_request /\ spi_evt = {} /\ clocked = <<>>
        /\ MayWrite(spi_transaction_request) /\ mbx_spi = mbx_spi'
    BY DEF Calm, CalmService
  <2>2. CalmTransfer'
    BY <2>1 DEF CalmTransfer, MayWrite
  <2>3. SpiTimeout >= SpiTimeout - Straddle'
    <3>1. Straddle' = 0 \/ Straddle' = 1
      BY DEF Straddle
    <3> QED BY ONLY <3>1, SpiTimeoutAssumption
  <2> QED BY <2>1, <2>2, <2>3 DEF Calm, CalmService, MayWrite
<1>4. CalmAnswers'
  BY DEF Calm, CalmAnswers, Types, FramTypes, ArgumentTypes
<1> QED BY <1>1, <1>2, <1>3, <1>4 DEF Calm

(* spi_event_pend keeps the service calm.                                  *)
LEMMA Calm_spi_event_pend ==
    ASSUME AtLeastTwo, Types, Calm, spi_event_pend
    PROVE  Calm'
<1> USE NoOneAssumption
    DEF spi_event_pend, framVars, kernelVars, spiVars, chipVars
<1>1. Gate'
  BY DEF Calm, Gate, Inside, Types, FramTypes, KernelTypes
<1>2. CalmCalls'
  BY DEF Calm, CalmCalls, Gate, Inside, AtRest, UnderWay, Answered, CarriedOut, MayWrite,
         RequestOf, Kind, Straddle, Types, FramTypes, ArgumentTypes, KernelTypes, SpiTypes
<1>3. CalmService'
  BY DEF Calm, CalmService, CalmTransfer, CarriedOut, MayWrite, Straddle, Both,
         Types, ArgumentTypes, KernelTypes, SpiTypes, ChipTypes, Request
<1>4. CalmAnswers'
  BY DEF Calm, CalmAnswers, Types, FramTypes, ArgumentTypes
<1> QED BY <1>1, <1>2, <1>3, <1>4 DEF Calm

(* spi_write_status keeps the service calm.                                *)
LEMMA Calm_spi_write_status ==
    ASSUME AtLeastTwo, Types, Calm, spi_write_status
    PROVE  Calm'
<1> USE NoOneAssumption
    DEF spi_write_status, framVars, kernelVars, spiVars, chipVars
<1>1. Gate'
  BY DEF Calm, Gate, Inside, Types, FramTypes, KernelTypes
<1>2. CalmCalls'
  BY DEF Calm, CalmCalls, Gate, Inside, AtRest, UnderWay, Answered, CarriedOut, MayWrite,
         RequestOf, Kind, Straddle, Types, FramTypes, ArgumentTypes, KernelTypes, SpiTypes
<1>3. CalmService'
  BY DEF Calm, CalmService, CalmTransfer, CarriedOut, MayWrite, Straddle, Both,
         Types, ArgumentTypes, KernelTypes, SpiTypes, ChipTypes, Request
<1>4. CalmAnswers'
  BY DEF Calm, CalmAnswers, Types, FramTypes, ArgumentTypes
<1> QED BY <1>1, <1>2, <1>3, <1>4 DEF Calm

(* spi_post_requestor keeps the service calm.                              *)
LEMMA Calm_spi_post_requestor ==
    ASSUME AtLeastTwo, Types, Calm, spi_post_requestor
    PROVE  Calm'
<1>at. spiPc = "post" /\ spiPc' = "mailbox"
  BY DEF spi_post_requestor
<1>owner. PICK d \in Callers :
              /\ pc[d] \in {"sem", "pend"} /\ UnderWay(d) /\ fm25w256_mutex = d
              /\ \A e \in Callers : e # d => pc[e] \notin Inside
  BY <1>at, CalmOwner
<1>served. mbx_spi = <<>> /\ sem_sync = 0 /\ spi_transaction_request = RequestOf(d)
  BY <1>at, <1>owner DEF UnderWay
<1>kept. UNCHANGED <<calls, isWrite, phase, ret, bResult, fm25w256_mutex, mbx_spi, dma, clocked,
         WEL, stored>>
  BY DEF spi_post_requestor, chipVars
<1>answered. Answered(d)'
  <2>1. bResult[d] /\ CarriedOut(RequestOf(d))
    BY <1>at, <1>served DEF Calm, CalmService, RequestOf
  <2> QED BY <1>kept, <2>1, CalmRequest DEF Answered, CarriedOut
<1>timer. pc[d] = "pend" => Pending(d)
  <2>1. Straddle \in {0, 1} /\ framTimer[d] \in 0..FramTimeout
    BY DEF Straddle, Types, FramTypes
  <2>2. pc[d] = "pend" => framTimer[d] >= FramTimeout - Straddle
    BY DEF Calm, CalmCalls
  <2> QED BY <2>1, <2>2, FramTimeoutAssumption DEF AtLeastTwo, Pending
<1>then. \/ pc[d] = "pend" /\ pc' = [pc EXCEPT ![d] = "got"] /\ sem_sync' = 0
         \/ pc[d] = "sem" /\ pc' = pc /\ sem_sync' = 1
  BY <1>owner, <1>served, <1>timer DEF spi_post_requestor, Pending, Inside
<1>pcs. /\ \A e \in Callers : e # d => pc'[e] \notin Inside /\ pc'[e] = pc[e]
        /\ (pc'[d] = "got" /\ sem_sync' = 0) \/ (pc'[d] = "sem" /\ sem_sync' = 1)
  BY <1>then, <1>owner DEF Types, FramTypes
<1>1. Gate'
  BY <1>owner, <1>kept, <1>pcs DEF Gate, Inside
<1>2. CalmCalls'
  <2>1. phase[d] = "wren" => isWrite[d]
    BY <1>owner DEF Calm, CalmCalls, Inside
  <2>2. pc'[d] = "got" => AtRest'
    BY <1>at, <1>served, <1>kept, <1>pcs DEF AtRest
  <2> QED BY <1>at, <1>owner, <1>served, <1>kept, <1>answered, <1>pcs, <2>1, <2>2, NoOneAssumption
             DEF CalmCalls, Inside
<1>3. CalmService'
  BY <1>at, <1>served, <1>kept DEF Calm, CalmService
<1>4. CalmAnswers'
  BY <1>owner, <1>kept, <1>pcs DEF Calm, CalmAnswers
<1> QED BY <1>1, <1>2, <1>3, <1>4 DEF Calm

(* spi_tx_dma_hwi_handler keeps the service calm.                          *)
LEMMA Calm_spi_tx_dma_hwi_handler ==
    ASSUME AtLeastTwo, Types, Calm, spi_tx_dma_hwi_handler
    PROVE  Calm'
<1> USE NoOneAssumption
    DEF spi_tx_dma_hwi_handler, framVars, kernelVars, spiVars, chipVars
<1>1. Gate'
  BY DEF Calm, Gate, Inside, Types, FramTypes, KernelTypes
<1>2. CalmCalls'
  BY DEF Calm, CalmCalls, Gate, Inside, AtRest, UnderWay, Answered, CarriedOut, MayWrite,
         RequestOf, Kind, Straddle, Types, FramTypes, ArgumentTypes, KernelTypes, SpiTypes
<1>3. CalmService'
  <2>1. /\ spiPc = "wait" /\ spi_evt = {} /\ clocked = <<>> /\ MayWrite(dmaRequest)
        /\ dmaRequest = spi_transaction_request /\ spiTimer >= SpiTimeout - Straddle
    BY DEF Calm, CalmService, CalmTransfer
  <2>2. clocked' = <<dmaRequest>> /\ spi_evt' = {"tx"}
    BY <2>1
  <2>3. CalmTransfer'
    BY <2>1, <2>2 DEF CalmTransfer, MayWrite
  <2> QED BY <2>1, <2>3 DEF Calm, CalmService, MayWrite, Straddle
<1>4. CalmAnswers'
  BY DEF Calm, CalmAnswers, Types, FramTypes, ArgumentTypes
<1> QED BY <1>1, <1>2, <1>3, <1>4 DEF Calm

(* spi_rx_dma_hwi_handler keeps the service calm.                          *)
LEMMA Calm_spi_rx_dma_hwi_handler ==
    ASSUME AtLeastTwo, Types, Calm, spi_rx_dma_hwi_handler
    PROVE  Calm'
<1> USE NoOneAssumption
    DEF spi_rx_dma_hwi_handler, CS_deselect, framVars, kernelVars, spiVars, chipVars
<1>wait. /\ spiPc = "wait" /\ spi_evt = {"tx"} /\ clocked = <<dmaRequest>> /\ MayWrite(dmaRequest)
         /\ dmaRequest = spi_transaction_request /\ spiTimer >= SpiTimeout - Straddle
  BY DEF Calm, CalmService, CalmTransfer
<1>owner. PICK d \in Callers :
              /\ pc[d] \in {"sem", "pend"} /\ UnderWay(d) /\ fm25w256_mutex = d
              /\ \A e \in Callers : e # d => pc[e] \notin Inside
  BY <1>wait, CalmOwner
<1>head. clocked # <<>> /\ Head(clocked) = dmaRequest
  BY <1>wait
<1>done. CarriedOut(dmaRequest)' /\ stored \subseteq stored'
  BY <1>wait, <1>head DEF CarriedOut, MayWrite
<1>1. Gate'
  BY DEF Calm, Gate, Inside, Types, FramTypes, KernelTypes
<1>2. CalmCalls'
  <2>1. UnderWay(d)' /\ (pc[d] = "pend" => framTimer[d] >= FramTimeout - Straddle)
    <3>1. RequestOf(d)' = RequestOf(d)
      BY CalmRequest
    <3> QED BY <1>owner, <3>1 DEF UnderWay, Calm, CalmCalls
  <2>2. (phase[d] = "wren" => isWrite[d]) /\ fm25w256_mutex # NoOne
    BY <1>owner DEF Calm, CalmCalls, Inside
  <2> QED BY <1>owner, <2>1, <2>2 DEF CalmCalls, Inside, Straddle
<1>3. CalmService'
  <2>1. spi_evt' = Both /\ clocked' = <<>> /\ dma' = "off"
    BY <1>wait DEF Both
  <2>2. CalmTransfer'
    BY <1>done, <2>1 DEF CalmTransfer
  <2>3. mbx_spi = <<>>
    BY <1>wait, <1>owner DEF UnderWay
  <2> QED BY <1>wait, <2>2, <2>3 DEF CalmService, Straddle
<1>4. CalmAnswers'
  BY <1>done DEF Calm, CalmAnswers
<1> QED BY <1>1, <1>2, <1>3, <1>4 DEF Calm

(* A tick that stalls nothing keeps the service calm: if it finds          *)
(* everybody waiting no request is under way, and otherwise it is the one  *)
(* that can fall into the work under way.                                  *)
LEMMA Calm_Tick ==
    ASSUME AtLeastTwo, Types, Calm, Tick, ~stalled'
    PROVE  Calm'
<1>kept. UNCHANGED <<pc, calls, isWrite, phase, ret, bResult, fm25w256_mutex, sem_sync, mbx_spi,
         spi_evt, spi_transaction_request, posted, dma, dmaRequest, clocked, WEL, stored>>
  BY DEF Tick, kernelVars, chipVars
<1>types. /\ Straddle \in {0, 1} /\ Straddle' \in {0, 1}
          /\ spiTimer \in 0..SpiTimeout /\ \A c \in Callers : framTimer[c] \in 0..FramTimeout
  BY DEF Straddle, Types, FramTypes, SpiTypes
<1>waiting. spiPc = "wait" => spi_evt = Both \/ dma # "off"
  BY DEF Calm, CalmService, CalmTransfer
<1>quiet. Quiet => mbx_spi = <<>> /\ spiPc = "mailbox"
  BY <1>waiting DEF Tick, Quiet, SpiWaits, Both
<1>first. ~Quiet => Straddle = 0 /\ Straddle' = 1
  BY DEF Tick, Straddle
<1>spi. \/ UNCHANGED <<spiTimer, spiPc>> /\ (spiPc = "wait" => Straddle' >= Straddle)
        \/ spiPc = "wait" /\ spiPc' = "wait" /\ spiTimer' = spiTimer - 1 /\ ~Quiet
  <2>1. CASE spiPc = "wait" /\ spiTimer > 0 /\ spi_evt # Both
    <3>1. ~Quiet
      BY <1>quiet, <2>1
    <3>2. spiTimer >= SpiTimeout - Straddle
      BY <2>1 DEF Calm, CalmService
    <3>3. spiTimer # 1
      BY <1>first, <1>types, <3>1, <3>2, SpiTimeoutAssumption DEF AtLeastTwo
    <3> QED BY <2>1, <3>1, <3>3 DEF Tick, Both
  <2>2. CASE ~(spiPc = "wait" /\ spiTimer > 0 /\ spi_evt # Both)
    <3>1. UNCHANGED <<spiTimer, spiPc>>
      BY <2>2 DEF Tick, Both
    <3>2. spiPc = "wait" => Straddle' >= Straddle
      BY <1>first, <1>quiet, <1>types
    <3> QED BY <3>1, <3>2
  <2> QED BY <2>1, <2>2
<1>1. Gate'
  BY <1>kept DEF Calm, Gate
<1>2. CalmCalls'
  <2>1. spiPc' = spiPc
    BY <1>spi
  <2>2. ASSUME NEW c \in Callers
        PROVE  /\ RequestOf(c)' = RequestOf(c)
               /\ UnderWay(c) => UnderWay(c)'
               /\ AtRest => AtRest'
               /\ Answered(c) => Answered(c)'
               /\ MayWrite(RequestOf(c)) => MayWrite(RequestOf(c))'
    BY <1>kept, <2>1, CalmRequest DEF UnderWay, AtRest, Answered, CarriedOut, MayWrite
  <2>3. ASSUME NEW c \in Callers, pc[c] = "pend"
        PROVE  framTimer'[c] >= FramTimeout - Straddle'
    <3>1. UnderWay(c) /\ framTimer[c] >= FramTimeout - Straddle
      BY <2>3 DEF Calm, CalmCalls
    <3>2. mbx_spi # <<>> \/ spiPc # "mailbox"
      <4>1. mbx_spi = <<RequestOf(c)>> => mbx_spi # <<>>
        <5>1. Len(<<RequestOf(c)>>) = 1 /\ Len(<<>>) = 0
          OBVIOUS
        <5> QED BY <5>1
      <4> QED BY <3>1, <4>1 DEF UnderWay
    <3>3. ~Quiet
      BY <1>quiet, <3>2
    <3>4. framTimer'[c] \in {framTimer[c], framTimer[c] - 1}
      BY DEF Tick
    <3>5. framTimer[c] >= FramTimeout /\ Straddle' = 1
      BY <1>first, <3>1, <3>3, FramTimeoutAssumption
    <3> QED BY <1>types, <3>4, <3>5, FramTimeoutAssumption
  <2>4. ASSUME NEW c \in Callers
        PROVE  (/\ pc[c] = "post" => AtRest /\ MayWrite(RequestOf(c))
                /\ pc[c] = "sem" => \/ UnderWay(c)
                                    \/ /\ mbx_spi = <<>> /\ spiPc = "mailbox" /\ sem_sync = 1
                                       /\ Answered(c)
                /\ pc[c] = "pend" => UnderWay(c)
                /\ pc[c] = "got" => AtRest /\ Answered(c)
                /\ pc[c] \in Inside /\ phase[c] = "wren" => isWrite[c])'
    BY <1>kept, <2>1, <2>2 DEF Calm, CalmCalls
  <2>5. (fm25w256_mutex = NoOne => AtRest)'
    BY <1>kept, <2>1 DEF Calm, CalmCalls, AtRest
  <2> QED BY <1>kept, <2>3, <2>4, <2>5 DEF CalmCalls
<1>3. CalmService'
  <2>1. spiPc' = spiPc
    BY <1>spi
  <2>2. spiPc = "wait" => spiTimer' >= SpiTimeout - Straddle'
    <3>1. spiPc = "wait" => spiTimer >= SpiTimeout - Straddle
      BY DEF Calm, CalmService
    <3> QED BY <1>first, <1>spi, <1>types, <3>1, SpiTimeoutAssumption
  <2>3. CalmTransfer => CalmTransfer'
    BY <1>kept DEF CalmTransfer, MayWrite, CarriedOut
  <2> QED BY <1>kept, <2>1, <2>2, <2>3 DEF Calm, CalmService, MayWrite, CarriedOut
<1>4. CalmAnswers'
  BY <1>kept DEF Calm, CalmAnswers
<1> QED BY <1>1, <1>2, <1>3, <1>4 DEF Calm

(* Until a transfer stalls the service is calm.                            *)
LEMMA CalmStep ==
    ASSUME AtLeastTwo, Types, ~stalled => Calm, [Next]_vars
    PROVE  ~stalled' => Calm'
<1> SUFFICES ASSUME ~stalled' PROVE Calm'
  OBVIOUS
<1>1. CASE Tick
  <2>1. ~stalled
    BY <1>1 DEF Tick
  <2> QED BY <1>1, <2>1, Calm_Tick
<1>2. CASE UNCHANGED vars
  <2>1. UNCHANGED <<framVars, bResult, kernelVars, spiVars, dma, dmaRequest, chipVars, straddled,
                    stalled>>
    BY <1>2 DEF vars
  <2> USE <2>1 DEF framVars, kernelVars, spiVars, chipVars
  <2>2. Calm
    OBVIOUS
  <2>3. Gate' /\ CalmCalls'
    BY <2>2 DEF Calm, Gate, CalmCalls, AtRest, UnderWay, Answered, CarriedOut, MayWrite,
               RequestOf, Kind, Straddle
  <2>4. CalmService'
    BY <2>2, SameService DEF Calm
  <2>5. CalmAnswers'
    BY <2>2 DEF Calm, CalmAnswers
  <2> QED BY <2>3, <2>4, <2>5 DEF Calm
<1>3. CASE \E c \in Callers, write \in BOOLEAN : transact_begin(c, write)
  <2>1. PICK c \in Callers, write \in BOOLEAN : transact_begin(c, write)
    BY <1>3
  <2>2. ~stalled
    BY <2>1 DEF transact_begin, othersOfCall
  <2> QED BY <2>1, <2>2, Calm_transact_begin
<1>4. CASE \E c \in Callers : FM25W256_transact(c)
  <2>1. PICK c \in Callers : FM25W256_transact(c)
    BY <1>4
  <2>2. ~stalled
    BY <2>1 DEF FM25W256_transact, transact_enter, SPI_transact, transact_pend, transact_got,
               transact_timed_out, othersOfCall
  <2> QED BY <2>1, <2>2, Calm_transact_enter, Calm_SPI_transact, Calm_transact_pend,
             Calm_transact_got, Calm_transact_timed_out DEF FM25W256_transact
<1>5. CASE tsk_spi_dma
  <2>1. ~stalled
    BY <1>5 DEF tsk_spi_dma, spi_mailbox_pend, spi_setup_dma, spi_clear_events, spi_run,
               spi_event_pend, spi_write_status, spi_post_requestor
  <2> QED BY <1>5, <2>1, Calm_spi_mailbox_pend, Calm_spi_setup_dma, Calm_spi_clear_events,
             Calm_spi_run, Calm_spi_event_pend, Calm_spi_write_status, Calm_spi_post_requestor
             DEF tsk_spi_dma
<1>6. CASE spi_tx_dma_hwi_handler \/ spi_rx_dma_hwi_handler
  <2>1. ~stalled
    BY <1>6 DEF spi_tx_dma_hwi_handler, spi_rx_dma_hwi_handler
  <2> QED BY <1>6, <2>1, Calm_spi_tx_dma_hwi_handler, Calm_spi_rx_dma_hwi_handler
<1> QED BY <1>1, <1>2, <1>3, <1>4, <1>5, <1>6 DEF Next

LEMMA CalmStart == Init => Calm
<1> SUFFICES ASSUME Init PROVE Calm
  OBVIOUS
<1>1. Gate /\ CalmCalls
  BY DEF Init, Gate, CalmCalls, Inside, AtRest
<1>2. CalmService /\ CalmAnswers
  BY DEF Init, CalmService, CalmAnswers
<1> QED BY <1>1, <1>2 DEF Calm

LEMMA CalmInvariant ==
    ASSUME AtLeastTwo
    PROVE  Spec => [](Types /\ (~stalled => Calm))
<1>1. Init => Types /\ (~stalled => Calm)
  BY TypesStart, CalmStart
<1>2. Types /\ (~stalled => Calm) /\ [Next]_vars => (Types /\ (~stalled => Calm))'
  BY TypesStep, CalmStep
<1> QED BY <1>1, <1>2, PTL DEF Spec

(* With timeouts of two ticks or more, equal ones as shipped among them:   *)
(* until a transfer stalls, FM25W256_OK of a write means that the chip has *)
(* carried it out, its write enable before it.                             *)
THEOREM WriteOkMeansStoredHolds ==
    ASSUME AtLeastTwo
    PROVE  Spec => []WriteOkMeansStored
<1>1. (~stalled => Calm) => WriteOkMeansStored
  BY DEF Calm, CalmAnswers, WriteOkMeansStored
<1> QED BY <1>1, CalmInvariant, PTL

(* ... and every call succeeds: no tick, whenever it falls, times out a    *)
(* transfer that is under way, in FM25W256_transact or in tsk_spi_dma.     *)
THEOREM NoFalseAlarmHolds ==
    ASSUME AtLeastTwo
    PROVE  Spec => []NoFalseAlarm
<1>1. (~stalled => Calm) => NoFalseAlarm
  BY DEF Calm, CalmAnswers, NoFalseAlarm
<1> QED BY <1>1, CalmInvariant, PTL

(* ... and the DMA channels touch the buffer of a caller only while the    *)
(* call that passed it goes on.                                            *)
THEOREM DmaEndsInTheCallHolds ==
    ASSUME AtLeastTwo
    PROVE  Spec => []DmaEndsInTheCall
<1>1. Types /\ (~stalled => Calm) => DmaEndsInTheCall
  <2> SUFFICES ASSUME Types, Calm, dma # "off" PROVE InProgress(dmaRequest)
    BY DEF DmaEndsInTheCall
  <2>1. spiPc = "wait" /\ dmaRequest = spi_transaction_request
    BY DEF Calm, CalmService
  <2>2. PICK d \in Callers : pc[d] \in {"sem", "pend"} /\ UnderWay(d)
    BY <2>1, CalmOwner
  <2>3. dmaRequest = RequestOf(d)
    BY <2>1, <2>2 DEF UnderWay
  <2> QED BY <2>2, <2>3 DEF InProgress, RequestOf
<1> QED BY <1>1, CalmInvariant, PTL

==============================================================================
