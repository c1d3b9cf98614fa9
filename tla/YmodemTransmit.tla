---------------------------- MODULE YmodemTransmit ----------------------------
(***************************************************************************)
(* Ymodem_Transmit of filesystem/ymodem/ymodem.c, with Ymodem_WaitResponse *)
(* and the functions that prepare packets.  The receiver is another module:*)
(* this one reads toTx, sends into toRx, and is told whether the receiver  *)
(* listens (rxOn) and whether it has nothing to say for now (rxQuiet).     *)
(*                                                                         *)
(* A step sends one message, or takes one answer (or times out) and acts   *)
(* on it: the calls into the file system are part of that one step.        *)
(***************************************************************************)
EXTENDS YmodemLine, LfsGlue

CONSTANTS
    Polls,      \* the literal 45 of the wait for the receiver
    Tries,      \* tmo, 10 in every call of Ymodem_WaitResponse
    Patient     \* a timeout means that the receiver is silent

VARIABLES
    toRx, toTx, \* the line, in each direction
    faults,     \* messages damaged so far
    rxOn,       \* the receiver is running: what is said to it is not lost
    rxQuiet,    \* the receiver waits for a packet, or is not running
    pc,
    err,        \* polls without an answer
    waited,     \* errors of Ymodem_WaitResponse
    blkNumber,
    size,       \* units of the file that are not acknowledged
    packet_data,\* the data of the packet in the buffer
    fs,         \* the file system of this board
    ret         \* what Ymodem_Transmit returns

vars == <<toRx, toTx, faults, pc, err, waited, blkNumber, size, packet_data, fs, ret>>

Init ==
    /\ pc = "off"
    /\ err = 0 /\ waited = 0 /\ blkNumber = 0 /\ size = 0
    /\ packet_data = <<>>
    /\ ret = 0

(* The command is given. *)
Start ==
    /\ pc = "off"
    /\ pc' = "poll"
    /\ UNCHANGED <<toRx, toTx, faults, err, waited, blkNumber, size, packet_data, fs, ret>>

Say(message) ==
    \E a \in Arrivals(message) :
        /\ toRx' = IF rxOn THEN toRx \o a[1] ELSE toRx
        /\ faults' = faults + a[2] /\ faults' <= MaxFaults

Return(code, volume) ==
    /\ pc' = "done"
    /\ ret' = code
    /\ fs' = volume
    /\ UNCHANGED <<blkNumber, size, packet_data>>

Silence == toTx = <<>> /\ (Patient => rxQuiet)

------------------------------------------------------------------------------
(* The wait for the receiver: C is sent to it until it answers.            *)
Poll ==
    /\ pc = "poll"
    /\ Say(Controls(<<CRC16>>))
    /\ pc' = "pollWait"
    /\ UNCHANGED <<toTx, err, waited, blkNumber, size, packet_data, fs, ret>>

PollTimeout ==
    /\ pc = "pollWait"
    /\ Silence
    /\ err' = err + 1
    /\ IF err < Polls
       THEN pc' = "poll" /\ UNCHANGED <<toRx, faults, blkNumber, size, packet_data, fs, ret>>
       ELSE Say(Controls(<<CA, CA>>)) /\ Return(-1, fs)
    /\ UNCHANGED <<toTx, waited>>

PollAnswer ==
    /\ pc = "pollWait"
    /\ toTx # <<>>
    /\ toTx' = Tail(toTx)
    /\ IF err >= Polls \/ toTx[1].ch # CRC16
       THEN Say(Controls(<<CA, CA>>)) /\ Return(-1, fs)
       ELSE pc' = "open" /\ UNCHANGED <<toRx, faults, blkNumber, size, packet_data, fs, ret>>
    /\ UNCHANGED <<err, waited>>

(* A file that cannot be opened gives the volume back.                     *)
after_open_failed(volume) == lfs_c2000_umount(volume)

(* The volume is mounted, the file opened and its size taken; the first    *)
(* packet is prepared.                                                     *)
OpenFile ==
    /\ pc = "open"
    /\ \E okMount \in Outcomes("mount"), okOpen \in Outcomes("open"),
          okStat \in Outcomes("stat"), okClose \in Outcomes("close") :
          LET mount == lfs_c2000_mount(fs, okMount)
              mounted == [mount.fs EXCEPT !.pLfs = mount.ret]
              open == lfs_c2000_fopen(mounted, okOpen)
              opened == [open.fs EXCEPT !.pFile = open.ret]
          IN  CASE ~mount.ret -> Say(Controls(<<CA, CA>>)) /\ Return(-11, mounted)
                [] mount.ret /\ ~open.ret ->
                      Say(Controls(<<CA, CA>>)) /\ Return(-12, after_open_failed(opened))
                [] mount.ret /\ open.ret /\ ~okStat ->
                      Say(Controls(<<CA, CA>>)) /\ Return(-13, lfs_cleanup(opened, okClose))
                [] OTHER ->
                      /\ fs' = opened
                      /\ size' = Len(opened.stored)
                      /\ packet_data' = <<size'>>
                      /\ pc' = "name"
                      /\ UNCHANGED <<toRx, faults, blkNumber, ret>>
    /\ UNCHANGED <<toTx, err, waited>>

(* Ymodem_PreparePacket. A call of lfs_file_read that fails leaves in the  *)
(* buffer what was there, and its result, as an unsigned size, is a full   *)
(* one. A short block is filled up with zeros.                             *)
Block(data) ==
    [n \in 1..PACKET_1K_SIZE |-> IF n <= Len(data) THEN data[n] ELSE 0]

Ymodem_PreparePacket ==
    /\ pc = "prepare"
    /\ \E ok \in Outcomes("read") :
          LET read == lfs_file_read(fs, IF size < PACKET_1K_SIZE THEN size ELSE PACKET_1K_SIZE)
          IN  IF ok
              THEN fs' = read.fs /\ packet_data' = Block(read.ret)
              ELSE UNCHANGED fs /\ packet_data' = Block(packet_data)
    /\ pc' = "block"
    /\ UNCHANGED <<toRx, toTx, faults, err, waited, blkNumber, size, ret>>

------------------------------------------------------------------------------
(* Messages, and the answer each waits for.                                *)
Message ==
    [name |-> <<Packet(SOH, 0, packet_data)>>,
     block |-> <<Packet(STX, blkNumber, packet_data)>>,
     eot |-> Controls(<<EOT>>),
     last |-> <<Packet(SOH, 0, <<>>)>>]

Awaited ==
    [nameAck |-> ACK, nameC |-> CRC16, blockAck |-> ACK,
     eotAck |-> ACK, eotC |-> CRC16, lastAck |-> ACK]

AwaitedBy == [name |-> "nameAck", block |-> "blockAck", eot |-> "eotAck", last |-> "lastAck"]

Send_Packet ==
    /\ pc \in DOMAIN AwaitedBy
    /\ Say(Message[pc])
    /\ pc' = AwaitedBy[pc]
    /\ UNCHANGED <<toTx, err, waited, blkNumber, size, packet_data, fs, ret>>

(* What is returned when nothing, or the wrong byte, is the answer, and    *)
(* when it is CA.                                                          *)
FailCode ==
    [nameAck |-> -2, nameC |-> -3, blockAck |-> -4, eotAck |-> -6, eotC |-> -8, lastAck |-> -9]
AbortCode ==
    [nameAck |-> 98, nameC |-> -3, blockAck |-> -5, eotAck |-> -7, eotC |-> -8, lastAck |-> -10]

(* Mutant: any answer but CA is good enough. *)
Response_any(c) == IF c = CA THEN 2 ELSE 1

(* The answer as Ymodem_WaitResponse returns it: 0 is none.                *)
Response(c) == CASE c = Awaited[pc] -> 1 [] c = CA -> 2 [] c = NAK -> 3 [] OTHER -> 4

(* A CA is answered with CA by Ymodem_WaitResponse itself.                 *)
LastWords(response) ==
    IF response = 2 /\ pc \in {"nameC", "eotC"} THEN <<CA, CA, CA, CA>> ELSE <<CA, CA>>

Fail(code, response) ==
    /\ Say(Controls(LastWords(response)))
    /\ \E ok \in Outcomes("close") : Return(code, lfs_cleanup(fs, ok))

Left == IF size > PACKET_1K_SIZE THEN size - PACKET_1K_SIZE ELSE 0

GoOn ==
    /\ UNCHANGED <<toRx, faults, packet_data>>
    /\ CASE pc = "nameAck" -> pc' = "nameC" /\ UNCHANGED <<blkNumber, size, fs, ret>>
         [] pc = "nameC" ->
               /\ blkNumber' = 1
               /\ pc' = IF size = 0 THEN "eot" ELSE "prepare"
               /\ UNCHANGED <<size, fs, ret>>
         [] pc = "blockAck" ->
               /\ blkNumber' = blkNumber + 1
               /\ size' = Left
               /\ pc' = IF Left = 0 THEN "eot" ELSE "prepare"
               /\ UNCHANGED <<fs, ret>>
         [] pc = "eotAck" -> pc' = "eotC" /\ UNCHANGED <<blkNumber, size, fs, ret>>
         [] pc = "eotC" -> pc' = "last" /\ UNCHANGED <<blkNumber, size, fs, ret>>
         [] pc = "lastAck" ->
               /\ pc' = "done" /\ ret' = 0
               /\ \E ok \in Outcomes("close") : fs' = lfs_cleanup(fs, ok)
               /\ UNCHANGED <<blkNumber, size>>

(* Mutant: the block is prepared anew. *)
SendAgain_reads ==
    /\ pc' = IF pc = "blockAck" THEN "prepare" ELSE CHOOSE m \in DOMAIN AwaitedBy : AwaitedBy[m] = pc
    /\ UNCHANGED <<toRx, faults, blkNumber, size, packet_data, fs, ret>>

SendAgain ==
    /\ pc' = CHOOSE m \in DOMAIN AwaitedBy : AwaitedBy[m] = pc
    /\ UNCHANGED <<toRx, faults, blkNumber, size, packet_data, fs, ret>>

Resendable == {AwaitedBy[m] : m \in DOMAIN AwaitedBy}

Act(response) ==
    \/ response = 1 /\ GoOn
    \/ response = 2 /\ Fail(AbortCode[pc], 2)
    \/ response = 3 /\ pc \in Resendable /\ SendAgain
    \/ response \in {0, 4} /\ Fail(FailCode[pc], response)
    \/ response = 3 /\ pc \notin Resendable /\ Fail(FailCode[pc], response)

Answered ==
    /\ pc \in DOMAIN Awaited
    /\ toTx # <<>>
    /\ toTx' = Tail(toTx)
    /\ waited' = 0
    /\ Act(Response(toTx[1].ch))
    /\ UNCHANGED err

(* Mutant: the silences are not counted. *)
Unanswered_forever ==
    /\ pc \in DOMAIN Awaited
    /\ Silence
    /\ waited' = 1
    /\ UNCHANGED <<toRx, faults, pc, blkNumber, size, packet_data, fs, ret, toTx, err>>

Unanswered ==
    /\ pc \in DOMAIN Awaited
    /\ Silence
    /\ IF waited + 1 < Tries
       THEN /\ waited' = waited + 1
            /\ UNCHANGED <<toRx, faults, pc, blkNumber, size, packet_data, fs, ret>>
       ELSE waited' = 0 /\ Act(0)
    /\ UNCHANGED <<toTx, err>>

Next ==
    \/ Start \/ Poll \/ PollTimeout \/ PollAnswer \/ OpenFile
    \/ Ymodem_PreparePacket \/ Send_Packet \/ Answered \/ Unanswered
==============================================================================
