-------------------------------- MODULE Ymodem --------------------------------
(***************************************************************************)
(* Two boards with this firmware, one told to send a file and the other to *)
(* receive it, over a line that damages a few messages.  Each has a file   *)
(* system of its own.  Either command can be given first, late, or after   *)
(* the other end has given up.                                             *)
(***************************************************************************)
EXTENDS YmodemLine, LfsGlue, Checksums

CONSTANTS
    MaxErrors, PacketErrors, MaxSize, Polls, Tries, Patient,
    Sizes,      \* sizes of the file to send
    OldSizes    \* sizes of what the receiver has under the same name

ASSUME ReceiveAssumption == MaxErrors \in Nat /\ PacketErrors \in Nat /\ MaxSize \in Nat
ASSUME TransmitAssumption == Polls \in Nat /\ Tries \in Nat \ {0}
ASSUME PatientAssumption == Patient \in BOOLEAN
ASSUME SizesAssumption == Sizes \subseteq Nat /\ OldSizes \subseteq Nat
(* A packet's number is one byte, and 0 is the first packet's: a file has  *)
(* fewer packets than that counts, 16384 / 1024 of them as the command     *)
(* calls for it (cmd_ymodem.c:25).                                         *)
ASSUME NumbersAssumption == MaxSize <= 254 * PACKET_1K_SIZE

VARIABLES
    toRx, toTx, faults,
    rxPc, out, errors, eof_cnt, packets_received, file_len, rxSize, rxFs,
    txPc, err, waited, blkNumber, txSize, packet_data, txFs, ret,
    file        \* the file to send

rxOwn == <<rxPc, out, errors, eof_cnt, packets_received, file_len, rxSize, rxFs>>
txOwn == <<txPc, err, waited, blkNumber, txSize, packet_data, txFs, ret>>
vars == <<toRx, toTx, faults, rxOwn, txOwn, file>>

rxRunning == rxPc \notin {"off", "done"}
txRunning == txPc \notin {"off", "done"}
rxSilent == ~rxRunning \/ (rxPc = "packet" /\ toRx = <<>>)
txSilent ==
    ~txRunning \/ (txPc \notin {"poll", "open", "prepare", "name", "block", "eot", "last"}
                   /\ toTx = <<>>)

R == INSTANCE YmodemReceive
        WITH pc <- rxPc, size <- rxSize, fs <- rxFs, txOn <- txRunning, txQuiet <- txSilent
T == INSTANCE YmodemTransmit
        WITH pc <- txPc, size <- txSize, fs <- txFs, rxOn <- rxRunning, rxQuiet <- rxSilent

Init ==
    /\ toRx = <<>> /\ toTx = <<>> /\ faults = 0
    /\ R!Init /\ T!Init
    /\ \E n \in Sizes, m \in OldSizes :
          /\ file = [k \in 1..n |-> k]
          /\ txFs = NewVolume([k \in 1..n |-> k])
          /\ rxFs = NewVolume([k \in 1..m |-> -k])

rxStep == R!Next /\ UNCHANGED <<txOwn, file>>
txStep == T!Next /\ UNCHANGED <<rxOwn, file>>

Next == rxStep \/ txStep

Spec == Init /\ [][Next]_vars

(* The console tasks run and both commands are given.                      *)
FairSpec == Spec /\ WF_vars(rxStep) /\ WF_vars(txStep)

------------------------------------------------------------------------------
(* cmd_ymodem.c: what the two commands print.                              *)
ReportsReceived == rxPc = "done" /\ rxSize > 0
ReportsSent == txPc = "done" /\ ret >= 0

(* The file is in the receiver's volume, or will be when it is closed.     *)
Stored ==
    LET contents == IF rxFs.bFileIsOpen THEN SubSeq(rxFs.cache, 1, rxFs.pos) ELSE rxFs.stored
    IN  IsPrefix(file, contents)

(* ymodem.c:801, "file transmitted successfully", means it: the receiver   *)
(* has all of the file, even if its own command is still running.          *)
SentMeansReceived == txPc = "done" /\ ret = 0 => Stored

(* "... bytes received" (cmd_ymodem.c:31) means that all of the file is    *)
(* stored: no loss on the line ends the session as a success too early.    *)
ReceivedMeansStored == ReportsReceived => rxSize = Len(file) /\ Stored

BytesOf(packet) ==
    Sealed(Bits(packet.seq), [k \in DOMAIN packet.data |-> Bits(packet.data[k])])

(* YmodemLine's sound is what crc16 and the packet number make of the      *)
(* bytes, when a unit is a byte: a packet on the line as it was sent       *)
(* passes the tests of the receiver; with one bit of it changed, or all    *)
(* eight of a byte, it does not (ymodem.c:272-279, :510-512, :561-563).    *)
DamageIsNoticed ==
    \A n \in {n \in DOMAIN toRx : IsPacket(toRx[n])} :
        LET bytes == BytesOf(toRx[n])
        IN  IF toRx[n].sound
            THEN Passes(bytes)
            ELSE \A k \in DOMAIN bytes, bits \in {{b} : b \in 0..7} \cup {0..7} :
                    ~Passes([bytes EXCEPT ![k] = SymDiff(@, bits)])

(* Both commands come to an end: no pair of waits, resends and polls of    *)
(* the two ends keeps them going (ymodem.c:315, :568, :628, :702).         *)
BothEnd == <>(rxPc = "done") /\ <>(txPc = "done")

(* "... bytes sent" (cmd_ymodem.c:70) is printed when the file was sent.   *)
ReportedSentIsStored == ReportsSent => Stored
==============================================================================
