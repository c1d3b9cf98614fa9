------------------------------ MODULE YmodemLine ------------------------------
(***************************************************************************)
(* What the two ends of a YMODEM transfer share: the control bytes of      *)
(* ymodem.h, the packets, and the serial line between them, one queue in   *)
(* each direction.  An item of a queue is a control byte or a whole packet.*)
(*                                                                         *)
(* The line damages at most MaxFaults messages.  A control byte is lost or *)
(* becomes one of Noise.  A packet is lost (cut short, the receiver waits  *)
(* for the rest of it in vain), or fails its check, or its first byte      *)
(* becomes one of Noise and the rest of it follows as JUNK.  A packet that *)
(* passes the check is the one that was sent.                              *)
(***************************************************************************)
EXTENDS Integers, Sequences, SequencesExt

CONSTANTS
    PACKET_1K_SIZE, \* units of data in a packet of the transmitter
    MaxFaults,      \* messages the line may damage: a bound of the model
    Noise,          \* what a damaged byte may become
    FailingCalls    \* the littlefs calls that may fail

SOH == 1
STX == 2
EOT == 4
ACK == 6
NAK == 21
CA == 24
CRC16 == 67
ABORT1 == 65
JUNK == 255

ASSUME PacketAssumption == PACKET_1K_SIZE \in Nat \ {0}
ASSUME MaxFaultsAssumption == MaxFaults \in Nat
ASSUME NoiseAssumption == Noise \subseteq {EOT, ACK, NAK, CA, CRC16, ABORT1, JUNK}
ASSUME FailingCallsAssumption ==
    FailingCalls \subseteq {"mount", "open", "stat", "read", "write", "close"}

Control(c) == [ch |-> c, seq |-> 0, data |-> <<>>, sound |-> TRUE]

Controls(cs) == [n \in 1..Len(cs) |-> Control(cs[n])]

(* The first packet carries the size for its data; one with no data is an  *)
(* empty file name.                                                        *)
Packet(header, pktNo, data) ==
    [ch |-> header, seq |-> pktNo % 256, data |-> data, sound |-> TRUE]

IsPacket(item) == item.ch \in {SOH, STX}

Damaged(message) ==
    UNION {
        IF IsPacket(message[n])
        THEN {RemoveAt(message, n), ReplaceAt(message, n, [message[n] EXCEPT !.sound = FALSE])}
                 \cup {<<Control(x), Control(JUNK)>> : x \in Noise}
        ELSE {RemoveAt(message, n)}
                 \cup {ReplaceAt(message, n, Control(x)) : x \in Noise}
        : n \in 1..Len(message)}

(* What arrives of a message and how many faults that took. *)
Arrivals(message) ==
    {<<message, 0>>} \cup {<<m, 1>> : m \in Damaged(message)}

(* What a call of littlefs may answer. *)
Outcomes(call) == IF call \in FailingCalls THEN BOOLEAN ELSE {TRUE}
==============================================================================
