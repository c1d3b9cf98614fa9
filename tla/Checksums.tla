------------------------------- MODULE Checksums -------------------------------
(***************************************************************************)
(* crc16 of ymodem.c, with which a packet is sealed and checked.  A        *)
(* register or a byte is the set of its bits that are 1, so that exclusive *)
(* or is the symmetric difference.                                         *)
(*                                                                         *)
(* YmodemLine says of a packet only whether it passes the check; Ymodem    *)
(* checks that this is what crc16 makes of the bytes.                      *)
(***************************************************************************)
EXTENDS Integers, Sequences, SequencesExt

(* A register of so many bits, moved to the left or to the right.          *)
Left(bits, n, width) == {b + n : b \in bits} \cap (0..(width - 1))
Right(bits, n) == {b - n : b \in bits} \cap Nat

(* The byte uint8_t makes of a number.                                     *)
Bits(n) == {b \in 0..7 : (n \div 2^b) % 2 = 1}

------------------------------------------------------------------------------
(* crc16: the polynomial 0x1021, the byte into the upper half.             *)
Polynomial == {0, 5, 12}

crc16_bit(crc) ==
    IF 15 \in crc THEN SymDiff(Left(crc, 1, 16), Polynomial) ELSE Left(crc, 1, 16)

crc16_byte(crc, byte) ==
    FoldLeft(LAMBDA c, i : crc16_bit(c), SymDiff(crc, Left(byte, 8, 16)), [i \in 1..8 |-> i])

crc16(buf) == FoldLeft(crc16_byte, {}, buf)

(* A packet behind its first byte: the number and its complement, the data *)
(* and the two bytes of the trailer.                                       *)
Complement(byte) == (0..7) \ byte

Trailer(data) == LET crc == crc16(data) IN <<Right(crc, 8), crc \cap (0..7)>>

Sealed(seqno, data) == <<seqno, Complement(seqno)>> \o data \o Trailer(data)

(* Mutant: the complement is not looked at. *)
Passes_any_number(packet) == crc16(SubSeq(packet, 3, Len(packet))) = {}

(* The tests of Receive_Packet.                                            *)
Passes(packet) ==
    /\ packet[1] = Complement(packet[2])
    /\ crc16(SubSeq(packet, 3, Len(packet))) = {}
==============================================================================
