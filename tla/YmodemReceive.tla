----------------------------- MODULE YmodemReceive -----------------------------
(***************************************************************************)
(* Ymodem_Receive of filesystem/ymodem/ymodem.c, with Receive_Packet and   *)
(* uart_consume.  The sender is another module: this one reads toRx,       *)
(* answers into toTx, and is told whether the sender listens (txOn) and    *)
(* whether it has nothing to say for now (txQuiet).                        *)
(*                                                                         *)
(* A step takes one packet or control byte from the line (or times out),   *)
(* or acts on it: the answer, the calls into the file system and lfs_clean-*)
(* up are part of that one step, because no one else looks in between.     *)
(***************************************************************************)
EXTENDS YmodemLine, LfsGlue

CONSTANTS
    MaxErrors,      \* MAX_ERRORS (45)
    PacketErrors,   \* the literal 5 of every other test of errors
    MaxSize,        \* maxsize, 16384 as the command calls it
    Patient         \* a timeout means that the sender is silent

VARIABLES
    toRx, toTx, \* the line, in each direction
    faults,     \* messages damaged so far
    txOn,       \* the sender is running: what is said to it is not lost
    txQuiet,    \* the sender waits for an answer, or is not running
    pc,
    out,        \* what Receive_Packet returned: ret, *length and the packet
    errors, eof_cnt, packets_received, file_len,
    size,       \* the size announced, and in the end what is returned
    fs          \* the file system of this board

counters == <<errors, eof_cnt, packets_received, file_len, size>>
vars == <<toRx, toTx, faults, pc, out, counters, fs>>

NoPacket == Control(JUNK)
Outcome(ret, length, packet) == [ret |-> ret, length |-> length, packet |-> packet]

Init ==
    /\ pc = "off"
    /\ out = Outcome(0, 0, NoPacket)
    /\ errors = 0 /\ eof_cnt = 0 /\ packets_received = 0 /\ file_len = 0 /\ size = 0

(* The command is given. *)
Start ==
    /\ pc = "off"
    /\ pc' = "packet"
    /\ UNCHANGED <<toRx, toTx, faults, out, counters, fs>>

------------------------------------------------------------------------------
(* Receive_Packet. CA needs the byte after it.                             *)
Complete == toRx # <<>> /\ (toRx[1].ch = CA => Len(toRx) > 1)

Receive_Packet ==
    LET first == toRx[1]
    IN  CASE IsPacket(first) ->
                 IF first.sound
                 THEN Outcome(0, Len(first.data), first)
                 ELSE Outcome(0, -2, first)
          [] first.ch = EOT -> Outcome(0, 0, NoPacket)
          [] first.ch = CA ->
                 IF toRx[2].ch = CA THEN Outcome(0, -1, NoPacket) ELSE Outcome(-1, 0, NoPacket)
          [] first.ch = ABORT1 -> Outcome(-2, 0, NoPacket)
          [] OTHER -> Outcome(-1, 0, NoPacket)

IsNormal(o) == o.ret = 0 /\ IsPacket(o.packet) /\ o.packet.sound

(* CA takes the byte after it too, which may be the first of a packet.     *)
Taken ==
    CASE toRx[1].ch # CA -> Tail(toRx)
      [] toRx[1].ch = CA /\ IsPacket(toRx[2]) -> <<Control(JUNK)>> \o Tail(Tail(toRx))
      [] OTHER -> Tail(Tail(toRx))

(* A good packet, and a byte that begins nothing, are followed by          *)
(* uart_consume.                                                           *)
Take ==
    /\ pc = "packet"
    /\ Complete
    /\ out' = Receive_Packet
    /\ toRx' = Taken
    /\ pc' = IF \/ IsNormal(out')
                \/ toRx[1].ch \notin {SOH, STX, EOT, CA, ABORT1}
             THEN "consume" ELSE "handle"
    /\ UNCHANGED <<toTx, faults, counters, fs>>

Timeout ==
    /\ pc = "packet"
    /\ ~Complete
    /\ Patient => txQuiet
    /\ out' = Outcome(IF toRx = <<>> THEN -1 ELSE -2, 0, NoPacket)
    /\ toRx' = <<>>
    /\ pc' = "handle"
    /\ UNCHANGED <<toTx, faults, counters, fs>>

(* It drops what comes until nothing has come for 100 ticks.               *)
uart_consume ==
    /\ pc = "consume"
    /\ \/ toRx # <<>> /\ toRx' = <<>> /\ UNCHANGED pc
       \/ /\ toRx = <<>> /\ (Patient => txQuiet)
          /\ pc' = "handle" /\ UNCHANGED toRx
    /\ UNCHANGED <<toTx, faults, out, counters, fs>>

------------------------------------------------------------------------------
(* What is done with the outcome.                                          *)
Answer(bytes) ==
    /\ \E a \in Arrivals(Controls(bytes)) :
          /\ toTx' = IF txOn THEN toTx \o a[1] ELSE toTx
          /\ faults' = faults + a[2] /\ faults' <= MaxFaults
    /\ UNCHANGED toRx

Go == pc' = "packet" /\ UNCHANGED out

(* goto exit, through lfs_cleanup, with the file system as it is now.      *)
Exit(result, volume) ==
    /\ pc' = "done"
    /\ size' = result
    /\ \E ok \in Outcomes("close") : fs' = lfs_cleanup(volume, ok)
    /\ UNCHANGED <<out, eof_cnt, packets_received, file_len>>

(* Mutant: the limit is never reached. *)
CountError_unlimited(limit, result, bytes) ==
    /\ errors' = errors + 1
    /\ Answer(bytes) /\ Go
    /\ UNCHANGED <<eof_cnt, packets_received, file_len, size, fs>>

(* One more error: up to a limit it is answered, after that it ends all.   *)
CountError(limit, result, bytes) ==
    /\ errors' = errors + 1
    /\ IF errors + 1 > limit
       THEN Answer(<<CA, CA>>) /\ Exit(result, fs)
       ELSE /\ Answer(bytes) /\ Go
            /\ UNCHANGED <<eof_cnt, packets_received, file_len, size, fs>>

SenderAborts ==
    /\ out.ret = 0 /\ out.length = -1
    /\ Answer(<<ACK>>)
    /\ Exit(-1, fs)
    /\ UNCHANGED errors

BadPacket ==
    /\ out.ret = 0 /\ out.length = -2
    /\ CountError(PacketErrors, -2, <<NAK>>)

EndOfTransmission ==
    /\ out.ret = 0 /\ out.length = 0 /\ ~IsNormal(out)
    /\ eof_cnt' = eof_cnt + 1
    /\ Answer(IF eof_cnt' = 1 THEN <<NAK>> ELSE <<ACK, CRC16>>)
    /\ Go
    /\ UNCHANGED <<errors, packets_received, file_len, size, fs>>

(* After the end of transmission every packet is taken for the last.       *)
LastPacket ==
    /\ IsNormal(out)
    /\ eof_cnt > 1
    /\ Answer(<<ACK>>)
    /\ Go
    /\ UNCHANGED <<counters, fs>>

(* Mutant: a repeated packet is taken again. *)
Expected_or_last ==
    out.packet.seq \in {packets_received % 256, (packets_received - 1) % 256}

Expected == out.packet.seq = packets_received % 256

WrongSequence ==
    /\ IsNormal(out)
    /\ eof_cnt <= 1
    /\ ~Expected
    /\ CountError(PacketErrors, -3, <<NAK>>)

FirstPacket == IsNormal(out) /\ eof_cnt <= 1 /\ Expected /\ packets_received = 0

EmptyFilename ==
    /\ FirstPacket
    /\ out.packet.data = <<>>
    /\ errors' = errors + 1
    /\ IF errors + 1 > PacketErrors
       THEN Answer(<<CA, CA>>) /\ Exit(-5, fs)
       ELSE /\ Answer(<<NAK>>) /\ Go
            /\ packets_received' = packets_received + 1
            /\ UNCHANGED <<eof_cnt, file_len, size, fs>>

(* The file name packet: its size is tested, the volume mounted and the    *)
(* file opened.                                                            *)
Filename ==
    /\ FirstPacket
    /\ out.packet.data # <<>>
    /\ errors' = 0
    /\ LET announced == out.packet.data[1]
       IN  IF announced < 1 \/ announced > MaxSize
           THEN Answer(<<CA, CA>>) /\ Exit(IF announced > MaxSize THEN -9 ELSE -4, fs)
           ELSE \E okMount \in Outcomes("mount"), okOpen \in Outcomes("open") :
                   LET mount == lfs_c2000_mount(fs, okMount)
                       mounted == [mount.fs EXCEPT !.pLfs = mount.ret]
                       open == lfs_c2000_fopen(mounted, okOpen)
                   IN  CASE ~mount.ret -> Answer(<<CA, CA>>) /\ Exit(-11, mounted)
                         [] mount.ret /\ ~open.ret -> Answer(<<CA, CA>>) /\ Exit(-12, open.fs)
                         [] OTHER ->
                               /\ fs' = [open.fs EXCEPT !.pFile = TRUE]
                               /\ size' = announced /\ file_len' = 0
                               /\ packets_received' = packets_received + 1
                               /\ Answer(<<ACK, CRC16>>) /\ Go
                               /\ UNCHANGED eof_cnt

(* How much of a packet belongs to the file. *)
write_len(length) ==
    IF file_len + length > size THEN length - (file_len + length - size) ELSE length

Data ==
    /\ IsNormal(out)
    /\ eof_cnt <= 1
    /\ Expected
    /\ packets_received > 0
    /\ LET wanted == IF file_len < size THEN write_len(out.length) ELSE 0
       IN  \E ok \in Outcomes("write") :
              LET write ==
                      IF file_len < size
                      THEN lfs_c2000_fwrite(fs, SubSeq(out.packet.data, 1, wanted), ok)
                      ELSE Returned(fs, 0)
              IN  IF write.ret # wanted
                  THEN Answer(<<CA, CA>>) /\ Exit(-6, write.fs) /\ UNCHANGED errors
                  ELSE /\ fs' = write.fs
                       /\ file_len' = file_len + wanted
                       /\ errors' = 0
                       /\ packets_received' = packets_received + 1
                       /\ Answer(<<ACK>>) /\ Go
                       /\ UNCHANGED <<eof_cnt, size>>

UserAborts ==
    /\ out.ret = -2
    /\ Answer(<<CA, CA>>)
    /\ Exit(-7, fs)
    /\ UNCHANGED errors

(* Mutant: a timeout ends the session before the end of transmission. *)
SessionDone_early ==
    /\ out.ret = -1
    /\ packets_received > 0
    /\ Exit(size, fs)
    /\ UNCHANGED <<toRx, toTx, faults, errors>>

(* After the end of transmission a timeout ends the session.               *)
SessionDone ==
    /\ out.ret = -1
    /\ eof_cnt > 1
    /\ Exit(size, fs)
    /\ UNCHANGED <<toRx, toTx, faults, errors>>

(* Mutant: a timeout is not an error. *)
NoPacketInTime_uncounted ==
    /\ out.ret = -1
    /\ eof_cnt <= 1
    /\ Answer(<<CRC16>>) /\ Go
    /\ UNCHANGED <<counters, fs>>

NoPacketInTime ==
    /\ out.ret = -1
    /\ eof_cnt <= 1
    /\ CountError(MaxErrors, -8, <<CRC16>>)

Handle ==
    /\ pc = "handle"
    /\ \/ SenderAborts \/ BadPacket \/ EndOfTransmission \/ LastPacket
       \/ WrongSequence \/ EmptyFilename \/ Filename \/ Data
       \/ UserAborts \/ SessionDone \/ NoPacketInTime

Next == Start \/ Take \/ Timeout \/ uart_consume \/ Handle
==============================================================================
