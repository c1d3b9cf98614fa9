------------------------------ MODULE LfsSession ------------------------------
(***************************************************************************)
(* The console of one board over a long time: its user gives the commands  *)
(* of filesystem/command/cmd_lfs.c in any order, and now and then          *)
(* ymodem_receive or ymodem_send, against another end that may say         *)
(* anything at any time: packets of any number and in any order, empty     *)
(* file names, ends of transmission before the data, any answer or none.   *)
(* All of them share the glue's flags, its one static file and the two     *)
(* handles of ymodem.c, which outlive every command.                       *)
(*                                                                         *)
(* There is one console task: a command runs to its end before the next.   *)
(* A user is careful who closes the file before he formats, mounts,        *)
(* unmounts, or transfers one, and unmounts before he formats, mounts or   *)
(* transfers.                                                              *)
(***************************************************************************)
EXTENDS YmodemLine, LfsGlue

CONSTANTS
    MaxErrors, PacketErrors, MaxSize, Polls, Tries,
    Numbers,        \* numbers of the packets the other end may send
    Announced,      \* sizes it may announce
    Answers,        \* bytes it may answer
    \* bounds of the model
    MaxEvents,      \* commands of the user and messages of a sender, all in all
    MaxAnswers      \* answers of a receiver, all in all

ASSUME ReceiveAssumption == MaxErrors \in Nat /\ PacketErrors \in Nat /\ MaxSize \in Nat
ASSUME TransmitAssumption == Polls \in Nat /\ Tries \in Nat \ {0}
ASSUME PeerAssumption ==
    Numbers \subseteq 0..255 /\ Announced \subseteq Nat /\ Answers \subseteq 0..255
(* A packet's number is one byte: a file has fewer packets than that       *)
(* counts, 16384 / 1024 of them as the command calls for it.               *)
ASSUME NumbersAssumption == MaxSize <= 255 * PACKET_1K_SIZE
ASSUME BoundsAssumption == MaxEvents \in Nat /\ MaxAnswers \in Nat

VARIABLES
    role,           \* "user", "receive" or "transmit"
    fs,
    toRx, toTx, faults,
    rxPc, out, errors, eof_cnt, packets_received, file_len, rxSize,
    txPc, err, waited, blkNumber, txSize, packet_data, ret,
    events, answers,
    \* history
    careless,       \* the user has not been careful
    refused,        \* a ymodem_send could not open its file
    before          \* bFileIsOpen and bMount when the transfer was begun

line == <<toRx, toTx, faults>>
rxLocals == <<rxPc, out, errors, eof_cnt, packets_received, file_len, rxSize>>
txLocals == <<txPc, err, waited, blkNumber, txSize, packet_data, ret>>
counts == <<events, answers>>
history == <<careless, refused, before>>
vars == <<role, fs, line, rxLocals, txLocals, counts, history>>

R == INSTANCE YmodemReceive
        WITH pc <- rxPc, size <- rxSize, txOn <- FALSE, txQuiet <- TRUE, Patient <- TRUE
T == INSTANCE YmodemTransmit
        WITH pc <- txPc, size <- txSize, rxOn <- TRUE, rxQuiet <- TRUE, Patient <- TRUE

OldFile == <<1, 2, 3>>

Init ==
    /\ role = "user"
    /\ fs = NewVolume(OldFile)
    /\ toRx = <<>> /\ toTx = <<>> /\ faults = 0
    /\ R!Init /\ T!Init
    /\ events = 0 /\ answers = 0
    /\ careless = FALSE /\ refused = FALSE /\ before = <<FALSE, FALSE>>

------------------------------------------------------------------------------
Event == events < MaxEvents /\ events' = events + 1 /\ UNCHANGED answers

(* The commands of cmd_lfs.c that answer in one call.                      *)
Command(volume) ==
    /\ role = "user" /\ ~fs.broken
    /\ Event
    /\ fs' = volume
    /\ UNCHANGED <<role, line, rxLocals, txLocals, refused, before>>

Careful == UNCHANGED careless
CarefulIf(condition) == careless' = (careless \/ ~condition)

FuncLfsFormat ==
    \E ok \in BOOLEAN :
        /\ Command(lfs_c2000_format(fs, ok).fs)
        /\ CarefulIf(~fs.bMount /\ ~fs.bFileIsOpen)

FuncLfsMount ==
    \E ok \in BOOLEAN :
        /\ Command(lfs_c2000_mount(fs, ok).fs)
        /\ CarefulIf(~fs.bMount /\ ~fs.bFileIsOpen)

FuncLfsUmount == Command(lfs_c2000_umount(fs)) /\ CarefulIf(~fs.bFileIsOpen)

FuncLfsLs ==
    \E opened, read, closed \in BOOLEAN :
        Command(lfs_c2000_ls(fs, opened, read, closed).fs) /\ Careful

FuncLfsMkdir == \E ok \in BOOLEAN : Command(lfs_c2000_mkdir(fs, ok).fs) /\ Careful

FuncLfsFopen == \E ok \in BOOLEAN : Command(lfs_c2000_fopen(fs, ok).fs) /\ Careful

FuncLfsWrite == \E ok \in BOOLEAN : Command(lfs_c2000_fwrite(fs, <<1>>, ok).fs) /\ Careful

FuncLfsRead == \E ok \in BOOLEAN : Command(lfs_c2000_fread(fs, 2, ok).fs) /\ Careful

FuncLfsFclose == \E ok \in BOOLEAN : Command(lfs_c2000_fclose(fs, ok)) /\ Careful

FuncLfsMv == \E ok \in BOOLEAN : Command(lfs_c2000_mv(fs, ok).fs) /\ Careful

FuncLfsRm == \E ok \in BOOLEAN : Command(lfs_c2000_rm(fs, ok).fs) /\ Careful

User ==
    \/ FuncLfsFormat \/ FuncLfsMount \/ FuncLfsUmount
    \/ FuncLfsLs \/ FuncLfsMkdir \/ FuncLfsMv \/ FuncLfsRm
    \/ FuncLfsFopen \/ FuncLfsWrite \/ FuncLfsRead \/ FuncLfsFclose

------------------------------------------------------------------------------
(* The transfers.                                                          *)
Begin(command) ==
    /\ role = "user" /\ ~fs.broken
    /\ Event
    /\ role' = command
    /\ before' = <<fs.bFileIsOpen, fs.bMount>>
    /\ CarefulIf(~fs.bMount /\ ~fs.bFileIsOpen)
    /\ UNCHANGED refused

FuncYmodemRx == Begin("receive") /\ R!Start /\ UNCHANGED txLocals

FuncYmodemSend == Begin("transmit") /\ T!Start /\ UNCHANGED rxLocals

Ymodem_Receive ==
    /\ role = "receive"
    /\ R!Next
    /\ UNCHANGED <<role, txLocals, counts, history>>

Ymodem_Transmit ==
    /\ role = "transmit"
    /\ T!Next
    /\ refused' = (refused \/ ret' = -12)
    /\ UNCHANGED <<role, rxLocals, counts, careless, before>>

(* The command returns: its locals are gone, the line editor takes what is *)
(* left on the line.                                                       *)
Over ==
    /\ "done" \in {rxPc, txPc}
    /\ role' = "user"
    /\ toRx' = <<>> /\ toTx' = <<>>
    /\ rxPc' = "off" /\ out' = R!Outcome(0, 0, R!NoPacket) /\ errors' = 0 /\ eof_cnt' = 0
    /\ packets_received' = 0 /\ file_len' = 0 /\ rxSize' = 0
    /\ txPc' = "off" /\ err' = 0 /\ waited' = 0 /\ blkNumber' = 0 /\ txSize' = 0
    /\ packet_data' = <<>> /\ ret' = 0
    /\ before' = <<FALSE, FALSE>>
    /\ UNCHANGED <<fs, faults, counts, careless, refused>>

------------------------------------------------------------------------------
(* The other end.                                                          *)
UnitsOf(number) == [k \in 1..PACKET_1K_SIZE |-> (number - 1) * PACKET_1K_SIZE + k]

(* File names, an empty one among them, data that tells its number, a      *)
(* packet that fails its check, and bytes.                                 *)
Utterances ==
    {Packet(SOH, 0, <<>>)} \cup {Packet(SOH, 0, <<n>>) : n \in Announced}
        \cup {Packet(STX, k, UnitsOf(k)) : k \in Numbers \ {0}}
        \cup {[Packet(STX, 1, UnitsOf(1)) EXCEPT !.sound = FALSE]}
        \cup {Control(c) : c \in {EOT, CA, ABORT1, JUNK}}

SenderSays(item) ==
    /\ role = "receive" /\ rxPc # "done"
    /\ Event
    /\ Len(toRx) < 2
    /\ toRx' = Append(toRx, item)
    /\ UNCHANGED <<role, fs, toTx, faults, rxLocals, txLocals, history>>

HostSays(c) ==
    /\ role = "transmit" /\ txPc # "done"
    /\ answers < MaxAnswers
    /\ toTx = <<>>
    /\ toTx' = Controls(<<c>>)
    /\ answers' = answers + 1
    /\ UNCHANGED <<role, fs, toRx, faults, rxLocals, txLocals, events, history>>

Peer == (\E item \in Utterances : SenderSays(item)) \/ (\E c \in Answers : HostSays(c))

Transfer == Ymodem_Receive \/ Ymodem_Transmit \/ Over

Next == User \/ FuncYmodemRx \/ FuncYmodemSend \/ Transfer \/ Peer

Spec == Init /\ [][Next]_vars

(* The console task runs. The user need not do anything, and the other end *)
(* may stop at any time.                                                   *)
FairSpec == Spec /\ WF_vars(Transfer)

------------------------------------------------------------------------------
TypeOK ==
    /\ role \in {"user", "receive", "transmit"}
    /\ faults \in 0..MaxFaults
    /\ rxPc \in {"off", "packet", "consume", "handle", "done"}
    /\ txPc \in {"off", "poll", "pollWait", "open", "prepare", "done"}
                  \cup DOMAIN T!AwaitedBy \cup DOMAIN T!Awaited
    /\ role # "receive" => rxPc = "off"
    /\ role # "transmit" => txPc = "off"
    /\ errors \in 0..(MaxErrors + 1) \cup 0..(PacketErrors + 1) /\ eof_cnt \in 0..MaxEvents
    /\ packets_received \in 0..MaxEvents /\ file_len \in 0..MaxSize
    /\ err \in 0..(Polls + 1) /\ waited \in 0..(Tries - 1)
    /\ fs.lfs \in {"off", "mounted"} /\ fs.file \in {"none", "live", "dead"}
    /\ events \in 0..MaxEvents /\ answers \in 0..MaxAnswers

(* Whatever the sender repeats, leaves out or sends in the wrong order,    *)
(* the file written holds the units of the packets 1, 2, ... without a     *)
(* hole or a repetition, no more than was announced and exactly what       *)
(* file_len counts (ymodem.c:346-356, :424-449).                           *)
OnlyInOrder ==
    role = "receive" /\ fs.pFile =>
        /\ SubSeq(fs.cache, 1, fs.pos) = [k \in 1..fs.pos |-> k]
        /\ fs.pos = file_len
        /\ file_len <= rxSize

(* Where the data packets are in what has been sent.                       *)
DataPlaces == {n \in DOMAIN toRx : toRx[n].ch = STX}

(* Blocks go out in order and none is passed over: one is sent again or    *)
(* the next one is sent, each with the units of the file it stands for, if *)
(* its reading cannot fail (ymodem.c:699-727). The line has damaged nothing*)
(* and the file has no more blocks than a packet's number counts.          *)
BlocksInOrder ==
    role = "transmit" /\ faults = 0 /\ Len(fs.stored) <= 255 * PACKET_1K_SIZE =>
        \A n \in DataPlaces :
            LET earlier == {m \in DataPlaces : m < n}
                last == IF earlier = {} THEN 0 ELSE toRx[Max(earlier)].seq
            IN  /\ toRx[n].seq \in {last, last + 1} \ {0}
                /\ "read" \notin FailingCalls =>
                      \A k \in 1..PACKET_1K_SIZE :
                          LET unit == (toRx[n].seq - 1) * PACKET_1K_SIZE + k
                          IN  toRx[n].data[k] =
                                  IF unit <= Len(fs.stored) THEN fs.stored[unit] ELSE 0

(* However a transfer ends, whichever call of littlefs failed in it and    *)
(* whatever the user had open: it leaves no file open that was not, no     *)
(* volume mounted that was not, and keeps no file (ymodem.c:479-483,       *)
(* :637-801).                                                              *)
GivesBack ==
    "done" \in {rxPc, txPc} =>
        /\ ~fs.pFile
        /\ fs.bFileIsOpen = before[1]
        /\ fs.bMount => before[2]

(* A receive that ends before it mounted leaves the user's volume mounted, *)
(* unless a ymodem_send has been refused its file since the start: pLfs of *)
(* that one still stands (ymodem.c:646-649, :294-297).                     *)
UnmountsOnlyItsOwn ==
    [][rxPc = "handle" /\ rxPc' = "done" /\ ~fs.pFile /\ rxSize' \notin {-11, -12} /\ ~refused
           => fs'.bMount = fs.bMount]_vars

(* While littlefs has the file open, the guards of the glue let no command *)
(* break its rules, whatever the user forgets and however transfers end: it*)
(* is not opened again, and nothing is asked of a volume that is not       *)
(* mounted (:209, :262, :275, :293, :302, :332). A listing that could not  *)
(* be read to its end breaks them for whatever comes before the next mount *)
(* (:222-224).                                                             *)
LiveIsSafe == [][fs.file = "live" /\ ~fs.stray => ~fs'.broken]_vars

(* To a careful user the flags tell the truth: after any commands and      *)
(* transfers, failed ones too, what he may close is open, what he may      *)
(* unmount is mounted, and littlefs is called by its rules, unless lfs_ls  *)
(* has left a directory in its list (:222-224).  A careless user may find  *)
(* a file open that littlefs has forgotten (:199), or a volume mounted that*)
(* is not (:166, :179).                                                    *)
FlagsTellTheTruth ==
    ~careless =>
        /\ fs.broken => fs.stray
        /\ fs.bFileIsOpen <=> fs.file = "live"
        /\ fs.bMount <=> fs.lfs = "mounted"

(* A silent end does not hold up the console for ever: the errors, polls   *)
(* and waits run out and the user has it back (ymodem.c:457-468, :628,     *)
(* :568).                                                                  *)
Ends == []<>(role = "user")
==============================================================================
