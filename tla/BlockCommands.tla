----------------------------- MODULE BlockCommands -----------------------------
(***************************************************************************)
(* The two commands of filesystem/command/cmd_lfs.c that work on the blocks*)
(* of the storage without littlefs: FuncLfsDump and FuncLfsErase.  The     *)
(* interpreter calls each again and again until it returns 0; what it has  *)
(* got to is in static variables.                                          *)
(*                                                                         *)
(* The operators are pure, on a record m with those variables, the buffer  *)
(* both commands share and the storage:                                    *)
(*   dump          internalState, nBytes, printIdx of FuncLfsDump          *)
(*   erase         internalState, blockToDelete, remaining of FuncLfsErase *)
(*   lfsCmdBuffer  the data part of the buffer                             *)
(*   fram          the FRAM, a value for every address                     *)
(* Each returns the record, the text it has written and what it returns.   *)
(* The FRAM driver is SpiFram's; here a read or a write is done, or fails. *)
(***************************************************************************)
EXTENDS Integers, Sequences

CONSTANTS
    BlockSz,        \* CONFIG_LFS_BLOCK_SZ
    Blocks,         \* CONFIG_SPI_FM25W256_SIZE / CONFIG_LFS_BLOCK_SZ
    BytesPerLine,   \* 16 in FuncLfsDump
    Width16,        \* 2^16: a UInt16 wraps at it
    Width32         \* 2^32: an Int32 wraps at half of it

ASSUME BlockAssumption ==
    /\ BlockSz \in Nat \ {0} /\ Blocks \in Nat \ {0} /\ BytesPerLine \in Nat \ {0}
    /\ Width16 \in Nat /\ Blocks * BlockSz <= Width16
    /\ Width32 \in Nat /\ Width16 < Width32

Address == 0..(Blocks * BlockSz - 1)
Offset == 0..(BlockSz - 1)

Erased == -1    \* 0xFF, which no address holds at first
Garbage == -2   \* what the bus returns while a write goes out
NaN == -9       \* what strtol cannot convert whole

UInt16(n) == n % Width16
Int32(n) == ((n + Width32 \div 2) % Width32) - Width32 \div 2

(* The addresses of a transfer of a whole block.                           *)
BlockAt(address) == {address + k : k \in Offset}

BlockCommandsInit ==
    [dump |-> [internalState |-> 0, nBytes |-> 0, printIdx |-> 0],
     erase |-> [internalState |-> 0, blockToDelete |-> 0, remaining |-> 0],
     lfsCmdBuffer |-> [k \in Offset |-> 0],
     fram |-> [a \in Address |-> a]]

(* What a command has written: what it says, and the bytes it shows.       *)
Text(says, bytes) == [says |-> says, bytes |-> bytes]

Reply(m, text, more) == [m |-> m, text |-> text, more |-> more]

FM25W256_read(m, address) ==
    [m EXCEPT !.lfsCmdBuffer = [k \in Offset |-> m.fram[address + k]]]

(* The transfer writes what it receives over what it has sent.             *)
FM25W256_write(m, address) ==
    [m EXCEPT !.fram = [a \in Address |->
                            IF a \in BlockAt(address) THEN m.lfsCmdBuffer[a - address] ELSE m.fram[a]],
              !.lfsCmdBuffer = [k \in Offset |-> Garbage]]

------------------------------------------------------------------------------
(* Dump_start: the call that reads the block; i32Temp is the parameter.    *)
NotABlock(i32Temp) ==
    \/ i32Temp = NaN
    \/ i32Temp < 0
    \/ Int32(i32Temp * BlockSz) >= Blocks * BlockSz

Dump_start(m, i32Temp, ok) ==
    CASE NotABlock(i32Temp) -> Reply(m, Text("invalid", <<>>), FALSE)
      [] ~NotABlock(i32Temp) /\ ~ok ->
            Reply([m EXCEPT !.lfsCmdBuffer = [k \in Offset |-> Erased]],
                  Text("failed", <<>>), FALSE)
      [] OTHER ->
            Reply([FM25W256_read(m, UInt16(UInt16(i32Temp) * BlockSz)) EXCEPT
                      !.dump = [internalState |-> 1, nBytes |-> BlockSz, printIdx |-> 0]],
                  Text("nothing", <<>>), TRUE)

(* A line ends when printIdx is a multiple of BytesPerLine, or the bytes do. *)
LineLength(dump) ==
    LET room == BytesPerLine - (dump.printIdx % BytesPerLine)
    IN  IF dump.nBytes < room THEN dump.nBytes ELSE room

(* Mutant: a line that ends with the block is taken for the last one too late. *)
Dump_line_again(m) ==
    LET d == m.dump
        n == LineLength(d)
        bytes == [k \in 1..n |-> m.lfsCmdBuffer[d.printIdx + k - 1]]
        full == n > 0 /\ (d.printIdx + n) % BytesPerLine = 0
    IN  IF full /\ d.nBytes > n
        THEN Reply([m EXCEPT !.dump.nBytes = d.nBytes - n, !.dump.printIdx = d.printIdx + n],
                   Text("line", bytes), TRUE)
        ELSE Reply([m EXCEPT !.dump.nBytes = d.nBytes - n, !.dump.printIdx = 0],
                   Text("line", bytes), FALSE)

Dump_line(m) ==
    LET d == m.dump
        n == LineLength(d)
        bytes == [k \in 1..n |-> m.lfsCmdBuffer[d.printIdx + k - 1]]
        full == n > 0 /\ (d.printIdx + n) % BytesPerLine = 0
    IN  IF full
        THEN Reply([m EXCEPT !.dump.nBytes = d.nBytes - n, !.dump.printIdx = d.printIdx + n],
                   Text("line", bytes), TRUE)
        ELSE Reply([m EXCEPT !.dump = [internalState |-> 0, nBytes |-> 0, printIdx |-> 0]],
                   Text("line", bytes), FALSE)

FuncLfsDump(m, i32Temp, ok) ==
    IF m.dump.internalState = 0 THEN Dump_start(m, i32Temp, ok) ELSE Dump_line(m)

------------------------------------------------------------------------------
(* The call that takes the parameter.                                      *)
Erase_start(m, i32Temp) ==
    CASE i32Temp = NaN -> Reply(m, Text("invalid", <<>>), FALSE)
      [] i32Temp # NaN /\ (i32Temp < -1 \/ i32Temp >= Blocks) ->
            Reply(m, Text("invalid", <<>>), FALSE)
      [] i32Temp = -1 ->
            Reply([m EXCEPT !.erase = [internalState |-> 1, blockToDelete |-> 0, remaining |-> Blocks]],
                  Text("nothing", <<>>), TRUE)
      [] OTHER ->
            Reply([m EXCEPT !.erase = [internalState |-> 1, blockToDelete |-> i32Temp, remaining |-> 1]],
                  Text("nothing", <<>>), TRUE)

(* Mutant: the buffer is set to 0xFF for the first block only. *)
Erase_block_stale_buffer(m, ok, done) ==
    LET e == m.erase
        ready == IF m.lfsCmdBuffer[0] = Garbage THEN m
                 ELSE [m EXCEPT !.lfsCmdBuffer = [k \in Offset |-> Erased]]
        after == IF done THEN FM25W256_write(ready, UInt16(UInt16(e.blockToDelete) * BlockSz)) ELSE ready
    IN  IF ok
        THEN Reply([after EXCEPT !.erase = [internalState |-> IF e.remaining <= 1 THEN 2 ELSE 1,
                                            blockToDelete |-> e.blockToDelete + 1,
                                            remaining |-> e.remaining - 1]],
                   Text("deleted", <<>>), TRUE)
        ELSE Reply([after EXCEPT !.erase.internalState = 2], Text("failed", <<>>), TRUE)

(* One block a call. A write that fails may have been carried out, when    *)
(* done says so.                                                           *)
Erase_block(m, ok, done) ==
    LET e == m.erase
        ready == [m EXCEPT !.lfsCmdBuffer = [k \in Offset |-> Erased]]
        after == IF done THEN FM25W256_write(ready, UInt16(UInt16(e.blockToDelete) * BlockSz)) ELSE ready
    IN  IF ok
        THEN Reply([after EXCEPT !.erase = [internalState |-> IF e.remaining <= 1 THEN 2 ELSE 1,
                                            blockToDelete |-> e.blockToDelete + 1,
                                            remaining |-> e.remaining - 1]],
                   Text("deleted", <<>>), TRUE)
        ELSE Reply([after EXCEPT !.erase.internalState = 2], Text("failed", <<>>), TRUE)

(* The next call assigns blockToDelete and remaining before it reads them; *)
(* they are 0 until then.                                                  *)
Erase_end(m) ==
    Reply([m EXCEPT !.erase = [internalState |-> 0, blockToDelete |-> 0, remaining |-> 0]],
          Text("end", <<>>), FALSE)

FuncLfsErase(m, i32Temp, ok, done) ==
    CASE m.erase.internalState = 0 -> Erase_start(m, i32Temp)
      [] m.erase.internalState = 1 -> Erase_block(m, ok, done)
      [] OTHER -> Erase_end(m)
==============================================================================
