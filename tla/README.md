# littlefs_c2000: TLA+ models, model checking and proofs

The program under `src/` is firmware for a TI TMS320F28335 under SYS/BIOS: a
serial console with a command interpreter, a littlefs volume in a serial FRAM
(FM25W256) behind an SPI driver with DMA, and YMODEM file transfer over the
same UART as the console. This directory holds TLA+ modules for the parts
whose correctness depends on order (interrupts against tasks, tasks against
tasks, two boards against each other), TLC configurations that check them, and
TLAPS proofs. Line numbers are of the files under `src/`.

## The system

| Component | Source | State | Operations | Talks to |
|---|---|---|---|---|
| ring buffer | `driver/utility/ringbuf/` | `pBuffer`, mask, head and tail index | `queue(_arr)`, `dequeue(_arr)`, `peek`, tests | shared by the UART's tasks and interrupt handlers; each operation enters a gate |
| UART driver | `driver/uart/uart.c` | two rings, the SCI FIFOs, interrupt enables | `UART_send`, `UART_receive`, `UART_send_done`, two handlers | SCI and PIE; called by console and YMODEM |
| console task | `driver/uart/cli.c` | line buffer, output buffer | read a byte, edit, run the command, send the answer | UART, command interpreter |
| command interpreter | `third_party/FreeRTOS-Plus-CLI/` | list of commands, the command that has more to say | register, process | calls the commands |
| SPI driver | `driver/spi/spi.c` | one mailbox and one task per port, DMA events | `SPI_transact` posts a request; the task sets up the DMA, waits for two events, answers | DMA handlers; answers through `*pStatus` and a semaphore of the requester |
| FRAM driver | `driver/fram/fm25w256/` | gate, semaphore, buffers | `FM25W256_write` (write enable, data), `FM25W256_read` | SPI driver |
| littlefs glue | `filesystem/lfs_c2000_fram.c` | `bInit`, `bMount`, `bFileIsOpen`, one `file` | mount, umount, format, fopen, fread, fwrite, fclose, ls, ... | littlefs (a submodule, not in the repository), FRAM driver |
| littlefs commands | `filesystem/command/cmd_lfs.c` | static state machines of dump and erase | one command each | glue |
| YMODEM | `filesystem/ymodem/ymodem.c` | `pLfs`, `pFile`, the locals of a session | `Ymodem_Receive`, `Ymodem_Transmit` | UART, glue |
| ymodem commands | `filesystem/ymodem/command/` | none | print the result | YMODEM |
| application | `example/main.c` | none | creates the tasks | all |

What is hard here: two interrupt handlers share the rings with a task, and a
gate does not hold an interrupt back where the code reads outside it; a
transmit interrupt is turned on and off from both sides; the SPI task answers
a caller that may have timed out, through a pointer into its stack; on the other
SPI path a handler writes into the buffer the task is sending from; commands
that answer in many calls keep static state between them; three flags guard the
one file that commands and transfers share; both ends
of a YMODEM session count errors, poll, resend and time out on their own; each
of a dozen returns must give the file and the volume back; and littlefs calls
can fail at every one of them. `PROJECT.json` lists these hazards line by line,
with the property that catches each going wrong. Some have gone wrong already: the
code does what it should not, no property of a passing run holds of it as it
is, and the entry has a note instead. These are the rows of the table
"Where the passing runs stop short of the code" below.

Nothing in this code persists state of its own (littlefs does, and is not in
the repository), so there are no crash-and-restart models.

## Modules

```
ByteStream                 OverwriteQueue
  ^ implemented by           ^ implemented by
UartRx   UartTx  ------> RingBuffer <------- RingBufferApi
  ^        ^                  ^
UartRxProofs UartTxProofs -> RingBufferProofs -> RingBufferApi

SpiFram <- SpiFramProofs     SpiFifo <- SpiFifoProofs
BlockCommands <- CommandLine <- CommandLineProofs

LfsGlue  YmodemLine <- YmodemReceive, YmodemTransmit
YmodemReceive, YmodemTransmit, Checksums <- Ymodem        two boards, a line with faults
YmodemReceive, YmodemTransmit            <- LfsSession    one board, its user, any other end
LfsSession <- LfsSessionProofs             Ymodem <- YmodemProofs
```

`X <- Y` says that Y uses X. `MC...` modules give the values a configuration file cannot write.

* **RingBuffer** translates `ringbuffer.c` as operators on the record
  `ring_buffer_t`, with the steps of queue and dequeue as operators of their
  own, because interrupts fall between them. **RingBufferApi** runs every
  operation in every order and implements **OverwriteQueue**, a bounded queue
  that forgets its oldest byte.
* **UartRx**: the SCI receive FIFO, `uart_rx_hwi_handler` and the one task that
  calls `UART_receive`. A dequeue is three steps: the load of the tail index,
  the load of the cell and the advance. The handler runs to its end between any
  two steps of the task; bytes arrive between any two steps of either. Bytes
  are numbered in the order of arrival, so the history (`got`, `overrun`,
  `overwritten`) can be compared with what arrived.
* **UartTx**: `UART_send` statement by statement, `uart_tx_hwi_handler`,
  `UART_send_done`, the SCI FIFO, and the interrupt's three places: the flag
  and the enable in SCIFFTX and the request latched in the PIE. Both implement
  **ByteStream**: what goes in comes out, in order, and all of it.
* **SpiFram**: tasks inside `FM25W256_transact`, the SPI task, the two DMA
  handlers and the chip's select line and write-enable latch, over SYS/BIOS's
  tick. A transfer stalls when a tick finds it alone at work (`stalled`): its
  handlers then run late or never.
* **SpiFifo**: the other half of `spi.c`, `tsk_spi_fifo` with the handlers of
  the SPI-A FIFOs, a statement or a word at a time, over the transmit FIFO, the
  shift register and the receive FIFO. A word of the caller's buffer carries
  its request and its place, and a flag once it is the reply.
* **BlockCommands**: `lfs_dump` and `lfs_erase`, which work on the storage
  without littlefs, as operators from one call to the next on their static
  variables, the buffer they share and the FRAM. The width of the integers is
  kept.
* **CommandLine**: the console task and the command interpreter around them.
  Characters are letters of a small alphabet in which a command name and a
  number are one letter each. `helper_send_blocking` finds any room in the
  transmit ring at each try; a try that found less than the line can send in
  its sleep is remembered (`held`).
* **LfsGlue**: every function of the glue, as operators on a record of its static
  flags, the handles of `ymodem.c`, the open file and the stored one. Each call
  of littlefs succeeds or fails by a Boolean given by the caller. What littlefs
  demands of its caller is modelled by `broken`: a call on a volume that is not
  mounted, on a file that is not open in it, or with a directory in its list that
  no longer exists (`stray`). `lfs_c2000_ls` has each of its exits: the directory
  not opened, an entry not read (which leaves it in the list), not closed.
* **Checksums**: `crc16`, the trailer of a packet and the tests of
  `Receive_Packet`, on sets of bits. The other modules say of a packet only
  whether it passes (`sound`); `Ymodem` checks that this is what the bytes say.
* **YmodemLine**: control bytes, packets and the faults of the line.
* **YmodemReceive**: `Receive_Packet` and every branch of `Ymodem_Receive`. One
  step takes an item off the line (`Take`, or `Timeout`), `uart_consume` drops
  what follows, and one step acts on it (`Handle`, one disjunct per branch);
  the calls into littlefs and the answer belong to that step.
* **YmodemTransmit**: the poll, the opening of the file, and the four messages
  (`name`, `block`, `eot`, `last`) with their awaited answers; one step sends
  and one takes an answer and acts.
* **Ymodem** joins the two over a line with faults, each with a file system.
* **LfsSession** is one board over a long time: the eleven single-call `lfs_`
  commands and the two transfers in any order, the transfers against another
  end that says and answers anything. Flags, file and handles live on from one
  command to the next; the locals of a transfer end with it (`Over`).

The code's function names are the names of the actions; where a function is
several steps the steps carry its name as prefix (`spi_`, `send_`, `dequeue_`).
Definitions called `X_something` before `X`, marked *Mutant*, are plausible
bugs in `X`: replacing `X` by them violates the property `PROJECT.json` pairs
them with. They are part of no specification.

## Runs

Passing:

| Run | Question | Properties | Bounds, and why they suffice |
|---|---|---|---|
| `ring_api` | is the ring the queue it promises to be? | `ImplementsOverwriteQueue` | 4 cells (capacity 3), two characters, arrays to 5: every rotation of the indices, full, empty, and arrays longer than the ring |
| `rx_flood` | what survives a flood? | `TailNeverPassesHead`, `ExactUnlessRaced`, `TheNewestAreHeld`, `Drained` | FIFO 3, ring capacity 3, 8 bytes: both overflow while a dequeue is half way |
| `rx_window` | does a sender that keeps to the capacity see a stream? | `ImplementsByteStream` | window 3 = the capacity, 9 bytes: the indices wrap twice |
| `tx` | does `UART_send` keep order, and does the interrupt stop? | `InOrder`, `SendDoneMeansSent`, `ImplementsByteStream`, `GoesQuiet` | FIFO 2, capacity 3, calls of 1, 3 and 6 bytes: fits the FIFO, fits both, fits neither (a partial send) |
| `spi_shipped` | does the FRAM work until the bus stalls, and does every call return? | `WriteOkMeansStored`, `NoFalseAlarm`, `DmaEndsInTheCall`, `EveryCallReturns` | two tasks, one call each, a write being two transfers; both timeouts 2 ticks: equal, as shipped, and the shortest that are no false alarms |
| `spi_longer` | would a longer FRAM timeout keep a stalled transfer apart from the next call? | `OkMeansTransferred`, `NoDeadFrameWrite` | two calls of one task around one of the other; FRAM timeout 5, SPI timeout 2, which is *not* how the code ships |
| `spi_fifo` | is a transfer through the FIFOs exchanged word for word, and answered? | `SentAsGiven`, `OkMeansExchanged`, `SelectedWhileBusy`, `FailsOnlyWhenOvertaken`, `EveryRequestAnswered` | FIFO 3; lengths 1, 3 (the FIFO), 4, 6 (two chunks), 8 (three, the last short); three requests, a mailbox of 2 |
| `command_line` | does the console answer what was typed, and come back? | `AnswersTheLine`, `FreshStart`, `ParametersAreWords`, `DumpShowsTheBlock`, `EraseIsExact`, `GivesUpOnlyWhenHeld`, `PromptReturns` | a buffer of 4 letters: a name, spaces before, between and behind, a parameter, and one letter more than fits; 2 blocks of 4 bytes shown 2 to a line, so that the block ends with a line, as the shipped 128 bytes by 16 do; a number whose address wraps the 16 bits; 2 tries, as many as the longest text needs |
| `ymodem` | do two boards agree on what was transferred, and end? | `SentMeansReceived`, `ReceivedMeansStored`, `DamageIsNoticed`, `BothEnd` | a file of two packets, the second short, over a longer old one; two damaged messages; writes that fail; limits of 2 for 45 and for 5; timeouts at any time (`Patient = FALSE`) |
| `lfs_session` | do commands and transfers share the glue without harm, whatever the other end says? | `TypeOK`, `OnlyInOrder`, `BlocksInOrder`, `GivesBack`, `FlagsTellTheTruth`, `LiveIsSafe`, `UnmountsOnlyItsOwn`, `Ends` | six commands or messages and eight answers, enough for a whole transfer to either side and for a refused one followed by another; every call of littlefs may fail but the read of a block |

A transfer against any other end is in `lfs_session` only, a transfer against
the real one over a faulty line in `ymodem`. `DamageIsNoticed` does not say that
every damage is noticed: the same bit of the packet number and of its
complement, damaged both, passes, since the CRC covers neither. It is about the
tests of `Receive_Packet` alone; what follows when they fail (a request to send
again, or the end of the session after too many) is `Handle`'s, and that
nothing but the file is stored is `ReceivedMeansStored`.

`AnswersTheLine` leaves the full buffer out: `cli.c` puts no NUL behind it, and what
is run then is the line with the bytes behind the buffer (see the table below). A block
that does *not* end with a line is outside the run and covered by the theorem
`DumpShowsTheBlockHolds`, which is for every size of block and line.

The type invariants of `UartRx`, `UartTx`, `SpiFram` and `SpiFifo` are proved for
all constants rather than checked; `LfsSession`'s is both. `CHECK_DEADLOCK FALSE`
stands in every configuration but `ring_api`'s: the bound on bytes, calls or
messages ends each of these models, a blocked console or an unused FRAM is a
legal state, and a session that has returned stays so. What must not stop is
stated as liveness instead.

Violations, each a finding in `PROJECT.json` with the line that says otherwise:

| Run | What it shows |
|---|---|
| `rx_oldest` | `OnlyTheOldestIsLost`: an overwrite between the load of the cell and the advance of the tail loses a byte nobody overwrote (`ringbuffer.c:75`; `uart.c:158` says a full ring loses its oldest) |
| `spi_equal` | `OkMeansTransferred`: with the shipped, equal timeouts a stalled transfer leaves a post behind, and a later call returns OK before its own transfer (`fm25w256.c:139`) |

### Where the passing runs stop short of the code

The passing runs rest on the conditions below. Each names a disagreement
between the code and what it says of itself, or a surprise for its user. Where
the last column names a change, TLC shows it when the change is made; the rows
with a dash come from reading the code and lie outside the models.

| Where | What happens | Change |
|---|---|---|
| `uart.c:296` | a transmit request latched before `TXFFIENA` is cleared ("to prevent race condition", `uart.c:293`) lets the handler fill the FIFO between the read of TXFFST and the test of the ring; `UART_send` overruns it | `UartTx.cfg`: `Transit = TRUE` violates `InOrder` |
| `spi.c:482` | after a DMA timeout chip select stays low; the next write is clocked into the interrupted command, and reported OK | `SpiFram_shipped.cfg`: `WriteOkMeansStored` without `~stalled`, one task with three calls |
| `ymodem.c:335` | two bytes damaged into EOT end a session as a success with part of the file: `file_len` is never compared with the size | `Ymodem.cfg`: `Noise = {4}` violates `ReceivedMeansStored` |
| `ymodem.c:545` | the error of `lfs_file_read` becomes a large unsigned size: stale buffer contents are sent as data, and the transfer succeeds | `Ymodem.cfg`: `FailingCalls = {"read"}` violates `SentMeansReceived` |
| `ymodem.c:291` | the result of `lfs_c2000_fclose` is ignored: "received" is printed for a file that was not stored | `Ymodem.cfg`: `FailingCalls = {"close"}` violates `ReceivedMeansStored` |
| `ymodem.c:681` | a refused file name returns 98, which is not negative, and `cmd_ymodem.c:65-70` prints "bytes sent" | `Ymodem.cfg`: `Sizes = {7}` violates `ReportedSentIsStored` |
| `ymodem.c:702` | a block is sent again for every NAK; the comment at `:698` says ten times | `LfsSession.cfg`: with more `MaxAnswers`, as many copies of packet 1 as NAKs |
| `ymodem.c:413` | an empty file name does not "end session" (`:412`): it counts as a packet, and data after it is acknowledged and dropped | `LfsSession`: `packets_received` grows past 1 without `fs.pFile` |
| `lfs_c2000_fram.c:279` | a file is opened without truncation: received over a longer one it keeps the old end (`README.md:77` says it is stored) | `Ymodem`: `ReportsReceived => rxFs.stored = file` is violated |
| `ymodem.c:646` | after `ymodem_send` was refused its file (-12), `pLfs` still stands; a later receive that ends before its mount unmounts the user's volume | `LfsSession`: `UnmountsOnlyItsOwn` without `~refused` |
| `lfs_c2000_fram.c:222` | a failing `lfs_dir_read` returns without `lfs_dir_close`: littlefs's list of open directories keeps one that stood on the stack (`stray` in the model), which its next walk of the list reads | `LfsSession`: `FlagsTellTheTruth` with `~fs.broken` instead of `fs.broken => fs.stray` |
| `lfs_c2000_fram.c:199` | unmount, format and mount leave `bFileIsOpen` as it is, a format (`:166`) and a failed second mount (`:179`) leave `bMount`: after them the flags speak of a file or a volume that littlefs has forgotten | `LfsSession`: `FlagsTellTheTruth` without `~careless` |
| `cmd_lfs.c:52` | block 2^24 times 128 wraps the Int32 of the test: `lfs_dump` shows block 0 instead of "invalid" | `CommandLine.cfg`: `Width32 = 64` violates `DumpShowsTheBlock` |
| `spi.c:772` | a chunk that is through before the task clears the events of the last one: the event is thrown away and a transfer that succeeded is answered FALSE after the timeout | `SpiFifo`: `FailsOnlyWhenOvertaken` without `overtaken` |
| `spi.c:737` | the words are shifted by 8 and masked to 8 bits whatever the width asked for: 16-bit words lose their upper half on this path | - |
| `cli.c:121` | a NUL as the first character leaves a line that `strlen` calls empty and that newline does not clear: every later line is lost until backspaces remove it | - |
| `cli.c:193` | a full input buffer holds no NUL: the interpreter gets the line and the bytes behind the buffer (`behind` in the model), where "the complete string will be passed" (`:188-191`) says the line alone | `CommandLine`: `AnswersTheLine` without `Len(asked) < MaxInput` is violated: a name with spaces filling the buffer is run with a parameter nobody typed |
| `cmd_lfs.c:438` | the help says "Appends"; the file is opened at its start and without `LFS_O_APPEND`, so that data is overwritten | - |

## Fairness

* Receive: the handler and the task, weak. The console polls for ever; a
  raised interrupt is served. Arrivals are not fair: a sender may stop.
* Transmit: the wire, the handler and the steps of a call that has begun, weak.
  `latch_request` strong, because each new call of `UART_send` clears the enable
  for a moment: the hardware latches within cycles, and a caller that finds the
  ring full sleeps before it calls again (`ymodem.c:605`, `cli.c`). Nobody has
  to call.
* SPI: each caller's call, the SPI task and the tick, weak: the scheduler runs a
  ready task, time passes. The DMA is not fair: a transfer may stall for ever.
* YMODEM: each console task, weak, which includes that each command is given.
  The line and the other end of `LfsSession` are not fair: it may fall silent
  for ever. There, a transfer that was begun goes on, weak.
* Console: the task, weak, which includes that a sleep ends. Nobody has to type
  and the line may be held for ever: ten tries end a text all the same.
* SPI FIFO: the task, the two handlers and the shift register, each weak.
  Callers need not call.

## Assumptions of the models

* **Transit.** With `Transit = FALSE` an interrupt request is taken before the
  task's next step. With `TRUE` it may still be on its way while the task makes
  its two accesses of SCIFFTX. The chip's manuals are not in the repository;
  the code does not exclude it. The run and the proofs take `FALSE`.
* **Buffers.** SPI buffers are the DMARAM ones all callers use; `SpiFram` has
  whose buffer the DMA works on and not what it holds, `SpiFifo` has every word.
  SPI setup times are below a tick. In `SpiFifo` a wait runs out only when
  nothing is under way that could end it: words take microseconds, the timeout
  is 100 ticks.
* **The console's line.** 100 ticks of sleep send `Drain` characters or the line is
  held. As shipped that is 1152 characters at 115200 baud against a text of at
  most 256: `(Tries - 1) * Drain >= MaxOutput` (the sleep after the last try helps
  nobody) holds with room to spare.
* **A careful user** closes before he formats, mounts, unmounts or transfers, and
  unmounts before he formats, mounts or transfers. Only `FlagsTellTheTruth`
  supposes one; for him littlefs's rules are broken only after a failed
  listing has left a directory behind, and `LiveIsSafe` supposes that none has.
  After a call that broke the rules nothing is known, and the model of a session
  ends there.
* **Time in YMODEM.** `Patient = TRUE` makes a timeout mean that the other end
  has nothing to say, which is so when 1000 ticks are longer than a step;
  with `FALSE` a timeout may come at any moment. The run `ymodem` uses `FALSE`; the
  proofs hold for both.
* **The line.** At most `MaxFaults` messages are damaged. A packet that passes
  the CRC is the one that was sent. A packet whose first byte is damaged is
  followed by `JUNK`, that is, its body is dropped by `uart_consume` and is not
  read byte by byte for control bytes. ACK and EOT are not in `Noise` in the
  passing runs: YMODEM's control bytes carry no check, so a NAK damaged into an
  ACK is a success no end can detect; for EOT see the table above.
* **littlefs.** What is written to a file is seen by its reader and becomes part
  of the volume when the file is closed successfully. `read` does not
  fail in the passing runs, `close` only in `lfs_session`; the table above has what
  happens otherwise.
* **Numbers.** A packet's number is one byte: a file of `LfsSession` has at most 255
  packets and one of `Ymodem` 254 (`NumbersAssumption` of each), for which the
  command calls with 16384 bytes, 16 packets (`cmd_ymodem.c:25`). No user types
  a NUL (`TypedAssumption`; the table above has what one does). `Width32` of
  `CommandLine.cfg` is wide enough for every number that can be typed.
* **Data.** A unit is a byte or any number of them; a packet of the transmitter
  has two units; a file's units are numbered, an old file's are negative.
  File names are one name; the size in the first packet is its data.

## Proofs

TLAPS checks, for every value of the constants that the named assumptions admit
(every ring size that is a power of two, FIFO depth, number of bytes, call length,
set of tasks, size of file and packet, number and size of blocks):

* **RingBufferProofs**: lemmas on the ring: types, the number of items, what
  `advance_tail`, `put_cell`, `advance_head` and `queue` do to it and to the
  cells between the indices. The arithmetic of the mask is confined to five
  lemmas on `%`; all later proofs speak of `cell(ring, k)`, the k-th oldest.
  `ImplementsOverwriteQueueHolds` is the refinement of `OverwriteQueue` by
  `RingBufferApi`, for every size of the ring and arrays of every length. Each
  operation is first known on the contents as a sequence: queueing is appending
  and forgetting (`QueueContents`), dequeueing takes the head (`DequeueContents`).
  The loops over arrays follow by induction on the iterations: forgetting after
  each byte is the same as forgetting at the end (`KeptOnce`, `QueueLoop`), and
  taking one at a time is the same as taking a stretch (`StretchOfRest`,
  `DequeueLoop`). That the ring is a `ring_buffer_t` is all the invariant needed.
  The interface is the parameterised instance `Api(MaxLen, ring, out)`, so that the
  proofs of the serial directions, which have rings of their own, share the lemmas.
* **UartRxProofs**: `TypeCorrect`, `TailSafe`, `NothingNewerIsLost`. The
  inductive invariant adds `ArrivalOrder` (ring and FIFO ascend, ring before
  FIFO, nothing newer than what arrived): `TheNewestAreHeld` is not inductive
  alone, since what the ring drops is the oldest byte held only if they are in
  order. `TailNeverPassesHead` is inductive with the types: an overwrite moves
  head and tail of a full ring together, so a task past its test still has a byte.
  `ExactUnlessRacedHolds` follows the whole stream, what the callers have got
  included, as one sequence `Joined(got, ring, rxFifo)`: a byte moved from one place
  to the next leaves the sequence as it is, an arrival appends the newest, an
  overwrite takes one out of the middle. `Exact` adds what that needs: until an
  overwrite hits a dequeue half way, the index and the byte the task has loaded
  are those at the tail (`AtTheTail`), and what was lost has arrived (`LostArrived`).
  Last, the refinement of `ByteStream`'s `Spec` (its safety part, without fairness):
  `ReceiveIsAByteStream`, for a sender that keeps fewer bytes unread than the ring has
  cells (`Window < Size`), as long as the SCI FIFO does not overrun; and
  `SmallWindowIsAByteStream`, without that condition, when the window fits the FIFO
  too, as in `rx_window`. A step of `dequeue_advance` is a `Get`, an arrival a `Put`; the
  invariant `Lossless` says where each unread byte is, by its number.
* **UartTxProofs**: `TypeCorrect`, `SendKeepsOrder`, `SendDoneCorrect`, all
  under the hypothesis `~Transit`, which is needed (see the table above). The
  inductive invariant adds that a running `UART_send` has the interrupt masked and none latched (`Masked`), that FIFO counts read earlier
  are upper bounds because only the wire moves meanwhile (`StatusCovers`), that
  direct bytes are written only while the ring is empty and the FIFO has room
  (`LoopKnows`), and that what `UART_send_done` saw of the ring stays true
  until it looks at the FIFO (`DoneSeen`). `SendIsAByteStream` is the refinement of
  `ByteStream`'s `Spec`: `InOrder` makes what waits in FIFO and ring the bytes after those on
  the wire up to the one taken last, so a step is known by these two numbers.

* **SpiFifoProofs**: every safety property of `SpiFifo`, for every FIFO depth,
  mailbox size and set of lengths: those of the run, and `TypeOK`, `StaysBehind`
  and `NoOverrun`. The invariant counts words: each word of the
  request is in one place, still in the buffer, in the transmit FIFO, in the
  shift register, in the receive FIFO or answered in the buffer (`Counts`,
  `Contents`). A chunk begins when the one before it has been read completely,
  so it fits both FIFOs; and the handler cannot run before the chunk is
  through, because the level is never below its length (`Receiving`). That the
  level of an old chunk still stands while the next one is pushed is what makes
  both the proof and the false failure of `spi.c:772`.
* **SpiFramProofs**: `TypeCorrect` for any timeouts, any tasks, calls and mailbox.
  Then, under `Longer` (`FramTimeout >= SpiTimeout + 3`), which the shipped
  configuration does not fulfil: `OkMeansTransferred`, `NoDeadFrameWrite`,
  `NothingLeftBehind`, `OneRequestAtATime`, however late a transfer is. The
  invariant is a budget of ticks. A call begins to wait when its request is in
  the mailbox; one tick may fall before the SPI task begins to wait,
  `SpiTimeout` of them into its wait, one between the end of that and the post.
  So the post comes while the call still waits, and the next call finds
  semaphore and mailbox empty. `spi_equal` shows what happens without it.
  Last, for timeouts of two ticks or more (`AtLeastTwo`; the shipped ones are 100 and
  equal): `WriteOkMeansStored`, `NoFalseAlarm` and `DmaEndsInTheCall`, that is, the
  FRAM works until a transfer stalls. The invariant is `~stalled => Calm`: a tick
  that finds every task waiting finds no request under way, or it would stall it;
  so at most one tick (`Straddle`) falls into the service of a request, which no
  timeout of two can miss. `Calm` follows the request through gate, mailbox, DMA,
  events and post, and the chip command by command: its write-enable latch is
  set when data goes out, and one chip select carries one command.
* **LfsSessionProofs**: `GivesBack`, `FlagsTellTheTruth`, `LiveIsSafe`, `OnlyInOrder` and
  `UnmountsOnlyItsOwn`, for every order and number of commands and transfers, every size
  of file and packet, every answer of the other end and any call of littlefs
  failing. One lemma for each function of the glue says what it does to a volume;
  the many branches of the two ends are reduced to the nine things they do to it
  (`RxQuiet`, `RxEnds`, `RxFilename`, `RxData`, `TxQuiet`, `TxGoesOn`, `TxGivesUp`, `TxEnds`,
  `TxOpen`), and the invariant is kept by each. It says who owns the open file and
  the mount in each state of a transfer (`Owning`, `Keeping`), that littlefs
  has a file open only where the flag says so (`Living`), and that the file
  being written holds the packets counted so far and no more (`Stored`): a data
  packet is written only if its number, one byte, is that of the next one, which
  is why a file must not have more packets than a byte counts.
  `TypeCorrect` needs `Counts`: errors and polls stay below a limit until one of them
  has been passed, and nothing is counted of a sender that it has not said, so that
  no count is more than `MaxEvents`. `BlocksInOrderHolds` rests on `Sent`: what
  is on the line has its blocks in order (`OnLine`), the last of them is the one
  before the block being prepared or that block itself, and that block has its own
  units of the file (`OnBlock`), whose position is then behind it. The theorem
  is that of the run: no message damaged, a file that 255 packets can hold, and for
  the contents of a block, a read that cannot fail.
* **CommandLineProofs**: `GivesUpOnlyWhenHeld` (a text tried `loopCnt` times on a line never
  held has shrunk by `Drain` between every two tries), `LineIsWhatWasTyped` (the buffer
  and its index hold the line as edited; the string the interpreter reads is that line
  as long as there is room for its NUL, and of a full buffer nothing is said) and
  `FreshStart` (between lines nothing is remembered; within one, only the command
  that is remembered is under way), each with an invariant of its own; then
  `EraseIsExact`, which rests on the last two and on block addresses that fit 16
  bits, and `DumpShowsTheBlock`, which counts the bytes shown so far. The last is proved
  under the hypothesis `NumbersFit`, that no number typed times the block size
  wraps the Int32 of the test (`cmd_lfs.c:52`); the table above has what
  happens to one that does. `ParametersAreWordsHolds` compares the two scans of
  `FreeRTOS_CLI.c` with the words of the line: the spaces counted are the ends of words,
  the last one's excepted (`NumberOfParameters`); each round of the search for a
  parameter goes over one word and the spaces behind it (`OneMoreRound`), so n rounds
  stop at the word with n before it (`WhereItGets`), or at the end of the line.

* **YmodemProofs**: `SentMeansReceived` and `ReceivedMeansStored`, for every size of file
  and packet, any number of damaged messages, any limits of the error counts and
  timeouts at any time. The inductive invariant says how far apart the two boards can
  be: the receiver has counted as many packets as the transmitter has seen
  acknowledged, or one more, and then the answer to that one is the only ACK under
  way (`Upstream`). So an ACK is never that of an earlier block, and the transmitter
  goes on only when the block is written. What is on the line is bounded by that:
  a packet that passes the check is the first, a block already acknowledged or sent
  now, or the last (`Genuine`), the receiver writes only the block it expects (`Receiver`),
  and an EOT is under way only when all are written (`Downstream`). `Pairs` is the subtle
  part: a receiver that reads two CAs answers with an ACK (`ymodem.c:322`) that must
  not pass for that of a block. Noise can make two CAs of two polls, and the ACK is then
  taken for that of the file name, but the C behind it never comes; behind the first
  packet each CA on the line is followed by something else. The hypothesis `Honest` has four
  parts: noise is no ACK, noise is no EOT, `lfs_file_read` does not fail and
  `lfs_c2000_fclose` does not. Each is needed: TLC finds `ReceivedMeansStored`
  violated when the configuration gives up one of them. That mounts, opens and
  writes may fail is included.
  `DamageIsNoticedHolds` is about the bytes of a packet and the tests on them, not about
  what the receiver then answers or stores. It needs neither `Honest` nor an invariant but that packets on
  the line are sequences of units (`Wired`). It rests on two facts about `crc16`, for
  data of any length. `SealedPasses`: two bytes that repeat the register clear it
  (`TrailerClears`). `DamagedFails`: with one byte changed the registers differ from
  there on, because the step of a bit can be undone (the polynomial has its bit 0,
  so the bit shifted out can be told from the result), and so the last one
  cannot be zero for both.

The assumptions are the named `ASSUME`s of the modules, which TLC evaluates in
the runs; a theorem that supposes more (`~Transit`, `Longer`, `AtLeastTwo`,
`NumbersFit`, `Honest`) says so in its statement. Only model-checked:

* `AnswersTheLine`, which relates whole answers to whole lines; `LineIsWhatWasTyped`,
  `ParametersAreWords` and the invariants of the commands are its proved parts;
* liveness: `Drained`, `GoesQuiet`, `EveryCallReturns`, `EveryRequestAnswered`,
  `PromptReturns`, `Ends`, `BothEnd`. It is out of the prover's reach;
* the fairness in the refinement `ImplementsByteStream`, of which the theorems
  state the safety part.

What recursive functions and folds compute is proved by induction on a set: a set of
natural numbers that is not empty has a least element (`LeastOf`, from the
well-foundedness of `<`), so a set that holds 0 and the successor of each number
it holds is all of `Nat` (`SetInduction`). A function chosen by its equation is known once some
function satisfies the equation (`LoopExists`, `RoundsExist`, `CrcsExist`). The
two lemmas on sets stand in each module that needs them: the modules of proofs are
about different components and have no other module in common.

## Not modelled

* **The block device callbacks** of the glue (`lfs_c2000_fram.c:29-96`) and the gate
  around them: littlefs calls them, and littlefs is not in the repository. They
  pass a block on to `FM25W256_read` and `FM25W256_write`, which are `SpiFram`'s;
  their effect is a Boolean of each call of littlefs.
* **littlefs** itself, a submodule; with it `lfs_crc`, which only it calls, and
  crashes between two writes.
* **The vendor's headers, start-up code and interrupt tables**
  (`driver/f2833x/v142`), four fifths of the repository's lines: register
  layouts and handlers that stop the processor, without state of the program.
  The registers the drivers use are variables of their modules.
* **The test commands** for SPI and FRAM, disabled as shipped, and
  `example/main.c`, which creates the tasks and has no state.
* **Formatting**: the text of answers, the digits of numbers, the file name in the
  first packet, the 12-byte buffer `tmpStr` in which `lfs_dump` and
  `lfs_erase` convert their parameter (`cmd_lfs.c:32`, `:114`). `lfs_ls` and the other single-call commands are actions of a
  session without their text.

What would come next: a refinement of `YmodemReceive` and `YmodemTransmit` to a
transfer that is one step, so that `Ymodem` too implements something simpler.
