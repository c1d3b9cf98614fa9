------------------------------ MODULE CommandLine ------------------------------
(***************************************************************************)
(* The console task, driver/uart/cli.c, and the command interpreter it     *)
(* calls, third_party/FreeRTOS-Plus-CLI/FreeRTOS_CLI.c, with the commands  *)
(* that answer in several calls: help of the interpreter and lfs_dump and  *)
(* lfs_erase (BlockCommands).  The other commands answer in one call; what *)
(* they do is LfsSession's and Ymodem's.                                   *)
(*                                                                         *)
(* A character is a letter of a small alphabet: the name of a command and  *)
(* a number are one letter each, so a word is a sequence of letters        *)
(* without a space.  The echo of the input is not configured.              *)
(*                                                                         *)
(* UART_send is UartTx's: here it takes what the transmit ring has room    *)
(* for, which is any number of characters for a new text. A try that falls *)
(* short has filled the ring; in the 100 ticks of the console's sleep the  *)
(* line then sends at least Drain of them, or it is held.                  *)
(***************************************************************************)
EXTENDS BlockCommands, FiniteSets

CONSTANTS
    Typed,      \* the letters a user may type
    MaxInput,   \* CONFIG_CLI_COMMAND_MAX_INPUT_SIZE
    MaxOutput,  \* characters of the longest text
    RingSize,   \* the transmit ring
    Drain,      \* characters the line sends in 100 ticks
    Tries       \* 10 in helper_send_blocking

ASSUME InputAssumption == MaxInput \in Nat \ {0} /\ MaxOutput \in Nat \ {0}
ASSUME OutputAssumption ==
    /\ RingSize \in Nat \ {0} /\ Drain \in 1..RingSize /\ Tries \in Nat \ {0}
    /\ (Tries - 1) * Drain >= MaxOutput

NUL == "nul"
Space == " "

(* A user types no NUL. The editor would take one like any letter          *)
(* (cli.c:195), but a C string ends at it, and a line that begins with one *)
(* passes for empty and is not cleared (cli.c:121).                        *)
ASSUME TypedAssumption == NUL \notin Typed

EditKeys == {"newline", "return", "backspace", "beyond ascii"}

(* The commands, help first, then in the order of CMD_LFS_init: the name   *)
(* and cExpectedNumberOfParameters.                                        *)
Command(name, params) == [name |-> name, params |-> params]

xHelpCommand == Command("help", 0)

FreeRTOS_CLIRegisterCommand(list, command) == Append(list, command)

CMD_LFS_init(list) ==
    FreeRTOS_CLIRegisterCommand(
        FreeRTOS_CLIRegisterCommand(
            FreeRTOS_CLIRegisterCommand(list, Command("lfs_dump", 1)),
            Command("lfs_erase", 1)),
        Command("lfs_ls", -1))

xRegisteredCommands == CMD_LFS_init(<<xHelpCommand>>)

NULL == 0

VARIABLES
    pc,             \* "read", or "process" while the interpreter is called
    input_strBuf, inputIndex,
    behind,         \* what stands in memory behind input_strBuf, up to a NUL
    pxCommand,      \* static of FreeRTOS_CLIProcessCommand: a place in the list
    helpCommand,    \* static pxCommand of prvHelpCommand
    m,              \* what BlockCommands works on
    out,            \* helper_send_blocking: lengths of the texts still to go
    loopCnt,        \* tries made for the first of them
    asleep,         \* in its Task_sleep(100)
    \* history
    line,           \* what the user has typed since the last newline, edited
    asked,          \* the line the interpreter is at, or has answered
    shown,          \* the answers to it
    framAsked,      \* the FRAM when it was asked
    held,           \* the line was held between two tries of this text
    dropped         \* the rest of this text was given up

input == <<input_strBuf, inputIndex, behind>>
interpreter == <<pxCommand, helpCommand, m>>
sending == <<out, loopCnt, asleep>>
tries == <<held, dropped>>
history == <<line, asked, shown, framAsked>>
vars == <<pc, input, interpreter, sending, tries, history>>

Positions == 0..(MaxInput - 1)
Cleared == [k \in Positions |-> NUL]

Welcome == MaxOutput
LineSep == 1
Prompt == 1
LengthOf(text) == IF text.says = "nothing" THEN 0 ELSE MaxOutput

Init ==
    /\ pc = "read"
    /\ input_strBuf = Cleared /\ inputIndex = 0 /\ behind = <<>>
    /\ pxCommand = NULL /\ helpCommand = NULL /\ m = BlockCommandsInit
    /\ out = <<Welcome, Prompt>> /\ loopCnt = 0 /\ asleep = FALSE
    /\ line = <<>> /\ asked = <<>> /\ shown = <<>> /\ framAsked = m.fram
    /\ held = FALSE /\ dropped = FALSE

------------------------------------------------------------------------------
(* helper_send_blocking                                                    *)

(* The room a try may find: after a sleep less than Drain means held.      *)
FoundHeld(room) == loopCnt > 0 /\ (held \/ room < Drain)

(* Mutant: the tries are not counted. *)
UART_send_for_ever ==
    \E room \in 0..RingSize :
        /\ out # <<>> /\ ~asleep
        /\ held' = (FoundHeld(room) /\ Head(out) > room)
        /\ dropped' = FALSE
        /\ IF Head(out) <= room
           THEN out' = Tail(out) /\ UNCHANGED asleep
           ELSE out' = [out EXCEPT ![1] = @ - room] /\ asleep' = TRUE
        /\ UNCHANGED <<pc, input, interpreter, loopCnt, history>>

(* Mutant: the last try is left out. *)
UART_send_one_try_less ==
    \E room \in 0..RingSize :
        /\ out # <<>> /\ ~asleep
        /\ held' = (FoundHeld(room) /\ Head(out) > room)
        /\ IF Head(out) <= room
           THEN out' = Tail(out) /\ loopCnt' = 0 /\ dropped' = FALSE /\ UNCHANGED asleep
           ELSE IF loopCnt + 2 >= Tries
           THEN out' = Tail(out) /\ loopCnt' = 0 /\ dropped' = TRUE /\ UNCHANGED asleep
           ELSE /\ out' = [out EXCEPT ![1] = @ - room]
                /\ loopCnt' = loopCnt + 1
                /\ asleep' = TRUE
                /\ dropped' = FALSE
        /\ UNCHANGED <<pc, input, interpreter, history>>

UART_send ==
    \E room \in 0..RingSize :
        /\ out # <<>> /\ ~asleep
        /\ held' = (FoundHeld(room) /\ Head(out) > room)
        /\ dropped' = FALSE
        /\ IF Head(out) <= room
           THEN out' = Tail(out) /\ loopCnt' = 0 /\ UNCHANGED asleep
           ELSE /\ out' = [out EXCEPT ![1] = @ - room]
                /\ loopCnt' = loopCnt + 1
                /\ asleep' = TRUE
        /\ UNCHANGED <<pc, input, interpreter, history>>

(* The sleep is over. After the last try the rest of the text is given up. *)
Task_sleep_ends ==
    /\ asleep
    /\ asleep' = FALSE
    /\ IF loopCnt = Tries
       THEN out' = Tail(out) /\ loopCnt' = 0 /\ dropped' = TRUE
       ELSE UNCHANGED <<out, loopCnt, dropped>>
    /\ UNCHANGED <<pc, input, interpreter, history, held>>

------------------------------------------------------------------------------
(* The line editor of tsk_command_console.                                 *)

(* The C string at input_strBuf: up to the first NUL, which is behind the  *)
(* buffer when there is none in it.                                        *)
CString ==
    IF \E k \in Positions : input_strBuf[k] = NUL
    THEN LET strlen == CHOOSE k \in Positions :
                            input_strBuf[k] = NUL /\ \A i \in 0..(k - 1) : input_strBuf[i] # NUL
         IN  [k \in 1..strlen |-> input_strBuf[k - 1]]
    ELSE [k \in 1..MaxInput |-> input_strBuf[k - 1]] \o behind

Listening == pc = "read" /\ out = <<>>

(* The history of the last command ends when the next line begins.         *)
NewInput ==
    /\ asked' = <<>> /\ shown' = <<>> /\ framAsked' = m.fram
    /\ held' = FALSE /\ dropped' = FALSE

(* Not ASCII, or a carriage return.                                        *)
IgnoreChar ==
    /\ Listening
    /\ {"beyond ascii", "return"} \cap Typed # {}
    /\ NewInput
    /\ UNCHANGED <<pc, input, interpreter, sending, line>>

Backspace ==
    /\ Listening
    /\ "backspace" \in Typed
    /\ IF inputIndex > 0
       THEN /\ inputIndex' = inputIndex - 1
            /\ input_strBuf' = [input_strBuf EXCEPT ![inputIndex - 1] = NUL]
       ELSE UNCHANGED <<inputIndex, input_strBuf>>
    /\ line' = IF line = <<>> THEN line ELSE SubSeq(line, 1, Len(line) - 1)
    /\ NewInput
    /\ UNCHANGED <<pc, behind, interpreter, sending>>

AcceptChar(c) ==
    /\ Listening
    /\ IF inputIndex < MaxInput
       THEN /\ input_strBuf' = [input_strBuf EXCEPT ![inputIndex] = c]
            /\ inputIndex' = inputIndex + 1
       ELSE UNCHANGED <<input_strBuf, inputIndex>>
    /\ line' = IF Len(line) < MaxInput THEN Append(line, c) ELSE line
    /\ NewInput
    /\ UNCHANGED <<pc, behind, interpreter, sending>>

(* The line is complete. Nothing is known of the memory behind a full      *)
(* buffer: one letter, or none.                                            *)
Newline ==
    /\ Listening
    /\ "newline" \in Typed
    /\ behind' \in {<<>>} \cup {<<c>> : c \in {"0"} \cap Typed}
    /\ IF CString = <<>>
       THEN pc' = "read" /\ out' = <<LineSep, LineSep, Prompt>>
       ELSE pc' = "process" /\ out' = <<LineSep, LineSep>>
    /\ line' = <<>> /\ asked' = line /\ shown' = <<>> /\ framAsked' = m.fram
    /\ UNCHANGED <<input_strBuf, inputIndex, interpreter, loopCnt, asleep, tries>>

------------------------------------------------------------------------------
(* FreeRTOS_CLI.c: words.                                                  *)

(* The next space, or the next character that is none, from a place on.    *)
NextSpace(s, from) ==
    CHOOSE j \in from..(Len(s) + 1) :
        /\ j > Len(s) \/ s[j] = Space
        /\ \A i \in from..(j - 1) : s[i] # Space

NextWord(s, from) ==
    CHOOSE j \in from..(Len(s) + 1) :
        /\ j > Len(s) \/ s[j] # Space
        /\ \A i \in from..(j - 1) : s[i] = Space

(* Where the loop of FreeRTOS_CLIGetParameter is after n rounds.           *)
ParameterStart(s, wanted) ==
    LET start[n \in 0..wanted] ==
            IF n = 0 THEN 1 ELSE NextWord(s, NextSpace(s, start[n - 1]))
    IN  start[wanted]

(* The empty sequence where the code returns NULL.                         *)
FreeRTOS_CLIGetParameter(s, wanted) ==
    LET start == ParameterStart(s, wanted)
    IN  SubSeq(s, start, NextSpace(s, start) - 1)

(* Mutant: a space at the end is counted as one more. *)
prvGetNumberOfParameters_last_space(s) ==
    Cardinality({k \in DOMAIN s : s[k] = Space /\ (k = 1 \/ s[k - 1] # Space)})

prvGetNumberOfParameters(s) ==
    Cardinality({k \in DOMAIN s : s[k] = Space /\ (k = 1 \/ s[k - 1] # Space)})
        - (IF s # <<>> /\ s[Len(s)] = Space THEN 1 ELSE 0)

------------------------------------------------------------------------------
(* FreeRTOS_CLIProcessCommand                                              *)

(* The name, and behind it a space or the end.                             *)
Names(command, s) == s[1] = command.name /\ (Len(s) = 1 \/ s[2] = Space)

Search(s) ==
    IF \E k \in DOMAIN xRegisteredCommands : Names(xRegisteredCommands[k], s)
    THEN CHOOSE k \in DOMAIN xRegisteredCommands :
            /\ Names(xRegisteredCommands[k], s)
            /\ \A i \in 1..(k - 1) : ~Names(xRegisteredCommands[i], s)
    ELSE NULL

Processing == pc = "process" /\ out = <<>>

(* The command of this call: the one remembered, or the one the line names.*)
Current == IF pxCommand # NULL THEN pxCommand ELSE Search(CString)

(* Tested only when the line is searched for.                              *)
RightParameters ==
    \/ pxCommand # NULL
    \/ xRegisteredCommands[Current].params < 0
    \/ xRegisteredCommands[Current].params = prvGetNumberOfParameters(CString)

(* Mutant: the line is kept. *)
Answer_keeps_line(text, more) ==
    /\ shown' = Append(shown, text)
    /\ IF more
       THEN out' = <<LengthOf(text)>> /\ UNCHANGED <<pc, inputIndex, input_strBuf>>
       ELSE /\ out' = <<LengthOf(text), Prompt>>
            /\ pc' = "read"
            /\ inputIndex' = 0
            /\ UNCHANGED input_strBuf
    /\ UNCHANGED <<behind, loopCnt, asleep, tries, line, asked, framAsked>>

(* The console sends the answer. If more is to come it calls again, else   *)
(* it clears the line.                                                     *)
Answer(text, more) ==
    /\ shown' = Append(shown, text)
    /\ IF more
       THEN out' = <<LengthOf(text)>> /\ UNCHANGED <<pc, inputIndex, input_strBuf>>
       ELSE /\ out' = <<LengthOf(text), Prompt>>
            /\ pc' = "read"
            /\ inputIndex' = 0
            /\ input_strBuf' = Cleared
    /\ UNCHANGED <<behind, loopCnt, asleep, tries, line, asked, framAsked>>

NotRecognised ==
    /\ Processing /\ Current = NULL
    /\ Answer(Text("not recognised", <<>>), FALSE)
    /\ UNCHANGED interpreter

IncorrectParameters ==
    /\ Processing /\ Current # NULL /\ ~RightParameters
    /\ pxCommand' = NULL
    /\ Answer(Text("incorrect parameters", <<>>), FALSE)
    /\ UNCHANGED <<helpCommand, m>>

Calls(name) ==
    /\ Processing
    /\ Current # NULL /\ RightParameters
    /\ xRegisteredCommands[Current].name = name

(* Mutant: the command is forgotten only when there is more to come. *)
Remember_backwards(more) == pxCommand' = IF more THEN NULL ELSE Current

Remember(more) == pxCommand' = IF more THEN Current ELSE NULL

(* One help string a call.                                                 *)
prvHelpCommand ==
    LET this == IF helpCommand = NULL THEN 1 ELSE helpCommand
        more == this < Len(xRegisteredCommands)
    IN  /\ Calls("help")
        /\ helpCommand' = IF more THEN this + 1 ELSE NULL
        /\ Remember(more)
        /\ Answer(Text("help", <<this>>), more)
        /\ UNCHANGED m

(* What strtol makes of the first parameter.                               *)
strtol(word) ==
    CASE word = <<"0">> -> 0
      [] word = <<"1">> -> 1
      [] word = <<"2">> -> 2
      [] word = <<"-1">> -> -1
      [] word = <<"16">> -> 16
      [] OTHER -> NaN

BlockParameter == strtol(FreeRTOS_CLIGetParameter(CString, 1))

BlockCommand(name, reply) ==
    /\ Calls(name)
    /\ m' = reply.m
    /\ Remember(reply.more)
    /\ Answer(reply.text, reply.more)
    /\ UNCHANGED helpCommand

lfs_dump == \E ok \in BOOLEAN : BlockCommand("lfs_dump", FuncLfsDump(m, BlockParameter, ok))

lfs_erase ==
    \E ok, done \in BOOLEAN :
        (ok => done) /\ BlockCommand("lfs_erase", FuncLfsErase(m, BlockParameter, ok, done))

(* A command that answers in one call.                                     *)
lfs_ls ==
    /\ Calls("lfs_ls")
    /\ Remember(FALSE)
    /\ Answer(Text("listing", <<>>), FALSE)
    /\ UNCHANGED <<helpCommand, m>>

FreeRTOS_CLIProcessCommand ==
    \/ NotRecognised
    \/ IncorrectParameters
    \/ prvHelpCommand
    \/ lfs_dump
    \/ lfs_erase
    \/ lfs_ls

------------------------------------------------------------------------------
User ==
    \/ \E c \in Typed \ EditKeys : AcceptChar(c)
    \/ IgnoreChar
    \/ Backspace
    \/ Newline

Console == UART_send \/ Task_sleep_ends \/ FreeRTOS_CLIProcessCommand

Next == User \/ Console

Spec == Init /\ [][Next]_vars

(* The console task runs and time goes on; nobody has to type, and the     *)
(* line may be held for ever.                                              *)
FairSpec == Spec /\ WF_vars(Console)

------------------------------------------------------------------------------
(* cli.c:132-137, :158-159 and :195-196: the buffer holds what the user    *)
(* has typed and edited since the last newline, nothing of an earlier line,*)
(* and NUL behind it; a line that leaves room for that NUL is the string   *)
(* the interpreter gets. A line that fills the buffer is not, in spite of  *)
(* the comment at :188-191: no NUL ends it, and the interpreter reads on   *)
(* behind the buffer.                                                      *)
LineIsWhatWasTyped ==
    LET typed == IF pc = "process" THEN asked ELSE line
    IN  /\ \A k \in Positions : input_strBuf[k] = IF k < Len(typed) THEN typed[k + 1] ELSE NUL
        /\ Len(typed) < MaxInput => CString = typed

(* Between two lines nothing of a command is left, whichever call of the   *)
(* FRAM failed in it: the next line is searched for anew and every         *)
(* command begins at its beginning (FreeRTOS_CLI.c:181, :318;              *)
(* cmd_lfs.c:25-27, :107-109).                                             *)
FreshStart ==
    pc = "read" =>
        /\ pxCommand = NULL /\ helpCommand = NULL
        /\ m.dump.internalState = 0 /\ m.erase.internalState = 0

(* The words of a line that begins with one: maximal runs without spaces.  *)
Words(s) ==
    {w \in (DOMAIN s) \X (DOMAIN s) :
        /\ \A k \in w[1]..w[2] : s[k] # Space
        /\ w[1] <= w[2]
        /\ w[1] = 1 \/ s[w[1] - 1] = Space
        /\ w[2] = Len(s) \/ s[w[2] + 1] = Space}

(* The number of parameters is that of the words behind the first, and     *)
(* parameter n is the n-th of them, however many spaces there are between  *)
(* and behind them (FreeRTOS_CLI.c:260-313, :349-383).                     *)
ParametersAreWords ==
    pc = "process" /\ CString[1] # Space =>
        LET words == Words(CString)
        IN  /\ prvGetNumberOfParameters(CString) = Cardinality(words) - 1
            /\ \A n \in 1..MaxInput :
                  LET nth == {w \in words : Cardinality({v \in words : v[1] < w[1]}) = n}
                  IN  FreeRTOS_CLIGetParameter(CString, n) =
                          IF nth = {} THEN <<>>
                          ELSE LET w == CHOOSE w \in nth : TRUE
                               IN  SubSeq(CString, w[1], w[2])

Answered == pc = "read" /\ shown # <<>>
Says(text) == \E k \in DOMAIN shown : shown[k].says = text
AskedFor(name) == Answered /\ Len(asked) < MaxInput /\ Names(Command(name, 0), asked)

(* The commands the line names: one, by its first word, or none.           *)
NamedBy(words) ==
    {k \in DOMAIN xRegisteredCommands :
        <<1, 1>> \in words /\ asked[1] = xRegisteredCommands[k].name}

(* The texts a command that was accepted has to answer with, all of them   *)
(* and in order: the whole list of help; a block line by line; a line for  *)
(* every block erased, up to one that failed, and the end.                 *)
WholeAnswer(name) ==
    LET says == [k \in DOMAIN shown |-> shown[k].says]
        n == Len(shown)
    IN  CASE name = "help" ->
                shown = [k \in DOMAIN xRegisteredCommands |-> Text("help", <<k>>)]
          [] name = "lfs_ls" -> says = <<"listing">>
          [] name = "lfs_dump" ->
                \/ says \in {<<"invalid">>, <<"failed">>}
                \/ /\ n = BlockSz \div BytesPerLine + 2
                   /\ says[1] = "nothing"
                   /\ \A k \in 2..n : says[k] = "line"
          [] name = "lfs_erase" ->
                \/ says = <<"invalid">>
                \/ /\ n \in 3..(Blocks + 2)
                   /\ says[1] = "nothing" /\ says[n] = "end"
                   /\ \A k \in 2..(n - 2) : says[k] = "deleted"
                   /\ says[n - 1] \in {"deleted", "failed"}

(* What answers a line is the command that line names, with all it has to  *)
(* say and nothing of another command: a name nobody registered and a      *)
(* wrong number of parameters are refused, and nothing else is             *)
(* (cli.c:132-159; FreeRTOS_CLI.c:179-251). A line that fills the buffer   *)
(* is left out, since the interpreter does not get that line alone.        *)
AnswersTheLine ==
    Answered /\ Len(asked) < MaxInput =>
        LET words == Words(asked)
            named == NamedBy(words)
        IN  IF named = {}
            THEN shown = <<Text("not recognised", <<>>)>>
            ELSE LET command == xRegisteredCommands[CHOOSE k \in named : TRUE]
                 IN  IF command.params \notin {-1, Cardinality(words) - 1}
                     THEN shown = <<Text("incorrect parameters", <<>>)>>
                     ELSE WholeAnswer(command.name)

(* What concatenating the lines of an answer gives.                        *)
Shown ==
    LET upTo[k \in 0..Len(shown)] == IF k = 0 THEN <<>> ELSE upTo[k - 1] \o shown[k].bytes
    IN  upTo[Len(shown)]

(* lfs_dump shows the bytes of the block it was asked for, each once and   *)
(* in order, whether or not the lines come out even; for a number that is  *)
(* no block it shows nothing (cmd_lfs.c:39-93).                            *)
DumpShowsTheBlock ==
    AskedFor("lfs_dump") /\ ~Says("failed") /\ ~Says("incorrect parameters") =>
        LET id == strtol(FreeRTOS_CLIGetParameter(asked, 1))
        IN  Shown = IF id \in 0..(Blocks - 1)
                    THEN [k \in 1..BlockSz |-> framAsked[id * BlockSz + k - 1]]
                    ELSE <<>>

(* lfs_erase leaves 0xFF in the blocks it was asked for and everything     *)
(* else as it was. If a write fails, the blocks before it are erased and   *)
(* none behind it (cmd_lfs.c:121-179). No other command writes.            *)
EraseIsExact ==
    Answered =>
        LET id == strtol(FreeRTOS_CLIGetParameter(asked, 1))
            whole == IF id = -1 THEN 0..(Blocks - 1) ELSE {id} \cap (0..(Blocks - 1))
            changed == {b \in 0..(Blocks - 1) : \E k \in BlockAt(b * BlockSz) : m.fram[k] # framAsked[k]}
            erased == {b \in 0..(Blocks - 1) : \A k \in BlockAt(b * BlockSz) : m.fram[k] = Erased}
        IN  /\ changed \subseteq erased
            /\ AskedFor("lfs_erase") /\ ~Says("incorrect parameters") =>
                  /\ changed \subseteq whole
                  /\ Says("failed") \/ whole \subseteq erased
                  /\ \A b \in changed, c \in whole : c < b => c \in erased
            /\ Len(asked) < MaxInput /\ ~AskedFor("lfs_erase") => changed = {}

(* A text is given up only when the line has been held: the tries are      *)
(* enough for the longest text on a line that sends (cli.c:68-84).         *)
GivesUpOnlyWhenHeld == dropped => held

(* Whatever has been typed, the console comes back to read more, all of    *)
(* the answer and the prompt sent or given up: a command is called to its  *)
(* end, though the line may be held and the FRAM fail.                     *)
PromptReturns == []<>(pc = "read" /\ out = <<>>)
==============================================================================
