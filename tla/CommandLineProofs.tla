--------------------------- MODULE CommandLineProofs ---------------------------
(***************************************************************************)
(* Theorems about the console and the command interpreter, for every size  *)
(* of the input buffer, of the storage and of its blocks, every speed of   *)
(* the line and every set of letters.                                      *)
(*                                                                         *)
(* Three invariants that are each inductive by themselves come first:      *)
(* Sending of helper_send_blocking, Editing of the line editor and         *)
(* Remembering of the interpreter with the machines of the two commands    *)
(* that answer in several calls.  Erasing, of the storage, rests on the    *)
(* last two, and Dumping, of what was shown of it, on these three.         *)
(*                                                                         *)
(* That the parameters of a line are its words is a fact about the         *)
(* operators alone, for a line of any length: an induction over the rounds *)
(* of FreeRTOS_CLIGetParameter's loop, and a bijection between the words   *)
(* and the places prvGetNumberOfParameters counts.                         *)
(***************************************************************************)
EXTENDS CommandLine, FiniteSetTheorems, TLAPS

------------------------------------------------------------------------------
(* helper_send_blocking: a text that has been tried loopCnt times on a line*)
(* that was never held has got rid of Drain characters between every two   *)
(* tries.                                                                  *)

Lengths == out \in Seq(0..MaxOutput)

SendTypes ==
    /\ loopCnt \in 0..Tries
    /\ asleep \in BOOLEAN
    /\ held \in BOOLEAN
    /\ dropped \in BOOLEAN

Tried ==
    /\ asleep => loopCnt > 0
    /\ loopCnt = Tries => asleep
    /\ loopCnt > 0 => out # <<>>

GetsOn ==
    loopCnt > 0 /\ ~held => out[1] >= 1 /\ out[1] + (loopCnt - 1) * Drain <= MaxOutput

Sending == Lengths /\ SendTypes /\ Tried /\ GetsOn /\ GivesUpOnlyWhenHeld

(* The texts the console sends are none longer than the longest.           *)
LEMMA TextsFit ==
    /\ <<Welcome, Prompt>> \in Seq(0..MaxOutput)
    /\ <<LineSep, LineSep>> \in Seq(0..MaxOutput)
    /\ <<LineSep, LineSep, Prompt>> \in Seq(0..MaxOutput)
    /\ \A text : /\ <<LengthOf(text)>> \in Seq(0..MaxOutput)
                 /\ <<LengthOf(text), Prompt>> \in Seq(0..MaxOutput)
<1>1. 1 \in 0..MaxOutput /\ 0 \in 0..MaxOutput /\ MaxOutput \in 0..MaxOutput
  BY InputAssumption
<1>2. \A text : LengthOf(text) \in 0..MaxOutput
  BY <1>1 DEF LengthOf
<1> QED
  BY <1>1, <1>2 DEF Welcome, Prompt, LineSep

(* What the drain of one more sleep takes off a text.                      *)
LEMMA OneMoreTry ==
    ASSUME NEW first \in Nat, NEW room \in Nat, NEW n \in Nat \ {0},
           first + (n - 1) * Drain <= MaxOutput, room >= Drain
    PROVE  (first - room) + (n + 1 - 1) * Drain <= MaxOutput
<1> DEFINE before == (n - 1) * Drain
<1>1. Drain \in Nat /\ MaxOutput \in Nat
  BY InputAssumption, OutputAssumption
<1>2. before \in Int /\ n * Drain = before + Drain
  BY <1>1
<1>3. n + 1 - 1 = n
  OBVIOUS
<1>4. first + before <= MaxOutput
  OBVIOUS
<1> HIDE DEF before
<1>5. (first - room) + (before + Drain) <= MaxOutput
  BY <1>1, <1>2, <1>4
<1> QED
  BY <1>2, <1>3, <1>5

(* A text that has been tried as often as the code tries is held, or gone. *)
LEMMA TriesAreEnough ==
    ASSUME NEW first \in Nat, first >= 1, first + (Tries - 1) * Drain <= MaxOutput
    PROVE  FALSE
<1> DEFINE all == (Tries - 1) * Drain
<1>1. Drain \in Nat /\ MaxOutput \in Nat /\ Tries \in Nat /\ all >= MaxOutput /\ first + all <= MaxOutput
  BY InputAssumption, OutputAssumption
<1>2. all \in Int
  BY <1>1
<1> HIDE DEF all
<1> QED
  BY <1>1, <1>2

LEMMA SendingInit == Init => Sending
<1> SUFFICES ASSUME Init PROVE Sending
  OBVIOUS
<1>1. Lengths
  BY TextsFit DEF Init, Lengths
<1>2. loopCnt \in 0..Tries
  BY OutputAssumption DEF Init
<1>3. SendTypes
  BY <1>2 DEF Init, SendTypes
<1>4. Tried
  BY OutputAssumption DEF Init, Tried
<1>5. GetsOn
  BY DEF Init, GetsOn
<1>6. GivesUpOnlyWhenHeld
  BY DEF Init, GivesUpOnlyWhenHeld
<1> QED
  BY <1>1, <1>3, <1>4, <1>5, <1>6 DEF Sending

(* One try of UART_send.                                                   *)
LEMMA SendingTry == Sending /\ UART_send => Sending'
<1> SUFFICES ASSUME Sending, UART_send PROVE Sending'
  OBVIOUS
<1> USE DEF Sending
<1>1. PICK room \in 0..RingSize :
        /\ out # <<>> /\ ~asleep
        /\ held' = (FoundHeld(room) /\ Head(out) > room)
        /\ dropped' = FALSE
        /\ IF Head(out) <= room
           THEN out' = Tail(out) /\ loopCnt' = 0 /\ UNCHANGED asleep
           ELSE /\ out' = [out EXCEPT ![1] = @ - room]
                /\ loopCnt' = loopCnt + 1
                /\ asleep' = TRUE
  BY DEF UART_send
<1>2. held' \in BOOLEAN
  BY <1>1
<1>3. dropped' \in BOOLEAN /\ GivesUpOnlyWhenHeld'
  BY <1>1 DEF GivesUpOnlyWhenHeld
<1>4. /\ room \in Nat /\ Drain \in Nat /\ Tries \in Nat /\ MaxOutput \in Nat
      /\ Len(out) \in Nat /\ Len(out) > 0 /\ Head(out) = out[1] /\ out[1] \in 0..MaxOutput
  BY <1>1, InputAssumption, OutputAssumption DEF Lengths
<1>5. loopCnt \in 0..(Tries - 1)
  BY <1>1, <1>4 DEF Tried, SendTypes
<1>6. CASE Head(out) <= room
  <2>1. out' = Tail(out) /\ loopCnt' = 0 /\ asleep' = asleep
    BY <1>1, <1>6
  <2>2. Lengths'
    BY <2>1, <1>1 DEF Lengths
  <2>3. SendTypes'
    <3>1. loopCnt' \in 0..Tries
      BY <2>1, <1>4
    <3> QED
      BY <3>1, <2>1, <1>2, <1>3 DEF SendTypes
  <2>4. Tried'
    BY <2>1, <1>1, OutputAssumption DEF Tried
  <2>5. GetsOn'
    BY <2>1 DEF GetsOn
  <2> QED
    BY <2>2, <2>3, <2>4, <2>5, <1>3
<1>7. CASE ~(Head(out) <= room)
  <2>1. out' = [out EXCEPT ![1] = @ - room] /\ loopCnt' = loopCnt + 1 /\ asleep' = TRUE
    BY <1>1, <1>7
  <2>2. out[1] - room \in 0..MaxOutput /\ out[1] - room >= 1
    BY <1>7, <1>4
  <2>3. Lengths' /\ out'[1] = out[1] - room /\ out' # <<>>
    BY <2>1, <2>2, <1>4 DEF Lengths
  <2>4. SendTypes'
    <3>1. loopCnt' \in 0..Tries
      BY <2>1, <1>4, <1>5
    <3> QED
      BY <3>1, <2>1, <1>2, <1>3 DEF SendTypes
  <2>5. Tried'
    BY <2>1, <2>3, <1>5 DEF Tried
  <2>6. GetsOn'
    <3> SUFFICES ASSUME ~held' PROVE out'[1] >= 1 /\ out'[1] + (loopCnt' - 1) * Drain <= MaxOutput
      BY DEF GetsOn
    <3>1. CASE loopCnt = 0
      <4>1. (loopCnt' - 1) * Drain = 0
        BY <3>1, <2>1, <1>4
      <4> QED
        BY <4>1, <2>2, <2>3
    <3>2. CASE loopCnt # 0
      <4>0. ~(FoundHeld(room) /\ Head(out) > room)
        BY <1>1
      <4>1. ~FoundHeld(room)
        BY <4>0, <1>7, <1>4
      <4>2. ~held /\ room >= Drain
        BY <4>1, <3>2, <1>4, <1>5 DEF FoundHeld
      <4>3. out[1] + (loopCnt - 1) * Drain <= MaxOutput
        BY <4>2, <3>2, <1>5 DEF GetsOn
      <4>4. (out[1] - room) + (loopCnt + 1 - 1) * Drain <= MaxOutput
        BY <4>2, <4>3, <3>2, <1>4, <1>5, OneMoreTry
      <4>5. loopCnt' - 1 = loopCnt + 1 - 1
        BY <2>1, <1>5
      <4>6. (loopCnt' - 1) * Drain = (loopCnt + 1 - 1) * Drain
        BY ONLY <4>5
      <4> HIDE DEF Sending
      <4> QED
        BY <4>4, <4>6, <2>2, <2>3
    <3> QED
      BY <3>1, <3>2
  <2> QED
    BY <2>3, <2>4, <2>5, <2>6, <1>3
<1> QED
  BY <1>6, <1>7

(* The end of a sleep, the last one too.                                   *)
LEMMA SendingWakes == Sending /\ Task_sleep_ends => Sending'
<1> SUFFICES ASSUME Sending, Task_sleep_ends PROVE Sending'
  OBVIOUS
<1> USE DEF Sending, Task_sleep_ends
<1>1. loopCnt > 0 /\ out # <<>> /\ asleep' = FALSE /\ held' = held /\ loopCnt \in 0..Tries
  BY DEF Tried, SendTypes
<1>2. Tries \in Nat \ {0}
  BY OutputAssumption
<1>3. CASE loopCnt = Tries
  <2>1. out' = Tail(out) /\ loopCnt' = 0 /\ dropped' = TRUE
    BY <1>3
  <2>2. held
    <3> SUFFICES ASSUME ~held PROVE FALSE
      OBVIOUS
    <3>1. out[1] >= 1 /\ out[1] + (Tries - 1) * Drain <= MaxOutput
      BY <1>1, <1>3 DEF GetsOn
    <3>2. out[1] \in Nat
      BY <1>1, InputAssumption DEF Lengths
    <3> QED
      BY <3>1, <3>2, TriesAreEnough
  <2>3. Lengths'
    BY <2>1, <1>1 DEF Lengths
  <2>4. loopCnt' \in 0..Tries
    BY <2>1, <1>2
  <2>5. SendTypes'
    BY <2>1, <2>4, <1>1 DEF SendTypes
  <2>6. Tried'
    BY <2>1, <1>1, <1>2 DEF Tried
  <2>7. GetsOn'
    BY <2>1 DEF GetsOn
  <2>8. GivesUpOnlyWhenHeld'
    BY <2>2, <1>1 DEF GivesUpOnlyWhenHeld
  <2> QED
    BY <2>3, <2>5, <2>6, <2>7, <2>8
<1>4. CASE loopCnt # Tries
  <2>1. out' = out /\ loopCnt' = loopCnt /\ dropped' = dropped
    BY <1>4
  <2>2. Lengths'
    BY <2>1 DEF Lengths
  <2>3. SendTypes'
    BY <2>1, <1>1 DEF SendTypes
  <2>4. Tried'
    BY <2>1, <1>1, <1>4 DEF Tried
  <2>5. GetsOn'
    BY <2>1, <1>1 DEF GetsOn
  <2>6. GivesUpOnlyWhenHeld'
    BY <2>1, <1>1 DEF GivesUpOnlyWhenHeld
  <2> QED
    BY <2>2, <2>3, <2>4, <2>5, <2>6
<1> QED
  BY <1>3, <1>4

(* Whatever else happens, happens with nothing left to send, and gives     *)
(* helper_send_blocking its next texts.                                    *)
LEMMA SendingNewTexts ==
    ASSUME Sending, out = <<>>,
           out' \in Seq(0..MaxOutput), UNCHANGED <<loopCnt, asleep>>,
           UNCHANGED tries \/ (held' = FALSE /\ dropped' = FALSE)
    PROVE  Sending'
<1> USE DEF Sending
<1>1. loopCnt = 0 /\ loopCnt' = 0 /\ ~asleep /\ asleep' = asleep
  BY OutputAssumption DEF Tried, SendTypes
<1>2. Lengths'
  BY DEF Lengths
<1>3. held' \in BOOLEAN /\ dropped' \in BOOLEAN
  BY DEF tries, SendTypes
<1>4. SendTypes'
  BY <1>1, <1>3 DEF SendTypes
<1>5. Tried'
  BY <1>1, OutputAssumption DEF Tried
<1>6. GetsOn'
  BY <1>1 DEF GetsOn
<1>7. GivesUpOnlyWhenHeld'
  BY DEF GivesUpOnlyWhenHeld, tries
<1> QED
  BY <1>2, <1>4, <1>5, <1>6, <1>7

(* An answer of any command.                                               *)
LEMMA AnswerSends ==
    ASSUME NEW text, NEW more, Answer(text, more)
    PROVE  out' \in Seq(0..MaxOutput) /\ UNCHANGED <<loopCnt, asleep>> /\ UNCHANGED tries
BY TextsFit DEF Answer

------------------------------------------------------------------------------
(* The line editor: the buffer holds the letters of a line and is cleared  *)
(* behind them.                                                            *)

Holds(s) ==
    /\ s \in Seq(Typed)
    /\ Len(s) <= MaxInput
    /\ input_strBuf = [k \in Positions |-> IF k < Len(s) THEN s[k + 1] ELSE NUL]

Editing ==
    /\ pc \in {"read", "process"}
    /\ behind \in Seq(Typed)
    /\ pc = "read" => Holds(line) /\ inputIndex = Len(line)
    /\ pc = "process" => Holds(asked) /\ line = <<>>

(* The C string in a buffer that holds a line is that line, and what stands*)
(* behind the buffer belongs to it when the line fills the buffer.         *)
LEMMA StringOfLine ==
    ASSUME NEW s, Holds(s)
    PROVE  CString = IF Len(s) = MaxInput THEN s \o behind ELSE s
<1> USE DEF Holds
<1>1. MaxInput \in Nat \ {0} /\ Len(s) \in 0..MaxInput
  BY InputAssumption
<1>2. \A k \in Positions : k < Len(s) => input_strBuf[k] = s[k + 1] /\ input_strBuf[k] # NUL
  BY <1>1, TypedAssumption DEF Positions
<1>3. \A k \in Positions : ~(k < Len(s)) => input_strBuf[k] = NUL
  BY <1>1 DEF Positions
<1>4. s = [k \in 1..Len(s) |-> s[k]]
  OBVIOUS
<1>5. CASE Len(s) = MaxInput
  <2>1. ~(\E k \in Positions : input_strBuf[k] = NUL)
    BY <1>1, <1>2, <1>5 DEF Positions
  <2>2. CString = [k \in 1..MaxInput |-> input_strBuf[k - 1]] \o behind
    BY <2>1 DEF CString
  <2>3. \A k \in 1..MaxInput : input_strBuf[k - 1] = s[k]
    <3> TAKE k \in 1..MaxInput
    <3>1. k - 1 \in Positions /\ k - 1 < Len(s) /\ k - 1 + 1 = k
      BY <1>1, <1>5 DEF Positions
    <3> QED
      BY <3>1, <1>2
  <2>4. [k \in 1..MaxInput |-> input_strBuf[k - 1]] = [k \in 1..MaxInput |-> s[k]]
    BY <2>3
  <2> QED
    BY <2>2, <2>4, <1>4, <1>5
<1>6. CASE Len(s) # MaxInput
  <2> DEFINE Ends(k) == input_strBuf[k] = NUL /\ \A i \in 0..(k - 1) : input_strBuf[i] # NUL
             strlen == CHOOSE k \in Positions : Ends(k)
  <2>1. Len(s) \in Positions /\ input_strBuf[Len(s)] = NUL
    BY <1>1, <1>3, <1>6 DEF Positions
  <2>2. \A i \in 0..(Len(s) - 1) : input_strBuf[i] # NUL
    <3> TAKE i \in 0..(Len(s) - 1)
    <3>1. i \in Positions /\ i < Len(s)
      BY <1>1 DEF Positions
    <3> QED
      BY <3>1, <1>2
  <2>3. Ends(Len(s))
    BY <2>1, <2>2
  <2>4. \A k \in Positions : Ends(k) => k = Len(s)
    <3> SUFFICES ASSUME NEW k \in Positions, Ends(k) PROVE k = Len(s)
      OBVIOUS
    <3>1. k \in Nat /\ ~(k < Len(s))
      BY <1>2 DEF Positions
    <3>2. ASSUME Len(s) < k PROVE FALSE
      <4>1. Len(s) \in 0..(k - 1)
        BY <3>1, <3>2, <1>1
      <4> QED
        BY <4>1, <2>1
    <3> QED
      BY <3>1, <3>2, <1>1
  <2>5. strlen = Len(s)
    BY <2>1, <2>3, <2>4
  <2>6. CString = [k \in 1..strlen |-> input_strBuf[k - 1]]
    BY <2>1 DEF CString
  <2> HIDE DEF Ends, strlen
  <2>7. \A k \in 1..Len(s) : input_strBuf[k - 1] = s[k]
    <3> TAKE k \in 1..Len(s)
    <3>1. k - 1 \in Positions /\ k - 1 < Len(s) /\ k - 1 + 1 = k
      BY <1>1 DEF Positions
    <3> QED
      BY <3>1, <1>2
  <2>8. [k \in 1..Len(s) |-> input_strBuf[k - 1]] = [k \in 1..Len(s) |-> s[k]]
    BY <2>7
  <2> QED
    BY <2>5, <2>6, <2>8, <1>4, <1>6
<1> QED
  BY <1>5, <1>6

(* The empty line is the only one whose C string is empty.                 *)
LEMMA EmptyString ==
    ASSUME NEW s, Holds(s), behind \in Seq(Typed), CString = <<>>
    PROVE  s = <<>>
<1>1. s \in Seq(Typed) /\ MaxInput \in Nat \ {0}
  BY InputAssumption DEF Holds
<1>2. CASE Len(s) = MaxInput
  <2>1. s \o behind = <<>>
    BY <1>2, StringOfLine
  <2>2. Len(s \o behind) = Len(s) + Len(behind) /\ Len(s \o behind) = 0
    BY <2>1, <1>1
  <2> QED
    BY <2>2, <1>1, <1>2
<1>3. CASE Len(s) # MaxInput
  BY <1>3, StringOfLine
<1> QED
  BY <1>2, <1>3

(* Letters go to the end of the line.                                      *)
LEMMA EditAccept ==
    ASSUME Editing, NEW c \in Typed \ EditKeys, AcceptChar(c)
    PROVE  Editing'
<1> USE DEF Editing
<1>1. pc = "read" /\ pc' = "read" /\ behind' = behind /\ Holds(line) /\ inputIndex = Len(line)
  BY DEF AcceptChar, Listening
<1>2. MaxInput \in Nat /\ line \in Seq(Typed) /\ Len(line) \in 0..MaxInput
  BY <1>1, InputAssumption DEF Holds
<1>3. CASE Len(line) = MaxInput
  <2>1. UNCHANGED <<input_strBuf, inputIndex, line>>
    BY <1>1, <1>2, <1>3 DEF AcceptChar
  <2> QED
    BY <1>1, <2>1 DEF Holds
<1>4. CASE Len(line) # MaxInput
  <2>1. /\ input_strBuf' = [input_strBuf EXCEPT ![inputIndex] = c]
        /\ inputIndex' = inputIndex + 1
        /\ line' = Append(line, c)
    BY <1>1, <1>2, <1>4 DEF AcceptChar
  <2>2. /\ line' \in Seq(Typed) /\ Len(line') = Len(line) + 1 /\ Len(line') <= MaxInput
        /\ inputIndex' = Len(line')
    BY <1>1, <1>2, <1>4, <2>1
  <2>3. \A k \in Positions : IF k < Len(line) THEN line'[k + 1] = line[k + 1]
                             ELSE k = Len(line) => line'[k + 1] = c
    BY <1>2, <2>1 DEF Positions
  <2>4. input_strBuf' = [k \in Positions |-> IF k = Len(line) THEN c ELSE input_strBuf[k]]
    BY <1>1, <2>1 DEF Holds
  <2>5. \A k \in Positions : (IF k = Len(line) THEN c ELSE input_strBuf[k])
                                = (IF k < Len(line') THEN line'[k + 1] ELSE NUL)
    <3> TAKE k \in Positions
    <3>1. k \in Nat
      BY DEF Positions
    <3>2. input_strBuf[k] = IF k < Len(line) THEN line[k + 1] ELSE NUL
      BY <1>1 DEF Holds
    <3> QED
      BY <3>1, <3>2, <2>2, <2>3, <1>2
  <2>6. input_strBuf' = [k \in Positions |-> IF k < Len(line') THEN line'[k + 1] ELSE NUL]
    BY <2>4, <2>5
  <2>7. Holds(line)'
    BY <2>2, <2>6 DEF Holds
  <2> QED
    BY <1>1, <2>2, <2>7
<1> QED
  BY <1>3, <1>4

(* A backspace takes the last letter out of the line and of the buffer.    *)
LEMMA EditBackspace == Editing /\ Backspace => Editing'
<1> SUFFICES ASSUME Editing, Backspace PROVE Editing'
  OBVIOUS
<1> USE DEF Editing
<1>1. pc = "read" /\ pc' = "read" /\ behind' = behind /\ Holds(line) /\ inputIndex = Len(line)
  BY DEF Backspace, Listening
<1>2. MaxInput \in Nat /\ line \in Seq(Typed) /\ Len(line) \in 0..MaxInput
  BY <1>1, InputAssumption DEF Holds
<1>3. CASE line = <<>>
  <2>1. UNCHANGED <<input_strBuf, inputIndex, line>>
    BY <1>1, <1>3 DEF Backspace
  <2> QED
    BY <1>1, <2>1 DEF Holds
<1>4. CASE line # <<>>
  <2>0. Len(line) > 0
    BY <1>2, <1>4
  <2>1. /\ input_strBuf' = [input_strBuf EXCEPT ![inputIndex - 1] = NUL]
        /\ inputIndex' = inputIndex - 1
        /\ line' = SubSeq(line, 1, Len(line) - 1)
    BY <1>1, <1>4, <2>0 DEF Backspace
  <2>2. /\ line' \in Seq(Typed) /\ Len(line') = Len(line) - 1 /\ Len(line') <= MaxInput
        /\ inputIndex' = Len(line')
    BY <1>1, <1>2, <2>0, <2>1
  <2>3. \A k \in Positions : k < Len(line) - 1 => line'[k + 1] = line[k + 1]
    BY <1>2, <2>1 DEF Positions
  <2>4. input_strBuf' = [k \in Positions |-> IF k = Len(line) - 1 THEN NUL ELSE input_strBuf[k]]
    BY <1>1, <2>1 DEF Holds
  <2>5. \A k \in Positions : (IF k = Len(line) - 1 THEN NUL ELSE input_strBuf[k])
                                = (IF k < Len(line') THEN line'[k + 1] ELSE NUL)
    <3> TAKE k \in Positions
    <3>1. k \in Nat
      BY DEF Positions
    <3>2. input_strBuf[k] = IF k < Len(line) THEN line[k + 1] ELSE NUL
      BY <1>1 DEF Holds
    <3> QED
      BY <3>1, <3>2, <2>2, <2>3, <1>2
  <2>6. input_strBuf' = [k \in Positions |-> IF k < Len(line') THEN line'[k + 1] ELSE NUL]
    BY <2>4, <2>5
  <2>7. Holds(line)'
    BY <2>2, <2>6 DEF Holds
  <2> QED
    BY <1>1, <2>2, <2>7
<1> QED
  BY <1>3, <1>4

(* A newline gives the line to the interpreter, or leaves the empty one.   *)
LEMMA EditNewline == Editing /\ Newline => Editing'
<1> SUFFICES ASSUME Editing, Newline PROVE Editing'
  OBVIOUS
<1> USE DEF Editing
<1>1. pc = "read" /\ Holds(line) /\ inputIndex = Len(line) /\ behind \in Seq(Typed)
  BY DEF Newline, Listening
<1>2. line' = <<>> /\ asked' = line /\ UNCHANGED <<input_strBuf, inputIndex>>
  BY DEF Newline
<1>3. behind' \in Seq(Typed)
  <2>1. behind' = <<>> \/ \E c \in {"0"} \cap Typed : behind' = <<c>>
    BY DEF Newline
  <2>2. CASE behind' = <<>>
    BY <2>2
  <2>3. ASSUME NEW c \in Typed, behind' = <<c>> PROVE behind' \in Seq(Typed)
    BY <2>3
  <2> QED
    BY <2>1, <2>2, <2>3
<1>4. CASE CString = <<>>
  <2>1. line = <<>> /\ pc' = "read"
    BY <1>1, <1>4, EmptyString DEF Newline
  <2>2. Holds(line)' /\ inputIndex' = Len(line')
    BY <1>1, <1>2, <2>1 DEF Holds
  <2> QED
    BY <1>3, <2>1, <2>2
<1>5. CASE CString # <<>>
  <2>1. pc' = "process"
    BY <1>5 DEF Newline
  <2>2. Holds(asked)'
    BY <1>1, <1>2 DEF Holds
  <2> QED
    BY <1>2, <1>3, <2>1, <2>2
<1> QED
  BY <1>4, <1>5

(* What every answer does to the console, whatever command gives it: it    *)
(* goes on with the same line or clears it.                                *)
Answering ==
    /\ pc = "process" /\ out = <<>>
    /\ out' \in Seq(0..MaxOutput)
    /\ \/ UNCHANGED <<pc, inputIndex, input_strBuf>>
       \/ pc' = "read" /\ inputIndex' = 0 /\ input_strBuf' = Cleared
    /\ UNCHANGED <<behind, loopCnt, asleep, tries, line, asked, framAsked>>

LEMMA EveryCommandAnswers == FreeRTOS_CLIProcessCommand => Answering
<1> USE TextsFit DEF Answer, Answering, Processing
<1>1. NotRecognised => Answering
  BY DEF NotRecognised
<1>2. IncorrectParameters => Answering
  BY DEF IncorrectParameters
<1>3. prvHelpCommand => Answering
  BY DEF prvHelpCommand, Calls
<1>4. lfs_dump => Answering
  BY DEF lfs_dump, BlockCommand, Calls
<1>5. lfs_erase => Answering
  BY DEF lfs_erase, BlockCommand, Calls
<1>6. lfs_ls => Answering
  BY DEF lfs_ls, Calls
<1> QED
  BY <1>1, <1>2, <1>3, <1>4, <1>5, <1>6 DEF FreeRTOS_CLIProcessCommand

LEMMA EditAnswer == Editing /\ Answering => Editing'
<1> SUFFICES ASSUME Editing, Answering PROVE Editing'
  OBVIOUS
<1> USE DEF Editing, Answering
<1>1. pc = "process" /\ Holds(asked) /\ line = <<>> /\ behind' \in Seq(Typed)
  OBVIOUS
<1>2. line' = <<>> /\ asked' = asked
  BY <1>1
<1>3. CASE UNCHANGED <<pc, inputIndex, input_strBuf>>
  <2>1. Holds(asked)' /\ pc' = "process"
    BY <1>1, <1>3 DEF Holds
  <2> QED
    BY <1>1, <1>2, <2>1
<1>4. CASE pc' = "read" /\ inputIndex' = 0 /\ input_strBuf' = Cleared
  <2>1. Len(<<>>) = 0 /\ <<>> \in Seq(Typed) /\ MaxInput \in Nat
    BY InputAssumption
  <2>2. Cleared = [k \in Positions |-> IF k < 0 THEN <<>>[k + 1] ELSE NUL]
    BY DEF Cleared, Positions
  <2>3. Holds(line)' /\ inputIndex' = Len(line')
    BY <1>2, <1>4, <2>1, <2>2 DEF Holds
  <2> QED
    BY <1>1, <1>4, <2>3
<1> QED
  BY <1>3, <1>4

LEMMA EditingInit == Init => Editing
<1> SUFFICES ASSUME Init PROVE Editing
  OBVIOUS
<1>1. Len(<<>>) = 0 /\ <<>> \in Seq(Typed) /\ MaxInput \in Nat
  BY InputAssumption
<1>2. Cleared = [k \in Positions |-> IF k < 0 THEN <<>>[k + 1] ELSE NUL]
  BY DEF Cleared, Positions
<1>3. Holds(line)
  BY <1>1, <1>2 DEF Init, Holds
<1> QED
  BY <1>1, <1>3 DEF Init, Editing

------------------------------------------------------------------------------
(* The two invariants together.                                            *)

Quiet == Sending /\ Editing

LEMMA QuietInit == Init => Quiet
BY SendingInit, EditingInit DEF Quiet

LEMMA QuietStep == Quiet /\ [Next]_vars => Quiet'
<1> SUFFICES ASSUME Quiet, [Next]_vars PROVE Quiet'
  OBVIOUS
<1>1. CASE UART_send
  <2>1. UNCHANGED <<pc, input_strBuf, inputIndex, behind, line, asked>>
    BY <1>1 DEF UART_send, input, history
  <2>2. Editing'
    BY <2>1 DEF Quiet, Editing, Holds
  <2> QED
    BY <1>1, <2>2, SendingTry DEF Quiet
<1>2. CASE Task_sleep_ends
  <2>1. UNCHANGED <<pc, input_strBuf, inputIndex, behind, line, asked>>
    BY <1>2 DEF Task_sleep_ends, input, history
  <2>2. Editing'
    BY <2>1 DEF Quiet, Editing, Holds
  <2> QED
    BY <1>2, <2>2, SendingWakes DEF Quiet
<1>3. CASE FreeRTOS_CLIProcessCommand
  <2>1. Answering
    BY <1>3, EveryCommandAnswers
  <2>2. Editing'
    BY <2>1, EditAnswer DEF Quiet
  <2>3. Sending'
    BY <2>1, SendingNewTexts DEF Quiet, Answering
  <2> QED
    BY <2>2, <2>3 DEF Quiet
<1>4. CASE IgnoreChar
  <2>1. /\ pc = "read" /\ out = <<>> /\ out' = out /\ held' = FALSE /\ dropped' = FALSE
        /\ UNCHANGED <<pc, input_strBuf, inputIndex, behind, line, loopCnt, asleep>>
    BY <1>4 DEF IgnoreChar, Listening, NewInput, input, sending
  <2>2. Editing'
    BY <2>1 DEF Quiet, Editing, Holds
  <2>3. Sending'
    BY <2>1, SendingNewTexts DEF Quiet, Sending, Lengths
  <2> QED
    BY <2>2, <2>3 DEF Quiet
<1>5. CASE Backspace
  <2>1. /\ out = <<>> /\ out' = out /\ held' = FALSE /\ dropped' = FALSE
        /\ UNCHANGED <<loopCnt, asleep>>
    BY <1>5 DEF Backspace, Listening, NewInput, sending
  <2>2. Sending'
    BY <2>1, SendingNewTexts DEF Quiet, Sending, Lengths
  <2> QED
    BY <1>5, <2>2, EditBackspace DEF Quiet
<1>6. CASE Newline
  <2>1. out = <<>> /\ out' \in Seq(0..MaxOutput) /\ UNCHANGED <<loopCnt, asleep>> /\ UNCHANGED tries
    BY <1>6, TextsFit DEF Newline, Listening
  <2>2. Sending'
    BY <2>1, SendingNewTexts DEF Quiet
  <2> QED
    BY <1>6, <2>2, EditNewline DEF Quiet
<1>7. ASSUME NEW c \in Typed \ EditKeys, AcceptChar(c) PROVE Quiet'
  <2>1. /\ out = <<>> /\ out' = out /\ held' = FALSE /\ dropped' = FALSE
        /\ UNCHANGED <<loopCnt, asleep>>
    BY <1>7 DEF AcceptChar, Listening, NewInput, sending
  <2>2. Sending'
    BY <2>1, SendingNewTexts DEF Quiet, Sending, Lengths
  <2> QED
    BY <1>7, <2>2, EditAccept DEF Quiet
<1>8. CASE UNCHANGED vars
  <2>1. Sending'
    BY <1>8 DEF vars, sending, tries, Quiet, Sending, Lengths, SendTypes, Tried, GetsOn, GivesUpOnlyWhenHeld
  <2>2. Editing'
    BY <1>8 DEF vars, input, history, Quiet, Editing, Holds
  <2> QED
    BY <2>1, <2>2 DEF Quiet
<1> QED
  BY <1>1, <1>2, <1>3, <1>4, <1>5, <1>6, <1>7, <1>8 DEF Next, User, Console

(* A text is given up only when the line was held between two of its tries:*)
(* for every drain, number of tries and length of text with enough tries   *)
(* for the longest text (cli.c:68-84).                                     *)
THEOREM GivesUpOnlyWhenHeldHolds == Spec => []GivesUpOnlyWhenHeld
<1>1. Quiet => GivesUpOnlyWhenHeld
  BY DEF Quiet, Sending
<1> QED
  BY <1>1, QuietInit, QuietStep, PTL DEF Spec

(* The buffer holds the line as it was edited, without anything of an      *)
(* earlier one, for every size of the buffer; a line that leaves room for  *)
(* the NUL behind it is the string the interpreter gets. Of a line that    *)
(* fills the buffer this is not claimed, and not so (cli.c:121, :132-137,  *)
(* :158-159, :195-196).                                                    *)
THEOREM LineIsWhatWasTypedHolds == Spec => []LineIsWhatWasTyped
<1>1. Quiet => LineIsWhatWasTyped
  <2> SUFFICES ASSUME Quiet PROVE LineIsWhatWasTyped
    OBVIOUS
  <2> DEFINE typed == IF pc = "process" THEN asked ELSE line
  <2>1. Holds(typed)
    BY DEF Quiet, Editing
  <2> HIDE DEF typed
  <2>2. \A k \in Positions : input_strBuf[k] = IF k < Len(typed) THEN typed[k + 1] ELSE NUL
    BY <2>1 DEF Holds
  <2>3. Len(typed) < MaxInput => CString = typed
    <3>1. Len(typed) \in Nat /\ MaxInput \in Nat
      BY <2>1, InputAssumption DEF Holds
    <3> QED
      BY <2>1, <3>1, StringOfLine
  <2> QED
    BY <2>2, <2>3 DEF LineIsWhatWasTyped, typed
<1> QED
  BY <1>1, QuietInit, QuietStep, PTL DEF Spec

------------------------------------------------------------------------------
(* The commands: their names differ, so a line names one of them or none.  *)

(* What Append does to a list.                                             *)
LEMMA Appended ==
    ASSUME NEW S, NEW list \in Seq(S), NEW x \in S
    PROVE  /\ Append(list, x) \in Seq(S)
           /\ Len(Append(list, x)) = Len(list) + 1
           /\ Append(list, x)[Len(list) + 1] = x
           /\ \A i \in 1..Len(list) : Append(list, x)[i] = list[i]
OBVIOUS

LEMMA TheCommands ==
    /\ Len(xRegisteredCommands) = 4
    /\ DOMAIN xRegisteredCommands = 1..4
    /\ xRegisteredCommands[1] = Command("help", 0)
    /\ xRegisteredCommands[2] = Command("lfs_dump", 1)
    /\ xRegisteredCommands[3] = Command("lfs_erase", 1)
    /\ xRegisteredCommands[4] = Command("lfs_ls", -1)
<1> DEFINE help == Command("help", 0)
           dump == Command("lfs_dump", 1)
           erase == Command("lfs_erase", 1)
           ls == Command("lfs_ls", -1)
           one == <<help>>
           two == Append(one, dump)
           three == Append(two, erase)
           four == Append(three, ls)
           All == {help, dump, erase, ls}
<1>1. help \in All /\ dump \in All /\ erase \in All /\ ls \in All
  OBVIOUS
<1> HIDE DEF All, help, dump, erase, ls
<1>2. one \in Seq(All) /\ Len(one) = 1 /\ one[1] = help
  BY <1>1
<1> HIDE DEF one
<1>3. Len(one) + 1 = 2 /\ 1 \in 1..Len(one)
  BY <1>2
<1>4. two \in Seq(All) /\ Len(two) = 2 /\ two[1] = help /\ two[2] = dump
  <2>1. /\ two \in Seq(All) /\ Len(two) = Len(one) + 1 /\ two[Len(one) + 1] = dump
        /\ \A i \in 1..Len(one) : two[i] = one[i]
    <3>1. one \in Seq(All)
      BY <1>2
    <3> QED
      BY <1>1, <3>1, Appended
  <2> HIDE DEF two
  <2> QED
    BY <2>1, <1>2, <1>3
<1> HIDE DEF two
<1>5. Len(two) + 1 = 3 /\ 1 \in 1..Len(two) /\ 2 \in 1..Len(two)
  BY <1>4
<1>6. three \in Seq(All) /\ Len(three) = 3 /\ three[1] = help /\ three[2] = dump /\ three[3] = erase
  <2>0. two \in Seq(All)
    BY <1>4
  <2>1. /\ three \in Seq(All) /\ Len(three) = Len(two) + 1 /\ three[Len(two) + 1] = erase
        /\ \A i \in 1..Len(two) : three[i] = two[i]
    BY <1>1, <2>0, Appended
  <2> HIDE DEF three
  <2> QED
    BY <2>1, <1>4, <1>5
<1> HIDE DEF three
<1>7. Len(three) + 1 = 4 /\ 1 \in 1..Len(three) /\ 2 \in 1..Len(three) /\ 3 \in 1..Len(three)
  BY <1>6
<1>8. /\ four \in Seq(All) /\ Len(four) = 4
      /\ four[1] = help /\ four[2] = dump /\ four[3] = erase /\ four[4] = ls
  <2>0. three \in Seq(All)
    BY <1>6
  <2>1. /\ four \in Seq(All) /\ Len(four) = Len(three) + 1 /\ four[Len(three) + 1] = ls
        /\ \A i \in 1..Len(three) : four[i] = three[i]
    BY <1>1, <2>0, Appended
  <2> HIDE DEF four
  <2> QED
    BY <2>1, <1>6, <1>7
<1> HIDE DEF four
<1>9. xRegisteredCommands = four
  BY DEF xRegisteredCommands, CMD_LFS_init, FreeRTOS_CLIRegisterCommand, xHelpCommand,
         help, dump, erase, ls, one, two, three, four
<1>10. DOMAIN four = 1..4
  BY <1>8
<1> QED
  BY <1>8, <1>9, <1>10 DEF help, dump, erase, ls

LEMMA NamesDiffer ==
    ASSUME NEW s, NEW i \in 1..4, NEW j \in 1..4,
           Names(xRegisteredCommands[i], s), Names(xRegisteredCommands[j], s)
    PROVE  i = j
<1>1. xRegisteredCommands[i].name = xRegisteredCommands[j].name
  BY DEF Names
<1>2. /\ xRegisteredCommands[1].name = "help" /\ xRegisteredCommands[2].name = "lfs_dump"
      /\ xRegisteredCommands[3].name = "lfs_erase" /\ xRegisteredCommands[4].name = "lfs_ls"
  BY TheCommands DEF Command
<1>3. i \in {1, 2, 3, 4} /\ j \in {1, 2, 3, 4}
  OBVIOUS
<1> QED
  BY <1>1, <1>2, <1>3

(* The search finds the one command that the line names.                   *)
LEMMA SearchFinds ==
    ASSUME NEW s
    PROVE  /\ Search(s) \in 0..4
           /\ \A k \in 1..4 : Names(xRegisteredCommands[k], s) <=> Search(s) = k
<1>1. CASE \E k \in 1..4 : Names(xRegisteredCommands[k], s)
  <2>1. PICK k \in 1..4 : Names(xRegisteredCommands[k], s)
    BY <1>1
  <2> DEFINE First(j) == Names(xRegisteredCommands[j], s) /\ \A i \in 1..(j - 1) : ~Names(xRegisteredCommands[i], s)
  <2>2. First(k)
    <3> SUFFICES ASSUME NEW i \in 1..(k - 1), Names(xRegisteredCommands[i], s) PROVE FALSE
      BY <2>1
    <3>1. i \in 1..4 /\ i # k
      OBVIOUS
    <3> QED
      BY <2>1, <3>1, NamesDiffer
  <2>3. Search(s) = CHOOSE j \in 1..4 : First(j)
    BY <1>1, TheCommands DEF Search
  <2>4. Search(s) \in 1..4 /\ First(Search(s))
    BY <2>2, <2>3
  <2>5. Search(s) = k
    BY <2>1, <2>4, NamesDiffer
  <2> QED
    BY <2>1, <2>5, NamesDiffer
<1>2. CASE ~(\E k \in 1..4 : Names(xRegisteredCommands[k], s))
  <2>1. Search(s) = 0
    BY <1>2, TheCommands DEF Search, NULL
  <2> QED
    BY <1>2, <2>1
<1> QED
  BY <1>1, <1>2

------------------------------------------------------------------------------
(* The machines of lfs_dump and lfs_erase.                                 *)

IsMachine(r) ==
    /\ r = [dump |-> r.dump, erase |-> r.erase, lfsCmdBuffer |-> r.lfsCmdBuffer, fram |-> r.fram]
    /\ r.dump \in [internalState : {0, 1}, nBytes : Int, printIdx : Int]
    /\ r.erase \in [internalState : 0..2, blockToDelete : Int, remaining : Int]
    /\ r.fram \in [Address -> Int]

LEMMA NumbersAreIntegers == \A word : strtol(word) \in Int
BY DEF strtol, NaN

(* What a call may answer: the transfer is done or fails, and a write that *)
(* fails may have been carried out.                                        *)
DumpReplies(r, id) == {FuncLfsDump(r, id, TRUE), FuncLfsDump(r, id, FALSE)}
EraseReplies(r, id) ==
    {FuncLfsErase(r, id, TRUE, TRUE), FuncLfsErase(r, id, FALSE, TRUE), FuncLfsErase(r, id, FALSE, FALSE)}

(* A call of lfs_dump leaves lfs_erase and the storage alone, and is at its*)
(* beginning again when it says that no more is to come.                   *)
LEMMA DumpReply ==
    ASSUME NEW r, IsMachine(r), NEW id \in Int, NEW reply \in DumpReplies(r, id)
    PROVE  /\ IsMachine(reply.m) /\ reply.m.erase = r.erase /\ reply.m.fram = r.fram
           /\ \/ reply.more = TRUE /\ reply.m.dump.internalState = 1
              \/ reply.more = FALSE /\ reply.m.dump.internalState = 0
<1> DEFINE Goal == /\ IsMachine(reply.m) /\ reply.m.erase = r.erase /\ reply.m.fram = r.fram
                   /\ \/ reply.more = TRUE /\ reply.m.dump.internalState = 1
                      \/ reply.more = FALSE /\ reply.m.dump.internalState = 0
<1> SUFFICES Goal
  OBVIOUS
<1>1. CASE r.dump.internalState = 0
  <2>1. reply = Dump_start(r, id, TRUE) \/ reply = Dump_start(r, id, FALSE)
    BY <1>1 DEF DumpReplies, FuncLfsDump
  <2>2. CASE NotABlock(id)
    <3>1. reply.m = r /\ reply.more = FALSE
      BY <2>1, <2>2 DEF Dump_start, Reply
    <3> QED
      BY <1>1, <3>1
  <2>3. CASE ~NotABlock(id) /\ reply = Dump_start(r, id, FALSE)
    <3>1. reply.m = [r EXCEPT !.lfsCmdBuffer = [k \in Offset |-> Erased]] /\ reply.more = FALSE
      BY <2>1, <2>3 DEF Dump_start, Reply
    <3>2. IsMachine(reply.m) /\ reply.m.erase = r.erase /\ reply.m.fram = r.fram /\ reply.m.dump = r.dump
      BY <3>1 DEF IsMachine
    <3> QED
      BY <1>1, <3>1, <3>2
  <2>4. CASE ~NotABlock(id) /\ reply = Dump_start(r, id, TRUE)
    <3> DEFINE read == FM25W256_read(r, UInt16(UInt16(id) * BlockSz))
    <3>1. /\ reply.m = [read EXCEPT !.dump = [internalState |-> 1, nBytes |-> BlockSz, printIdx |-> 0]]
          /\ reply.more = TRUE
      BY <2>1, <2>4 DEF Dump_start, Reply
    <3>2. IsMachine(read) /\ read.erase = r.erase /\ read.fram = r.fram
      BY DEF FM25W256_read, IsMachine
    <3> HIDE DEF read
    <3>3. BlockSz \in Int
      BY BlockAssumption
    <3>4. /\ IsMachine(reply.m) /\ reply.m.erase = r.erase /\ reply.m.fram = r.fram
          /\ reply.m.dump.internalState = 1
      BY <3>1, <3>2, <3>3 DEF IsMachine
    <3> QED
      BY <3>1, <3>4
  <2> QED
    BY <2>1, <2>2, <2>3, <2>4
<1>2. CASE r.dump.internalState # 0
  <2> DEFINE d == r.dump
             n == LineLength(d)
             bytes == [k \in 1..n |-> r.lfsCmdBuffer[d.printIdx + k - 1]]
             full == n > 0 /\ (d.printIdx + n) % BytesPerLine = 0
  <2>1. reply = Dump_line(r)
    BY <1>2 DEF DumpReplies, FuncLfsDump
  <2>2. d.nBytes \in Int /\ d.printIdx \in Int /\ BytesPerLine \in Nat \ {0}
    BY BlockAssumption DEF IsMachine
  <2>3. n \in Int
    BY <2>2 DEF LineLength
  <2>4. CASE full
    <3>1. /\ reply.m = [r EXCEPT !.dump.nBytes = d.nBytes - n, !.dump.printIdx = d.printIdx + n]
          /\ reply.more = TRUE
      BY <2>1, <2>4 DEF Dump_line, Reply
    <3> HIDE DEF n
    <3>2. reply.m = [r EXCEPT !.dump = [internalState |-> 1,
                                        nBytes |-> d.nBytes - n, printIdx |-> d.printIdx + n]]
      <4>1. d.internalState = 1
        BY <1>2 DEF IsMachine
      <4>2. reply.m = [r EXCEPT !.dump.nBytes = d.nBytes - n, !.dump.printIdx = d.printIdx + n]
        BY <3>1
      <4> QED
        BY <4>1, <4>2 DEF IsMachine
    <3>3. d.nBytes - n \in Int /\ d.printIdx + n \in Int
      BY <2>2, <2>3
    <3>4. /\ IsMachine(reply.m) /\ reply.m.erase = r.erase /\ reply.m.fram = r.fram
          /\ reply.m.dump.internalState = 1
      BY <3>2, <3>3 DEF IsMachine
    <3> QED
      BY <3>1, <3>4
  <2>5. CASE ~full
    <3>1. /\ reply.m = [r EXCEPT !.dump = [internalState |-> 0, nBytes |-> 0, printIdx |-> 0]]
          /\ reply.more = FALSE
      BY <2>1, <2>5 DEF Dump_line, Reply
    <3>2. /\ IsMachine(reply.m) /\ reply.m.erase = r.erase /\ reply.m.fram = r.fram
          /\ reply.m.dump.internalState = 0
      BY <3>1 DEF IsMachine
    <3> QED
      BY <3>1, <3>2
  <2> QED
    BY <2>4, <2>5
<1> QED
  BY <1>1, <1>2

(* The call of lfs_erase that takes the parameter.                         *)
First(id) == IF id = -1 THEN 0 ELSE id
Last(id) == IF id = -1 THEN Blocks - 1 ELSE id

EraseStarted(r, id) ==
    [r EXCEPT !.erase = [internalState |-> 1, blockToDelete |-> First(id),
                         remaining |-> Last(id) - First(id) + 1]]

EraseGoesOn(e) ==
    [internalState |-> IF e.remaining <= 1 THEN 2 ELSE 1,
     blockToDelete |-> e.blockToDelete + 1, remaining |-> e.remaining - 1]

EraseGivesUp(e) == [e EXCEPT !.internalState = 2]

EraseEnded(r) == [r EXCEPT !.erase = [internalState |-> 0, blockToDelete |-> 0, remaining |-> 0]]

LEMMA EraseStarts ==
    ASSUME NEW r, IsMachine(r), r.erase.internalState = 0,
           NEW id \in Int, NEW reply \in EraseReplies(r, id)
    PROVE  \/ id \notin -1..(Blocks - 1) /\ reply.m = r /\ reply.more = FALSE
           \/ id \in -1..(Blocks - 1) /\ reply.m = EraseStarted(r, id) /\ reply.more = TRUE
<1> DEFINE Invalid == id = NaN \/ id < -1 \/ id >= Blocks
<1>1. reply = Erase_start(r, id)
  BY DEF EraseReplies, FuncLfsErase
<1>2. Blocks \in Nat \ {0} /\ (Invalid <=> id \notin -1..(Blocks - 1))
  BY BlockAssumption DEF NaN
<1>3. CASE Invalid
  <2>1. reply.m = r /\ reply.more = FALSE
    BY <1>1, <1>3, <1>2 DEF Erase_start, Reply, NaN
  <2> QED
    BY <1>2, <1>3, <2>1
<1>4. CASE ~Invalid /\ id = -1
  <2>1. /\ reply.m = [r EXCEPT !.erase = [internalState |-> 1, blockToDelete |-> 0, remaining |-> Blocks]]
        /\ reply.more = TRUE
    BY <1>1, <1>4, <1>2 DEF Erase_start, Reply, NaN
  <2>2. Blocks = Last(id) - First(id) + 1 /\ 0 = First(id)
    BY <1>4, <1>2 DEF First, Last
  <2> QED
    BY <1>2, <1>4, <2>1, <2>2 DEF EraseStarted
<1>5. CASE ~Invalid /\ id # -1
  <2>1. /\ reply.m = [r EXCEPT !.erase = [internalState |-> 1, blockToDelete |-> id, remaining |-> 1]]
        /\ reply.more = TRUE
    BY <1>1, <1>5, <1>2 DEF Erase_start, Reply, NaN
  <2>2. 1 = Last(id) - First(id) + 1 /\ id = First(id)
    BY <1>5, <1>2 DEF First, Last
  <2> QED
    BY <1>2, <1>5, <2>1, <2>2 DEF EraseStarted
<1> QED
  BY <1>3, <1>4, <1>5

LEMMA WidthIsPositive == Width16 \in Nat \ {0}
<1>1. \A x, y \in Nat \ {0} : x * y \in Nat \ {0}
  OBVIOUS
<1>2. Blocks * BlockSz \in Nat \ {0}
  BY <1>1, BlockAssumption
<1> QED
  BY <1>2, BlockAssumption

(* What the storage holds when a block of 0xFF has been written to it.     *)
WithErased(fram, address) == [a \in Address |-> IF a \in BlockAt(address) THEN Erased ELSE fram[a]]

LEMMA WriteErases ==
    ASSUME NEW r, IsMachine(r), NEW address \in Int
    PROVE  LET ready == [r EXCEPT !.lfsCmdBuffer = [k \in Offset |-> Erased]]
               after == FM25W256_write(ready, address)
           IN  after = [r EXCEPT !.fram = WithErased(r.fram, address),
                                 !.lfsCmdBuffer = [k \in Offset |-> Garbage]]
<1> DEFINE ready == [r EXCEPT !.lfsCmdBuffer = [k \in Offset |-> Erased]]
           written == [a \in Address |->
                          IF a \in BlockAt(address) THEN ready.lfsCmdBuffer[a - address] ELSE ready.fram[a]]
<1>1. ready.lfsCmdBuffer = [k \in Offset |-> Erased] /\ ready.fram = r.fram
  BY DEF IsMachine
<1>2. \A a \in BlockAt(address) : a - address \in Offset
  BY BlockAssumption DEF BlockAt, Offset
<1>3. \A a \in Address : (IF a \in BlockAt(address) THEN ready.lfsCmdBuffer[a - address] ELSE ready.fram[a])
                            = (IF a \in BlockAt(address) THEN Erased ELSE r.fram[a])
  BY <1>1, <1>2
<1>4. written = WithErased(r.fram, address)
  BY <1>3 DEF WithErased
<1>5. FM25W256_write(ready, address) = [ready EXCEPT !.fram = written, !.lfsCmdBuffer = [k \in Offset |-> Garbage]]
  BY DEF FM25W256_write
<1> HIDE DEF written
<1>6. [ready EXCEPT !.fram = written, !.lfsCmdBuffer = [k \in Offset |-> Garbage]]
        = [r EXCEPT !.fram = written, !.lfsCmdBuffer = [k \in Offset |-> Garbage]]
  BY DEF IsMachine
<1> QED
  BY <1>4, <1>5, <1>6

(* A call that erases a block, or fails, with or without having erased it. *)
LEMMA EraseErases ==
    ASSUME NEW r, IsMachine(r), r.erase.internalState = 1,
           NEW id \in Int, NEW reply \in EraseReplies(r, id)
    PROVE  /\ IsMachine(reply.m) /\ reply.m.dump = r.dump /\ reply.more = TRUE
           /\ LET erased == WithErased(r.fram, UInt16(UInt16(r.erase.blockToDelete) * BlockSz))
              IN  \/ /\ reply.m.fram = erased
                     /\ reply.m.erase = EraseGoesOn(r.erase)
                  \/ /\ reply.m.fram \in {erased, r.fram}
                     /\ reply.m.erase = EraseGivesUp(r.erase)
                     /\ reply.text = Text("failed", <<>>)
<1> DEFINE e == r.erase
           address == UInt16(UInt16(e.blockToDelete) * BlockSz)
           ready == [r EXCEPT !.lfsCmdBuffer = [k \in Offset |-> Erased]]
           written == FM25W256_write(ready, address)
           next == [internalState |-> IF e.remaining <= 1 THEN 2 ELSE 1,
                    blockToDelete |-> e.blockToDelete + 1, remaining |-> e.remaining - 1]
<1>1. \/ reply = Erase_block(r, TRUE, TRUE)
      \/ reply = Erase_block(r, FALSE, TRUE)
      \/ reply = Erase_block(r, FALSE, FALSE)
  <2>1. r.erase.internalState # 0 /\ r.erase.internalState = 1
    OBVIOUS
  <2>2. \A ok, done \in BOOLEAN : FuncLfsErase(r, id, ok, done) = Erase_block(r, ok, done)
    BY <2>1 DEF FuncLfsErase
  <2> QED
    BY <2>2, Zenon DEF EraseReplies
<1>2. address \in Int /\ BlockSz \in Nat
  BY WidthIsPositive, BlockAssumption DEF IsMachine, UInt16
<1>3. /\ e \in [internalState : 0..2, blockToDelete : Int, remaining : Int]
      /\ next \in [internalState : 0..2, blockToDelete : Int, remaining : Int]
  BY DEF IsMachine
<1> HIDE DEF address
<1>4. /\ WithErased(r.fram, address) \in [Address -> Int]
      /\ r.fram \in [Address -> Int]
  BY DEF WithErased, IsMachine, Erased
<1>5. /\ IsMachine(written) /\ written.dump = r.dump /\ written.erase = e
      /\ written.fram = WithErased(r.fram, address)
  <2>1. written = [r EXCEPT !.fram = WithErased(r.fram, address), !.lfsCmdBuffer = [k \in Offset |-> Garbage]]
    BY <1>2, WriteErases
  <2> HIDE DEF written
  <2> QED
    BY <2>1, <1>4 DEF IsMachine
<1>6. IsMachine(ready) /\ ready.dump = r.dump /\ ready.erase = e /\ ready.fram = r.fram
  BY DEF IsMachine
<1>7. CASE reply = Erase_block(r, TRUE, TRUE)
  <2>1. reply.m = [written EXCEPT !.erase = next] /\ reply.more = TRUE
    BY <1>7 DEF Erase_block, Reply, address
  <2> HIDE DEF written, next
  <2>2. /\ IsMachine(reply.m) /\ reply.m.dump = written.dump /\ reply.m.fram = written.fram
        /\ reply.m.erase = next
    BY <2>1, <1>3, <1>5 DEF IsMachine
  <2> QED
    BY <2>1, <2>2, <1>5 DEF next, address, EraseGoesOn
<1>8. ASSUME NEW after \in {ready, written}, reply.more = TRUE, reply.text = Text("failed", <<>>),
             reply.m = [after EXCEPT !.erase.internalState = 2]
      PROVE  /\ IsMachine(reply.m) /\ reply.m.dump = r.dump /\ reply.more = TRUE
             /\ reply.m.fram \in {WithErased(r.fram, address), r.fram}
             /\ reply.m.erase = EraseGivesUp(r.erase)
             /\ reply.text = Text("failed", <<>>)
  <2>1. /\ IsMachine(after) /\ after.dump = r.dump /\ after.erase = e
        /\ after.fram \in {WithErased(r.fram, address), r.fram}
    BY <1>5, <1>6
  <2>2. reply.m = [after EXCEPT !.erase = [e EXCEPT !.internalState = 2]]
    BY <1>8, <2>1 DEF IsMachine
  <2>3. [e EXCEPT !.internalState = 2] \in [internalState : 0..2, blockToDelete : Int, remaining : Int]
    BY <1>3
  <2> HIDE DEF ready, written
  <2>4. /\ IsMachine(reply.m) /\ reply.m.dump = after.dump /\ reply.m.fram = after.fram
        /\ reply.m.erase = [e EXCEPT !.internalState = 2]
    BY <2>1, <2>2, <2>3 DEF IsMachine
  <2> QED
    BY <1>8, <2>1, <2>4 DEF EraseGivesUp
<1>9. CASE reply = Erase_block(r, FALSE, TRUE)
  <2>1. /\ reply.m = [written EXCEPT !.erase.internalState = 2] /\ reply.more = TRUE
        /\ reply.text = Text("failed", <<>>)
    BY <1>9 DEF Erase_block, Reply, address
  <2> HIDE DEF written
  <2> QED
    BY <2>1, <1>8 DEF address
<1>10. CASE reply = Erase_block(r, FALSE, FALSE)
  <2>1. /\ reply.m = [ready EXCEPT !.erase.internalState = 2] /\ reply.more = TRUE
        /\ reply.text = Text("failed", <<>>)
    BY <1>10 DEF Erase_block, Reply
  <2> HIDE DEF ready
  <2> QED
    BY <2>1, <1>8 DEF address
<1> QED
  BY <1>1, <1>7, <1>9, <1>10

(* The last call.                                                          *)
LEMMA EraseEnds ==
    ASSUME NEW r, IsMachine(r), r.erase.internalState = 2,
           NEW id \in Int, NEW reply \in EraseReplies(r, id)
    PROVE  reply.m = EraseEnded(r) /\ reply.more = FALSE
BY DEF EraseEnded, EraseReplies, FuncLfsErase, Erase_end, Reply

(* A call of lfs_erase leaves lfs_dump alone, and is at its beginning again*)
(* when it says that no more is to come.                                   *)
LEMMA EraseReply ==
    ASSUME NEW r, IsMachine(r), NEW id \in Int, NEW reply \in EraseReplies(r, id)
    PROVE  /\ IsMachine(reply.m) /\ reply.m.dump = r.dump
           /\ \/ reply.more = TRUE /\ reply.m.erase.internalState # 0
              \/ reply.more = FALSE /\ reply.m.erase.internalState = 0
<1> DEFINE Goal == /\ IsMachine(reply.m) /\ reply.m.dump = r.dump
                   /\ \/ reply.more = TRUE /\ reply.m.erase.internalState # 0
                      \/ reply.more = FALSE /\ reply.m.erase.internalState = 0
<1> SUFFICES Goal
  OBVIOUS
<1>0. r.erase.internalState \in 0..2 /\ Blocks \in Int
  BY BlockAssumption DEF IsMachine
<1>1. CASE r.erase.internalState = 0
  <2>0. \/ reply.m = r /\ reply.more = FALSE
        \/ reply.m = EraseStarted(r, id) /\ reply.more = TRUE
    BY <1>1, EraseStarts
  <2>1. CASE reply.m = r /\ reply.more = FALSE
    BY <1>1, <2>1
  <2>2. CASE reply.m = EraseStarted(r, id) /\ reply.more = TRUE
    <3>1. First(id) \in Int /\ Last(id) - First(id) + 1 \in Int
      BY <1>0 DEF First, Last
    <3>2. IsMachine(reply.m) /\ reply.m.dump = r.dump /\ reply.m.erase.internalState = 1
      BY <2>2, <3>1 DEF IsMachine, EraseStarted
    <3> QED
      BY <2>2, <3>2
  <2> QED
    BY <2>0, <2>1, <2>2
<1>2. CASE r.erase.internalState = 1
  <2>1. IsMachine(reply.m) /\ reply.m.dump = r.dump /\ reply.more = TRUE
    BY <1>2, EraseErases
  <2>2. reply.m.erase \in {EraseGoesOn(r.erase), EraseGivesUp(r.erase)}
    BY <1>2, EraseErases
  <2>3. r.erase \in [internalState : 0..2, blockToDelete : Int, remaining : Int]
    BY DEF IsMachine
  <2>4. reply.m.erase.internalState # 0
    BY <2>2, <2>3 DEF EraseGoesOn, EraseGivesUp
  <2> QED
    BY <2>1, <2>4
<1>3. CASE r.erase.internalState = 2
  <2>1. reply.m = EraseEnded(r) /\ reply.more = FALSE
    BY <1>3, EraseEnds
  <2>2. IsMachine(reply.m) /\ reply.m.dump = r.dump /\ reply.m.erase.internalState = 0
    BY <2>1 DEF IsMachine, EraseEnded
  <2> QED
    BY <2>1, <2>2
<1> HIDE DEF Goal
<1> QED
  BY <1>0, <1>1, <1>2, <1>3

------------------------------------------------------------------------------
(* The interpreter: a command that has more to say is remembered, and only *)
(* its own machine is under way.                                           *)

Remembered ==
    /\ pxCommand \in 0..4
    /\ pc = "read" => pxCommand = NULL
    /\ pxCommand # NULL => pxCommand = Search(CString)

UnderWay ==
    /\ helpCommand # NULL => pxCommand = 1
    /\ m.dump.internalState # 0 => pxCommand = 2
    /\ m.erase.internalState # 0 => pxCommand = 3

Remembering == IsMachine(m) /\ Remembered /\ UnderWay

(* What an interpreter's call that runs a command does to its memory.      *)
Turn(more) ==
    IF more THEN pxCommand' = Current /\ UNCHANGED <<pc, input_strBuf, behind>>
    ELSE pxCommand' = NULL /\ pc' = "read"

LEMMA CurrentIsSearched == Remembered => Current = Search(CString) /\ Current \in 0..4
BY SearchFinds DEF Remembered, Current

LEMMA CallsNumber ==
    ASSUME Remembered
    PROVE  /\ Calls("help") => Current = 1
           /\ Calls("lfs_dump") => Current = 2
           /\ Calls("lfs_erase") => Current = 3
           /\ Calls("lfs_ls") => Current = 4
<1>1. Current \in 0..4
  BY CurrentIsSearched
<1>2. /\ xRegisteredCommands[1].name = "help" /\ xRegisteredCommands[2].name = "lfs_dump"
      /\ xRegisteredCommands[3].name = "lfs_erase" /\ xRegisteredCommands[4].name = "lfs_ls"
  BY TheCommands DEF Command
<1>3. \A name : Calls(name) => Current \in {1, 2, 3, 4} /\ xRegisteredCommands[Current].name = name
  BY <1>1 DEF Calls, NULL
<1> HIDE DEF Current
<1> QED
  BY <1>2, <1>3

(* The call of lfs_dump, and of lfs_erase.                                 *)
LEMMA DumpCall ==
    ASSUME lfs_dump
    PROVE  \E reply \in DumpReplies(m, BlockParameter) :
              /\ Calls("lfs_dump") /\ m' = reply.m /\ helpCommand' = helpCommand
              /\ shown' = Append(shown, reply.text)
              /\ Turn(reply.more)
<1>1. PICK ok \in BOOLEAN : BlockCommand("lfs_dump", FuncLfsDump(m, BlockParameter, ok))
  BY DEF lfs_dump
<1>2. PICK reply : reply = FuncLfsDump(m, BlockParameter, ok)
  OBVIOUS
<1>3. reply \in DumpReplies(m, BlockParameter)
  <2>1. CASE ok = TRUE
    BY <1>2, <2>1 DEF DumpReplies
  <2>2. CASE ok = FALSE
    BY <1>2, <2>2 DEF DumpReplies
  <2> QED
    BY <2>1, <2>2
<1>4. /\ Calls("lfs_dump") /\ m' = reply.m /\ helpCommand' = helpCommand
      /\ shown' = Append(shown, reply.text)
      /\ Turn(reply.more)
  BY <1>1, <1>2 DEF BlockCommand, Remember, Answer, Turn
<1> QED
  BY <1>3, <1>4

LEMMA EraseCall ==
    ASSUME lfs_erase
    PROVE  \E reply \in EraseReplies(m, BlockParameter) :
              /\ Calls("lfs_erase") /\ m' = reply.m /\ helpCommand' = helpCommand
              /\ shown' = Append(shown, reply.text)
              /\ Turn(reply.more)
<1>1. PICK ok \in BOOLEAN, done \in BOOLEAN :
         (ok => done) /\ BlockCommand("lfs_erase", FuncLfsErase(m, BlockParameter, ok, done))
  BY DEF lfs_erase
<1>2. PICK reply : reply = FuncLfsErase(m, BlockParameter, ok, done)
  OBVIOUS
<1>3. reply \in EraseReplies(m, BlockParameter)
  <2>1. CASE ok = TRUE /\ done = TRUE
    BY <1>2, <2>1 DEF EraseReplies
  <2>2. CASE ok = FALSE /\ done = TRUE
    BY <1>2, <2>2 DEF EraseReplies
  <2>3. CASE ok = FALSE /\ done = FALSE
    BY <1>2, <2>3 DEF EraseReplies
  <2> QED
    BY <1>1, <2>1, <2>2, <2>3
<1>4. /\ Calls("lfs_erase") /\ m' = reply.m /\ helpCommand' = helpCommand
      /\ shown' = Append(shown, reply.text)
      /\ Turn(reply.more)
  BY <1>1, <1>2 DEF BlockCommand, Remember, Answer, Turn
<1> QED
  BY <1>3, <1>4

LEMMA RemembersTurn ==
    ASSUME Remembered, NEW more, Turn(more), Processing
    PROVE  Remembered' /\ pxCommand' = IF more THEN Current ELSE NULL
<1>1. Current \in 0..4 /\ Current = Search(CString)
  BY CurrentIsSearched
<1>2. CASE more
  <2>1. pxCommand' = Current /\ pc' = "process" /\ UNCHANGED <<input_strBuf, behind>>
    BY <1>2 DEF Turn, Processing
  <2>2. CString' = CString
    BY <2>1 DEF CString
  <2>3. Search(CString)' = Search(CString)
    BY <2>2 DEF Search
  <2> QED
    BY <1>1, <1>2, <2>1, <2>3 DEF Remembered
<1>3. CASE ~more
  BY <1>3 DEF Turn, Remembered, NULL
<1> QED
  BY <1>2, <1>3

LEMMA RememberingDump == Remembering /\ lfs_dump => Remembering'
<1> SUFFICES ASSUME Remembering, lfs_dump PROVE Remembering'
  OBVIOUS
<1> USE DEF Remembering
<1>1. PICK reply \in DumpReplies(m, BlockParameter) :
              /\ Calls("lfs_dump") /\ m' = reply.m /\ helpCommand' = helpCommand
              /\ shown' = Append(shown, reply.text)
              /\ Turn(reply.more)
  BY DumpCall
<1>2. BlockParameter \in Int
  BY NumbersAreIntegers DEF BlockParameter
<1>3. /\ IsMachine(reply.m) /\ reply.m.erase = m.erase
      /\ \/ reply.more = TRUE /\ reply.m.dump.internalState = 1
         \/ reply.more = FALSE /\ reply.m.dump.internalState = 0
  BY <1>2, DumpReply
<1>4. Current = 2 /\ Processing
  BY <1>1, CallsNumber DEF Calls
<1>5. Remembered' /\ pxCommand' = IF reply.more THEN 2 ELSE NULL
  BY <1>1, <1>4, RemembersTurn
<1>6. helpCommand = NULL /\ m.erase.internalState = 0
  BY <1>4 DEF UnderWay, Current, NULL
<1>7. UnderWay'
  BY <1>1, <1>3, <1>5, <1>6 DEF UnderWay, NULL
<1> QED
  BY <1>1, <1>3, <1>5, <1>7

LEMMA RememberingErase == Remembering /\ lfs_erase => Remembering'
<1> SUFFICES ASSUME Remembering, lfs_erase PROVE Remembering'
  OBVIOUS
<1> USE DEF Remembering
<1>1. PICK reply \in EraseReplies(m, BlockParameter) :
              /\ Calls("lfs_erase") /\ m' = reply.m /\ helpCommand' = helpCommand
              /\ shown' = Append(shown, reply.text)
              /\ Turn(reply.more)
  BY EraseCall
<1>2. BlockParameter \in Int
  BY NumbersAreIntegers DEF BlockParameter
<1>3. /\ IsMachine(reply.m) /\ reply.m.dump = m.dump
      /\ \/ reply.more = TRUE /\ reply.m.erase.internalState # 0
         \/ reply.more = FALSE /\ reply.m.erase.internalState = 0
  BY <1>2, EraseReply
<1>4. Current = 3 /\ Processing
  BY <1>1, CallsNumber DEF Calls
<1>5. Remembered' /\ pxCommand' = IF reply.more THEN 3 ELSE NULL
  BY <1>1, <1>4, RemembersTurn
<1>6. helpCommand = NULL /\ m.dump.internalState = 0
  BY <1>4 DEF UnderWay, Current, NULL
<1>7. UnderWay'
  BY <1>1, <1>3, <1>5, <1>6 DEF UnderWay, NULL
<1> QED
  BY <1>1, <1>3, <1>5, <1>7

LEMMA RememberingHelp == Remembering /\ prvHelpCommand => Remembering'
<1> SUFFICES ASSUME Remembering, prvHelpCommand PROVE Remembering'
  OBVIOUS
<1> USE DEF Remembering
<1> DEFINE this == IF helpCommand = NULL THEN 1 ELSE helpCommand
           more == this < Len(xRegisteredCommands)
<1>1. /\ Calls("help") /\ helpCommand' = (IF more THEN this + 1 ELSE NULL) /\ m' = m
      /\ Remember(more) /\ Answer(Text("help", <<this>>), more)
  BY DEF prvHelpCommand
<1> HIDE DEF this
<1>2. Current = 1 /\ Processing
  BY <1>1, CallsNumber DEF Calls
<1>3. m.dump.internalState = 0 /\ m.erase.internalState = 0
  BY <1>2 DEF UnderWay, Current, NULL
<1>4. CASE more
  <2>1. Turn(TRUE)
    BY <1>1, <1>4 DEF Remember, Answer, Turn
  <2>2. Remembered' /\ pxCommand' = 1
    BY <1>2, <2>1, RemembersTurn
  <2> QED
    BY <1>1, <1>3, <2>2 DEF UnderWay
<1>5. CASE ~more
  <2>1. Turn(FALSE)
    BY <1>1, <1>5 DEF Remember, Answer, Turn
  <2>2. Remembered'
    BY <1>2, <2>1, RemembersTurn
  <2>3. helpCommand' = NULL
    BY <1>1, <1>5
  <2> QED
    BY <1>1, <1>3, <2>2, <2>3 DEF UnderWay
<1> QED
  BY <1>4, <1>5

(* A call that ends at once, with no command under way.                    *)
LEMMA RememberingEnds ==
    ASSUME Remembering, Processing, Current \in {NULL, 4} \/ pxCommand = NULL,
           pxCommand' = NULL, UNCHANGED <<helpCommand, m>>
    PROVE  Remembering'
<1> USE DEF Remembering
<1>1. pxCommand \in {NULL, 4}
  BY DEF Current
<1>2. UnderWay'
  BY <1>1 DEF UnderWay, NULL
<1>3. Remembered'
  BY DEF Remembered, NULL
<1> QED
  BY <1>2, <1>3

LEMMA RememberingAnswer == Remembering /\ FreeRTOS_CLIProcessCommand => Remembering'
<1> SUFFICES ASSUME Remembering, FreeRTOS_CLIProcessCommand PROVE Remembering'
  OBVIOUS
<1>1. CASE NotRecognised
  <2>1. Processing /\ Current = NULL /\ UNCHANGED <<pxCommand, helpCommand, m>>
    BY <1>1 DEF NotRecognised, interpreter
  <2>2. pxCommand = NULL
    BY <2>1 DEF Current
  <2> QED
    BY <2>1, <2>2, RememberingEnds
<1>2. CASE IncorrectParameters
  <2>1. /\ Processing /\ pxCommand = NULL /\ pxCommand' = NULL
        /\ UNCHANGED <<helpCommand, m>>
    BY <1>2 DEF IncorrectParameters, RightParameters
  <2> QED
    BY <2>1, RememberingEnds
<1>3. CASE lfs_ls
  <2>1. Calls("lfs_ls") /\ pxCommand' = NULL /\ UNCHANGED <<helpCommand, m>>
    BY <1>3 DEF lfs_ls, Remember
  <2>2. Current = 4 /\ Processing
    BY <2>1, CallsNumber DEF Calls, Remembering
  <2> QED
    BY <2>1, <2>2, RememberingEnds
<1> QED
  BY <1>1, <1>2, <1>3, RememberingHelp, RememberingDump, RememberingErase
  DEF FreeRTOS_CLIProcessCommand

(* Nothing else touches the interpreter.                                   *)
LEMMA RememberingElse ==
    ASSUME Remembering, UNCHANGED <<pxCommand, helpCommand, m>>,
           \/ pc = "read"
           \/ UNCHANGED <<pc, input_strBuf, behind>>
    PROVE  Remembering'
<1> USE DEF Remembering
<1>1. UnderWay'
  BY DEF UnderWay
<1>2. Remembered'
  <2>1. CASE pc = "read"
    BY <2>1 DEF Remembered
  <2>2. CASE UNCHANGED <<pc, input_strBuf, behind>>
    <3>1. CString' = CString
      BY <2>2 DEF CString
    <3>2. Search(CString)' = Search(CString)
      BY <3>1 DEF Search
    <3> QED
      BY <2>2, <3>2 DEF Remembered
  <2> QED
    BY <2>1, <2>2
<1> QED
  BY <1>1, <1>2

LEMMA RememberingInit == Init => Remembering
<1> SUFFICES ASSUME Init PROVE Remembering
  OBVIOUS
<1>1. m = BlockCommandsInit /\ pxCommand = NULL /\ helpCommand = NULL
  BY DEF Init
<1>2. Address \subseteq Int
  BY DEF Address
<1>3. IsMachine(m)
  BY <1>1, <1>2 DEF BlockCommandsInit, IsMachine
<1>4. Remembered
  BY <1>1 DEF Remembered, NULL
<1>5. UnderWay
  BY <1>1 DEF UnderWay, BlockCommandsInit
<1> QED
  BY <1>3, <1>4, <1>5 DEF Remembering

LEMMA RememberingStep == Remembering /\ [Next]_vars => Remembering'
<1> SUFFICES ASSUME Remembering, [Next]_vars PROVE Remembering'
  OBVIOUS
<1> USE DEF input, interpreter, Listening
<1>1. CASE UART_send
  BY <1>1, RememberingElse DEF UART_send
<1>2. CASE Task_sleep_ends
  BY <1>2, RememberingElse DEF Task_sleep_ends
<1>3. CASE FreeRTOS_CLIProcessCommand
  BY <1>3, RememberingAnswer
<1>4. CASE IgnoreChar
  BY <1>4, RememberingElse DEF IgnoreChar
<1>5. CASE Backspace
  BY <1>5, RememberingElse DEF Backspace
<1>6. CASE Newline
  BY <1>6, RememberingElse DEF Newline
<1>7. ASSUME NEW c \in Typed \ EditKeys, AcceptChar(c) PROVE Remembering'
  BY <1>7, RememberingElse DEF AcceptChar
<1>8. CASE UNCHANGED vars
  BY <1>8, RememberingElse DEF vars
<1> QED
  BY <1>1, <1>2, <1>3, <1>4, <1>5, <1>6, <1>7, <1>8 DEF Next, User, Console

(* Between two lines nothing of a command is left, whichever call of the   *)
(* FRAM failed in it, for every number and size of blocks and every line   *)
(* (FreeRTOS_CLI.c:181, :318; cmd_lfs.c:25-27, :107-109).                  *)
THEOREM FreshStartHolds == Spec => []FreshStart
<1>1. Remembering => FreshStart
  BY DEF Remembering, Remembered, UnderWay, FreshStart, NULL
<1> QED
  BY <1>1, RememberingInit, RememberingStep, PTL DEF Spec

------------------------------------------------------------------------------
(* The storage in blocks: they lie apart, and no address wraps.            *)

LEMMA BlocksLieApart ==
    ASSUME NEW b \in Nat, NEW c \in Nat, b < c
    PROVE  b * BlockSz + BlockSz <= c * BlockSz
<1> DEFINE d == c - b - 1
           start == b * BlockSz
           between == d * BlockSz
<1>1. BlockSz \in Nat /\ d \in Nat /\ c = b + 1 + d
  BY BlockAssumption
<1>2. start \in Nat /\ between \in Nat /\ c * BlockSz = start + BlockSz + between
  <2>1. c * BlockSz = b * BlockSz + BlockSz + d * BlockSz
    BY <1>1
  <2> QED
    BY <1>1, <2>1
<1> HIDE DEF start, between
<1>3. start + BlockSz <= start + BlockSz + between
  BY <1>1, <1>2
<1> QED
  BY <1>2, <1>3 DEF start

LEMMA BlockAddress ==
    ASSUME NEW b \in 0..(Blocks - 1)
    PROVE  /\ UInt16(UInt16(b) * BlockSz) = b * BlockSz
           /\ b * BlockSz \in Nat
           /\ BlockAt(b * BlockSz) \subseteq Address
<1> DEFINE start == b * BlockSz
           all == Blocks * BlockSz
<1>1. /\ BlockSz \in Nat \ {0} /\ Blocks \in Nat \ {0} /\ b \in Nat /\ b < Blocks
      /\ Width16 \in Nat \ {0} /\ all <= Width16
  BY BlockAssumption, WidthIsPositive
<1>2. start \in Nat /\ all \in Nat
  BY <1>1
<1>3. start + BlockSz <= all
  BY <1>1, BlocksLieApart
<1>4. Blocks <= all
  <2>1. \A x, y \in Nat \ {0} : x <= x * y
    OBVIOUS
  <2> QED
    BY <1>1, <2>1
<1> HIDE DEF start, all
<1>5. \A n \in Nat : n < Width16 => UInt16(n) = n
  BY <1>1 DEF UInt16
<1>6. UInt16(b) = b
  BY <1>1, <1>2, <1>4, <1>5
<1>7. UInt16(start) = start
  BY <1>1, <1>2, <1>3, <1>5
<1>8. \A k \in Offset : start + k \in 0..(all - 1)
  BY <1>1, <1>2, <1>3 DEF Offset
<1>9. BlockAt(start) \subseteq Address
  BY <1>8 DEF BlockAt, Address, all
<1> QED
  BY <1>2, <1>6, <1>7, <1>9 DEF start

LEMMA BlocksAreDisjoint ==
    ASSUME NEW b \in 0..(Blocks - 1), NEW c \in 0..(Blocks - 1), b # c,
           NEW k \in BlockAt(b * BlockSz)
    PROVE  k \notin BlockAt(c * BlockSz)
<1> DEFINE x == b * BlockSz
           y == c * BlockSz
<1>1. b \in Nat /\ c \in Nat /\ BlockSz \in Nat \ {0}
  BY BlockAssumption
<1>2. x \in Nat /\ y \in Nat
  BY BlockAddress
<1>3. x + BlockSz <= y \/ y + BlockSz <= x
  <2>1. CASE b < c
    BY <1>1, <2>1, BlocksLieApart
  <2>2. CASE c < b
    BY <1>1, <2>2, BlocksLieApart
  <2> QED
    BY <1>1, <2>1, <2>2
<1>4. k \in BlockAt(x)
  OBVIOUS
<1> HIDE DEF x, y
<1>5. k \notin BlockAt(y)
  BY <1>1, <1>2, <1>3, <1>4 DEF BlockAt, Offset
<1> QED
  BY <1>5 DEF y

(* Blocks that hold what they held, and blocks that hold 0xFF.             *)
Same(fram, before, b) == \A k \in BlockAt(b * BlockSz) : fram[k] = before[k]
Gone(fram, b) == \A k \in BlockAt(b * BlockSz) : fram[k] = Erased

(* The blocks from first up to n are erased, and no other has changed.     *)
ErasedUpTo(fram, before, first, n) ==
    \A b \in 0..(Blocks - 1) :
        IF b \in first..(n - 1) THEN Gone(fram, b) ELSE Same(fram, before, b)

LEMMA OneMoreBlock ==
    ASSUME NEW fram, NEW before, NEW first \in Nat, NEW n \in 0..(Blocks - 1), first <= n,
           ErasedUpTo(fram, before, first, n)
    PROVE  ErasedUpTo(WithErased(fram, n * BlockSz), before, first, n + 1)
<1> DEFINE after == WithErased(fram, n * BlockSz)
<1>1. Gone(after, n)
  BY BlockAddress DEF Gone, WithErased
<1>2. \A b \in 0..(Blocks - 1) : \A k \in BlockAt(b * BlockSz) : b # n => after[k] = fram[k]
  BY BlockAddress, BlocksAreDisjoint DEF WithErased
<1> HIDE DEF after
<1> SUFFICES ASSUME NEW b \in 0..(Blocks - 1)
             PROVE  IF b \in first..(n + 1 - 1) THEN Gone(after, b) ELSE Same(after, before, b)
  BY DEF ErasedUpTo, after
<1>3. IF b \in first..(n - 1) THEN Gone(fram, b) ELSE Same(fram, before, b)
  BY DEF ErasedUpTo
<1>4. CASE b = n
  <2>1. b \in first..(n + 1 - 1)
    BY <1>4
  <2> QED
    BY <1>1, <1>4, <2>1
<1>5. CASE b # n /\ b \in first..(n - 1)
  <2>1. b \in first..(n + 1 - 1)
    BY <1>5
  <2>2. Gone(after, b)
    BY <1>2, <1>3, <1>5 DEF Gone
  <2> QED
    BY <2>1, <2>2
<1>6. CASE b # n /\ b \notin first..(n - 1)
  <2>1. b \notin first..(n + 1 - 1)
    BY <1>6
  <2>2. Same(after, before, b)
    BY <1>2, <1>3, <1>6 DEF Same
  <2> QED
    BY <2>1, <2>2
<1> QED
  BY <1>4, <1>5, <1>6

------------------------------------------------------------------------------
(* The answers of a command, of any form.                                  *)

IsSequence(s) == s \in Seq({s[k] : k \in DOMAIN s})

LEMMA AnswersGrow ==
    ASSUME NEW s, IsSequence(s), NEW text
    PROVE  /\ IsSequence(Append(s, text)) /\ Append(s, text) # <<>>
           /\ \A k \in DOMAIN s : k \in DOMAIN Append(s, text) /\ Append(s, text)[k] = s[k]
           /\ \E k \in DOMAIN Append(s, text) : Append(s, text)[k] = text
<1> DEFINE S == {s[k] : k \in DOMAIN s} \cup {text}
           t == Append(s, text)
<1>1. s \in Seq({s[k] : k \in DOMAIN s})
  BY DEF IsSequence
<1>2. s \in Seq(S) /\ text \in S
  BY <1>1
<1> HIDE DEF S
<1>3. /\ t \in Seq(S) /\ Len(t) = Len(s) + 1 /\ t[Len(s) + 1] = text
      /\ \A i \in 1..Len(s) : t[i] = s[i]
  BY <1>2, Appended
<1> HIDE DEF t
<1>4. Len(s) \in Nat /\ DOMAIN s = 1..Len(s) /\ DOMAIN t = 1..Len(t) /\ Len(t) \in Nat
  BY <1>2, <1>3
<1>5. \A k \in DOMAIN s : k \in DOMAIN t /\ t[k] = s[k]
  BY <1>3, <1>4
<1>6. \E k \in DOMAIN t : t[k] = text
  BY <1>3, <1>4
<1>7. t \in Seq({t[k] : k \in DOMAIN t})
  BY <1>3, <1>4
<1>8. t # <<>>
  BY <1>3, <1>4
<1> QED
  BY <1>5, <1>6, <1>7, <1>8 DEF IsSequence, t

------------------------------------------------------------------------------
(* What a command leaves of the storage, while it is under way and when it *)
(* has ended.                                                              *)

AskedId == strtol(FreeRTOS_CLIGetParameter(asked, 1))
AskedToErase == Len(asked) < MaxInput /\ Names(Command("lfs_erase", 0), asked)
AskedToDump == Len(asked) < MaxInput /\ Names(Command("lfs_dump", 0), asked)

(* Nothing is touched, or the blocks up to n are erased, all that id asks  *)
(* for unless a write has failed.                                          *)
Untouched == m.fram = framAsked
ErasedFor(id, n) ==
    /\ id \in -1..(Blocks - 1) /\ n \in First(id)..(Last(id) + 1)
    /\ ErasedUpTo(m.fram, framAsked, First(id), n)
    /\ n = Last(id) + 1 \/ Says("failed")

Beginning == m.erase.internalState = 0 => Untouched

AtABlock ==
    m.erase.internalState = 1 =>
        /\ BlockParameter \in -1..(Blocks - 1)
        /\ m.erase.blockToDelete \in First(BlockParameter)..Last(BlockParameter)
        /\ m.erase.remaining = Last(BlockParameter) - m.erase.blockToDelete + 1
        /\ ErasedUpTo(m.fram, framAsked, First(BlockParameter), m.erase.blockToDelete)

AtTheEnd == m.erase.internalState = 2 => \E n \in Int : ErasedFor(BlockParameter, n)

Left ==
    \/ Untouched /\ (AskedToErase => Says("incorrect parameters") \/ AskedId \notin -1..(Blocks - 1))
    \/ /\ Len(asked) < MaxInput => AskedToErase
       /\ \E id, n \in Int : ErasedFor(id, n) /\ (Len(asked) < MaxInput => id = AskedId)

Erasing ==
    /\ IsSequence(shown)
    /\ pc = "process" => Beginning /\ AtABlock /\ AtTheEnd
    /\ pc = "read" /\ shown # <<>> => Left

(* What is left is what EraseIsExact asks for.                             *)
LEMMA LeftIsExact == Left => EraseIsExact
<1> SUFFICES ASSUME Left, Answered PROVE EraseIsExact
  BY DEF EraseIsExact
<1> DEFINE id == strtol(FreeRTOS_CLIGetParameter(asked, 1))
           whole == IF id = -1 THEN 0..(Blocks - 1) ELSE {id} \cap (0..(Blocks - 1))
           changed == {b \in 0..(Blocks - 1) : \E k \in BlockAt(b * BlockSz) : m.fram[k] # framAsked[k]}
           erased == {b \in 0..(Blocks - 1) : \A k \in BlockAt(b * BlockSz) : m.fram[k] = Erased}
<1>0. /\ AskedFor("lfs_erase") <=> AskedToErase
      /\ AskedToErase => Len(asked) < MaxInput
      /\ id \in Int /\ Blocks \in Nat \ {0}
  BY NumbersAreIntegers, BlockAssumption DEF AskedFor, AskedToErase
<1>1. SUFFICES /\ changed \subseteq erased
               /\ AskedToErase /\ ~Says("incorrect parameters") =>
                     /\ changed \subseteq whole
                     /\ Says("failed") \/ whole \subseteq erased
                     /\ \A b \in changed, c \in whole : c < b => c \in erased
               /\ Len(asked) < MaxInput /\ ~AskedToErase => changed = {}
  BY <1>0 DEF EraseIsExact
<1>2. CASE Untouched /\ (AskedToErase => Says("incorrect parameters") \/ AskedId \notin -1..(Blocks - 1))
  <2>1. changed = {}
    BY <1>2 DEF Untouched
  <2>2. AskedToErase /\ ~Says("incorrect parameters") => id \notin -1..(Blocks - 1)
    BY <1>2 DEF AskedId
  <2>3. id \notin -1..(Blocks - 1) => whole = {}
    BY <1>0
  <2> HIDE DEF changed, whole, erased
  <2> QED
    BY <2>1, <2>2, <2>3
<1>3. CASE /\ Len(asked) < MaxInput => AskedToErase
           /\ \E i, n \in Int : ErasedFor(i, n) /\ (Len(asked) < MaxInput => i = AskedId)
  <2>1. PICK i \in Int, n \in Int : ErasedFor(i, n) /\ (Len(asked) < MaxInput => i = AskedId)
    BY <1>3
  <2>2. /\ i \in -1..(Blocks - 1) /\ n \in First(i)..(Last(i) + 1)
        /\ ErasedUpTo(m.fram, framAsked, First(i), n)
    BY <2>1 DEF ErasedFor
  <2>3. /\ First(i) \in 0..(Blocks - 1) /\ Last(i) \in 0..(Blocks - 1)
        /\ First(i)..Last(i) = IF i = -1 THEN 0..(Blocks - 1) ELSE {i} \cap (0..(Blocks - 1))
    <3>1. CASE i = -1
      BY <1>0, <2>2, <3>1 DEF First, Last
    <3>2. CASE i # -1
      <4>1. First(i) = i /\ Last(i) = i /\ i \in 0..(Blocks - 1)
        BY <1>0, <2>2, <3>2 DEF First, Last
      <4>2. i..i = {i} /\ {i} \cap (0..(Blocks - 1)) = {i}
        BY <4>1
      <4> QED
        BY <3>2, <4>1, <4>2
    <3> QED
      BY <3>1, <3>2
  <2>4. \A b \in 0..(Blocks - 1) :
            IF b \in First(i)..(n - 1) THEN Gone(m.fram, b) ELSE Same(m.fram, framAsked, b)
    BY <2>2 DEF ErasedUpTo
  <2>5. \A b \in changed : b \in First(i)..(n - 1)
    BY <2>4 DEF Same
  <2>6. \A b \in First(i)..(n - 1) : b \in erased
    <3> TAKE b \in First(i)..(n - 1)
    <3>1. b \in 0..(Blocks - 1)
      BY <1>0, <2>2, <2>3
    <3> QED
      BY <2>4, <3>1 DEF Gone
  <2>7. AskedToErase => whole = First(i)..Last(i)
    BY <1>0, <2>1, <2>3 DEF AskedId
  <2>8. n = Last(i) + 1 \/ Says("failed")
    BY <2>1 DEF ErasedFor
  <2>9. changed \subseteq Int /\ First(i) \in Int /\ Last(i) \in Int /\ n \in Int
    BY <2>2, <2>3
  <2> HIDE DEF changed, whole, erased
  <2>10. changed \subseteq erased
    BY <2>5, <2>6
  <2>11. AskedToErase => changed \subseteq whole
    BY <2>2, <2>5, <2>7, <2>9
  <2>12. AskedToErase => Says("failed") \/ whole \subseteq erased
    BY <2>6, <2>7, <2>8, <2>9
  <2>13. AskedToErase => \A b \in changed, c \in whole : c < b => c \in erased
    BY <2>5, <2>6, <2>7, <2>9
  <2> QED
    BY <1>3, <2>10, <2>11, <2>12, <2>13
<1> QED
  BY <1>2, <1>3 DEF Left

(* The text of an answer stays said.                                       *)
LEMMA SaysOn ==
    ASSUME IsSequence(shown), NEW text, shown' = Append(shown, text)
    PROVE  /\ IsSequence(shown)' /\ shown' # <<>>
           /\ \A says : Says(says) => Says(says)'
           /\ Says(text.says)'
<1>1. IsSequence(shown')
  BY AnswersGrow
<1>2. shown' # <<>>
  BY AnswersGrow
<1>3. \A says : Says(says) => Says(says)'
  BY AnswersGrow DEF Says
<1>4. Says(text.says)'
  BY AnswersGrow DEF Says
<1> QED
  BY <1>1, <1>2, <1>3, <1>4

(* What the interpreter works on is the line that was asked.               *)
LEMMA WorksOnWhatWasAsked ==
    ASSUME Editing, Remembering, Processing, Len(asked) < MaxInput
    PROVE  /\ AskedToErase <=> Current = 3
           /\ AskedToDump <=> Current = 2
           /\ BlockParameter = AskedId
<1>1. CString = asked
  <2>1. Holds(asked)
    BY DEF Editing, Processing
  <2>2. Len(asked) # MaxInput
    BY <2>1, InputAssumption DEF Holds
  <2> QED
    BY <2>1, <2>2, StringOfLine
<1>2. Current = Search(asked)
  BY <1>1, CurrentIsSearched DEF Remembering
<1>3. /\ Names(xRegisteredCommands[3], asked) <=> Search(asked) = 3
      /\ Names(xRegisteredCommands[2], asked) <=> Search(asked) = 2
  BY SearchFinds
<1>4. /\ Names(xRegisteredCommands[3], asked) <=> Names(Command("lfs_erase", 0), asked)
      /\ Names(xRegisteredCommands[2], asked) <=> Names(Command("lfs_dump", 0), asked)
  BY TheCommands DEF Names, Command
<1>5. (AskedToErase <=> Current = 3) /\ (AskedToDump <=> Current = 2)
  BY <1>2, <1>3, <1>4 DEF AskedToErase, AskedToDump
<1>6. BlockParameter = AskedId
  BY <1>1 DEF BlockParameter, AskedId
<1> QED
  BY <1>5, <1>6

(* What the storage is compared with does not change while a command runs. *)
LEMMA ErasingStays ==
    ASSUME Erasing, UNCHANGED <<pc, input_strBuf, behind, m, asked, shown, framAsked>>
    PROVE  Erasing'
<1>1. CString' = CString
  BY DEF CString
<1>2. BlockParameter' = BlockParameter
  BY <1>1 DEF BlockParameter
<1>3. AskedId' = AskedId
  BY DEF AskedId
<1>4. \A id, n : ErasedFor(id, n)' <=> ErasedFor(id, n)
  BY DEF ErasedFor, Says
<1>5. AskedToErase' <=> AskedToErase
  BY DEF AskedToErase
<1>6. IsSequence(shown)'
  BY DEF Erasing
<1>7. pc' = "process" => Beginning'
  BY DEF Erasing, Beginning, Untouched
<1>8. pc' = "process" => AtABlock'
  BY <1>2 DEF Erasing, AtABlock
<1>9. pc' = "process" => AtTheEnd'
  BY <1>2, <1>4 DEF Erasing, AtTheEnd
<1>10. pc' = "read" /\ shown' # <<>> => Left'
  <2>1. Says("incorrect parameters")' <=> Says("incorrect parameters")
    BY DEF Says
  <2> QED
    BY <2>1, <1>3, <1>4, <1>5 DEF Erasing, Left, Untouched
<1> QED
  BY <1>6, <1>7, <1>8, <1>9, <1>10 DEF Erasing

(* Another command, or none: the storage is as it was.                     *)
LEMMA ErasingOther ==
    ASSUME Erasing, Editing, Remembering, Processing,
           NEW text, shown' = Append(shown, text),
           Current # 3 \/ text.says = "incorrect parameters",
           m.erase.internalState = 0, m'.erase = m.erase, m'.fram = m.fram,
           UNCHANGED <<asked, framAsked>>
    PROVE  Erasing'
<1>1. Untouched /\ Untouched' /\ IsSequence(shown)
  BY DEF Erasing, Beginning, Untouched, Processing
<1>2. IsSequence(shown)' /\ Says(text.says)'
  BY <1>1, SaysOn
<1>3. Beginning' /\ AtABlock' /\ AtTheEnd'
  <2>1. m'.erase.internalState = 0
    OBVIOUS
  <2>2. Beginning'
    BY <1>1 DEF Beginning
  <2>3. AtABlock'
    BY ONLY <2>1 DEF AtABlock
  <2>4. AtTheEnd'
    BY ONLY <2>1 DEF AtTheEnd
  <2> QED
    BY <2>2, <2>3, <2>4
<1>4. AskedToErase' => Says("incorrect parameters")'
  <2> SUFFICES ASSUME AskedToErase' PROVE Says("incorrect parameters")'
    OBVIOUS
  <2>1. AskedToErase /\ Len(asked) < MaxInput
    BY DEF AskedToErase
  <2>2. Current = 3
    BY <2>1, WorksOnWhatWasAsked
  <2> QED
    BY <1>2, <2>2
<1>5. Left'
  BY <1>1, <1>4 DEF Left
<1> QED
  BY <1>2, <1>3, <1>5 DEF Erasing

(* The call of lfs_erase that takes the parameter.                         *)
LEMMA ErasingStarts ==
    ASSUME Erasing, Editing, Remembering, Processing, Current = 3,
           m.erase.internalState = 0,
           NEW reply \in EraseReplies(m, BlockParameter), m' = reply.m,
           shown' = Append(shown, reply.text), Turn(reply.more),
           UNCHANGED <<asked, framAsked>>
    PROVE  Erasing'
<1> DEFINE id == BlockParameter
<1>1. Untouched /\ IsSequence(shown) /\ pc = "process"
  BY DEF Erasing, Beginning, Processing
<1>2. IsSequence(shown)' /\ id \in Int
  BY <1>1, SaysOn, NumbersAreIntegers DEF BlockParameter
<1>3. \/ id \notin -1..(Blocks - 1) /\ m' = m /\ reply.more = FALSE
      \/ id \in -1..(Blocks - 1) /\ m' = EraseStarted(m, id) /\ reply.more = TRUE
  BY <1>2, EraseStarts DEF Remembering
<1>4. CASE id \notin -1..(Blocks - 1) /\ m' = m /\ reply.more = FALSE
  <2>1. pc' = "read" /\ Untouched'
    BY <1>1, <1>4 DEF Turn, Untouched
  <2>2. AskedToErase' => AskedId' \notin -1..(Blocks - 1)
    <3> SUFFICES ASSUME AskedToErase' PROVE AskedId' \notin -1..(Blocks - 1)
      OBVIOUS
    <3>1. Len(asked) < MaxInput
      BY DEF AskedToErase
    <3>2. id = AskedId /\ AskedId' = AskedId
      BY <3>1, WorksOnWhatWasAsked DEF AskedId
    <3> QED
      BY <1>4, <3>2
  <2>3. Left'
    BY <2>1, <2>2 DEF Left
  <2> QED
    BY <1>2, <2>1, <2>3 DEF Erasing
<1>5. CASE id \in -1..(Blocks - 1) /\ m' = EraseStarted(m, id) /\ reply.more = TRUE
  <2>1. pc' = "process" /\ UNCHANGED <<input_strBuf, behind>>
    BY <1>1, <1>5 DEF Turn
  <2>2. CString' = CString
    BY <2>1 DEF CString
  <2>3. BlockParameter' = id
    BY <2>2 DEF BlockParameter
  <2>4. /\ m'.erase = [internalState |-> 1, blockToDelete |-> First(id),
                       remaining |-> Last(id) - First(id) + 1]
        /\ m'.fram = m.fram
    BY <1>5 DEF EraseStarted, Remembering, IsMachine
  <2>5. /\ First(id) \in 0..(Blocks - 1) /\ Last(id) \in 0..(Blocks - 1) /\ First(id) <= Last(id)
    BY <1>5, BlockAssumption DEF First, Last
  <2> HIDE DEF id
  <2>6. ErasedUpTo(m.fram, framAsked, First(id), First(id))
    BY <1>1, <2>5 DEF ErasedUpTo, Same, Untouched
  <2>7. AtABlock'
    BY <2>3, <2>4, <2>5, <2>6, <1>5 DEF AtABlock
  <2>8. Beginning' /\ AtTheEnd'
    BY <2>4 DEF Beginning, AtTheEnd
  <2> QED
    BY <1>2, <2>1, <2>7, <2>8 DEF Erasing
<1> QED
  BY <1>3, <1>4, <1>5

(* A call that erases a block or fails.                                    *)
LEMMA ErasingErases ==
    ASSUME Erasing, Remembering, Processing, m.erase.internalState = 1,
           NEW reply \in EraseReplies(m, BlockParameter), m' = reply.m,
           shown' = Append(shown, reply.text), Turn(reply.more),
           UNCHANGED <<asked, framAsked>>
    PROVE  Erasing'
<1>0. PICK id, b : id = BlockParameter /\ b = m.erase.blockToDelete
  OBVIOUS
<1> DEFINE erased == WithErased(m.fram, b * BlockSz)
<1>1. pc = "process" /\ IsSequence(shown) /\ IsMachine(m)
  BY DEF Erasing, Processing, Remembering
<1>2. /\ id \in -1..(Blocks - 1) /\ b \in First(id)..Last(id)
      /\ m.erase.remaining = Last(id) - b + 1
      /\ ErasedUpTo(m.fram, framAsked, First(id), b)
  BY <1>0, <1>1 DEF Erasing, AtABlock
<1>3. /\ First(id) \in 0..(Blocks - 1) /\ Last(id) \in 0..(Blocks - 1) /\ b \in 0..(Blocks - 1)
      /\ id \in Int
  BY <1>2, BlockAssumption DEF First, Last
<1>4. UInt16(UInt16(b) * BlockSz) = b * BlockSz
  BY <1>3, BlockAddress
<1>5. /\ reply.more = TRUE
      /\ \/ m'.fram = erased /\ m'.erase = EraseGoesOn(m.erase)
         \/ /\ m'.fram \in {erased, m.fram} /\ m'.erase = EraseGivesUp(m.erase)
            /\ reply.text = Text("failed", <<>>)
  <2>1. /\ reply.more = TRUE
        /\ LET gone == WithErased(m.fram, UInt16(UInt16(m.erase.blockToDelete) * BlockSz))
           IN  \/ reply.m.fram = gone /\ reply.m.erase = EraseGoesOn(m.erase)
               \/ /\ reply.m.fram \in {gone, m.fram} /\ reply.m.erase = EraseGivesUp(m.erase)
                  /\ reply.text = Text("failed", <<>>)
    BY <1>0, <1>1, <1>3, EraseErases
  <2> QED
    BY <1>0, <1>4, <2>1
<1>6. pc' = "process" /\ UNCHANGED <<input_strBuf, behind>>
  BY <1>1, <1>5 DEF Turn
<1>7. CString' = CString
  BY <1>6 DEF CString
<1>8. BlockParameter' = id
  BY <1>0, <1>7 DEF BlockParameter
<1>9. IsSequence(shown)' /\ Says(reply.text.says)'
  BY <1>1, SaysOn
<1>10. ErasedUpTo(erased, framAsked, First(id), b + 1)
  BY <1>2, <1>3, OneMoreBlock
<1> HIDE DEF erased
<1>11. CASE m'.fram = erased /\ m'.erase = EraseGoesOn(m.erase)
  <2>1. ErasedUpTo(m'.fram, framAsked', First(id), b + 1)
    BY <1>10, <1>11
  <2>2. CASE b = Last(id)
    <3>1. m'.erase.internalState = 2
      BY <1>0, <1>2, <1>3, <1>11, <2>2 DEF EraseGoesOn
    <3>2. ErasedFor(id, b + 1)'
      <4>1. b + 1 = Last(id) + 1 /\ b + 1 \in First(id)..(Last(id) + 1)
        BY <1>2, <1>3, <2>2
      <4> QED
        BY <1>2, <2>1, <4>1 DEF ErasedFor
    <3>3. AtTheEnd'
      BY <1>3, <1>8, <3>2 DEF AtTheEnd
    <3>4. Beginning' /\ AtABlock'
      BY <3>1 DEF Beginning, AtABlock
    <3> QED
      BY <1>6, <1>9, <3>3, <3>4 DEF Erasing
  <2>3. CASE b # Last(id)
    <3>1. /\ m'.erase.internalState = 1 /\ m'.erase.blockToDelete = b + 1
          /\ m'.erase.remaining = Last(id) - (b + 1) + 1
          /\ b + 1 \in First(id)..Last(id)
      BY <1>0, <1>2, <1>3, <1>11, <2>3 DEF EraseGoesOn
    <3>2. AtABlock'
      BY <1>2, <1>8, <2>1, <3>1 DEF AtABlock
    <3>3. Beginning' /\ AtTheEnd'
      BY <3>1 DEF Beginning, AtTheEnd
    <3> QED
      BY <1>6, <1>9, <3>2, <3>3 DEF Erasing
  <2> QED
    BY <2>2, <2>3
<1>12. CASE /\ m'.fram \in {erased, m.fram} /\ m'.erase = EraseGivesUp(m.erase)
            /\ reply.text = Text("failed", <<>>)
  <2>1. Says("failed")'
    BY <1>9, <1>12 DEF Text
  <2>2. m'.erase.internalState = 2
    BY <1>1, <1>12 DEF IsMachine, EraseGivesUp
  <2>3. PICK n \in {b, b + 1} : ErasedUpTo(m'.fram, framAsked', First(id), n)
    BY <1>2, <1>10, <1>12
  <2>4. n \in First(id)..(Last(id) + 1) /\ n \in Int
    BY <1>2, <1>3
  <2>5. ErasedFor(id, n)'
    BY <1>2, <2>1, <2>3, <2>4 DEF ErasedFor
  <2>6. AtTheEnd'
    BY <1>8, <2>4, <2>5 DEF AtTheEnd
  <2>7. Beginning' /\ AtABlock'
    BY <2>2 DEF Beginning, AtABlock
  <2> QED
    BY <1>6, <1>9, <2>6, <2>7 DEF Erasing
<1> QED
  BY <1>5, <1>11, <1>12

(* The last call.                                                          *)
LEMMA ErasingEnds ==
    ASSUME Erasing, Editing, Remembering, Processing, Current = 3, m.erase.internalState = 2,
           NEW reply \in EraseReplies(m, BlockParameter), m' = reply.m,
           shown' = Append(shown, reply.text), Turn(reply.more),
           UNCHANGED <<asked, framAsked>>
    PROVE  Erasing'
<1>1. PICK id : id = BlockParameter
  OBVIOUS
<1>2. /\ pc = "process" /\ IsSequence(shown) /\ IsMachine(m) /\ BlockParameter \in Int
  BY NumbersAreIntegers DEF Erasing, Processing, Remembering, BlockParameter
<1>3. PICK n \in Int : ErasedFor(id, n)
  BY <1>1, <1>2 DEF Erasing, AtTheEnd
<1>4. m' = EraseEnded(m) /\ reply.more = FALSE
  BY <1>2, EraseEnds
<1>5. m'.fram = m.fram /\ pc' = "read"
  BY <1>2, <1>4 DEF EraseEnded, IsMachine, Turn
<1>6. IsSequence(shown)' /\ (Says("failed") => Says("failed")')
  BY <1>2, SaysOn
<1>7. ErasedFor(id, n)'
  BY <1>3, <1>5, <1>6 DEF ErasedFor
<1>8. Len(asked') < MaxInput => AskedToErase' /\ id = AskedId'
  <2> SUFFICES ASSUME Len(asked) < MaxInput PROVE AskedToErase' /\ id = AskedId'
    OBVIOUS
  <2>1. AskedToErase /\ id = AskedId
    BY <1>1, WorksOnWhatWasAsked
  <2> QED
    BY <2>1 DEF AskedToErase, AskedId
<1>9. Left'
  BY <1>1, <1>2, <1>3, <1>7, <1>8 DEF Left
<1> QED
  BY <1>5, <1>6, <1>9 DEF Erasing

LEMMA ErasingAnswer ==
    ASSUME Erasing, Editing, Remembering, FreeRTOS_CLIProcessCommand
    PROVE  Erasing'
<1>1. Processing /\ UNCHANGED <<asked, framAsked>>
  BY EveryCommandAnswers DEF Answering, Processing
<1>2. IsMachine(m) /\ Remembered /\ UnderWay /\ m.erase.internalState \in 0..2
  BY DEF Remembering, IsMachine
<1>3. Current # 3 => m.erase.internalState = 0
  BY DEF Remembering, UnderWay, Current, NULL
<1>4. CASE NotRecognised
  <2>1. shown' = Append(shown, Text("not recognised", <<>>))
    BY <1>4 DEF NotRecognised, Answer
  <2>2. Current = NULL /\ m' = m
    BY <1>4 DEF NotRecognised, interpreter
  <2>3. Current # 3
    BY <2>2 DEF NULL
  <2> QED
    BY <1>1, <1>3, <2>1, <2>2, <2>3, ErasingOther
<1>5. CASE IncorrectParameters
  <2>1. shown' = Append(shown, Text("incorrect parameters", <<>>))
    BY <1>5 DEF IncorrectParameters, Answer
  <2>2. Text("incorrect parameters", <<>>).says = "incorrect parameters"
    BY DEF Text
  <2>3. m' = m /\ pxCommand = NULL
    BY <1>5 DEF IncorrectParameters, RightParameters
  <2>4. m.erase.internalState = 0
    BY <1>2, <2>3 DEF UnderWay, NULL
  <2> QED
    BY <1>1, <2>1, <2>2, <2>3, <2>4, ErasingOther
<1>6. CASE prvHelpCommand
  <2>1. PICK this : shown' = Append(shown, Text("help", <<this>>)) /\ Calls("help") /\ m' = m
    BY <1>6 DEF prvHelpCommand, Answer
  <2>2. Current = 1
    BY <1>2, <2>1, CallsNumber
  <2> QED
    BY <1>1, <1>3, <2>1, <2>2, ErasingOther
<1>7. CASE lfs_ls
  <2>1. shown' = Append(shown, Text("listing", <<>>)) /\ Calls("lfs_ls") /\ m' = m
    BY <1>7 DEF lfs_ls, Answer
  <2>2. Current = 4
    BY <1>2, <2>1, CallsNumber
  <2> QED
    BY <1>1, <1>3, <2>1, <2>2, ErasingOther
<1>8. CASE lfs_dump
  <2>1. PICK reply \in DumpReplies(m, BlockParameter) :
              /\ Calls("lfs_dump") /\ m' = reply.m /\ helpCommand' = helpCommand
              /\ shown' = Append(shown, reply.text)
              /\ Turn(reply.more)
    BY <1>8, DumpCall
  <2>2. Current = 2
    BY <1>2, <2>1, CallsNumber
  <2>3. BlockParameter \in Int
    BY NumbersAreIntegers DEF BlockParameter
  <2>4. m'.erase = m.erase /\ m'.fram = m.fram
    BY <1>2, <2>1, <2>3, DumpReply
  <2> QED
    BY <1>1, <1>3, <2>1, <2>2, <2>4, ErasingOther
<1>9. CASE lfs_erase
  <2>1. PICK reply \in EraseReplies(m, BlockParameter) :
              /\ Calls("lfs_erase") /\ m' = reply.m /\ helpCommand' = helpCommand
              /\ shown' = Append(shown, reply.text)
              /\ Turn(reply.more)
    BY <1>9, EraseCall
  <2>2. Current = 3
    BY <1>2, <2>1, CallsNumber
  <2>3. CASE m.erase.internalState = 0
    BY <1>1, <2>1, <2>2, <2>3, ErasingStarts
  <2>4. CASE m.erase.internalState = 1
    BY <1>1, <2>1, <2>4, ErasingErases
  <2>5. CASE m.erase.internalState = 2
    BY <1>1, <2>1, <2>2, <2>5, ErasingEnds
  <2> QED
    BY <1>2, <2>3, <2>4, <2>5
<1> QED
  BY <1>4, <1>5, <1>6, <1>7, <1>8, <1>9 DEF FreeRTOS_CLIProcessCommand

(* A new line begins with the storage as it is.                            *)
LEMMA ErasingNewline ==
    ASSUME Erasing, Remembering, Newline
    PROVE  Erasing'
<1>1. pc = "read" /\ shown' = <<>> /\ framAsked' = m.fram /\ m' = m
  BY DEF Newline, Listening, interpreter
<1>2. m'.erase.internalState = 0
  BY <1>1 DEF Remembering, Remembered, UnderWay, NULL
<1>3. IsSequence(shown)'
  BY <1>1 DEF IsSequence
<1>4. Beginning'
  BY <1>1 DEF Beginning, Untouched
<1>5. AtABlock'
  BY <1>2 DEF AtABlock
<1>6. AtTheEnd'
  BY <1>2 DEF AtTheEnd
<1> QED
  BY <1>1, <1>3, <1>4, <1>5, <1>6 DEF Erasing

LEMMA ErasingInput ==
    ASSUME pc' = "read", shown' = <<>>
    PROVE  Erasing'
BY DEF Erasing, IsSequence

------------------------------------------------------------------------------
(* The console with its storage.                                           *)

IInv == Quiet /\ Remembering /\ Erasing

LEMMA IInvInit == Init => IInv
<1> SUFFICES ASSUME Init PROVE IInv
  OBVIOUS
<1>1. Erasing
  BY DEF Init, Erasing, IsSequence
<1> QED
  BY <1>1, QuietInit, RememberingInit DEF IInv

LEMMA IInvStep == IInv /\ [Next]_vars => IInv'
<1> SUFFICES ASSUME IInv, [Next]_vars PROVE Erasing'
  BY QuietStep, RememberingStep DEF IInv
<1>0. Erasing /\ Editing /\ Remembering
  BY DEF IInv, Quiet
<1> USE DEF input, interpreter, history, Listening, NewInput
<1>1. CASE UART_send
  BY <1>0, <1>1, ErasingStays DEF UART_send
<1>2. CASE Task_sleep_ends
  BY <1>0, <1>2, ErasingStays DEF Task_sleep_ends
<1>3. CASE FreeRTOS_CLIProcessCommand
  BY <1>0, <1>3, ErasingAnswer
<1>4. CASE IgnoreChar
  BY <1>4, ErasingInput DEF IgnoreChar
<1>5. CASE Backspace
  BY <1>5, ErasingInput DEF Backspace
<1>6. CASE Newline
  BY <1>0, <1>6, ErasingNewline
<1>7. ASSUME NEW c \in Typed \ EditKeys, AcceptChar(c) PROVE Erasing'
  BY <1>7, ErasingInput DEF AcceptChar
<1>8. CASE UNCHANGED vars
  BY <1>0, <1>8, ErasingStays DEF vars
<1> QED
  BY <1>1, <1>2, <1>3, <1>4, <1>5, <1>6, <1>7, <1>8 DEF Next, User, Console

(* lfs_erase leaves 0xFF in the blocks it was asked for and everything else*)
(* as it was; if a write fails, the blocks before it are erased and none   *)
(* behind it; no other command writes.  For every number and size of blocks*)
(* that 16 bits can address (cmd_lfs.c:121-179).                           *)
THEOREM EraseIsExactHolds == Spec => []EraseIsExact
<1>1. IInv => EraseIsExact
  <2> SUFFICES ASSUME IInv, Answered PROVE EraseIsExact
    BY DEF EraseIsExact
  <2>1. Left
    BY DEF IInv, Erasing, Answered
  <2> QED
    BY <2>1, LeftIsExact
<1> QED
  BY <1>1, IInvInit, IInvStep, PTL DEF Spec

------------------------------------------------------------------------------
(* lfs_dump: what its lines give.                                          *)

(* The quotient and the remainder of a division are unique; so what fills *)
(* up a line ends at a multiple of its length.                             *)
LEMMA Multiples ==
    ASSUME NEW B \in Nat \ {0}, NEW x \in Int, NEW y \in Int, x < y
    PROVE  B * x + B <= B * y
<1> DEFINE d == y - x - 1
<1>1. d \in Nat /\ y = x + 1 + d
  OBVIOUS
<1>2. B * y = B * x + B + B * d /\ B * d \in Nat /\ B * x \in Int
  BY <1>1
<1> QED
  BY <1>2

LEMMA Remainder ==
    ASSUME NEW B \in Nat \ {0}, NEW a \in Int, NEW q \in Int, NEW r \in 0..(B - 1), a = B * q + r
    PROVE  a % B = r
<1> DEFINE p == a \div B
           s == a % B
<1>1. p \in Int /\ s \in 0..(B - 1) /\ a = B * p + s
  OBVIOUS
<1> HIDE DEF p, s
<1>2. ~(p < q)
  <2> SUFFICES ASSUME p < q PROVE FALSE
    OBVIOUS
  <2>1. B * p + B <= B * q
    BY <1>1, Multiples
  <2> QED
    BY <1>1, <2>1
<1>3. ~(q < p)
  <2> SUFFICES ASSUME q < p PROVE FALSE
    OBVIOUS
  <2>1. B * q + B <= B * p
    BY <1>1, Multiples
  <2> QED
    BY <1>1, <2>1
<1>4. p = q
  BY <1>1, <1>2, <1>3
<1>5. s = r
  BY <1>1, <1>4
<1> QED
  BY <1>5 DEF s

LEMMA LineEnds ==
    ASSUME NEW B \in Nat \ {0}, NEW a \in Nat
    PROVE  (a + (B - (a % B))) % B = 0
<1> DEFINE q == a \div B
           r == a % B
<1>1. q \in Int /\ r \in 0..(B - 1) /\ a = B * q + r
  OBVIOUS
<1> HIDE DEF q, r
<1>2. B * (q + 1) = B * q + B
  BY <1>1
<1>3. a + (B - r) = B * (q + 1) + 0
  BY <1>1, <1>2
<1>4. 0 \in 0..(B - 1) /\ q + 1 \in Int /\ a + (B - r) \in Int
  BY <1>1
<1>5. (a + (B - r)) % B = 0
  BY <1>3, <1>4, Remainder
<1> QED
  BY <1>5 DEF r

(* What Shown gives, as far as it can be said without an induction over the*)
(* answers: that its recursion has a solution, and that every solution ends*)
(* in bytes.  Both go on from one answer to the next.                      *)
Unrolled(f, s) == f = [k \in 0..Len(s) |-> IF k = 0 THEN <<>> ELSE f[k - 1] \o s[k].bytes]
Gives(s, bytes) == (\E f : Unrolled(f, s)) /\ \A f : Unrolled(f, s) => f[Len(s)] = bytes

(* What the answers give is what Shown is.                                 *)
LEMMA ShownIs ==
    ASSUME NEW bytes, Gives(shown, bytes)
    PROVE  Shown = bytes
<1> DEFINE upTo == CHOOSE f : Unrolled(f, shown)
<1>1. Unrolled(upTo, shown)
  BY DEF Gives
<1>2. Shown = upTo[Len(shown)]
  BY DEF Shown, Unrolled
<1> QED
  BY <1>1, <1>2 DEF Gives

(* No answer gives nothing, and one more answer gives its bytes behind the *)
(* others.                                                                 *)
LEMMA GivesNothing == Gives(<<>>, <<>>)
<1> DEFINE f == [k \in 0..0 |-> <<>>]
<1>1. Len(<<>>) = 0
  OBVIOUS
<1>2. Unrolled(f, <<>>)
  BY <1>1 DEF Unrolled
<1>3. \A g : Unrolled(g, <<>>) => g[0] = <<>>
  BY <1>1 DEF Unrolled
<1> QED
  BY <1>1, <1>2, <1>3 DEF Gives

LEMMA GivesMore ==
    ASSUME NEW s, IsSequence(s), NEW x, Gives(s, x), NEW text
    PROVE  Gives(Append(s, text), x \o text.bytes)
<1> DEFINE t == Append(s, text)
           n == Len(s)
<1>1. /\ n \in Nat /\ Len(t) = n + 1 /\ t[n + 1] = text
      /\ \A k \in 1..n : t[k] = s[k]
  <2> DEFINE S == {s[k] : k \in DOMAIN s} \cup {text}
  <2>1. s \in Seq({s[k] : k \in DOMAIN s})
    BY DEF IsSequence
  <2>2. s \in Seq(S) /\ text \in S
    BY <2>1
  <2> HIDE DEF S
  <2> QED
    BY <2>2, Appended
<1> HIDE DEF t, n
<1>2. PICK f : Unrolled(f, s)
  BY DEF Gives
<1>3. /\ f[0] = <<>> /\ f[n] = x
      /\ \A k \in 1..n : f[k] = f[k - 1] \o s[k].bytes
  <2>1. f[n] = x
    BY <1>2 DEF Gives, n
  <2>2. f[0] = <<>>
    BY <1>1, <1>2 DEF Unrolled, n
  <2>3. ASSUME NEW k \in 1..n PROVE f[k] = f[k - 1] \o s[k].bytes
    <3>1. k \in 0..n /\ k # 0
      BY <1>1
    <3> QED
      BY <1>2, <3>1 DEF Unrolled, n
  <2> QED
    BY <2>1, <2>2, <2>3
<1>4. \E g : Unrolled(g, t)
  <2> DEFINE g == [k \in 0..(n + 1) |-> IF k = n + 1 THEN x \o text.bytes ELSE f[k]]
  <2>1. ASSUME NEW k \in 0..(n + 1)
        PROVE  g[k] = IF k = 0 THEN <<>> ELSE g[k - 1] \o t[k].bytes
    <3>1. CASE k = 0
      BY <1>1, <1>3, <3>1
    <3>2. CASE k = n + 1
      <4>1. k - 1 = n /\ n \in 0..(n + 1) /\ n # n + 1 /\ k # 0
        BY <1>1, <3>2
      <4>2. g[k] = x \o text.bytes /\ g[k - 1] = x
        BY <1>3, <3>2, <4>1
      <4> QED
        BY <1>1, <3>2, <4>1, <4>2
    <3>3. CASE k \in 1..n
      <4>1. /\ k - 1 \in 0..(n + 1) /\ k - 1 # n + 1 /\ k # n + 1 /\ k # 0
        BY <1>1, <3>3
      <4>2. g[k] = f[k] /\ g[k - 1] = f[k - 1]
        BY <4>1
      <4> QED
        BY <1>1, <1>3, <3>3, <4>1, <4>2
    <3> QED
      BY <1>1, <3>1, <3>2, <3>3
  <2>2. g = [k \in 0..(n + 1) |-> IF k = 0 THEN <<>> ELSE g[k - 1] \o t[k].bytes]
    BY <2>1
  <2> HIDE DEF g
  <2> QED
    BY <1>1, <2>2 DEF Unrolled
<1>5. ASSUME NEW g, Unrolled(g, t) PROVE g[n + 1] = x \o text.bytes
  <2> DEFINE h == [k \in 0..n |-> g[k]]
  <2>1. \A k \in 0..(n + 1) : g[k] = IF k = 0 THEN <<>> ELSE g[k - 1] \o t[k].bytes
    BY <1>1, <1>5 DEF Unrolled
  <2>2. ASSUME NEW k \in 0..n PROVE h[k] = IF k = 0 THEN <<>> ELSE h[k - 1] \o s[k].bytes
    <3>1. CASE k = 0
      BY <1>1, <2>1, <3>1
    <3>2. CASE k # 0
      <4>1. k \in 1..n /\ k - 1 \in 0..n /\ k \in 0..(n + 1)
        BY <1>1, <3>2
      <4>2. h[k] = g[k] /\ h[k - 1] = g[k - 1]
        BY <4>1
      <4> QED
        BY <1>1, <2>1, <3>2, <4>1, <4>2
    <3> QED
      BY <3>1, <3>2
  <2>3. h = [k \in 0..n |-> IF k = 0 THEN <<>> ELSE h[k - 1] \o s[k].bytes]
    BY <2>2
  <2>4. h[n] = g[n]
    BY <1>1
  <2> HIDE DEF h
  <2>5. h[n] = x
    BY <2>3 DEF Unrolled, Gives, n
  <2>6. n + 1 \in 0..(n + 1) /\ n + 1 # 0 /\ n + 1 - 1 = n
    BY <1>1
  <2>7. g[n + 1] = g[n] \o t[n + 1].bytes
    <3>1. PICK k : k = n + 1
      OBVIOUS
    <3>2. k \in 0..(n + 1) /\ k # 0 /\ k - 1 = n
      BY <1>1, <3>1
    <3>3. g[k] = g[k - 1] \o t[k].bytes
      BY <2>1, <3>2
    <3> QED
      BY <3>1, <3>2, <3>3
  <2> QED
    BY <1>1, <2>4, <2>5, <2>7
<1> QED
  BY <1>1, <1>4, <1>5 DEF Gives, t

(* Two pieces of a sequence, one behind the other.                         *)
LEMMA Concatenated ==
    ASSUME NEW S, NEW x \in Seq(S), NEW y \in Seq(S)
    PROVE  /\ x \o y \in Seq(S) /\ Len(x \o y) = Len(x) + Len(y)
           /\ \A i \in 1..Len(x) : (x \o y)[i] = x[i]
           /\ \A i \in 1..Len(y) : (x \o y)[Len(x) + i] = y[i]
OBVIOUS

LEMMA Joined ==
    ASSUME NEW f, NEW p \in Nat, NEW n \in Nat
    PROVE  [k \in 1..p |-> f[k]] \o [k \in 1..n |-> f[p + k]] = [k \in 1..(p + n) |-> f[k]]
<1> DEFINE S == {f[k] : k \in Int}
           x == [k \in 1..p |-> f[k]]
           y == [k \in 1..n |-> f[p + k]]
           z == [k \in 1..(p + n) |-> f[k]]
<1>1. x \in Seq(S) /\ y \in Seq(S) /\ z \in Seq(S) /\ Len(x) = p /\ Len(y) = n /\ Len(z) = p + n
  OBVIOUS
<1>2. \A k \in 1..p : x[k] = f[k]
  OBVIOUS
<1>3. \A k \in 1..n : y[k] = f[p + k]
  OBVIOUS
<1>4. \A k \in 1..(p + n) : z[k] = f[k]
  OBVIOUS
<1> HIDE DEF S, x, y, z
<1>5. /\ x \o y \in Seq(S) /\ Len(x \o y) = p + n
      /\ \A i \in 1..p : (x \o y)[i] = x[i]
      /\ \A i \in 1..n : (x \o y)[p + i] = y[i]
  <2>1. x \in Seq(S) /\ y \in Seq(S)
    BY <1>1
  <2>2. /\ x \o y \in Seq(S) /\ Len(x \o y) = Len(x) + Len(y)
        /\ \A i \in 1..Len(x) : (x \o y)[i] = x[i]
        /\ \A i \in 1..Len(y) : (x \o y)[Len(x) + i] = y[i]
    BY <2>1, Concatenated
  <2>3. Len(x) = p /\ Len(y) = n
    BY <1>1
  <2> QED
    BY <2>2, <2>3
<1>6. ASSUME NEW k \in 1..(p + n) PROVE (x \o y)[k] = z[k]
  <2>1. CASE k \in 1..p
    BY <1>2, <1>4, <1>5, <2>1
  <2>2. CASE k \notin 1..p
    <3>1. PICK i \in 1..n : p + i = k
      <4>1. k - p \in 1..n /\ p + (k - p) = k
        BY <2>2
      <4> QED
        BY <4>1
    <3>2. (x \o y)[k] = y[i] /\ y[i] = f[k]
      BY <1>3, <1>5, <3>1
    <3> QED
      BY <1>4, <3>2
  <2> QED
    BY <2>1, <2>2
<1> DEFINE w == x \o y
<1>7. w \in Seq(S) /\ Len(w) = p + n /\ \A k \in 1..(p + n) : w[k] = z[k]
  BY <1>5, <1>6
<1> HIDE DEF w
<1>8. w = z
  BY <1>1, <1>7
<1> QED
  BY <1>8 DEF w, x, y, z

(* No number of strtol wraps an Int32 when it is multiplied by the size of *)
(* a block (cmd_lfs.c:51-52).                                              *)
NumbersFit == \A word : strtol(word) * BlockSz < Width32 \div 2

(* The test of the block number is right when nothing wraps.               *)
LEMMA BlockOrNot ==
    ASSUME NEW id \in Int, id * BlockSz < Width32 \div 2
    PROVE  NotABlock(id) <=> id \notin 0..(Blocks - 1)
<1>0. BlockSz \in Nat \ {0} /\ Blocks \in Nat \ {0} /\ Width32 \in Nat
  BY BlockAssumption
<1>1. CASE id < 0
  BY <1>0, <1>1 DEF NotABlock
<1>2. CASE id >= 0
  <2> DEFINE a == id * BlockSz
             all == Blocks * BlockSz
             half == Width32 \div 2
  <2>1. a \in Nat /\ all \in Nat
    BY <1>0, <1>2
  <2>2. half \in Nat /\ 2 * half <= Width32 /\ a < half
    BY <1>0
  <2>3. id # NaN
    BY <1>2 DEF NaN
  <2>4. id < Blocks => a < all
    BY <1>0, <1>2, BlocksLieApart
  <2>5. id >= Blocks => a >= all
    BY <1>0, <1>2, BlocksLieApart
  <2>6. NotABlock(id) <=> Int32(a) >= all
    BY <1>2, <2>3 DEF NotABlock
  <2>7. Int32(a) = ((a + half) % Width32) - half
    BY DEF Int32
  <2> HIDE DEF a, all, half
  <2>8. (a + half) % Width32 = a + half
    BY <1>0, <2>1, <2>2
  <2>9. Int32(a) = a
    BY <2>1, <2>2, <2>7, <2>8
  <2>10. id < Blocks <=> a < all
    BY <1>0, <1>2, <2>1, <2>4, <2>5
  <2> QED
    BY <1>0, <1>2, <2>1, <2>6, <2>9, <2>10
<1> QED
  BY <1>1, <1>2

(* The first n bytes of a block.                                           *)
BytesOf(fram, id, n) == [k \in 1..n |-> fram[id * BlockSz + k - 1]]

(* A line of bytes behind those that are shown.                            *)
LEMMA MoreBytes ==
    ASSUME NEW fram, NEW id \in Int, NEW p \in Nat, NEW n \in Nat
    PROVE  BytesOf(fram, id, p) \o [k \in 1..n |-> fram[id * BlockSz + (p + k - 1)]]
              = BytesOf(fram, id, p + n)
<1> DEFINE start == id * BlockSz
           f == [k \in Int |-> fram[start + k - 1]]
<1>1. start \in Int
  BY BlockAssumption
<1> HIDE DEF start
<1>2. [k \in 1..p |-> fram[start + k - 1]] = [k \in 1..p |-> f[k]]
  BY <1>1
<1>3. [k \in 1..n |-> fram[start + (p + k - 1)]] = [k \in 1..n |-> f[p + k]]
  BY <1>1
<1>4. [k \in 1..(p + n) |-> fram[start + k - 1]] = [k \in 1..(p + n) |-> f[k]]
  BY <1>1
<1> HIDE DEF f
<1>5. [k \in 1..p |-> f[k]] \o [k \in 1..n |-> f[p + k]] = [k \in 1..(p + n) |-> f[k]]
  BY Joined
<1>6. /\ BytesOf(fram, id, p) = [k \in 1..p |-> f[k]]
      /\ BytesOf(fram, id, p + n) = [k \in 1..(p + n) |-> f[k]]
  BY <1>2, <1>4 DEF BytesOf, start
<1>7. [k \in 1..n |-> fram[id * BlockSz + (p + k - 1)]] = [k \in 1..n |-> f[p + k]]
  BY <1>3 DEF start
<1> QED
  BY <1>5, <1>6, <1>7

(* The call of lfs_dump that takes the parameter reads that block, or says *)
(* that there is none or that it cannot.                                   *)
LEMMA DumpStarts ==
    ASSUME NEW r, IsMachine(r), r.dump.internalState = 0,
           NEW id \in Int, NotABlock(id) <=> id \notin 0..(Blocks - 1),
           NEW reply \in DumpReplies(r, id)
    PROVE  \/ id \notin 0..(Blocks - 1) /\ reply.more = FALSE /\ reply.text.bytes = <<>>
           \/ reply.more = FALSE /\ reply.text.says = "failed"
           \/ /\ id \in 0..(Blocks - 1) /\ reply.more = TRUE /\ reply.text.bytes = <<>>
              /\ reply.m.dump = [internalState |-> 1, nBytes |-> BlockSz, printIdx |-> 0]
              /\ reply.m.lfsCmdBuffer = [k \in Offset |-> r.fram[id * BlockSz + k]]
<1>1. reply = Dump_start(r, id, TRUE) \/ reply = Dump_start(r, id, FALSE)
  BY DEF DumpReplies, FuncLfsDump
<1>2. CASE NotABlock(id)
  <2>1. reply.more = FALSE /\ reply.text.bytes = <<>>
    BY <1>1, <1>2 DEF Dump_start, Reply, Text
  <2> QED
    BY <1>2, <2>1
<1>3. CASE ~NotABlock(id) /\ reply = Dump_start(r, id, FALSE)
  <2>1. reply.more = FALSE /\ reply.text.says = "failed"
    BY <1>3 DEF Dump_start, Reply, Text
  <2> QED
    BY <2>1
<1>4. CASE ~NotABlock(id) /\ reply = Dump_start(r, id, TRUE)
  <2> DEFINE read == FM25W256_read(r, UInt16(UInt16(id) * BlockSz))
  <2>1. /\ reply.m = [read EXCEPT !.dump = [internalState |-> 1, nBytes |-> BlockSz, printIdx |-> 0]]
        /\ reply.more = TRUE /\ reply.text.bytes = <<>>
    BY <1>4 DEF Dump_start, Reply, Text
  <2>2. id \in 0..(Blocks - 1)
    BY <1>4
  <2>3. UInt16(UInt16(id) * BlockSz) = id * BlockSz
    BY <2>2, BlockAddress
  <2>4. read.lfsCmdBuffer = [k \in Offset |-> r.fram[id * BlockSz + k]] /\ IsMachine(read)
    BY <2>3 DEF FM25W256_read, IsMachine
  <2> HIDE DEF read
  <2>5. /\ reply.m.lfsCmdBuffer = read.lfsCmdBuffer
        /\ reply.m.dump = [internalState |-> 1, nBytes |-> BlockSz, printIdx |-> 0]
    BY <2>1, <2>4 DEF IsMachine
  <2> QED
    BY <2>1, <2>2, <2>4, <2>5
<1> QED
  BY <1>1, <1>2, <1>3, <1>4

(* An answer that shows n bytes behind the first p, and knows where it is. *)
ShowsLine(r, reply, p, n) ==
    /\ reply.text.bytes = [k \in 1..n |-> r.lfsCmdBuffer[p + k - 1]]
    /\ reply.m.lfsCmdBuffer = r.lfsCmdBuffer
    /\ \/ /\ reply.more = TRUE
          /\ reply.m.dump = [internalState |-> 1, nBytes |-> BlockSz - (p + n), printIdx |-> p + n]
       \/ reply.more = FALSE /\ p + n = BlockSz

(* Every further call shows the next bytes of the block, the last call the *)
(* last ones.                                                              *)
LEMMA DumpGoesOn ==
    ASSUME NEW r, IsMachine(r), NEW p \in 0..BlockSz,
           r.dump = [internalState |-> 1, nBytes |-> BlockSz - p, printIdx |-> p],
           NEW id, NEW reply \in DumpReplies(r, id)
    PROVE  \E n \in 0..(BlockSz - p) : ShowsLine(r, reply, p, n)
<1> DEFINE left == BlockSz - p
           room == BytesPerLine - (p % BytesPerLine)
           n == LineLength(r.dump)
           full == n > 0 /\ (p + n) % BytesPerLine = 0
<1>1. BytesPerLine \in Nat \ {0} /\ BlockSz \in Nat /\ p \in Nat /\ left \in Nat
  BY BlockAssumption
<1>2. room \in Nat \ {0}
  BY <1>1
<1>3. (p + room) % BytesPerLine = 0
  BY <1>1, LineEnds
<1>4. r.dump.nBytes = left /\ r.dump.printIdx = p /\ r.dump.internalState = 1
  OBVIOUS
<1>5. n = IF left < room THEN left ELSE room
  BY <1>4 DEF LineLength
<1> HIDE DEF room, n
<1>6. n \in 0..left
  BY <1>1, <1>2, <1>5
<1>7. ~full => n = left
  BY <1>1, <1>2, <1>3, <1>5
<1>8. reply = Dump_line(r)
  BY <1>4 DEF DumpReplies, FuncLfsDump
<1>9. reply.text.bytes = [k \in 1..n |-> r.lfsCmdBuffer[p + k - 1]]
  BY <1>4, <1>8 DEF Dump_line, Reply, Text, n
<1>10. CASE full
  <2>1. /\ reply.m = [r EXCEPT !.dump.nBytes = left - n, !.dump.printIdx = p + n]
        /\ reply.more = TRUE
    BY <1>4, <1>8, <1>10 DEF Dump_line, Reply, n
  <2>2. reply.m = [r EXCEPT !.dump = [internalState |-> 1, nBytes |-> left - n, printIdx |-> p + n]]
    <3>1. reply.m = [r EXCEPT !.dump.nBytes = left - n, !.dump.printIdx = p + n]
      BY <2>1
    <3>2. r.dump.internalState = 1
      BY <1>4
    <3> HIDE DEF left
    <3> QED
      BY <3>1, <3>2 DEF IsMachine
  <2>3. /\ reply.m.lfsCmdBuffer = r.lfsCmdBuffer
        /\ reply.m.dump = [internalState |-> 1, nBytes |-> left - n, printIdx |-> p + n]
    BY <2>2 DEF IsMachine
  <2>4. left - n = BlockSz - (p + n)
    BY <1>1, <1>6
  <2> QED
    BY <1>6, <1>9, <2>1, <2>3, <2>4 DEF ShowsLine
<1>11. CASE ~full
  <2>1. /\ reply.m = [r EXCEPT !.dump = [internalState |-> 0, nBytes |-> 0, printIdx |-> 0]]
        /\ reply.more = FALSE
    BY <1>4, <1>8, <1>11 DEF Dump_line, Reply, n
  <2>2. reply.m.lfsCmdBuffer = r.lfsCmdBuffer
    BY <2>1 DEF IsMachine
  <2>3. p + n = BlockSz
    BY <1>1, <1>7, <1>11
  <2> QED
    BY <1>6, <1>9, <2>1, <2>2, <2>3 DEF ShowsLine
<1> QED
  BY <1>10, <1>11

Refused == Says("incorrect parameters")

(* A command begins with nothing shown, and lfs_dump stays at its lines    *)
(* until it ends.                                                          *)
AtTheStart ==
    /\ pxCommand = NULL => shown = <<>>
    /\ pxCommand = 2 => m.dump.internalState # 0

(* So far the bytes up to printIdx are shown, and the buffer holds the     *)
(* block.                                                                  *)
AtALine ==
    m.dump.internalState # 0 =>
        /\ BlockParameter \in 0..(Blocks - 1)
        /\ m.dump.printIdx \in 0..BlockSz
        /\ m.dump = [internalState |-> 1, nBytes |-> BlockSz - m.dump.printIdx, printIdx |-> m.dump.printIdx]
        /\ m.lfsCmdBuffer = [k \in Offset |-> framAsked[BlockParameter * BlockSz + k]]
        /\ Gives(shown, BytesOf(framAsked, BlockParameter, m.dump.printIdx))

(* A dump that was neither refused nor failed has given the block, or      *)
(* nothing where there is none.                                            *)
Dumped ==
    AskedToDump =>
        \/ Says("failed") \/ Refused
        \/ AskedId \in 0..(Blocks - 1) /\ Gives(shown, BytesOf(framAsked, AskedId, BlockSz))
        \/ AskedId \notin 0..(Blocks - 1) /\ Gives(shown, <<>>)

Dumping ==
    /\ pc = "process" => AtTheStart /\ AtALine
    /\ pc = "read" /\ shown # <<>> => Dumped

(* What has been shown is what DumpShowsTheBlock asks for.                 *)
LEMMA DumpedIsShown == Dumped => DumpShowsTheBlock
<1> SUFFICES ASSUME Dumped, AskedToDump, ~Says("failed"), ~Refused
             PROVE  Shown = IF AskedId \in 0..(Blocks - 1)
                            THEN BytesOf(framAsked, AskedId, BlockSz) ELSE <<>>
  BY DEF DumpShowsTheBlock, AskedFor, AskedToDump, AskedId, BytesOf, Refused
<1>1. \/ AskedId \in 0..(Blocks - 1) /\ Gives(shown, BytesOf(framAsked, AskedId, BlockSz))
      \/ AskedId \notin 0..(Blocks - 1) /\ Gives(shown, <<>>)
  BY DEF Dumped
<1> QED
  BY <1>1, ShownIs

(* Nothing is shown while a text is sent.                                  *)
LEMMA DumpingStays ==
    ASSUME Dumping, UNCHANGED <<pc, input_strBuf, behind, pxCommand, m, asked, shown, framAsked>>
    PROVE  Dumping'
<1>1. CString' = CString
  BY DEF CString
<1>2. BlockParameter' = BlockParameter
  BY <1>1 DEF BlockParameter
<1>3. AskedId' = AskedId
  BY DEF AskedId
<1>4. AskedToDump' <=> AskedToDump
  BY DEF AskedToDump
<1>5. \A says : Says(says)' <=> Says(says)
  BY DEF Says
<1>6. Refused' <=> Refused
  BY <1>5 DEF Refused
<1>7. pc' = "process" => AtTheStart'
  BY DEF Dumping, AtTheStart
<1>8. pc' = "process" => AtALine'
  BY <1>2 DEF Dumping, AtALine
<1>9. pc' = "read" /\ shown' # <<>> => Dumped'
  BY <1>3, <1>4, <1>5, <1>6 DEF Dumping, Dumped
<1> QED
  BY <1>7, <1>8, <1>9 DEF Dumping

(* Another command, or one that is refused.                                *)
LEMMA DumpingOther ==
    ASSUME Erasing, Editing, Remembering, Processing,
           NEW text, shown' = Append(shown, text), Current # 2 \/ Refused',
           m'.dump.internalState = 0,
           pc' = "read" \/ (pxCommand' = Current /\ Current \notin {NULL, 2}),
           UNCHANGED <<asked, framAsked>>
    PROVE  Dumping'
<1>1. AtALine'
  BY DEF AtALine
<1>2. pc' # "read" => AtTheStart'
  BY DEF AtTheStart, NULL
<1>3. AskedToDump' => Refused'
  <2> SUFFICES ASSUME AskedToDump' PROVE Refused'
    OBVIOUS
  <2>1. AskedToDump /\ Len(asked) < MaxInput
    BY DEF AskedToDump
  <2>2. Current = 2
    BY <2>1, WorksOnWhatWasAsked
  <2> QED
    BY <2>2
<1>4. Dumped'
  BY <1>3 DEF Dumped
<1> QED
  BY <1>1, <1>2, <1>4 DEF Dumping

(* The call that takes the parameter.                                      *)
LEMMA DumpingStarts ==
    ASSUME NumbersFit, Erasing, Editing, Remembering, Dumping, Processing, Current = 2,
           m.dump.internalState = 0,
           NEW reply \in DumpReplies(m, BlockParameter), m' = reply.m,
           shown' = Append(shown, reply.text), Turn(reply.more),
           UNCHANGED <<asked, framAsked>>
    PROVE  Dumping'
<1>0. PICK id : id = BlockParameter
  OBVIOUS
<1>1. /\ pc = "process" /\ IsMachine(m) /\ Remembered /\ UnderWay /\ id \in Int
  BY <1>0, NumbersAreIntegers DEF Processing, Remembering, BlockParameter
<1>2. shown = <<>> /\ pxCommand = NULL
  BY <1>1 DEF Dumping, AtTheStart, Current
<1>3. m.fram = framAsked
  BY <1>1, <1>2 DEF Erasing, Beginning, Untouched, UnderWay, NULL
<1>4. NotABlock(id) <=> id \notin 0..(Blocks - 1)
  <2>1. id * BlockSz < Width32 \div 2
    BY <1>0 DEF NumbersFit, BlockParameter
  <2> QED
    BY <1>1, <2>1, BlockOrNot
<1>5. \/ id \notin 0..(Blocks - 1) /\ reply.more = FALSE /\ reply.text.bytes = <<>>
      \/ reply.more = FALSE /\ reply.text.says = "failed"
      \/ /\ id \in 0..(Blocks - 1) /\ reply.more = TRUE /\ reply.text.bytes = <<>>
         /\ m'.dump = [internalState |-> 1, nBytes |-> BlockSz, printIdx |-> 0]
         /\ m'.lfsCmdBuffer = [k \in Offset |-> m.fram[id * BlockSz + k]]
  <2>1. reply \in DumpReplies(m, id)
    BY <1>0
  <2>2. \/ id \notin 0..(Blocks - 1) /\ reply.more = FALSE /\ reply.text.bytes = <<>>
        \/ reply.more = FALSE /\ reply.text.says = "failed"
        \/ /\ id \in 0..(Blocks - 1) /\ reply.more = TRUE /\ reply.text.bytes = <<>>
           /\ reply.m.dump = [internalState |-> 1, nBytes |-> BlockSz, printIdx |-> 0]
           /\ reply.m.lfsCmdBuffer = [k \in Offset |-> m.fram[id * BlockSz + k]]
    BY <1>1, <1>4, <2>1, DumpStarts
  <2> QED
    BY <2>2
<1>6. IsSequence(shown) /\ Gives(shown, <<>>)
  BY <1>2, GivesNothing DEF Erasing
<1>7. reply.text.bytes = <<>> => Gives(shown, <<>>)'
  <2>1. Gives(Append(shown, reply.text), <<>> \o reply.text.bytes)
    BY <1>6, GivesMore
  <2>2. <<>> \o <<>> = <<>>
    OBVIOUS
  <2> QED
    BY <2>1, <2>2
<1>8. AskedToDump' => AskedId' = id
  <2> SUFFICES ASSUME AskedToDump' PROVE AskedId' = id
    OBVIOUS
  <2>1. Len(asked) < MaxInput
    BY DEF AskedToDump
  <2>2. AskedId = id
    BY <1>0, <2>1, WorksOnWhatWasAsked
  <2> QED
    BY <2>2 DEF AskedId
<1>9. CASE reply.more = FALSE /\ (reply.text.says = "failed" \/ (id \notin 0..(Blocks - 1) /\ reply.text.bytes = <<>>))
  <2>1. pc' = "read"
    BY <1>9 DEF Turn
  <2>2. reply.text.says = "failed" => Says("failed")'
    BY <1>6, SaysOn
  <2>3. Dumped'
    BY <1>7, <1>8, <1>9, <2>2 DEF Dumped
  <2> QED
    BY <2>1, <2>3 DEF Dumping
<1>10. CASE /\ id \in 0..(Blocks - 1) /\ reply.more = TRUE /\ reply.text.bytes = <<>>
            /\ m'.dump = [internalState |-> 1, nBytes |-> BlockSz, printIdx |-> 0]
            /\ m'.lfsCmdBuffer = [k \in Offset |-> m.fram[id * BlockSz + k]]
  <2>1. pc' = "process" /\ pxCommand' = 2 /\ UNCHANGED <<input_strBuf, behind>>
    BY <1>1, <1>10 DEF Turn
  <2>2. CString' = CString
    BY <2>1 DEF CString
  <2>3. BlockParameter' = id
    BY <1>0, <2>2 DEF BlockParameter
  <2>4. BytesOf(framAsked, id, 0) = <<>>
    BY DEF BytesOf
  <2>5. Gives(shown, BytesOf(framAsked, id, 0))'
    BY <1>7, <1>10, <2>4
  <2>6. AtTheStart'
    BY <1>10, <2>1 DEF AtTheStart, NULL
  <2>7. BlockSz - 0 = BlockSz /\ 0 \in 0..BlockSz
    BY BlockAssumption
  <2>8. AtALine'
    BY <1>3, <1>10, <2>3, <2>5, <2>7 DEF AtALine
  <2> QED
    BY <2>1, <2>6, <2>8 DEF Dumping
<1> QED
  BY <1>5, <1>9, <1>10

(* A call that shows a line.                                               *)
LEMMA DumpingGoesOn ==
    ASSUME Erasing, Editing, Remembering, Dumping, Processing, Current = 2,
           m.dump.internalState # 0,
           NEW reply \in DumpReplies(m, BlockParameter), m' = reply.m,
           shown' = Append(shown, reply.text), Turn(reply.more),
           UNCHANGED <<asked, framAsked>>
    PROVE  Dumping'
<1>0. PICK id, p : id = BlockParameter /\ p = m.dump.printIdx
  OBVIOUS
<1>1. pc = "process" /\ IsMachine(m) /\ IsSequence(shown)
  BY DEF Processing, Remembering, Erasing
<1>2. /\ id \in 0..(Blocks - 1) /\ p \in 0..BlockSz
      /\ m.dump = [internalState |-> 1, nBytes |-> BlockSz - p, printIdx |-> p]
      /\ m.lfsCmdBuffer = [k \in Offset |-> framAsked[id * BlockSz + k]]
      /\ Gives(shown, BytesOf(framAsked, id, p))
  BY <1>0, <1>1 DEF Dumping, AtALine
<1>3. PICK n \in 0..(BlockSz - p) :
          /\ reply.text.bytes = [k \in 1..n |-> m.lfsCmdBuffer[p + k - 1]]
          /\ m'.lfsCmdBuffer = m.lfsCmdBuffer
          /\ \/ /\ reply.more = TRUE
                /\ m'.dump = [internalState |-> 1, nBytes |-> BlockSz - (p + n), printIdx |-> p + n]
             \/ reply.more = FALSE /\ p + n = BlockSz
  <2>1. m.dump = [internalState |-> 1, nBytes |-> BlockSz - p, printIdx |-> p] /\ p \in 0..BlockSz
    BY <1>2
  <2>2. reply \in DumpReplies(m, id)
    BY <1>0
  <2>3. PICK n \in 0..(BlockSz - p) : ShowsLine(m, reply, p, n)
    BY <1>1, <2>1, <2>2, DumpGoesOn
  <2> QED
    BY <2>3 DEF ShowsLine
<1>4. BlockSz \in Nat /\ p \in Nat /\ n \in Nat /\ p + n \in 0..BlockSz
  BY <1>2, <1>3, BlockAssumption
<1>5. reply.text.bytes = [k \in 1..n |-> framAsked[id * BlockSz + (p + k - 1)]]
  <2>1. \A k \in 1..n : p + k - 1 \in Offset
    BY <1>4 DEF Offset
  <2> DEFINE start == id * BlockSz
  <2>2. m.lfsCmdBuffer = [k \in Offset |-> framAsked[start + k]]
    BY <1>2
  <2> HIDE DEF start
  <2>3. reply.text.bytes = [k \in 1..n |-> framAsked[start + (p + k - 1)]]
    BY <1>3, <2>1, <2>2
  <2> QED
    BY <2>3 DEF start
<1>6. Gives(shown, BytesOf(framAsked, id, p + n))'
  <2>1. Gives(Append(shown, reply.text), BytesOf(framAsked, id, p) \o reply.text.bytes)
    BY <1>1, <1>2, GivesMore
  <2>2. id \in Int
    BY <1>2
  <2>3. BytesOf(framAsked, id, p) \o reply.text.bytes = BytesOf(framAsked, id, p + n)
    <3>1. BytesOf(framAsked, id, p) \o [k \in 1..n |-> framAsked[id * BlockSz + (p + k - 1)]]
             = BytesOf(framAsked, id, p + n)
      BY <1>4, <2>2, MoreBytes
    <3> QED
      BY <1>5, <3>1
  <2> QED
    BY <2>1, <2>3
<1>7. CASE /\ reply.more = TRUE
           /\ m'.dump = [internalState |-> 1, nBytes |-> BlockSz - (p + n), printIdx |-> p + n]
  <2>1. pc' = "process" /\ pxCommand' = 2 /\ UNCHANGED <<input_strBuf, behind>>
    BY <1>1, <1>7 DEF Turn
  <2>2. CString' = CString
    BY <2>1 DEF CString
  <2>3. BlockParameter' = id
    BY <1>0, <2>2 DEF BlockParameter
  <2>4. AtTheStart'
    BY <1>7, <2>1 DEF AtTheStart, NULL
  <2>5. AtALine'
    BY <1>2, <1>3, <1>4, <1>6, <1>7, <2>3 DEF AtALine
  <2> QED
    BY <2>1, <2>4, <2>5 DEF Dumping
<1>8. CASE reply.more = FALSE /\ p + n = BlockSz
  <2>1. pc' = "read"
    BY <1>8 DEF Turn
  <2>2. AskedToDump' => AskedId' = id
    <3> SUFFICES ASSUME AskedToDump' PROVE AskedId' = id
      OBVIOUS
    <3>1. Len(asked) < MaxInput
      BY DEF AskedToDump
    <3>2. AskedId = id
      BY <1>0, <3>1, WorksOnWhatWasAsked
    <3> QED
      BY <3>2 DEF AskedId
  <2>3. Dumped'
    BY <1>2, <1>6, <1>8, <2>2 DEF Dumped
  <2> QED
    BY <2>1, <2>3 DEF Dumping
<1> QED
  BY <1>3, <1>7, <1>8

(* Every command and every refusal.                                        *)
LEMMA DumpingAnswer ==
    ASSUME NumbersFit, Erasing, Editing, Remembering, Dumping, FreeRTOS_CLIProcessCommand
    PROVE  Dumping'
<1>1. Processing /\ UNCHANGED <<asked, framAsked>>
  BY EveryCommandAnswers DEF Answering, Processing
<1>2. IsMachine(m) /\ Remembered /\ UnderWay /\ IsSequence(shown)
  BY DEF Remembering, Erasing
<1>3. Current # 2 => m.dump.internalState = 0
  BY <1>2 DEF UnderWay, Current, NULL
<1>4. CASE NotRecognised
  <2>1. PICK text : shown' = Append(shown, text) /\ pc' = "read"
    BY <1>4 DEF NotRecognised, Answer
  <2>2. Current = NULL /\ m' = m
    BY <1>4 DEF NotRecognised, interpreter
  <2>3. Current # 2
    BY <2>2 DEF NULL
  <2> QED
    BY <1>1, <1>3, <2>1, <2>2, <2>3, DumpingOther
<1>5. CASE IncorrectParameters
  <2>1. PICK text : /\ shown' = Append(shown, text) /\ pc' = "read"
                    /\ text.says = "incorrect parameters"
    <3> DEFINE text == Text("incorrect parameters", <<>>)
    <3>1. shown' = Append(shown, text) /\ pc' = "read"
      BY <1>5 DEF IncorrectParameters, Answer
    <3>2. text.says = "incorrect parameters"
      BY DEF Text
    <3> QED
      BY <3>1, <3>2
  <2>2. m' = m /\ pxCommand = NULL
    BY <1>5 DEF IncorrectParameters, RightParameters
  <2>3. m.dump.internalState = 0
    BY <1>2, <2>2 DEF UnderWay, NULL
  <2>4. Refused'
    <3>1. Says(text.says)'
      BY <1>2, <2>1, SaysOn
    <3> QED
      BY <2>1, <3>1 DEF Refused
  <2> QED
    BY <1>1, <2>1, <2>2, <2>3, <2>4, DumpingOther
<1>6. CASE prvHelpCommand
  <2>1. PICK text : shown' = Append(shown, text) /\ Calls("help") /\ m' = m
    BY <1>6 DEF prvHelpCommand, Answer
  <2>2. Current = 1
    BY <1>2, <2>1, CallsNumber
  <2>3. pc' = "read" \/ pxCommand' = Current
    BY <1>6 DEF prvHelpCommand, Remember, Answer
  <2>4. 1 \notin {NULL, 2}
    BY DEF NULL
  <2> QED
    BY <1>1, <1>3, <2>1, <2>2, <2>3, <2>4, DumpingOther
<1>7. CASE lfs_ls
  <2>1. PICK text : shown' = Append(shown, text) /\ Calls("lfs_ls") /\ m' = m /\ pc' = "read"
    BY <1>7 DEF lfs_ls, Answer
  <2>2. Current = 4
    BY <1>2, <2>1, CallsNumber
  <2> QED
    BY <1>1, <1>3, <2>1, <2>2, DumpingOther
<1>8. CASE lfs_dump
  <2>1. PICK reply \in DumpReplies(m, BlockParameter) :
              /\ Calls("lfs_dump") /\ m' = reply.m /\ helpCommand' = helpCommand
              /\ shown' = Append(shown, reply.text)
              /\ Turn(reply.more)
    BY <1>8, DumpCall
  <2>2. Current = 2
    BY <1>2, <2>1, CallsNumber
  <2>3. CASE m.dump.internalState = 0
    BY <1>1, <2>1, <2>2, <2>3, DumpingStarts
  <2>4. CASE m.dump.internalState # 0
    BY <1>1, <2>1, <2>2, <2>4, DumpingGoesOn
  <2> QED
    BY <2>3, <2>4
<1>9. CASE lfs_erase
  <2>1. PICK reply \in EraseReplies(m, BlockParameter) :
              /\ Calls("lfs_erase") /\ m' = reply.m /\ helpCommand' = helpCommand
              /\ shown' = Append(shown, reply.text)
              /\ Turn(reply.more)
    BY <1>9, EraseCall
  <2>2. Current = 3
    BY <1>2, <2>1, CallsNumber
  <2>3. BlockParameter \in Int
    BY NumbersAreIntegers DEF BlockParameter
  <2>4. m'.dump = m.dump
    BY <1>2, <2>1, <2>3, EraseReply
  <2>5. m'.dump.internalState = 0
    BY <1>3, <2>2, <2>4
  <2>6. pc' = "read" \/ pxCommand' = Current
    BY <2>1 DEF Turn
  <2>7. 3 \notin {NULL, 2}
    BY DEF NULL
  <2> QED
    BY <1>1, <2>1, <2>2, <2>5, <2>6, <2>7, DumpingOther
<1> QED
  BY <1>4, <1>5, <1>6, <1>7, <1>8, <1>9 DEF FreeRTOS_CLIProcessCommand

(* A line is typed or begins.                                              *)
LEMMA DumpingInput ==
    ASSUME Remembering, Listening, shown' = <<>>, UNCHANGED <<pxCommand, m>>
    PROVE  Dumping'
<1>1. pxCommand = NULL /\ m.dump.internalState = 0
  BY DEF Remembering, Remembered, UnderWay, Listening, NULL
<1>2. AtTheStart'
  BY <1>1 DEF AtTheStart, NULL
<1>3. AtALine'
  <2>1. m'.dump.internalState = 0
    BY <1>1
  <2> QED
    BY ONLY <2>1 DEF AtALine
<1> QED
  BY <1>2, <1>3 DEF Dumping

(* The console with its storage and what it has shown of it.               *)
DumpInv == IInv /\ Dumping

LEMMA DumpInvInit == Init => DumpInv
<1> SUFFICES ASSUME Init PROVE DumpInv
  OBVIOUS
<1>1. Dumping
  BY DEF Init, Dumping
<1> QED
  BY <1>1, IInvInit DEF DumpInv

LEMMA DumpInvStep == NumbersFit /\ DumpInv /\ [Next]_vars => DumpInv'
<1> SUFFICES ASSUME NumbersFit, DumpInv, [Next]_vars PROVE Dumping'
  BY IInvStep DEF DumpInv
<1>0. Dumping /\ Erasing /\ Editing /\ Remembering
  BY DEF DumpInv, IInv, Quiet
<1> USE DEF input, interpreter, history, NewInput
<1>1. CASE UART_send
  BY <1>0, <1>1, DumpingStays DEF UART_send
<1>2. CASE Task_sleep_ends
  BY <1>0, <1>2, DumpingStays DEF Task_sleep_ends
<1>3. CASE FreeRTOS_CLIProcessCommand
  BY <1>0, <1>3, DumpingAnswer
<1>4. CASE IgnoreChar
  BY <1>0, <1>4, DumpingInput DEF IgnoreChar
<1>5. CASE Backspace
  BY <1>0, <1>5, DumpingInput DEF Backspace
<1>6. CASE Newline
  BY <1>0, <1>6, DumpingInput DEF Newline
<1>7. ASSUME NEW c \in Typed \ EditKeys, AcceptChar(c) PROVE Dumping'
  BY <1>0, <1>7, DumpingInput DEF AcceptChar
<1>8. CASE UNCHANGED vars
  BY <1>0, <1>8, DumpingStays DEF vars
<1> QED
  BY <1>1, <1>2, <1>3, <1>4, <1>5, <1>6, <1>7, <1>8 DEF Next, User, Console

(* lfs_dump shows the bytes of the block it was asked for, each once and in*)
(* order, whether or not the lines come out even, and nothing for a number *)
(* that is no block: for every size of a block and of a line, if no number *)
(* wraps (cmd_lfs.c:39-93).  With one that does, block 0 is shown.         *)
THEOREM DumpShowsTheBlockHolds == NumbersFit => (Spec => []DumpShowsTheBlock)
<1> SUFFICES ASSUME NumbersFit PROVE Spec => []DumpShowsTheBlock
  OBVIOUS
<1>1. DumpInv => DumpShowsTheBlock
  <2> SUFFICES ASSUME DumpInv, Answered PROVE DumpShowsTheBlock
    BY DEF DumpShowsTheBlock, AskedFor
  <2>1. Dumped
    BY DEF DumpInv, Dumping, Answered
  <2> QED
    BY <2>1, DumpedIsShown
<1>2. DumpInv /\ [Next]_vars => DumpInv'
  BY DumpInvStep
<1> QED
  BY <1>1, <1>2, DumpInvInit, PTL DEF Spec

------------------------------------------------------------------------------
(* The words of a line. Induction comes first: over the numbers, as every  *)
(* set of them that is not empty has a least one.                          *)

(* A set of natural numbers that is not empty has a least element.         *)
LEMMA LeastOf ==
    ASSUME NEW U, U \subseteq Nat, U # {}
    PROVE  \E n \in U : \A k \in U : n <= k
<1> DEFINE Smaller == OpToRel(<, Nat)
<1>1. IsWellFoundedOn(Smaller, Nat)
  BY NatLessThanWellFounded
<1>2. \A a, b \in Nat : <<a, b>> \in Smaller <=> a < b
  BY DEF OpToRel
<1> HIDE DEF Smaller
<1>3. PICK n \in U : \A k \in U : ~(<<k, n>> \in Smaller)
  BY <1>1, WFMin
<1>4. ASSUME NEW k \in U PROVE n <= k
  <2>1. ~(<<k, n>> \in Smaller) /\ k \in Nat /\ n \in Nat
    BY <1>3
  <2> QED BY <1>2, <2>1
<1> QED
  BY <1>4

(* A set that holds 0, and the successor of every number in it, holds      *)
(* every natural number.                                                   *)
LEMMA SetInduction ==
    ASSUME NEW T, 0 \in T, \A n \in Nat : n \in T => n + 1 \in T
    PROVE  Nat \subseteq T
<1> SUFFICES ASSUME ~(Nat \subseteq T) PROVE FALSE
  OBVIOUS
<1> DEFINE U == Nat \ T
<1>1. U \subseteq Nat /\ U # {}
  OBVIOUS
<1>2. PICK n \in U : \A k \in U : n <= k
  BY <1>1, LeastOf
<1>3. n # 0 /\ n - 1 \in Nat /\ n - 1 \notin U
  BY <1>2
<1>4. n - 1 + 1 = n
  BY <1>2
<1> QED
  BY <1>2, <1>3, <1>4

(* From a place on there is a first place of a set, or none to the end.    *)
LEMMA FirstStop ==
    ASSUME NEW n \in Nat, NEW from \in 1..(n + 1)
    PROVE  \A Stops \in SUBSET (1..n) :
              \E j \in from..(n + 1) :
                  /\ j > n \/ j \in Stops
                  /\ \A i \in from..(j - 1) : i \notin Stops
<1> TAKE Stops \in SUBSET (1..n)
<1> DEFINE Ahead == {j \in from..(n + 1) : j > n \/ j \in Stops}
<1>1. Ahead \subseteq Nat /\ n + 1 \in Ahead
  OBVIOUS
<1>2. PICK j \in Ahead : \A k \in Ahead : j <= k
  BY <1>1, LeastOf
<1>3. \A i \in from..(j - 1) : i \notin Stops
  BY <1>2
<1> QED
  BY <1>2, <1>3

(* The search for the next space finds it, or the end of the line.         *)
LEMMA SpaceAhead ==
    ASSUME NEW S, NEW s \in Seq(S), NEW from \in 1..(Len(s) + 1)
    PROVE  /\ NextSpace(s, from) \in from..(Len(s) + 1)
           /\ NextSpace(s, from) > Len(s) \/ s[NextSpace(s, from)] = Space
           /\ \A i \in from..(NextSpace(s, from) - 1) : s[i] # Space
<1> DEFINE Stops == {j \in 1..Len(s) : s[j] = Space}
<1>1. Len(s) \in Nat /\ Stops \in SUBSET (1..Len(s))
  OBVIOUS
<1>2. PICK j \in from..(Len(s) + 1) :
            /\ j > Len(s) \/ j \in Stops
            /\ \A i \in from..(j - 1) : i \notin Stops
  <2>1. \A U \in SUBSET (1..Len(s)) :
            \E j \in from..(Len(s) + 1) :
                /\ j > Len(s) \/ j \in U
                /\ \A i \in from..(j - 1) : i \notin U
    BY <1>1, FirstStop
  <2> HIDE DEF Stops
  <2> QED
    BY ONLY <2>1, <1>1
<1>3. /\ j > Len(s) \/ s[j] = Space
      /\ \A i \in from..(j - 1) : s[i] # Space
  BY <1>1, <1>2
<1> QED
  BY <1>3 DEF NextSpace

(* The search for the next word finds it, or the end of the line.          *)
LEMMA WordAhead ==
    ASSUME NEW S, NEW s \in Seq(S), NEW from \in 1..(Len(s) + 1)
    PROVE  /\ NextWord(s, from) \in from..(Len(s) + 1)
           /\ NextWord(s, from) > Len(s) \/ s[NextWord(s, from)] # Space
           /\ \A i \in from..(NextWord(s, from) - 1) : s[i] = Space
<1> DEFINE Stops == {j \in 1..Len(s) : s[j] # Space}
<1>1. Len(s) \in Nat /\ Stops \in SUBSET (1..Len(s))
  OBVIOUS
<1>2. PICK j \in from..(Len(s) + 1) :
            /\ j > Len(s) \/ j \in Stops
            /\ \A i \in from..(j - 1) : i \notin Stops
  <2>1. \A U \in SUBSET (1..Len(s)) :
            \E j \in from..(Len(s) + 1) :
                /\ j > Len(s) \/ j \in U
                /\ \A i \in from..(j - 1) : i \notin U
    BY <1>1, FirstStop
  <2> HIDE DEF Stops
  <2> QED
    BY ONLY <2>1, <1>1
<1>3. /\ j > Len(s) \/ s[j] # Space
      /\ \A i \in from..(j - 1) : s[i] = Space
  BY <1>1, <1>2
<1> QED
  BY <1>3 DEF NextWord

(* A word begins here; the words that begin before a place.                *)
Begins(s, k) == k \in 1..Len(s) /\ s[k] # Space /\ (k = 1 \/ s[k - 1] = Space)

Before(s, k) == {v \in Words(s) : v[1] < k}

(* What Words says.                                                        *)
LEMMA InWords ==
    ASSUME NEW S, NEW s \in Seq(S)
    PROVE  \A w : w \in Words(s) <=>
              /\ w = <<w[1], w[2]>>
              /\ w[1] \in 1..Len(s) /\ w[2] \in 1..Len(s) /\ w[1] <= w[2]
              /\ \A k \in w[1]..w[2] : s[k] # Space
              /\ w[1] = 1 \/ s[w[1] - 1] = Space
              /\ w[2] = Len(s) \/ s[w[2] + 1] = Space
BY DEF Words

(* A line has finitely many words.                                         *)
LEMMA WordsAreFinite ==
    ASSUME NEW S, NEW s \in Seq(S)
    PROVE  IsFiniteSet(Words(s)) /\ \A k : IsFiniteSet(Before(s, k))
<1>1. IsFiniteSet(1..Len(s))
  BY FS_Interval
<1>2. IsFiniteSet((1..Len(s)) \X (1..Len(s)))
  BY <1>1, FS_Product
<1>3. Words(s) \in SUBSET ((1..Len(s)) \X (1..Len(s)))
  BY DEF Words
<1>4. IsFiniteSet(Words(s))
  BY <1>2, <1>3, FS_Subset
<1>5. ASSUME NEW k PROVE IsFiniteSet(Before(s, k))
  <2>1. Before(s, k) \in SUBSET Words(s)
    BY DEF Before
  <2> QED
    BY <1>4, <2>1, FS_Subset
<1> QED
  BY <1>4, <1>5

(* The word that begins at a place ends before the next space.             *)
LEMMA WordAt ==
    ASSUME NEW S, NEW s \in Seq(S), NEW k, Begins(s, k)
    PROVE  /\ <<k, NextSpace(s, k) - 1>> \in Words(s)
           /\ \A v \in Words(s) : v[1] >= k /\ v[1] <= NextSpace(s, k) => v = <<k, NextSpace(s, k) - 1>>
<1> DEFINE e == NextSpace(s, k) - 1
           w == <<k, e>>
<1>1. /\ k \in 1..Len(s) /\ s[k] # Space /\ (k = 1 \/ s[k - 1] = Space) /\ Len(s) \in Nat
  BY DEF Begins
<1>2. /\ e \in Int /\ e + 1 \in k..(Len(s) + 1) /\ (e + 1 > Len(s) \/ s[e + 1] = Space)
      /\ \A i \in k..e : s[i] # Space
  <2>1. NextSpace(s, k) \in Int /\ NextSpace(s, k) = e + 1
    BY <1>1, SpaceAhead
  <2> QED
    BY <1>1, <2>1, SpaceAhead
<1> HIDE DEF e
<1>3. e + 1 # k
  BY <1>1, <1>2
<1>4. e \in 1..Len(s) /\ k <= e /\ (e = Len(s) \/ s[e + 1] = Space)
  <2>1. e \in Int /\ e + 1 >= k /\ e + 1 <= Len(s) + 1 /\ k >= 1
    BY <1>1, <1>2
  <2>2. e + 1 > k
    BY <2>1, <1>1, <1>3
  <2> QED
    BY <2>1, <2>2, <1>1, <1>2
<1>5. w[1] = k /\ w[2] = e
  OBVIOUS
<1>6. w \in Words(s)
  BY <1>1, <1>2, <1>4, <1>5, InWords
<1>7. ASSUME NEW v \in Words(s), v[1] >= k, v[1] <= e + 1 PROVE v = w
  <2>1. /\ v = <<v[1], v[2]>>
        /\ v[1] \in 1..Len(s) /\ v[2] \in 1..Len(s) /\ v[1] <= v[2]
        /\ \A i \in v[1]..v[2] : s[i] # Space
        /\ v[1] = 1 \/ s[v[1] - 1] = Space
        /\ v[2] = Len(s) \/ s[v[2] + 1] = Space
    BY InWords
  <2>2. v[1] = k
    <3> SUFFICES ASSUME v[1] # k PROVE FALSE
      OBVIOUS
    <3>1. v[1] - 1 \in k..e
      BY <1>7, <1>4, <2>1, <1>1
    <3>2. s[v[1] - 1] # Space
      BY <3>1, <1>2
    <3> QED
      BY <2>1, <3>1, <3>2, <1>1
  <2>3. v[2] = e
    <3>1. ~(v[2] < e)
      <4> SUFFICES ASSUME v[2] < e PROVE FALSE
        OBVIOUS
      <4>1. v[2] + 1 \in k..e /\ v[2] # Len(s)
        BY <2>1, <2>2, <1>1, <1>4
      <4> QED
        BY <4>1, <2>1, <1>2
    <3>2. ~(v[2] > e)
      <4> SUFFICES ASSUME v[2] > e PROVE FALSE
        OBVIOUS
      <4>1. e + 1 \in v[1]..v[2] /\ e # Len(s)
        BY <2>1, <2>2, <1>1, <1>4
      <4> QED
        BY <4>1, <2>1, <1>4
    <3> QED
      BY <3>1, <3>2, <2>1, <1>4
  <2> QED
    BY <2>1, <2>2, <2>3
<1>8. NextSpace(s, k) - 1 = e /\ (NextSpace(s, k) \in Int => e + 1 = NextSpace(s, k))
  BY DEF e
<1>9. NextSpace(s, k) \in Int
  BY <1>1, SpaceAhead
<1> QED
  BY <1>6, <1>7, <1>8, <1>9

(* Where words end: before the first space of a row of them, or at the     *)
(* end of the line.                                                        *)
Breaks(s) == {k \in DOMAIN s : s[k] = Space /\ (k = 1 \/ s[k - 1] # Space)}
Ends(s) == Breaks(s) \cup (IF s[Len(s)] # Space THEN {Len(s) + 1} ELSE {})

(* There are as many words as ends of words.                               *)
LEMMA WordsEnd ==
    ASSUME NEW S, NEW s \in Seq(S), s # <<>>, s[1] # Space
    PROVE  IsFiniteSet(Ends(s)) /\ Cardinality(Ends(s)) = Cardinality(Words(s))
<1> DEFINE f == [w \in Words(s) |-> w[2] + 1]
<1>1. Len(s) \in Nat \ {0} /\ DOMAIN s = 1..Len(s)
  OBVIOUS
<1>2. ASSUME NEW w \in Words(s) PROVE w[2] + 1 \in Ends(s)
  <2>1. /\ w[1] \in 1..Len(s) /\ w[2] \in 1..Len(s) /\ w[1] <= w[2]
        /\ \A k \in w[1]..w[2] : s[k] # Space
        /\ w[2] = Len(s) \/ s[w[2] + 1] = Space
    BY InWords
  <2>2. s[w[2]] # Space
    BY <2>1
  <2>3. CASE w[2] = Len(s)
    BY <2>2, <2>3 DEF Ends
  <2>4. CASE w[2] # Len(s)
    <3> DEFINE e == w[2] + 1
    <3>1. e \in 1..Len(s) /\ e - 1 = w[2] /\ s[e] = Space
      BY <2>1, <2>4
    <3> HIDE DEF e
    <3>2. e \in Breaks(s)
      BY <3>1, <2>2, <1>1 DEF Breaks
    <3> QED
      BY <3>2 DEF Ends, e
  <2> QED
    BY <2>3, <2>4
<1>3. f \in [Words(s) -> Ends(s)]
  BY <1>2
<1>4. ASSUME NEW v \in Words(s), NEW w \in Words(s), f[v] = f[w] PROVE v = w
  <2>1. /\ v = <<v[1], v[2]>>
        /\ v[1] \in 1..Len(s) /\ v[2] \in 1..Len(s) /\ v[1] <= v[2]
        /\ \A k \in v[1]..v[2] : s[k] # Space
        /\ v[1] = 1 \/ s[v[1] - 1] = Space
    BY InWords
  <2>2. /\ w = <<w[1], w[2]>>
        /\ w[1] \in 1..Len(s) /\ w[2] \in 1..Len(s) /\ w[1] <= w[2]
        /\ \A k \in w[1]..w[2] : s[k] # Space
        /\ w[1] = 1 \/ s[w[1] - 1] = Space
    BY InWords
  <2>3. v[2] = w[2]
    BY <1>4, <2>1, <2>2
  <2>4. ~(v[1] < w[1])
    <3> SUFFICES ASSUME v[1] < w[1] PROVE FALSE
      OBVIOUS
    <3>1. w[1] - 1 \in v[1]..v[2] /\ w[1] # 1
      BY <2>1, <2>2, <2>3
    <3> QED
      BY <3>1, <2>1, <2>2
  <2>5. ~(w[1] < v[1])
    <3> SUFFICES ASSUME w[1] < v[1] PROVE FALSE
      OBVIOUS
    <3>1. v[1] - 1 \in w[1]..w[2] /\ v[1] # 1
      BY <2>1, <2>2, <2>3
    <3> QED
      BY <3>1, <2>1, <2>2
  <2>6. v[1] = w[1]
    BY <2>1, <2>2, <2>4, <2>5
  <2> QED
    BY ONLY <2>1, <2>2, <2>3, <2>6
<1>5. ASSUME NEW e \in Ends(s) PROVE \E w \in Words(s) : f[w] = e
  <2>1. e - 1 \in 1..Len(s) /\ e \in Int /\ s[e - 1] # Space /\ (e - 1 = Len(s) \/ s[e] = Space)
    <3>1. CASE e \in Breaks(s)
      <4>1. e \in 1..Len(s) /\ s[e] = Space /\ (e = 1 \/ s[e - 1] # Space)
        BY <3>1, <1>1 DEF Breaks
      <4>2. e # 1
        BY <4>1
      <4> QED
        BY <4>1, <4>2
    <3>2. CASE e \notin Breaks(s)
      <4>1. e = Len(s) + 1 /\ s[Len(s)] # Space
        BY <3>2 DEF Ends
      <4> QED
        BY <4>1, <1>1
    <3> QED
      BY <3>1, <3>2
  <2> DEFINE Open == {k \in 1..(e - 1) : \A i \in k..(e - 1) : s[i] # Space}
  <2>2. Open \subseteq Nat /\ e - 1 \in Open
    BY <2>1
  <2>3. PICK k \in Open : \A j \in Open : k <= j
    BY <2>2, LeastOf
  <2>4. k \in 1..(e - 1) /\ \A i \in k..(e - 1) : s[i] # Space
    OBVIOUS
  <2>5. k = 1 \/ s[k - 1] = Space
    <3> SUFFICES ASSUME k # 1, s[k - 1] # Space PROVE FALSE
      OBVIOUS
    <3>1. k - 1 \in 1..(e - 1) /\ \A i \in (k - 1)..(e - 1) : i = k - 1 \/ i \in k..(e - 1)
      BY <2>1, <2>4
    <3>2. k - 1 \in Open
      BY <3>1, <2>4
    <3> QED
      BY <3>2, <2>3, <2>4
  <2>6. <<k, e - 1>> \in Words(s)
    <3> DEFINE w == <<k, e - 1>>
    <3>1. w[1] = k /\ w[2] = e - 1 /\ e - 1 + 1 = e
      BY <2>1
    <3> HIDE DEF Open
    <3>2. w[1] \in 1..Len(s) /\ w[2] \in 1..Len(s) /\ w[1] <= w[2]
      BY <3>1, <2>1, <2>4, <1>1
    <3>3. w = <<w[1], w[2]>>
      BY <3>1
    <3>4. w[2] = Len(s) \/ s[w[2] + 1] = Space
      BY <3>1, <2>1
    <3>5. (\A i \in w[1]..w[2] : s[i] # Space) /\ (w[1] = 1 \/ s[w[1] - 1] = Space)
      BY <3>1, <2>4, <2>5
    <3> HIDE DEF w
    <3>6. w \in Words(s)
      BY <3>2, <3>3, <3>4, <3>5, InWords
    <3> QED
      BY <3>6 DEF w
  <2>7. f[<<k, e - 1>>] = e
    BY <2>6, <2>1
  <2> QED
    BY <2>6, <2>7
<1> HIDE DEF f
<1>6. f \in Bijection(Words(s), Ends(s))
  BY <1>3, <1>4, <1>5 DEF Bijection, Injection, Surjection, IsInjective
<1>7. ExistsBijection(Words(s), Ends(s))
  BY <1>6 DEF ExistsBijection
<1> QED
  BY <1>7, WordsAreFinite, FS_Bijection

(* The spaces that are counted are the ends of words, the last one's       *)
(* excepted (FreeRTOS_CLI.c:349-383).                                      *)
LEMMA NumberOfParameters ==
    ASSUME NEW S, NEW s \in Seq(S), s # <<>>, s[1] # Space
    PROVE  prvGetNumberOfParameters(s) = Cardinality(Words(s)) - 1
<1>1. Len(s) \in Nat \ {0} /\ DOMAIN s = 1..Len(s)
  OBVIOUS
<1>2. IsFiniteSet(Ends(s)) /\ Cardinality(Ends(s)) = Cardinality(Words(s))
  BY WordsEnd
<1>3. IsFiniteSet(Breaks(s)) /\ Breaks(s) \subseteq 1..Len(s)
  <2>1. Breaks(s) \in SUBSET Ends(s) /\ Breaks(s) \subseteq 1..Len(s)
    BY <1>1 DEF Ends, Breaks
  <2> QED
    BY <2>1, <1>2, FS_Subset
<1>4. Cardinality(Breaks(s)) \in Nat
  BY <1>3, FS_CardinalityType
<1>5. prvGetNumberOfParameters(s) = Cardinality(Breaks(s)) - (IF s[Len(s)] = Space THEN 1 ELSE 0)
  BY DEF prvGetNumberOfParameters, Breaks
<1>6. CASE s[Len(s)] = Space
  <2>1. Ends(s) = Breaks(s)
    BY <1>6 DEF Ends
  <2> QED
    BY <2>1, <1>2, <1>4, <1>5, <1>6
<1>7. CASE s[Len(s)] # Space
  <2>1. Ends(s) = Breaks(s) \cup {Len(s) + 1} /\ Len(s) + 1 \notin Breaks(s)
    BY <1>1, <1>3, <1>7 DEF Ends
  <2>2. Cardinality(Ends(s)) = Cardinality(Breaks(s)) + 1
    BY <2>1, <1>3, FS_AddElement
  <2> QED
    BY <2>2, <1>2, <1>4, <1>5, <1>7
<1> QED
  BY <1>6, <1>7

(* Where the loop is after n rounds: at the word with n words before it,   *)
(* or at the end of a line that has no such word.                          *)
Reached(s, n, k) ==
    IF k <= Len(s)
    THEN Begins(s, k) /\ Cardinality(Before(s, k)) = n
    ELSE k = Len(s) + 1 /\ Cardinality(Words(s)) <= n

(* A round goes over one word and the spaces behind it.                    *)
LEMMA OneMoreRound ==
    ASSUME NEW S, NEW s \in Seq(S), NEW n \in Nat, NEW k \in 1..(Len(s) + 1), Reached(s, n, k)
    PROVE  /\ NextWord(s, NextSpace(s, k)) \in 1..(Len(s) + 1)
           /\ Reached(s, n + 1, NextWord(s, NextSpace(s, k)))
<1> DEFINE e == NextSpace(s, k)
           next == NextWord(s, e)
<1>1. Len(s) \in Nat
  OBVIOUS
<1>2. /\ e \in k..(Len(s) + 1) /\ (e > Len(s) \/ s[e] = Space)
      /\ \A i \in k..(e - 1) : s[i] # Space
  BY SpaceAhead
<1>3. e \in 1..(Len(s) + 1)
  BY <1>1, <1>2
<1>4. /\ next \in e..(Len(s) + 1) /\ (next > Len(s) \/ s[next] # Space)
      /\ \A i \in e..(next - 1) : s[i] = Space
  BY <1>3, WordAhead
<1>5. next \in 1..(Len(s) + 1)
  BY <1>1, <1>3, <1>4
<1>6. CASE k <= Len(s)
  <2>1. Begins(s, k) /\ Cardinality(Before(s, k)) = n
    BY <1>6 DEF Reached
  <2> DEFINE w == <<k, e - 1>>
  <2>2. /\ w \in Words(s)
        /\ \A v \in Words(s) : v[1] >= k /\ v[1] <= e => v = w
    BY <2>1, WordAt
  <2>3. w[1] = k
    OBVIOUS
  <2>4. k < next
    <3>1. e # k
      BY <2>1, <1>2, <1>6 DEF Begins
    <3> QED
      BY <3>1, <1>2, <1>4, <1>1
  <2> HIDE DEF w, e, next
  <2>5. Before(s, next) = Before(s, k) \cup {w}
    <3>1. ASSUME NEW v \in Words(s), v[1] < next, v[1] >= k PROVE v = w
      <4>1. v[1] \in 1..Len(s) /\ s[v[1]] # Space
        <5>1. /\ v[1] \in 1..Len(s) /\ v[2] \in 1..Len(s) /\ v[1] <= v[2]
              /\ \A i \in v[1]..v[2] : s[i] # Space
          BY InWords
        <5>2. v[1] \in v[1]..v[2]
          BY <5>1
        <5> QED
          BY <5>1, <5>2
      <4>2. ~(v[1] \in e..(next - 1))
        BY <4>1, <1>4
      <4>3. v[1] <= e
        BY <4>1, <4>2, <3>1, <1>3, <1>5
      <4> QED
        BY <4>3, <3>1, <2>2
    <3>2. ASSUME NEW v \in Words(s), v[1] < k PROVE v[1] < next
      <4>1. v[1] \in Int
        BY InWords
      <4> QED
        BY <4>1, <3>2, <2>4, <1>5
    <3>3. ASSUME NEW v \in Words(s) PROVE v[1] < k \/ v[1] >= k
      <4>1. v[1] \in Int
        BY InWords
      <4> QED
        BY <4>1
    <3> QED
      BY <3>1, <3>2, <3>3, <2>2, <2>3, <2>4 DEF Before
  <2>6. w \notin Before(s, k)
    BY <2>3 DEF Before
  <2>7. Cardinality(Before(s, next)) = n + 1
    <3>1. IsFiniteSet(Before(s, k))
      BY WordsAreFinite
    <3> QED
      BY <3>1, <2>1, <2>5, <2>6, FS_AddElement
  <2>8. CASE next <= Len(s)
    <3>1. Begins(s, next)
      <4>1. next \in 1..Len(s) /\ s[next] # Space
        BY <1>4, <1>5, <2>8
      <4>2. e # next
        BY <4>1, <1>2, <2>8
      <4>3. next - 1 \in e..(next - 1)
        BY <4>2, <1>4, <1>3
      <4> QED
        BY <4>1, <4>3, <1>4 DEF Begins
    <3>2. Reached(s, n + 1, next)
      BY <3>1, <2>7, <2>8 DEF Reached
    <3> QED
      BY <3>2, <1>5 DEF next, e
  <2>9. CASE ~(next <= Len(s))
    <3>1. next = Len(s) + 1
      BY <2>9, <1>5
    <3>2. ASSUME NEW v \in Words(s) PROVE v[1] < next
      <4>1. v[1] \in 1..Len(s)
        BY InWords
      <4> QED
        BY <4>1, <3>1
    <3>3. Before(s, next) = Words(s)
      BY <3>2 DEF Before
    <3>4. Reached(s, n + 1, next)
      BY <3>1, <3>3, <2>7, <2>9 DEF Reached
    <3> QED
      BY <3>4, <1>5 DEF next, e
  <2> QED
    BY <2>8, <2>9
<1>7. CASE ~(k <= Len(s))
  <2>1. k = Len(s) + 1 /\ Cardinality(Words(s)) <= n
    BY <1>7 DEF Reached
  <2>2. next = Len(s) + 1
    BY <2>1, <1>1, <1>2, <1>3, <1>4
  <2>3. Cardinality(Words(s)) \in Nat
    BY WordsAreFinite, FS_CardinalityType
  <2> HIDE DEF next, e
  <2>4. Reached(s, n + 1, next)
    BY <2>1, <2>2, <2>3, <1>1 DEF Reached
  <2> QED
    BY <2>4, <1>5 DEF next, e
<1> QED
  BY <1>6, <1>7

(* The function FreeRTOS_CLIGetParameter's loop computes, and that there   *)
(* is one.                                                                 *)
Rounds(s, wanted, f) ==
    f = [n \in 0..wanted |-> IF n = 0 THEN 1 ELSE NextWord(s, NextSpace(s, f[n - 1]))]

LEMMA RoundsExist == \A s : \A wanted \in Nat : \E f : Rounds(s, wanted, f)
<1> TAKE s
<1> DEFINE T == {wanted \in Nat : \E f : Rounds(s, wanted, f)}
<1>1. 0 \in T
  <2>1. Rounds(s, 0, [n \in 0..0 |-> 1])
    BY DEF Rounds
  <2> QED
    BY <2>1
<1>2. ASSUME NEW w \in Nat, w \in T PROVE w + 1 \in T
  <2>1. PICK f : Rounds(s, w, f)
    BY <1>2
  <2>2. f = [n \in 0..w |-> IF n = 0 THEN 1 ELSE NextWord(s, NextSpace(s, f[n - 1]))]
    BY <2>1 DEF Rounds
  <2> DEFINE g == [n \in 0..(w + 1) |-> IF n = w + 1 THEN NextWord(s, NextSpace(s, f[w])) ELSE f[n]]
  <2>3. ASSUME NEW n \in 0..(w + 1)
        PROVE  g[n] = IF n = 0 THEN 1 ELSE NextWord(s, NextSpace(s, g[n - 1]))
    <3>1. CASE n = 0
      BY <3>1, <2>2
    <3>2. CASE n = w + 1
      <4>1. n - 1 = w /\ w \in 0..(w + 1) /\ w # w + 1 /\ n # 0
        BY <3>2
      <4>2. g[n - 1] = f[w]
        BY <4>1
      <4> QED
        BY <3>2, <4>1, <4>2
    <3>3. CASE n # 0 /\ n # w + 1
      <4>1. n \in 0..w /\ n - 1 \in 0..(w + 1) /\ n - 1 # w + 1
        BY <3>3
      <4>2. g[n] = f[n] /\ g[n - 1] = f[n - 1]
        BY <3>3, <4>1
      <4>3. f[n] = NextWord(s, NextSpace(s, f[n - 1]))
        BY <2>2, <3>3, <4>1
      <4> QED
        BY <3>3, <4>2, <4>3
    <3> QED
      BY <3>1, <3>2, <3>3
  <2>4. g = [n \in 0..(w + 1) |-> g[n]]
    OBVIOUS
  <2> HIDE DEF g
  <2>5. [n \in 0..(w + 1) |-> g[n]]
           = [n \in 0..(w + 1) |-> IF n = 0 THEN 1 ELSE NextWord(s, NextSpace(s, g[n - 1]))]
    BY <2>3
  <2>6. Rounds(s, w + 1, g)
    BY <2>4, <2>5 DEF Rounds
  <2> QED
    BY <2>6
<1> HIDE DEF T
<1>3. Nat \subseteq T
  BY <1>1, <1>2, SetInduction
<1> QED
  BY <1>3 DEF T

(* By induction over the rounds.                                           *)
LEMMA WhereItGets ==
    ASSUME NEW S, NEW s \in Seq(S), s # <<>>, s[1] # Space, NEW wanted \in Nat
    PROVE  /\ ParameterStart(s, wanted) \in 1..(Len(s) + 1)
           /\ Reached(s, wanted, ParameterStart(s, wanted))
<1> DEFINE f == CHOOSE g : Rounds(s, wanted, g)
<1>1. ParameterStart(s, wanted) = f[wanted]
  BY DEF ParameterStart, Rounds
<1>2. Rounds(s, wanted, f)
  BY RoundsExist
<1> HIDE DEF f
<1>3. f = [n \in 0..wanted |-> IF n = 0 THEN 1 ELSE NextWord(s, NextSpace(s, f[n - 1]))]
  BY <1>2 DEF Rounds
<1> DEFINE T == {n \in Nat : n <= wanted => f[n] \in 1..(Len(s) + 1) /\ Reached(s, n, f[n])}
<1>4. 0 \in T
  <2>1. f[0] = 1
    BY <1>3
  <2>2. Len(s) \in Nat \ {0}
    OBVIOUS
  <2>3. Before(s, 1) = {}
    <3>1. ASSUME NEW v \in Words(s) PROVE ~(v[1] < 1)
      <4>1. v[1] \in 1..Len(s)
        BY InWords
      <4> QED
        BY <4>1
    <3> QED
      BY <3>1 DEF Before
  <2>4. Reached(s, 0, 1)
    <3>1. Cardinality(Before(s, 1)) = 0
      BY <2>3, FS_EmptySet
    <3>2. Begins(s, 1) /\ 1 <= Len(s)
      BY <2>2 DEF Begins
    <3> QED
      BY <3>1, <3>2 DEF Reached
  <2> QED
    BY <2>1, <2>2, <2>4
<1>5. ASSUME NEW n \in Nat, n \in T PROVE n + 1 \in T
  <2> SUFFICES ASSUME n + 1 <= wanted PROVE f[n + 1] \in 1..(Len(s) + 1) /\ Reached(s, n + 1, f[n + 1])
    OBVIOUS
  <2>1. n + 1 \in 0..wanted /\ n + 1 # 0 /\ n + 1 - 1 = n /\ n <= wanted
    OBVIOUS
  <2>2. f[n] \in 1..(Len(s) + 1) /\ Reached(s, n, f[n])
    BY <1>5, <2>1
  <2>3. f[n + 1] = NextWord(s, NextSpace(s, f[n]))
    BY <1>3, <2>1
  <2> QED
    BY <2>2, <2>3, OneMoreRound
<1> HIDE DEF T
<1>6. Nat \subseteq T
  BY <1>4, <1>5, SetInduction
<1>7. wanted \in T
  BY <1>6
<1> QED
  BY <1>1, <1>7 DEF T

(* Parameter n is the word with n words before it.                         *)
LEMMA NthParameter ==
    ASSUME NEW S, NEW s \in Seq(S), s # <<>>, s[1] # Space, NEW n \in Nat
    PROVE  LET nth == {w \in Words(s) : Cardinality({v \in Words(s) : v[1] < w[1]}) = n}
           IN  FreeRTOS_CLIGetParameter(s, n) =
                   IF nth = {} THEN <<>>
                   ELSE LET w == CHOOSE w \in nth : TRUE
                        IN  SubSeq(s, w[1], w[2])
<1> DEFINE nth == {w \in Words(s) : Cardinality({v \in Words(s) : v[1] < w[1]}) = n}
           k == ParameterStart(s, n)
<1>1. k \in 1..(Len(s) + 1) /\ Reached(s, n, k) /\ Len(s) \in Nat
  BY WhereItGets
<1>2. \A w : w \in nth <=> w \in Words(s) /\ Cardinality(Before(s, w[1])) = n
  BY DEF Before
<1>3. FreeRTOS_CLIGetParameter(s, n) = SubSeq(s, k, NextSpace(s, k) - 1)
  BY DEF FreeRTOS_CLIGetParameter
<1> HIDE DEF nth, k
<1>4. \A w \in Words(s) : w[1] \in 1..Len(s) /\ w = <<w[1], w[2]>>
  BY InWords
<1>5. CASE k <= Len(s)
  <2>1. Begins(s, k) /\ Cardinality(Before(s, k)) = n
    BY <1>1, <1>5 DEF Reached
  <2> DEFINE w == <<k, NextSpace(s, k) - 1>>
  <2>2. w \in Words(s) /\ \A v \in Words(s) : v[1] >= k /\ v[1] <= NextSpace(s, k) => v = w
    BY <2>1, WordAt
  <2>3. w[1] = k /\ w[2] = NextSpace(s, k) - 1
    OBVIOUS
  <2>4. NextSpace(s, k) \in k..(Len(s) + 1)
    BY <1>1, SpaceAhead
  <2> HIDE DEF w
  <2>5. w \in nth
    BY <2>1, <2>2, <2>3, <1>2
  <2>6. ASSUME NEW v \in nth PROVE v = w
    <3>1. v \in Words(s) /\ Cardinality(Before(s, v[1])) = n /\ v[1] \in 1..Len(s)
      BY <1>2, <1>4
    <3>2. ASSUME v[1] < k PROVE FALSE
      <4>1. Before(s, v[1]) \in SUBSET Before(s, k)
        <5>1. ASSUME NEW u \in Words(s), u[1] < v[1] PROVE u[1] < k
          <6>1. u[1] \in 1..Len(s)
            BY <1>4
          <6> QED
            BY <6>1, <5>1, <3>1, <3>2, <1>1
        <5> QED
          BY <5>1 DEF Before
      <4>2. Before(s, k) = Before(s, v[1])
        BY <4>1, <2>1, <3>1, WordsAreFinite, FS_Subset
      <4>3. v \in Before(s, k) /\ v \notin Before(s, v[1])
        BY <3>1, <3>2 DEF Before
      <4> QED
        BY <4>2, <4>3
    <3>3. ASSUME v[1] > k PROVE FALSE
      <4>1. Before(s, k) \in SUBSET Before(s, v[1])
        <5>1. ASSUME NEW u \in Words(s), u[1] < k PROVE u[1] < v[1]
          <6>1. u[1] \in 1..Len(s)
            BY <1>4
          <6> QED
            BY <6>1, <5>1, <3>1, <3>3, <1>1
        <5> QED
          BY <5>1 DEF Before
      <4>2. Before(s, k) = Before(s, v[1])
        BY <4>1, <2>1, <3>1, WordsAreFinite, FS_Subset
      <4>3. w \in Before(s, v[1]) /\ w \notin Before(s, k)
        BY <2>2, <2>3, <3>1, <3>3, <1>1 DEF Before
      <4> QED
        BY <4>2, <4>3
    <3>4. v[1] = k
      BY <3>1, <3>2, <3>3, <1>1
    <3>5. v[1] >= k /\ v[1] <= NextSpace(s, k)
      BY <3>4, <2>4, <1>1
    <3> QED
      BY <3>1, <3>5, <2>2
  <2>7. (CHOOSE u \in nth : TRUE) = w
    BY <2>5, <2>6
  <2>8. FreeRTOS_CLIGetParameter(s, n) = SubSeq(s, w[1], w[2])
    BY <2>3, <1>3
  <2> QED
    BY <2>5, <2>7, <2>8 DEF nth
<1>6. CASE ~(k <= Len(s))
  <2>1. k = Len(s) + 1 /\ Cardinality(Words(s)) <= n
    BY <1>1, <1>6 DEF Reached
  <2>2. nth = {}
    <3> SUFFICES ASSUME NEW v \in nth PROVE FALSE
      OBVIOUS
    <3>1. v \in Words(s) /\ Cardinality(Before(s, v[1])) = n
      BY <1>2
    <3>2. Before(s, v[1]) \in SUBSET Words(s) /\ v \notin Before(s, v[1])
      BY <1>4, <3>1 DEF Before
    <3>3. Cardinality(Words(s)) \in Nat
      BY WordsAreFinite, FS_CardinalityType
    <3>4. Cardinality(Before(s, v[1])) <= Cardinality(Words(s))
      BY <3>2, WordsAreFinite, FS_Subset
    <3>5. Cardinality(Words(s)) = n
      BY <3>1, <3>3, <3>4, <2>1
    <3>6. Words(s) = Before(s, v[1])
      BY <3>1, <3>2, <3>5, WordsAreFinite, FS_Subset
    <3> QED
      BY <3>1, <3>2, <3>6
  <2>3. NextSpace(s, k) = Len(s) + 1
    <3>1. NextSpace(s, k) \in k..(Len(s) + 1)
      BY <1>1, SpaceAhead
    <3> QED
      BY <3>1, <2>1, <1>1
  <2>4. SubSeq(s, Len(s) + 1, Len(s)) = <<>>
    BY <1>1
  <2>5. FreeRTOS_CLIGetParameter(s, n) = <<>>
    BY <2>1, <2>3, <2>4, <1>3, <1>1
  <2> QED
    BY <2>2, <2>5 DEF nth
<1> QED
  BY <1>5, <1>6

(* The interpreter is called with a line that is not empty.                *)
HasText == pc = "process" => asked # <<>>

(* Only a newline on a line with letters calls the interpreter.            *)
LEMMA HasTextStep == Quiet /\ HasText /\ [Next]_vars => HasText'
<1> SUFFICES ASSUME Quiet, HasText, [Next]_vars PROVE HasText'
  OBVIOUS
<1> USE DEF HasText
<1>1. CASE UART_send
  BY <1>1 DEF UART_send, history
<1>2. CASE Task_sleep_ends
  BY <1>2 DEF Task_sleep_ends, history
<1>3. CASE FreeRTOS_CLIProcessCommand
  <2>1. Answering
    BY <1>3, EveryCommandAnswers
  <2> QED
    BY <2>1 DEF Answering
<1>4. CASE IgnoreChar
  BY <1>4 DEF IgnoreChar, Listening
<1>5. CASE Backspace
  BY <1>5 DEF Backspace, Listening
<1>6. CASE Newline
  <2>1. CASE CString = <<>>
    BY <1>6, <2>1 DEF Newline
  <2>2. CASE CString # <<>>
    <3>1. pc = "read" /\ asked' = line
      BY <1>6 DEF Newline, Listening
    <3>2. Holds(line) /\ MaxInput \in Nat \ {0}
      BY <3>1, InputAssumption DEF Quiet, Editing
    <3>3. ASSUME line = <<>> PROVE FALSE
      <4>1. Len(line) = 0
        BY <3>3
      <4>2. Len(line) # MaxInput
        BY <4>1, <3>2
      <4>3. CString = line
        BY <4>2, <3>2, StringOfLine
      <4> QED
        BY <4>3, <3>3, <2>2
    <3> QED
      BY <3>1, <3>3
  <2> QED
    BY <2>1, <2>2
<1>7. ASSUME NEW c \in Typed \ EditKeys, AcceptChar(c) PROVE HasText'
  BY <1>7 DEF AcceptChar, Listening
<1>8. CASE UNCHANGED vars
  BY <1>8 DEF vars, history
<1> QED
  BY <1>1, <1>2, <1>3, <1>4, <1>5, <1>6, <1>7, <1>8 DEF Next, User, Console

(* The number of parameters is that of the words behind the first, and     *)
(* parameter n is the n-th of them, for lines of every length with any     *)
(* number of spaces in them (FreeRTOS_CLI.c:260-313, :349-383).            *)
THEOREM ParametersAreWordsHolds == Spec => []ParametersAreWords
<1>1. Init => HasText
  BY DEF Init, HasText
<1>2. Quiet /\ HasText => ParametersAreWords
  <2> SUFFICES ASSUME Quiet, HasText, pc = "process", CString[1] # Space PROVE ParametersAreWords
    BY DEF ParametersAreWords
  <2>1. Holds(asked) /\ asked # <<>> /\ behind \in Seq(Typed)
    BY DEF Quiet, HasText, Editing
  <2>2. CString # <<>>
    BY <2>1, EmptyString
  <2>3. CString \in Seq(Typed)
    <3>1. asked \in Seq(Typed) /\ asked \o behind \in Seq(Typed)
      BY <2>1 DEF Holds
    <3>2. CString = IF Len(asked) = MaxInput THEN asked \o behind ELSE asked
      BY <2>1, StringOfLine
    <3> QED
      BY <3>1, <3>2
  <2>4. prvGetNumberOfParameters(CString) = Cardinality(Words(CString)) - 1
    BY <2>2, <2>3, NumberOfParameters
  <2>5. ASSUME NEW n \in 1..MaxInput
        PROVE  LET nth == {w \in Words(CString) : Cardinality({v \in Words(CString) : v[1] < w[1]}) = n}
               IN  FreeRTOS_CLIGetParameter(CString, n) =
                       IF nth = {} THEN <<>>
                       ELSE LET w == CHOOSE w \in nth : TRUE
                            IN  SubSeq(CString, w[1], w[2])
    <3>1. n \in Nat
      BY InputAssumption
    <3> QED
      BY <2>2, <2>3, <3>1, NthParameter
  <2> QED
    BY <2>4, <2>5 DEF ParametersAreWords
<1> QED
  BY <1>1, <1>2, QuietInit, QuietStep, HasTextStep, PTL DEF Spec
==============================================================================
