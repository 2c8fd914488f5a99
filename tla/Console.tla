------------------------------ MODULE Console ------------------------------
(***************************************************************************)
(* The serial console of the ESP8266: the receive interrupt and the task   *)
(* that empties the FIFO (driver/uart.c, built without UART_BUFF_EN), and  *)
(* the line the shell collects and splits into a command and its arguments *)
(* (shell/shell.c).                                                        *)
(*                                                                         *)
(* Characters arrive at any time, also while the task takes those that     *)
(* came before.  Sizes are scaled down: the FIFO of 128, its threshold of  *)
(* 100, the line of 64, the int8 index into it and the 4 words.            *)
(***************************************************************************)
EXTENDS Integers, Sequences, FiniteSets, SequencesExt

CONSTANTS
    BUFF_LEN,       \* the shell's line buffer
    IndexMax,       \* the largest value of the index, -IndexMax - 1 the least
    FifoLen,        \* UART_FIFO_LEN
    FullThreshold,  \* characters in the FIFO that raise RXFIFO_FULL
    CMD_LENGTH,     \* the words of a command
    Letters,        \* characters that are just themselves
    MaxTyped        \* bound: characters typed

Backspace == "BS"
Return == "CR"
Newline == "LF"
Space == " "
Char == Letters \cup {Backspace, Return, Newline, Space}
Zero == "0"    \* the end of a C string

ConsoleAssumption ==
    /\ BUFF_LEN \in Nat /\ BUFF_LEN > 1 /\ IndexMax \in Nat /\ IndexMax >= BUFF_LEN
    /\ FifoLen \in Nat \ {0} /\ FullThreshold \in 1 .. FifoLen
    /\ CMD_LENGTH \in Nat \ {0} /\ MaxTyped \in Nat
    /\ Letters \cap {Backspace, Return, Newline, Space, Zero} = {}

VARIABLES
    fifo,         \* the receive FIFO
    enabled,      \* are RXFIFO_FULL and RXFIFO_TOUT enabled?
    full, tout,   \* their status bits
    posts,        \* events in the task's queue
    task,         \* "idle", or "taking" with left characters to go
    left,
    shellBuffer,  \* with the memory around it
    sbi,          \* its index
    line,         \* what the user sees: typed since the last line, edited
    ahead,        \* the length that line will have once the FIFO is empty
    ran,          \* the last command, its words, and the line it was
    typed         \* how many characters were typed
vars == <<fifo, enabled, full, tout, posts, task, left, shellBuffer, sbi, line, ahead, ran, typed>>

Index == -IndexMax - 1 .. IndexMax
NoCommand == [words |-> <<>>, line |-> <<>>]

Init ==
    /\ fifo = <<>> /\ enabled = TRUE /\ full = FALSE /\ tout = FALSE
    /\ posts = 0 /\ task = "idle" /\ left = 0
    /\ shellBuffer = [i \in Index |-> Zero] /\ sbi = 0
    /\ line = <<>> /\ ahead = 0 /\ ran = NoCommand /\ typed = 0

-----------------------------------------------------------------------------
(* The driver.                                                             *)

\* What the next character makes of a line of n characters.
After(n, ch) ==
    CASE n = BUFF_LEN - 1 \/ ch = Newline -> 0
      [] n # BUFF_LEN - 1 /\ ch = Backspace -> n - 1
      [] n # BUFF_LEN - 1 /\ ch = Return -> n
      [] OTHER -> n + 1

\* A character on the wire; one too many is lost (RXFIFO_OVF only prints).
\* The user only erases what there will be to erase.
Type(ch) ==
    /\ typed < MaxTyped
    /\ ch = Backspace => ahead > 0
    /\ typed' = typed + 1
    /\ IF Len(fifo) < FifoLen
       THEN fifo' = Append(fifo, ch) /\ ahead' = After(ahead, ch)
       ELSE UNCHANGED <<fifo, ahead>>
    /\ full' = (full \/ Len(fifo') >= FullThreshold)
    /\ UNCHANGED <<enabled, tout, posts, task, left, shellBuffer, sbi, line, ran>>

\* Characters lie in the FIFO and the line is quiet.
Quiet ==
    /\ fifo # <<>> /\ ~tout
    /\ tout' = TRUE
    /\ UNCHANGED <<fifo, enabled, full, posts, task, left, shellBuffer, sbi, line, ahead, ran, typed>>

\* uart0_rx_intr_handler: one cause at a time, RXFIFO_FULL first.
Interrupt ==
    /\ enabled /\ (full \/ tout)
    /\ enabled' = FALSE
    /\ IF full THEN full' = FALSE /\ UNCHANGED tout ELSE tout' = FALSE /\ UNCHANGED full
    /\ posts' = posts + 1
    /\ UNCHANGED <<fifo, task, left, shellBuffer, sbi, line, ahead, ran, typed>>

\* uart_recvTask begins: what is in the FIFO now is what it will take.
TaskStart ==
    /\ posts > 0 /\ task = "idle"
    /\ posts' = posts - 1
    /\ task' = "taking" /\ left' = Len(fifo)
    /\ UNCHANGED <<fifo, enabled, full, tout, shellBuffer, sbi, line, ahead, ran, typed>>

\* uart_recvTask ends: also the bits raised meanwhile are cleared.
TaskEnd ==
    /\ task = "taking" /\ left = 0
    /\ full' = FALSE /\ tout' = FALSE /\ enabled' = TRUE
    /\ task' = "idle"
    /\ UNCHANGED <<fifo, posts, left, shellBuffer, sbi, line, ahead, ran, typed>>

-----------------------------------------------------------------------------
(* The shell.                                                              *)

\* The string that starts at buffer[i].
CString(buffer, i) ==
    LET Ends == {j \in i .. IndexMax : buffer[j] = Zero}
        end == CHOOSE j \in Ends : \A k \in Ends : j <= k
    IN  [n \in 1 .. end - i |-> buffer[i + n - 1]]

Spaces(str) == {i \in DOMAIN str : str[i] = Space}

\* ProcessCommand: the first CMD_LENGTH - 1 spaces become ends of strings.
Splits(str) == {i \in Spaces(str) : Cardinality({j \in Spaces(str) : j < i}) < CMD_LENGTH - 1}

\* cmd[] points behind each of them; a pointer that is not set is the
\* command's.
Commands(str) ==
    LET Starts == {1} \cup {i + 1 : i \in Splits(str)}
        Nth(k) == {s \in Starts : Cardinality({t \in Starts : t < s}) = k - 1}
        Ends == Splits(str) \cup {Len(str) + 1}
        WordAt(s) == SubSeq(str, s, (CHOOSE e \in Ends : e >= s /\ \A d \in Ends : d >= s => e <= d) - 1)
    IN  [k \in 1 .. CMD_LENGTH |->
            WordAt(IF Nth(k) = {} THEN 1 ELSE CHOOSE s \in Nth(k) : TRUE)]

\* Int8 arithmetic.
Wrapped(i) == IF i < -IndexMax - 1 THEN IndexMax ELSE i

Overflow ==
    /\ sbi = BUFF_LEN - 1
    /\ sbi' = 0 /\ shellBuffer' = [shellBuffer EXCEPT ![0] = Zero]
    /\ line' = <<>> /\ UNCHANGED ran

\* Mutated: the character stays in the buffer.
EraseKeeps(ch) ==
    /\ sbi # BUFF_LEN - 1 /\ ch = Backspace
    /\ shellBuffer' = [shellBuffer EXCEPT ![sbi] = Zero]
    /\ sbi' = Wrapped(sbi)
    /\ line' = IF line = <<>> THEN <<>> ELSE Front(line)
    /\ UNCHANGED ran

Erase(ch) ==
    /\ sbi # BUFF_LEN - 1 /\ ch = Backspace
    /\ sbi' = Wrapped(sbi - 1)
    /\ shellBuffer' = [shellBuffer EXCEPT ![sbi'] = Zero]
    /\ line' = IF line = <<>> THEN <<>> ELSE Front(line)
    /\ UNCHANGED ran

Ignore(ch) ==
    /\ sbi # BUFF_LEN - 1 /\ ch = Return
    /\ UNCHANGED <<sbi, shellBuffer, line, ran>>

\* The words are ended in the buffer itself.
Run(ch) ==
    /\ sbi # BUFF_LEN - 1 /\ ch = Newline
    /\ LET ended == [shellBuffer EXCEPT ![sbi] = Zero]
           str == CString(ended, 0) IN
       /\ ran' = [words |-> Commands(str), line |-> line]
       /\ shellBuffer' = [i \in Index |-> IF i = 0 \/ i + 1 \in Splits(str) THEN Zero ELSE ended[i]]
    /\ sbi' = 0 /\ line' = <<>>

Store(ch) ==
    /\ sbi # BUFF_LEN - 1 /\ ch \notin {Backspace, Return, Newline}
    /\ shellBuffer' = [shellBuffer EXCEPT ![sbi] = ch]
    /\ sbi' = sbi + 1
    /\ line' = Append(line, ch)
    /\ UNCHANGED ran

shellCircleBuffer(ch) == Overflow \/ Erase(ch) \/ Ignore(ch) \/ Run(ch) \/ Store(ch)

\* One round of uart_recvTask: echo the character, hand it to the shell.
TaskTake ==
    /\ task = "taking" /\ left > 0
    /\ left' = left - 1
    /\ fifo' = Tail(fifo)
    /\ shellCircleBuffer(Head(fifo))
    /\ UNCHANGED <<enabled, full, tout, posts, task, ahead, typed>>

-----------------------------------------------------------------------------
Next ==
    \/ \E ch \in Char : Type(ch)
    \/ Quiet \/ Interrupt \/ TaskStart \/ TaskTake \/ TaskEnd

Spec == Init /\ [][Next]_vars

\* The hardware raises and delivers its interrupts, and the task runs.
FairSpec ==
    /\ Spec
    /\ WF_vars(Quiet) /\ WF_vars(Interrupt)
    /\ WF_vars(TaskStart) /\ WF_vars(TaskTake) /\ WF_vars(TaskEnd)

-----------------------------------------------------------------------------
TypeOK ==
    /\ fifo \in Seq(Char) /\ Len(fifo) <= FifoLen
    /\ enabled \in BOOLEAN /\ full \in BOOLEAN /\ tout \in BOOLEAN
    /\ posts \in Nat /\ task \in {"idle", "taking"} /\ left \in 0 .. Len(fifo)
    /\ shellBuffer \in [Index -> Char \cup {Zero}] /\ sbi \in Index
    /\ line \in Seq(Char) /\ ahead \in 0 .. BUFF_LEN - 1 /\ typed \in 0 .. MaxTyped
    /\ ran.words \in Seq(Seq(Char)) /\ ran.line \in Seq(Char)

\* The task's queue, which has room for 10 events, never holds more than
\* one, and none while the task runs: whoever is masked is on the way.
OnePost == posts + (IF task = "taking" THEN 1 ELSE 0) = (IF enabled THEN 0 ELSE 1)

\* The line the user sees is what the buffer holds up to its index.
LineHeld ==
    /\ sbi = Len(line) /\ Len(line) < BUFF_LEN
    /\ \A i \in 1 .. Len(line) :
        line[i] \in Letters \cup {Space} /\ shellBuffer[i - 1] = line[i]

\* Character by character, the FIFO leads from this line to the one ahead, and
\* no backspace meets an empty one.
AheadIsDue ==
    \E course \in [0 .. Len(fifo) -> 0 .. BUFF_LEN - 1] :
        /\ course[0] = Len(line) /\ course[Len(fifo)] = ahead
        /\ \A i \in 1 .. Len(fifo) :
            /\ course[i] = After(course[i - 1], fifo[i])
            /\ fifo[i] = Backspace => course[i - 1] > 0

\* The inductive invariant.
ConsoleInv == TypeOK /\ LineHeld /\ AheadIsDue

\* words are what stands between the spaces of l at which it is cut: as many as
\* there may be, from the left.  A word that l does not have is the first one.
AreWordsOf(words, l) ==
    \E n \in 1 .. CMD_LENGTH : \E cut \in [0 .. n -> 0 .. Len(l) + 1] :
        /\ cut[0] = 0 /\ cut[n] = Len(l) + 1
        /\ \A k \in 1 .. n : cut[k - 1] < cut[k]
        /\ \A k \in 1 .. n :
            /\ k < n => l[cut[k]] = Space
            /\ k < CMD_LENGTH => \A i \in cut[k - 1] + 1 .. cut[k] - 1 : l[i] # Space
            /\ words[k] = SubSeq(l, cut[k - 1] + 1, cut[k] - 1)
        /\ \A k \in n + 1 .. CMD_LENGTH : words[k] = words[1]

\* The command that runs is the line the user sees, split at its spaces:
\* whatever was typed ahead, erased, or left in the buffer by longer lines.
CommandAsTyped ==
    ran # NoCommand => Len(ran.words) = CMD_LENGTH /\ AreWordsOf(ran.words, ran.line)

=============================================================================
