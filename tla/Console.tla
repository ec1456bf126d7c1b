------------------------------ MODULE Console -------------------------------
(***************************************************************************)
(* The interactive shell of src/shell.c on top of the interrupt layer:     *)
(* the polling loop shell_run calls keyboard_handler, which decodes one    *)
(* scan code (shift state, Enter, Backspace, scancode_to_ascii), edits the *)
(* line buffer and echoes through terminal_putchar (src/kernel.c); Enter   *)
(* parses the line, looks the first word up in commands[] and runs it.     *)
(* enableints unmasks IRQ1 and IRQ0 and executes sti; halt executes cli    *)
(* and hlt for ever.  The other commands only print, or call components   *)
(* whose state this module does not hold (memtest, starttasks, cat).       *)
(*                                                                         *)
(* The interrupt layer is Interrupts, extended: a device interrupt is     *)
(* taken only while the CPU's interrupt flag (if_flag) is set.  No code    *)
(* registers keyboard_interrupt_handler, so an IRQ1 is only acknowledged   *)
(* and the scan code stays for the polling loop.                          *)
(*                                                                         *)
(* Scan codes are the keys of a small keyboard; characters are strings.   *)
(* The screen is abstracted to terminal_column: rows only scroll output,   *)
(* and every command's output ends with a newline (column 0).  Left Ctrl  *)
(* sets and clears keyboard_state's CTRL bit, which nothing reads.         *)
(***************************************************************************)
EXTENDS Interrupts, Sequences

CONSTANTS
    CharKeys,      \* scan codes decoded through scancode_to_ascii
    Ascii,         \* [CharKeys -> [plain, shift]]: the two tables, NUL for 0
    ShiftKeys,     \* KEY_LSHIFT and/or KEY_RSHIFT
    BufSize,       \* SHELL_BUFFER_SIZE
    MaxArgs,       \* SHELL_MAX_ARGS
    VgaWidth,      \* VGA_WIDTH
    PromptLen,     \* the length of SHELL_PROMPT
    CmdTable,      \* commands[]: name (a sequence of characters) -> command
    NUL

VARIABLES
    keyboard_state,   \* the bits set: "SHIFT" (SHIFT_PRESSED), "CTRL" (CTRL_PRESSED)
    input_buffer,     \* shell_state.input_buffer[0 .. BufSize-1]
    buffer_pos,       \* shell_state.buffer_pos
    terminal_column,  \* kernel.c's terminal_column
    if_flag,          \* the CPU's interrupt flag (cli / sti)
    held,             \* environment: the shift keys physically held down
    ref_line,         \* history: the line a line editor should hold
    executed          \* history: [cmd, seq] of the last Enter, seq toggled

shell_vars == <<keyboard_state, input_buffer, buffer_pos, terminal_column,
                if_flag, held, ref_line, executed>>
all_vars == <<vars, shell_vars>>

Blanks == {" ", "\t"}
EmptyBuffer == [i \in 0 .. BufSize - 1 |-> NUL]

\* The C string in a char array: the characters before the first NUL.
RECURSIVE CStrFrom(_, _)
CStrFrom(buf, i) ==
    IF i \notin DOMAIN buf \/ buf[i] = NUL THEN <<>>
    ELSE <<buf[i]>> \o CStrFrom(buf, i + 1)

\* scancode_to_ascii: the shifted table when shift is set, else the plain one.
ScancodeToAscii(k, shift) == IF shift THEN Ascii[k].shift ELSE Ascii[k].plain

\* terminal_putchar of a printable character: the column advances and
\* wraps to 0 at VGA_WIDTH (the row, which only moves output, is left out).
TerminalPutchar(col) == IF col + 1 = VgaWidth THEN 0 ELSE col + 1

\* shell_parse_command: skip blanks, then cut words at blanks, at most
\* max_args - 1 of them.  Positions are 1-based into the string.
RECURSIVE SkipBlanks(_, _)
SkipBlanks(s, i) == IF i <= Len(s) /\ s[i] \in Blanks THEN SkipBlanks(s, i + 1) ELSE i
RECURSIVE WordEnd(_, _)
WordEnd(s, i) == IF i <= Len(s) /\ s[i] \notin Blanks THEN WordEnd(s, i + 1) ELSE i
RECURSIVE ParseFrom(_, _, _)
ParseFrom(s, i, argv) ==
    IF i > Len(s) \/ Len(argv) >= MaxArgs - 1 THEN argv
    ELSE LET e == WordEnd(s, i)
         IN  ParseFrom(s, SkipBlanks(s, e + 1), Append(argv, SubSeq(s, i, e - 1)))
\* Variant of shell_parse_command without the leading-blank skip.
ShellParseCommandNoSkip(s) == ParseFrom(s, 1, <<>>)
ShellParseCommand(s) == ParseFrom(s, SkipBlanks(s, 1), <<>>)

\* shell_find_command: the entry of commands[] whose name equals argv[0].
ShellFindCommand(name) ==
    IF name \in DOMAIN CmdTable THEN CmdTable[name] ELSE "unknown"

\* shell_execute_command: nothing for an empty buffer or a blank line,
\* else the command found for the first word.
ShellExecuteCommand(buf, pos) ==
    LET argv == ShellParseCommand(CStrFrom(buf, 0))
    IN  IF pos = 0 \/ argv = <<>> THEN "none" ELSE ShellFindCommand(argv[1])

-----------------------------------------------------------------------------
(* The reference line editor the shell's line buffer is compared with.     *)

ShiftHeld == held # {}

\* One key of a line editor: a character is appended (upper case while a
\* shift key is held) if the line has room for it and its terminator;
\* Backspace deletes the last character.
RefStep(line, k) ==
    CASE k = "KEY_BACKSPACE" ->
            IF line = <<>> THEN line ELSE SubSeq(line, 1, Len(line) - 1)
      [] k \in CharKeys ->
            LET c == IF ShiftHeld THEN Ascii[k].shift ELSE Ascii[k].plain
            IN  IF c # NUL /\ Len(line) < BufSize - 1 THEN Append(line, c) ELSE line
      [] OTHER -> line

\* The command a line names: its first maximal run of non-blank characters.
FirstWord(line) ==
    LET starts == { i \in 1 .. Len(line) :
                      line[i] \notin Blanks /\ (i = 1 \/ line[i - 1] \in Blanks) }
        b == CHOOSE i \in starts : \A j \in starts : i <= j
        ends == { j \in b .. Len(line) : \A m \in b .. j : line[m] \notin Blanks }
    IN  IF starts = {} THEN <<>>
        ELSE SubSeq(line, b, CHOOSE j \in ends : \A m \in ends : m <= j)

RefCommand(line) ==
    IF FirstWord(line) = <<>> THEN "none" ELSE ShellFindCommand(FirstWord(line))

-----------------------------------------------------------------------------
(* src/shell.c                                                             *)

\* shell_init, then shell_run's banner and first prompt (each message ends
\* with a newline, so the prompt starts at column 0).  The CPU enters the
\* kernel with the interrupt flag clear.
ConsoleInit ==
    /\ Init
    /\ keyboard_state = {}
    /\ input_buffer = EmptyBuffer
    /\ buffer_pos = 0
    /\ terminal_column = PromptLen % VgaWidth
    /\ if_flag = FALSE
    /\ held = {}
    /\ ref_line = <<>>
    /\ executed = [cmd |-> "none", seq |-> 0]

\* keyboard_handler on the make code of a shift key: SHIFT_PRESSED is set.
KeyShiftPress(k) ==
    /\ cpu = "task"
    /\ keyboard_state' = keyboard_state \cup {"SHIFT"}
    /\ held' = held \cup {k}
    /\ UNCHANGED <<vars, input_buffer, buffer_pos, terminal_column, if_flag,
                   ref_line, executed>>

\* keyboard_handler on the release code (bit 7) of a shift key:
\* SHIFT_PRESSED is cleared, whichever of the two shift keys it was.
KeyShiftRelease(k) ==
    /\ cpu = "task"
    /\ k \in held
    /\ keyboard_state' = keyboard_state \ {"SHIFT"}
    /\ held' = held \ {k}
    /\ UNCHANGED <<vars, input_buffer, buffer_pos, terminal_column, if_flag,
                   ref_line, executed>>

\* keyboard_handler on the make code of KEY_LCTRL: CTRL_PRESSED is set and
\* the handler returns.
KeyCtrlPress ==
    /\ cpu = "task"
    /\ keyboard_state' = keyboard_state \cup {"CTRL"}
    /\ UNCHANGED <<vars, input_buffer, buffer_pos, terminal_column, if_flag,
                   held, ref_line, executed>>

\* keyboard_handler on the release code of KEY_LCTRL, which the keyboard
\* sends only while the key is down: CTRL_PRESSED is cleared.
KeyCtrlRelease ==
    /\ cpu = "task"
    /\ "CTRL" \in keyboard_state
    /\ keyboard_state' = keyboard_state \ {"CTRL"}
    /\ UNCHANGED <<vars, input_buffer, buffer_pos, terminal_column, if_flag,
                   held, ref_line, executed>>

\* keyboard_handler on KEY_BACKSPACE: shell_backspace drops the last
\* character and, unless the cursor is at column 0, steps it back over
\* the echoed character (column--, putchar(' '), column--).
ShellBackspace ==
    /\ cpu = "task"
    /\ IF buffer_pos > 0
       THEN /\ buffer_pos' = buffer_pos - 1
            /\ input_buffer' = [input_buffer EXCEPT ![buffer_pos - 1] = NUL]
            /\ terminal_column' = IF terminal_column > 0 THEN terminal_column - 1
                                  ELSE terminal_column
       ELSE UNCHANGED <<buffer_pos, input_buffer, terminal_column>>
    /\ ref_line' = RefStep(ref_line, "KEY_BACKSPACE")
    /\ UNCHANGED <<vars, keyboard_state, if_flag, held, executed>>

\* Variant of shell_process_input that fills the last byte of the buffer.
ShellProcessInputNoRoom(k) ==
    LET c == ScancodeToAscii(k, "SHIFT" \in keyboard_state)
    IN  /\ cpu = "task"
        /\ IF c # NUL /\ buffer_pos < BufSize
           THEN /\ input_buffer' = [input_buffer EXCEPT ![buffer_pos] = c]
                /\ buffer_pos' = buffer_pos + 1
                /\ terminal_column' = TerminalPutchar(terminal_column)
           ELSE UNCHANGED <<input_buffer, buffer_pos, terminal_column>>
        /\ ref_line' = RefStep(ref_line, k)
        /\ UNCHANGED <<vars, keyboard_state, if_flag, held, executed>>

\* keyboard_handler on any other key: scancode_to_ascii with the SHIFT bit;
\* a non-zero character goes to shell_process_input, which stores and
\* echoes it while buffer_pos < SHELL_BUFFER_SIZE - 1.
ShellProcessInput(k) ==
    LET c == ScancodeToAscii(k, "SHIFT" \in keyboard_state)
    IN  /\ cpu = "task"
        /\ IF c # NUL /\ buffer_pos < BufSize - 1
           THEN /\ input_buffer' = [input_buffer EXCEPT ![buffer_pos] = c]
                /\ buffer_pos' = buffer_pos + 1
                /\ terminal_column' = TerminalPutchar(terminal_column)
           ELSE UNCHANGED <<input_buffer, buffer_pos, terminal_column>>
        /\ ref_line' = RefStep(ref_line, k)
        /\ UNCHANGED <<vars, keyboard_state, if_flag, held, executed>>

\* cmd_halt: cli, then hlt for ever; the command never returns.
CmdHalt ==
    /\ cpu' = "halted"
    /\ if_flag' = FALSE
    /\ UNCHANGED <<handlers, imr, in_service, active_irq, unmasked>>

\* cmd_enableints: irq_enable(1), irq_enable(0), then sti.
CmdEnableints ==
    /\ imr' = IrqEnableWrite(IrqEnableWrite(imr, 1), 0)
    /\ unmasked' = unmasked \cup {0, 1}
    /\ if_flag' = TRUE
    /\ UNCHANGED <<handlers, in_service, cpu, active_irq>>

\* keyboard_handler on KEY_ENTER: shell_process_input('\n') echoes the
\* newline, terminates the line and runs shell_execute_command; when the
\* command returns, shell_clear_buffer and shell_print_prompt follow.
ShellEnter ==
    LET buf == [input_buffer EXCEPT ![buffer_pos] = NUL]
        cmd == ShellExecuteCommand(buf, buffer_pos)
    IN  /\ cpu = "task"
        /\ executed' = [cmd |-> cmd, seq |-> 1 - executed.seq]
        /\ IF cmd = "halt"
           THEN /\ CmdHalt
                /\ input_buffer' = buf
                /\ terminal_column' = 0
                /\ UNCHANGED <<buffer_pos, ref_line>>
           ELSE /\ IF cmd = "enableints" THEN CmdEnableints
                   ELSE UNCHANGED <<vars, if_flag>>
                /\ input_buffer' = EmptyBuffer
                /\ buffer_pos' = 0
                /\ terminal_column' = PromptLen % VgaWidth
                /\ ref_line' = <<>>
        /\ UNCHANGED <<keyboard_state, held>>

\* The interrupt layer's steps; a device interrupt needs the CPU's IF.
InterruptStep ==
    /\ \/ \E irq \in Irqs : if_flag /\ PicDeliver(irq)
       \/ IsrInit
       \/ \E n \in RegVectors : RegisterInterruptHandler(n)
       \/ \E v \in ExcVectors : IsrHandler(v)
       \/ IrqHandler
       \/ \E irq \in Irqs : IrqEnable(irq) \/ IrqDisable(irq)
    /\ UNCHANGED shell_vars

ConsoleNext ==
    \/ InterruptStep
    \/ \E k \in ShiftKeys : KeyShiftPress(k) \/ KeyShiftRelease(k)
    \/ KeyCtrlPress \/ KeyCtrlRelease
    \/ ShellBackspace
    \/ \E k \in CharKeys : ShellProcessInput(k)
    \/ ShellEnter

\* Only safety is checked of the console, so no fairness is assumed.
ConsoleSpec == ConsoleInit /\ [][ConsoleNext]_all_vars

-----------------------------------------------------------------------------
(* Properties                                                              *)

\* The line buffer holds what a line editor would: after any sequence of
\* key presses and releases, the NUL-terminated string in input_buffer is
\* the reference line (shifted while a shift key is held, Backspace
\* deletes one character, at most SHELL_BUFFER_SIZE - 1 characters kept
\* so the terminator fits), and buffer_pos is its length.
LineMatchesReference ==
    /\ CStrFrom(input_buffer, 0) = ref_line
    /\ buffer_pos = Len(ref_line)

\* Each Enter runs the command named by the first word of the line typed,
\* whatever blanks precede it and whatever arguments follow it.
CommandIsFirstWord ==
    [][executed'.seq # executed.seq => executed'.cmd = RefCommand(ref_line)]_all_vars

====
