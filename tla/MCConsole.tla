----------------------------- MODULE MCConsole ------------------------------
EXTENDS Console, TLC

\* The timer (0), the keyboard (1) and one slave line (8).
MCIrqs == {0, 1, 8}

\* Divide error: kcalloc(0, n) raises it; a handler may be registered for it.
MCExcVectors == {0}
MCRegVectors == {0}

\* Every line masked but the cascade, as the remapping boot code leaves it.
MCInitImr == [p \in Pics |-> IF p = "master" THEN (0 .. 7) \ {Cascade} ELSE 0 .. 7]

\* The NUL character: scancode_to_ascii returns 0.
MCNul == "NUL"

\* Two letter keys, the space bar, and Escape, which both tables map to 0.
MCCharKeys == {"KEY_L", "KEY_S", "KEY_SPACE", "KEY_ESC"}
MCAscii ==
    [k \in MCCharKeys |->
        CASE k = "KEY_L"     -> [plain |-> "l", shift |-> "L"]
          [] k = "KEY_S"     -> [plain |-> "s", shift |-> "S"]
          [] k = "KEY_SPACE" -> [plain |-> " ", shift |-> " "]
          [] OTHER           -> [plain |-> MCNul, shift |-> MCNul]]


\* One shift key: the pass run.  Both: the run that exposes the shared bit.
MCOneShift == {"KEY_LSHIFT"}
MCTwoShifts == {"KEY_LSHIFT", "KEY_RSHIFT"}

\* A 4-byte line buffer: three characters and the terminator, so the bound
\* at SHELL_BUFFER_SIZE - 1 is reached and a line can hold " ls" or "l s".
MCBufSize == 4

\* SHELL_MAX_ARGS, VGA_WIDTH and strlen("minicore> ") as in the source.
MCMaxArgs == 16
MCVgaWidth == 80
MCPromptLen == 10

\* The command table over this alphabet: "ls" keeps its name; the
\* one-letter words stand for halt and enableints, the two commands that
\* act on the interrupt layer.  Every other word is an unknown command.
MCCmdTable ==
    (<<"l", "s">> :> "ls") @@ (<<"l">> :> "halt") @@ (<<"s">> :> "enableints")
====
