CONSTANTS
    Irqs <- MCIrqs
    ExcVectors <- MCExcVectors
    RegVectors <- MCRegVectors
    InitImr <- MCInitImr
    CharKeys <- MCCharKeys
    Ascii <- MCAscii
    ShiftKeys <- MCTwoShifts
    BufSize <- MCBufSize
    MaxArgs <- MCMaxArgs
    VgaWidth <- MCVgaWidth
    PromptLen <- MCPromptLen
    CmdTable <- MCCmdTable
    NUL <- MCNul
SPECIFICATION ConsoleSpec
INVARIANT LineMatchesReference
\* halt (shell.c:385-388) and an unhandled exception (isr.c:96-98) stop
\* the CPU for ever.
CHECK_DEADLOCK FALSE
