SPECIFICATION Spec
CONSTANTS
    Insn <- MCInsn
    Length <- MCLength
    Succ <- LoopSucc
    TextSize = 8
    WordSize = 2
    Exits = {7}
    Entry = 0
    Bases = {0}
    Signals = FALSE
    Kills = FALSE
    MaxBreak = 2
    ElfType = 2
    Commands = {"load", "break", "start"}
    FileKinds = {"good"}
    BreakArgs = {0}
    DisasmArgs = {}
    RipArgs = {}
    DisasmWords = 1
INVARIANTS
    StartStopsAtEntry
CHECK_DEADLOCK FALSE
