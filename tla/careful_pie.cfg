SPECIFICATION CarefulSpec
CONSTANTS
    TextSize = 8
    WordSize = 3
    Insn <- MCInsn
    Length <- MCLength
    Succ <- LoopSucc
    Exits = {7}
    Entry = 0
    Bases = {8, 16}
    Signals = FALSE
    Kills = TRUE
    MaxBreak = 2
    ElfType = 3
    Commands = {"break", "cont", "delete", "disasm", "exit", "load", "run", "set", "si", "start"}
    FileKinds = {"good"}
    BreakArgs = {0, 4}
    DisasmArgs = {10}
    RipArgs = {18}
    DisasmWords = 1
INVARIANTS
    CarefulInv
    StopsOnBreakpoint
PROPERTIES
    ImplementsIdeal
