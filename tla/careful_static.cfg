SPECIFICATION CarefulFairSpec
CONSTANTS
    TextSize = 8
    WordSize = 3
    Insn <- MCInsn
    Length <- MCLength
    Succ <- LineSucc
    Exits = {7}
    Entry = 0
    Bases = {0}
    Signals = FALSE
    Kills = TRUE
    MaxBreak = 2
    ElfType = 2
    Commands = {"break", "cont", "delete", "disasm", "exit", "load", "run", "set", "si", "start"}
    FileKinds = {"good", "unopened", "unloaded", "unnamed"}
    BreakArgs = {0, 4}
    DisasmArgs = {2}
    RipArgs = {2}
    DisasmWords = 1
INVARIANTS
    CarefulInv
    CodeIntact
    AllArmed
    TraceeOnTrack
    StopsOnBreakpoint
    DisasmShowsProgram
PROPERTIES
    ImplementsIdeal
    CommandReturns
