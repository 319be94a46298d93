SPECIFICATION Spec
CONSTANTS
    TextSize = 3
    WordSize = 2
    Insn <- TinyInsn
    Length <- TinyLength
    Succ <- TinySucc
    Exits = {2}
    Entry = 0
    Bases = {3}
    Signals = TRUE
    Kills = TRUE
    MaxBreak = 2
    ElfType = 3
    Commands = {"break", "cont", "delete", "disasm", "dump", "exit", "get", "getregs", "help", "list", "load", "run", "vmmap", "set", "si", "start"}
    FileKinds = {"good", "unopened", "unloaded", "unnamed"}
    BreakArgs = {0, 2}
    DisasmArgs = {5}
    RipArgs = {5}
    DisasmWords = 1
INVARIANTS
    TypeOK
    StrtabMatchesHandle
    ContKnowsDeath
    AnyUserInv
    RunsOnlyInWait
    ArmedUnlessUnmapped
