SPECIFICATION Spec
CONSTANTS
    Files <- MCFiles
    MaxCalls = 4
    NULL = NULL
    Junk = Junk
INVARIANTS
    ElfInv
    MemorySafe
    OnlyTablesLeak
    SymbolsRight
PROPERTIES
    KeptOrDropped
CHECK_DEADLOCK FALSE
