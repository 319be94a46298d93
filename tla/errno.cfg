SPECIFICATION Spec
CONSTANTS
    Codes = {4, 36}
    WriteCodes = {4, 36}
    PERRMSG_MAX = 34
    MaxDepth = 2
INVARIANTS
    ErrnoInv
    ErrnoTellsFate
    PerrorSays
