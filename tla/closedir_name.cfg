SPECIFICATION Spec
CONSTANTS
    Threads = {t1}
    Fds = {3, 4}
    Names = {a, b}
    Kinds = {"directory"}
    Texts <- MCTexts
    Ops = {"opendir", "readdir", "closedir"}
    MaxCalls = 3
INVARIANTS
    ClosedirNamed
CHECK_DEADLOCK FALSE
