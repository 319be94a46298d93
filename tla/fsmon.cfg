SPECIFICATION Spec
CONSTANTS
    Threads = {t1, t2}
    Fds = {1, 3}
    Names = {a, b}
    Kinds = {"directory"}
    Texts <- MCTexts
    Ops = {"open", "close", "read", "fclose", "fgets", "__xstat", "dup", "dup2", "readdir", "fflush"}
    MaxCalls = 3
INVARIANTS
    FsmonInv
    LineTrue
    TextBegins
    LogHeld
    CrashNeedsFull
PROPERTIES
    Transparent
SYMMETRY Alike
CHECK_DEADLOCK FALSE
