SPECIFICATION Spec
CONSTANTS
    SIGALRM = "ALRM"
    Signals = {"ALRM", "INT"}
    Acts <- MCActs
    HandlerHows = {"SIG_BLOCK", "SIG_UNBLOCK", "SIG_SETMASK"}
    MaxFrames = 2
PROPERTIES
    JumpRestoresMask
CHECK_DEADLOCK FALSE
