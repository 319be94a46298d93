SPECIFICATION Spec
CONSTANTS
    SIGALRM = "ALRM"
    Signals = {"ALRM", "INT"}
    Acts <- MCActs
    HandlerHows = {"SIG_BLOCK"}
    MaxFrames = 3
INVARIANTS
    SignalsInv
    NoReentry
PROPERTIES
    JumpKeepsBlocked
    DiesByDefault
