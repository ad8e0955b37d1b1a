SPECIFICATION FairSpec
CONSTANTS
    Routes = {"input", "steer", "abort", "command", "compact"}
    MaxRequests = 1
    MaxNoise = 1
    MaxLines = 2
    PiMayDie = TRUE
INVARIANTS
    LockedIsShownBusy
    AnsweredOnce
CHECK_DEADLOCK FALSE
PROPERTIES
    InputLeaves
