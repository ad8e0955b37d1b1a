SPECIFICATION FairSpec
CONSTANTS
    Routes = {"input", "abort", "command", "close"}
    MaxRequests = 2
    MaxNoise = 2
    MaxLines = 4
    PiMayDie = TRUE
INVARIANTS
    LockCoversPi
    IdleIsShown
PROPERTIES
    OutcomeIsTruthful
    InputUnlocks
    CommandLeaves
CHECK_DEADLOCK FALSE
