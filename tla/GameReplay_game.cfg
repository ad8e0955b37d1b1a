SPECIFICATION Spec
CONSTANTS
    MaxAt = 3
    Needs <- MCNeeds
    Versions = {"v0", "v1"}
    Base = "v0"
    Answers = {"right"}
    Accepts <- MCAccepts
    Expected = {0, 2}
    Faults = {"open", "event", "window"}
    Capacity = 3
    MaxSequence = 4
INVARIANTS
    StartKept
    ReplayHasItsSql
    RuntimeIsOwned
PROPERTIES
    ReplayRanTheCode
    ReplayReproduces
CHECK_DEADLOCK FALSE
