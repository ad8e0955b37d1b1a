SPECIFICATION Spec
CONSTANTS
    MaxAt = 3
    Needs <- MCNeeds
    Versions = {"v0", "v1"}
    Base = "v0"
    Answers = {"right"}
    Accepts <- MCAccepts
    Expected = {2}
    Faults = {}
    Capacity = 4
    MaxSequence = 5
PROPERTIES
    ReplayStartsOver
CHECK_DEADLOCK FALSE
