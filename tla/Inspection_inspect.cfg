SPECIFICATION Spec
CONSTANTS
    Paths = {"p", "q"}
    Versions = {"v0", "v1"}
    Base = "v0"
    Text <- MCText
    Secret <- MCSecret
    ReadBytes = 6
    WindowBytes = 5
    BodyBytes = 8
    WindowLines <- MCWindowLines
    MaxStart = 4
    Counts = {1, 3}
    MaxRecords = 2
INVARIANTS
    OnlyCutLinesHidden
PROPERTIES
    ReadAdvances
CHECK_DEADLOCK FALSE
