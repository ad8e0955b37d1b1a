SPECIFICATION Spec
SYMMETRY Symmetry
CONSTANTS
    Paths = {test}
    NewPaths = {test}
    TestPaths = {test}
    Versions = {v0, v1, v2}
    Base = v0
    MaxFiles = 1
    MaxLines = 2
    Kinds = {"plain", "sql"}
    Faults = {"crash", "abort"}
    OutsideEdits = {}
    None = None
INVARIANTS
    TypeOK
    ReadyIsCertified
    WithdrawnBeforeEdit
    DiscardKeepsDiff
PROPERTIES
    KeepsPromise
    AppliedIsCertified
CHECK_DEADLOCK FALSE
