SPECIFICATION Spec
CONSTANTS
    Paths = {file}
    NewPaths = {}
    TestPaths = {}
    Versions = {v0, v1}
    Base = v0
    MaxFiles = 1
    MaxLines = 1
    Kinds = {}
    Faults = {"crash", "save"}
    OutsideEdits = {"idle"}
    None = None
INVARIANTS
    AuthorityIsConfirmed
PROPERTIES
    ApprovedWritesOnly
CHECK_DEADLOCK FALSE
