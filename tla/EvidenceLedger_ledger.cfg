SPECIFICATION Spec
CONSTANTS
    Versions = {"v0", "v1"}
    Base = "v0"
    Repros = {r1, r2}
    Kinds = {"check", "change", "result", "reproduction"}
    Faults = {"crash", "fail"}
    MaxLines = 3
    MaxGoals = 1
INVARIANTS
    RestartKeepsLedger
    ArtifactFirst
    NothingOutdated
PROPERTIES
    LedgerKeepsPromise
CHECK_DEADLOCK FALSE
