SPECIFICATION Spec
CONSTANTS
    Files = {"a", "n"}
    MaxEdits = 1
    MaxCommits = 1
    MaxVersion = 2
    Faults = {"fail", "crash", "cleanup"}
INVARIANTS
    SnapshotIsSource
    PublishedIsVerified
PROPERTIES
    PublishedOnce
CHECK_DEADLOCK FALSE
