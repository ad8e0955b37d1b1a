SPECIFICATION FairSpec
CONSTANTS
    Jobs = {j1, j2}
    Workers = {w1, w2}
    Options = {o1, o2}
    MaxSessions = 2
    Faults = {"write", "kill", "setup", "prompt", "die", "stop", "oracle", "cleanup"}
INVARIANTS
    CheckpointReadable
    SummaryIsTrue
    ConclusionsAreAgents
PROPERTIES
    FinishedKept
    SuiteEnds
CHECK_DEADLOCK FALSE
