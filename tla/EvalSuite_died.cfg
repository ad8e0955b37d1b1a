SPECIFICATION Spec
CONSTANTS
    Jobs = {j1}
    Workers = {w1}
    Options = {o1}
    MaxSessions = 2
    Faults = {"kill", "die"}
INVARIANTS
    DeathIsNoConclusion
CHECK_DEADLOCK FALSE
