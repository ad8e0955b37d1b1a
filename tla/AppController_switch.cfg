SPECIFICATION FairSpec
CONSTANTS
    Tasks = {t1, t2}
    First = t1
    Requests = {s1}
    MaxStarts = 5
INVARIANTS
    OneLivePi
    ServesActive
    OnlyCurrentRuns
PROPERTIES
    SwitchEnds
    CloseEnds
CHECK_DEADLOCK FALSE
