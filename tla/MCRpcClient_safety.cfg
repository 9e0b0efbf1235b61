CONSTANTS
    Calls = {c1, c2}
    TimerIds = {c1, c2}
    TimerOf <- MCTimerOf
    NoCall = none
    Corrupt = corrupt
    Faults = {"encode", "corrupt", "reset", "refuse", "untimed"}
SPECIFICATION Safety
SYMMETRY MCSymmetry
CHECK_DEADLOCK FALSE
INVARIANTS
    TypeOK
    AnsweredByOneHolder
    StopIsClean
    ConnectedIsSafe
PROPERTIES
    ContractSafety
    QueueSpec
