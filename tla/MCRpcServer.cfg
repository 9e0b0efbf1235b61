CONSTANTS
    Conns = {c1}
    Requests = {r1, r2}
    ConnOf <- MCConnOf
    Workers = {w1}
    MaxQueue = 1
    None = none
    Corrupt = corrupt
    Outcomes = {"OK", "TOO_LARGE", "throws"}
    Faults = {"corrupt", "fin", "rst"}
SPECIFICATION Spec
CHECK_DEADLOCK FALSE
INVARIANTS
    ServerConsistent
    NothingLost
    StopDrains
PROPERTIES
    EverythingEnds
