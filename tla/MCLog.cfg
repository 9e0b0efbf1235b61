CONSTANTS
    w1 = w1
    w2 = w2
    Writers = {w1, w2}
    Capacity = 2
    MaxLines = 2
    MaxDay = 2
    MaxWrites <- MCMaxWrites
    MaxInits = 1
SPECIFICATION Spec
CHECK_DEADLOCK FALSE
INVARIANTS
    LogConsistent
    ReturnedIsKept
    PushNeverWaits
PROPERTIES
    NothingWaitsInVain
