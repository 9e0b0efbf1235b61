CONSTANTS
    Workers = {w1, w2}
    Users = {u1, u2}
    Owner = u1
    Tasks = {t1, t2, t3}
    NoTask = none
    MaxQueueSize = 2
SPECIFICATION Spec
CHECK_DEADLOCK FALSE
INVARIANTS
    TypeOK
    FifoOnce
    TasksAccountedFor
    SleepersAreWoken
PROPERTIES
    ReturnsAreSound
    AcceptedRuns
    EveryCallReturns
