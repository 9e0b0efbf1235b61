CONSTANTS
    Threads = {a, b}
    LoopThread = l
    Functors = {f1, f2, f3}
    WakeupFd = 4
SPECIFICATION Spec
CHECK_DEADLOCK FALSE
INVARIANTS
    TypeOK
    NeverSleepsOnWork
PROPERTIES
    QueueSpec
    FunctorsRun
    QuitEndsRunningLoop
