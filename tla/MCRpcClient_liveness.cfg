CONSTANTS
    Calls = {c1}
    TimerIds = {c1}
    TimerOf <- MCTimerOf
    NoCall = none
    Corrupt = corrupt
    Faults = {"encode", "corrupt", "reset", "refuse"}
SPECIFICATION Spec
CHECK_DEADLOCK FALSE
PROPERTIES
    ContractSpec
    StopReturns
    TimersForgotten
