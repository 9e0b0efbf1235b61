CONSTANTS
    Calls = {c1, c2}
    TimerIds = {c1, c2}
    TimerOf <- MCTimerOf
    NoCall = none
    Corrupt = corrupt
    Faults = {"encode", "corrupt", "reset", "refuse"}
SPECIFICATION Safety
CHECK_DEADLOCK FALSE
INVARIANT DisconnectAnswersAll
