CONSTANTS
    Strings = {empty, name, bad}
    Empty = empty
    BadUtf8 = bad
    Codes = {0, 1}
    MaxUnknown = 2
SPECIFICATION ApiSpec
CHECK_DEADLOCK FALSE
INVARIANTS
    MessagesConsistent
    ConcatenationMerges
