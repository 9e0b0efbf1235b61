CONSTANTS
    name = name
    Strings = {empty, name, bad}
    Empty = empty
    BadUtf8 = bad
    Codes = {0}
    ByteBase = 2
    MaxFrameSize = 4
    Messages <- MCMessages
    MaxSends = 3
    PipeSize = 3
    Zero = zero
    InitialSize = 3
    ExtraSize = 2
SPECIFICATION Spec
CHECK_DEADLOCK FALSE
INVARIANTS
    WireConsistent
PROPERTIES
    StreamSafety
    StreamProgress
