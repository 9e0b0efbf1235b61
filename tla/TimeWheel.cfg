CONSTANTS
    WheelSize = 2
    TickMs = 2
    Ids = {a, b}
    Delays = {1, 5}
    MaxTime = 8
    MaxAdds = 3
SPECIFICATION Spec
CHECK_DEADLOCK FALSE
INVARIANTS
    WheelConsistent
    SlotsCounted
    FiresOnce
