CONSTANTS
    Publishers = {p1}
    Messages = {m1}
    None = None
    LastWait = 1
    MaxStarts = 2
SPECIFICATION Spec
INVARIANTS NeverStranded DelayInTable
CHECK_DEADLOCK FALSE
