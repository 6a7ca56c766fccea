CONSTANTS
    Publishers = {p1}
    Messages = {m1, m2}
    None = None
    LastWait = 0
    MaxStarts = 1
SPECIFICATION Spec
SYMMETRY Symmetry
PROPERTY ServesOutbox
CHECK_DEADLOCK FALSE
