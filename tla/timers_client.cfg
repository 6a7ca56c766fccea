CONSTANTS
    Jobs = {j1}
    Timers = {t1}
    Dummy = Dummy
    FDs = {f1, f2, f3}
    None = None
    MAX_EVENTS = 2
    MaxStarts = 3
    Signals = TRUE
SPECIFICATION Spec
SYMMETRY Symmetry
INVARIANTS PollUsesLiveParams CallbacksDue DestroyedClean
CHECK_DEADLOCK FALSE
