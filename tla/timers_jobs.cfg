CONSTANTS
    Jobs = {j1, j2}
    Timers = {t1}
    Dummy = Dummy
    FDs = {f1, f2, f3}
    JobFDs = {f3}
    None = None
    MAX_EVENTS = 1
    MaxStarts = 2
    Signals = FALSE
SPECIFICATION UsersSpec
PROPERTIES ImplementsAlarms JobsRun DestroyReturns StartedCallsBack
CHECK_DEADLOCK FALSE
