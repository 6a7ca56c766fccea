CONSTANTS
    num_min = 3
    num_max = 3
    Capacity = 2
    Tasks = {t1, t2, t3}
    NoTask = NoTask
    BatchLimit = 2
    SpuriousWakeups = FALSE
SPECIFICATION FairSpec
INVARIANT FreedWhenIdle
PROPERTIES TasksExecuted DestroyReturns
