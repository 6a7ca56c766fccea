CONSTANTS
    num_min = 1
    num_max = 3
    Capacity = 3
    Tasks = {t1, t2, t3, t4}
    NoTask = NoTask
    BatchLimit = 2
    SpuriousWakeups = TRUE
SPECIFICATION Spec
SYMMETRY Symmetry
INVARIANT NoIdleBacklog
PROPERTY ServesInOrder
CHECK_DEADLOCK FALSE
