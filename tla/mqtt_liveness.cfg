CONSTANTS
    Publishers = {p1}
    Messages = {m1}
    None = None
    LastWait = 1
    MaxStarts = 1
SPECIFICATION FairSpec
PROPERTIES Reconnects ConnectionFlushesQueue
CHECK_DEADLOCK FALSE
