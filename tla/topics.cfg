CONSTANTS
    Hosts = {h1}
    HostTopics <- MCHostTopics
    Paho = Paho
    InitTopics <- MCInitTopics
    Names <- MCNames
    Items = {i1, i2, i3}
    None = None
    MaxLosses = 2
    MaxCalls = 1
SPECIFICATION FairSpec
INVARIANTS TypeOK OneItemPerTopic FreedOnlyAfterLoss
PROPERTIES UnhandledOnlyEarly Resubscribed
CHECK_DEADLOCK FALSE
