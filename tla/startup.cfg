CONSTANTS
    NULL = NULL
    Hosts = {{}, {"processCmd", "getDevList"}, {"processCmd", "readConf", "log"}}
    MaxInits = 2
SPECIFICATION Spec
INVARIANT TopicsNameTheGateway
CHECK_DEADLOCK FALSE
