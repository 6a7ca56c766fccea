CONSTANTS
    Calls = {c1, c2}
    NoCall = NoCall
    FirstSequence = 1
    Earlier = 1
    Errors = {7}
    Steps <- MCSteps
    MaxReports = 3
    Topics = {"common", "permit", "scene", "ota"}
SPECIFICATION FairSpec
INVARIANTS AnswersReachTheirCall ParamsDestroyedOnce
PROPERTY AnswersLostInInserts CallsSettle
CHECK_DEADLOCK FALSE
