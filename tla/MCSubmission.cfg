\* Two requests with and without a key, one transaction, two starts, two failing steps or restarts.
SPECIFICATION Spec
CONSTANTS
    Requests = {r1, r2}
    Keys = {k1}
    NoKey = NoKey
    MaxRows = 1
    MaxStarts = 2
    MaxFaults = 2
INVARIANTS
    TypeOK
    RunsOnce
    AnswerHolds
PROPERTY SubmissionsSettle
CHECK_DEADLOCK FALSE
