\* One request and one failure.
SPECIFICATION Spec
CONSTANTS
    t1 = t1
    t2 = t2
    Tasks = {t1}
    Staffed = {t1}
    Users = {u1}
    NoUser = NoUser
    Before <- Sequence
    Requests = {r1}
    Worker = Worker
    NoTask = NoTask
    MaxAttempts = 4
    MaxFaults = 1
PROPERTY FailureIsResumed
CHECK_DEADLOCK FALSE
