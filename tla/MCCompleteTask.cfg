\* A task with a successor, two employees, two requests, the job and one failure.
SPECIFICATION Spec
CONSTANTS
    t1 = t1
    t2 = t2
    Tasks = {t1, t2}
    Staffed = {t1}
    Users = {u1, u2}
    NoUser = NoUser
    Before <- Sequence
    Requests = {r1, r2}
    Worker = Worker
    NoTask = NoTask
    MaxAttempts = 3
    MaxFaults = 1
INVARIANTS TypeOK RecordTruthful
PROPERTY RecoveryEnds
CHECK_DEADLOCK FALSE
