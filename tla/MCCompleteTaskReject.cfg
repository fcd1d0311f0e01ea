\* A second click without any failure of the system.
SPECIFICATION Spec
CONSTANTS
    t1 = t1
    t2 = t2
    Tasks = {t1}
    Staffed = {t1}
    Users = {u1}
    NoUser = NoUser
    Before <- Sequence
    Requests = {r1, r2}
    Worker = Worker
    NoTask = NoTask
    MaxAttempts = 4
    MaxFaults = 0
PROPERTY RejectionIsFinal
CHECK_DEADLOCK FALSE
