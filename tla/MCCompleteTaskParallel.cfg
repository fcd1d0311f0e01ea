\* Two parallel tasks, or one submitted twice, one failure; the job may resume twice.
SPECIFICATION Spec
CONSTANTS
    t1 = t1
    t2 = t2
    Tasks = {t1, t2}
    Staffed = {t1, t2}
    Users = {u1}
    NoUser = NoUser
    Before <- Parallel
    Requests = {r1, r2}
    Worker = Worker
    NoTask = NoTask
    MaxAttempts = 3
    MaxFaults = 1
SYMMETRY Symmetry
INVARIANTS SavedBeforeDone CompletedMeansEnded
PROPERTY NoStageLost
CHECK_DEADLOCK FALSE
