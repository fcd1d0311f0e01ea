\* Two instances, one user task completed beside the job, one failure and one
\* restart.
SPECIFICATION Spec
CONSTANTS
    Items = {i1, i2}
    Requests = {r1}
    Job = job
    Stale = 1
    LastEnd = 2
    MaxFailures = 1
    MaxCrashes = 1
INVARIANTS TypeOK RunIsClaimed OncePerProcess
PROPERTIES ClaimsKept EndedIsClaimed
CHECK_DEADLOCK FALSE
