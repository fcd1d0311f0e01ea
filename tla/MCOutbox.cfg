\* One request, two attempts, one document that cannot be saved, one restart or conflict.
SPECIFICATION Spec
CONSTANTS
    Requests = {r1}
    Worker = worker
    MaxAttempts = 2
    MaxDiskErrors = 1
    MaxFaults = 1
INVARIANTS
    TypeOK
    CompletedHasDocument
    RejectedWhenExhausted
PROPERTIES
    EventsSettle
    GivenUpEnds
CHECK_DEADLOCK FALSE
