\* Two requests, two stages open at once, three challenges, two faults.
SPECIFICATION Spec
CONSTANTS
    Requests = {r1, r2}
    Stages = {s1, s2}
    Contents = {x, y}
    Nothing = Nothing
    MaxChallenges = 3
    MaxFaults = 2
INVARIANTS
    TypeOK
    ChainVerifies
    ChallengeSignsOnce
    DoneIsSigned
PROPERTIES
    ImplementsLedger
CHECK_DEADLOCK FALSE
