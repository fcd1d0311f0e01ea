\* Two requests at a time, two PIN sessions, two challenges, four tokens.
SPECIFICATION Spec
CONSTANTS
    Requests = {r1, r2}
    MaxTokens = 4
    MaxPins = 2
    MaxAsked = 2
    MaxHops = 3
    MaxCrashes = 1
INVARIANT OneTokenLive
CHECK_DEADLOCK FALSE
SYMMETRY Symmetry
