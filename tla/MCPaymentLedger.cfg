SPECIFICATION Spec
CONSTANTS
    Workers = {w1, w2}
    Keys = {k1}
    NoKey = NoKey
    Intents = {1, 2}
    MaxAttempts = 2
    MaxCalls = 3
    MaxFaults = 1
CHECK_DEADLOCK FALSE
INVARIANT
    StatusMatchesLedger
