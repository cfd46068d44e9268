CONSTANTS
    w1 = w1
    w2 = w2
    k1 = k1
    k2 = k2
    NoMessage = NoMessage
    Workers <- TwoWorkers
    Keys <- OneKey
    Limit = 2
    MaxRetries = 1
    Volatile = FALSE
    MaxUpdates = 2
    MaxQueue = 1
    MaxFaults = 0
    MaxCrashes = 0
SPECIFICATION Spec
INVARIANT EditsSurvive
