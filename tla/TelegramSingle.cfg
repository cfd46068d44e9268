CONSTANTS
    w1 = w1
    w2 = w2
    k1 = k1
    k2 = k2
    NoMessage = NoMessage
    Workers <- OneWorker
    Keys <- TwoKeys
    Limit = 2
    MaxRetries = 1
    Volatile = TRUE
    MaxUpdates = 3
    MaxQueue = 1
    MaxFaults = 2
    MaxCrashes = 1
SPECIFICATION FairSpec
INVARIANTS
    TypeOK
    EditsSurviveApart
PROPERTIES
    PollsAsPromised
    ContentNeverGoesBack
    EveryUpdateStored
