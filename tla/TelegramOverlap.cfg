CONSTANTS
    w1 = w1
    w2 = w2
    k1 = k1
    k2 = k2
    NoMessage = NoMessage
    Workers <- TwoWorkers
    Keys <- TwoKeys
    Limit = 2
    MaxRetries = 1
    Volatile = FALSE
    MaxUpdates = 3
    MaxQueue = 1
    MaxFaults = 1
    MaxCrashes = 1
SPECIFICATION Spec
INVARIANTS
    AtLeastOnce
    FollowupsUnlessLost
    EditsSurviveApart
PROPERTY ContentNeverGoesBack
SYMMETRY Symmetry
CONSTRAINT OneMishap
