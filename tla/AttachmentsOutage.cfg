CONSTANTS
    w1 = w1
    w2 = w2
    a1 = a1
    a2 = a2
    Workers <- OneWorker
    Atts <- TwoAttachments
    Names <- FileNames
    Filename <- OwnNames
    MaxRetries = 1
    MaxSyncs = 1
    MaxTransients = 0
    MaxCrashes = 0
    MaxOutages = 1
SPECIFICATION Spec
INVARIANT GapSurfaced
CHECK_DEADLOCK FALSE
