CONSTANTS
    w1 = w1
    w2 = w2
    m1 = m1
    m2 = m2
    s1 = s1
    Workers <- TwoWorkers
    Searches <- OneSearch
    Messages <- TwoMessages
    NoMessage = NoMessage
    MaxRetries = 1
    MaxSyncs = 3
    MaxTransients = 2
    MaxFaults = 1
SPECIFICATION FairSpec
INVARIANTS
    TypeOK
    Findable
    Current
    DroppedForCause
PROPERTIES
    CreatedOnce
    EveryMessageEmbedded
