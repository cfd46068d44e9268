CONSTANTS
    w1 = w1
    w2 = w2
    a1 = a1
    a2 = a2
    Workers <- TwoWorkers
    Atts <- TwoAttachments
    Names <- FileNames
    Filename <- OwnNames
    MaxRetries = 1
    MaxSyncs = 3
    MaxTransients = 2
    MaxCrashes = 1
    MaxOutages = 1
SPECIFICATION FairSpec
INVARIANTS
    TypeOK
    GapSurfacedIfSpared
    StoredMeansBytes
    Accounted
    RightBytes
PROPERTIES
    NeverClobbered
    AttachmentsSettle
CHECK_DEADLOCK FALSE
