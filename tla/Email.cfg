CONSTANTS
    w1 = w1
    w2 = w2
    id1 = id1
    id2 = id2
    none = none
    o1 = o1
    o2 = o2
    o3 = o3
    Workers <- TwoWorkers
    MaxMails = 4
    Ids <- Headers
    NoId = none
    MessageId <- Header
    Object <- Files
    NoObject = noobject
    Refused <- Poison
    Limit = 2
    MaxBoots = 1
    MaxFaults = 2
SPECIFICATION FairSpec
INVARIANTS
    TypeOK
    SeenMeansStored
    OneRowPerMail
    RowsHaveBytes
PROPERTIES
    PollsAsPromised
    EveryMailStored
