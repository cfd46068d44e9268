CONSTANTS
    s1 = s1
    s2 = s2
    s3 = s3
    k1 = k1
    k2 = k2
    k3 = k3
    Txns <- ThreeTxns
    Keys <- ThreeKeys
    Versions <- OneVersion
    MaxBatch = 2
SPECIFICATION FairSpec
INVARIANTS
    TypeOK
    HonestCounts
    ReportedMatchesRows
PROPERTIES
    IngestIsAtomic
    SessionsEnd
