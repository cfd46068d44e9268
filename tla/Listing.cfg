CONSTANTS
    Ids <- FourIds
    Times <- TwoTimesOrNone
    Limit = 2
    MaxRows = 1
    MaxCommits = 2
SPECIFICATION Spec
INVARIANTS
    TypeOK
    NothingMissed
    NothingRepeated
