CONSTANTS
    w1 = w1
    w2 = w2
    r1 = r1
    r2 = r2
    Workers <- TwoWorkers
    Repos <- TwoRepos
    RepoList <- TwoReposList
    PerPage = 1
    MaxPages = 2
    Drift = FALSE
    Bulk = TRUE
    Pulls <- SecondPull
    MaxIssues = 3
    MaxChanges = 3
    MaxFaults = 1
SPECIFICATION FairSpec
INVARIANTS
    TypeOK
    NothingSlipsIfStill
PROPERTY EveryChangeStored
