CONSTANTS
    w1 = w1
    w2 = w2
    r1 = r1
    r2 = r2
    Workers <- OneWorker
    Repos <- OneRepo
    RepoList <- OneRepoList
    PerPage = 2
    MaxPages = 3
    Drift = TRUE
    Bulk = FALSE
    Pulls <- NoPulls
    MaxIssues = 4
    MaxChanges = 6
    MaxFaults = 0
SPECIFICATION Spec
INVARIANT NothingSlips
