---------------------------- MODULE MCGitHubSync ----------------------------
(* Instances of GitHubSync for TLC.                                        *)
EXTENDS GitHubSync

CONSTANTS w1, w2, r1, r2

OneWorker == {w1}
TwoWorkers == {w1, w2}
OneRepo == {r1}
TwoRepos == {r1, r2}
OneRepoList == <<r1>>
TwoReposList == <<r1, r2>>

(* The second thing created is a pull request, or none is.                 *)
SecondPull == {2}
NoPulls == {}
=============================================================================
