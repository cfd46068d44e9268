--------------------------- MODULE MCTelegramSync ---------------------------
(* Instances of TelegramSync for TLC.                                      *)
EXTENDS TelegramSync, TLC

CONSTANTS w1, w2, k1, k2

OneWorker == {w1}
TwoWorkers == {w1, w2}
OneKey == {k1}
TwoKeys == {k1, k2}

(* Workers and keys are interchangeable where no liveness is checked.      *)
Symmetry == Permutations(TwoWorkers) \cup Permutations(TwoKeys)

(* Bound of the run with two workers: a failed call or a loss, not both.   *)
OneMishap == faults + crashes <= 1
=============================================================================
