---------------------------- MODULE MCEmbedding ----------------------------
(* Instances of Embedding for TLC.                                         *)
EXTENDS Embedding

CONSTANTS w1, w2, m1, m2, s1

TwoWorkers == {w1, w2}
TwoMessages == {m1, m2}
OneSearch == {s1}
============================================================================
