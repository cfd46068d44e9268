------------------------------ MODULE MCIngest ------------------------------
(* Instances of Ingest for TLC.                                            *)
EXTENDS Ingest

CONSTANTS k1, k2, k3, s1, s2, s3

ThreeTxns == {s1, s2, s3}
ThreeKeys == {k1, k2, k3}
OneVersion == {1}
=============================================================================
