--------------------------- MODULE MCAttachments ---------------------------
(* Instances of Attachments for TLC.                                       *)
EXTENDS Attachments

CONSTANTS w1, w2, a1, a2

OneWorker == {w1}
TwoWorkers == {w1, w2}
TwoAttachments == {a1, a2}

FileNames == {"photo.jpg", "report.pdf"}
OwnNames == [a \in TwoAttachments |-> IF a = a1 THEN "photo.jpg" ELSE "report.pdf"]
=============================================================================
