----------------------------- MODULE MCEmailSync -----------------------------
(* Instances of EmailSync for TLC.                                         *)
EXTENDS EmailSync

CONSTANTS w1, w2, id1, id2, none, o1, o2, o3

TwoWorkers == {w1, w2}
Headers == {id1, id2, none}

(* Mail 2 has no Message-ID, mail 3 repeats the Message-ID of mail 1 with  *)
(* another attachment, and mail 4 has a row that Postgres refuses.         *)
Header == <<id1, none, id1, id2>>
Files == <<o1, o2, o3, NoObject>>
Poison == {4}
=============================================================================
