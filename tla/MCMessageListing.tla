-------------------------- MODULE MCMessageListing --------------------------
(* Instances of MessageListing for TLC.                                    *)
EXTENDS MessageListing

FourIds == 1..4

(* Of messages of two times there are ties; some have none.                *)
TwoTimesOrNone == 0..2
=============================================================================
