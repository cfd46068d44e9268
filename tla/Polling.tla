------------------------------ MODULE Polling ------------------------------
(***************************************************************************)
(* What BaseConnector asks of a connector that polls (app/connectors/      *)
(* base.py): a source hands an item out again and again until it is        *)
(* released, and that happens in on_sync_committed, "so a failed commit    *)
(* re-fetches the same window instead of silently dropping it".            *)
(*                                                                         *)
(* Items are numbered as they arrive.  Telegram releases an update when it *)
(* is confirmed by an offset, a mailbox a mail when it is flagged \Seen.   *)
(***************************************************************************)
EXTENDS Naturals

VARIABLES
    arrived,   \* number of items at the source: they are 1..arrived
    stored,    \* items whose content has its row, those without any included
    released   \* items that the source will not hand out again

Init ==
    /\ arrived = 0
    /\ stored = {}
    /\ released = {}

(* An item arrives; it may have nothing to be stored, or its row is there. *)
Arrive ==
    /\ arrived' = arrived + 1
    /\ stored' \in {stored, stored \cup {arrived'}}
    /\ UNCHANGED released

(* A sync commits what it fetched.                                         *)
Store ==
    /\ stored \subseteq stored' /\ stored' \subseteq 1..arrived
    /\ UNCHANGED <<arrived, released>>

(* on_sync_committed, or the request that uses what it left.               *)
Release ==
    /\ released \subseteq released' /\ released' \subseteq stored
    /\ UNCHANGED <<arrived, stored>>

Next == Arrive \/ Store \/ Release

Spec == Init /\ [][Next]_<<arrived, stored, released>>
=============================================================================
