---------------------------- MODULE AtomicIngest ----------------------------
(***************************************************************************)
(* What the ingest service promises its callers, with no sessions, locks   *)
(* or statements in sight: a sync takes effect all at once.  Every message *)
(* of its batch is written, each key once with its last version, rows that *)
(* the batch does not mention stay as they were, and the number of new     *)
(* rows it reports is the number of rows it created.                       *)
(***************************************************************************)
EXTENDS Naturals, FiniteSets

CONSTANTS
    Keys,      \* dedup keys, the pairs (source_system, external_id)
    Versions   \* contents a message can have, as positive numbers

VARIABLES
    messages,  \* the content stored under each key, or NoRow
    reported   \* rows reported as inserted, over all successful syncs

vars == <<messages, reported>>

NoRow == 0

Batch == [Keys -> Versions \cup {NoRow}]

(* The table with the batch written over it. *)
Overlay(table, batch) ==
    [k \in Keys |-> IF batch[k] = NoRow THEN table[k] ELSE batch[k]]

(* The keys of the batch that the table has no row for. *)
NewKeys(table, batch) == {k \in Keys : table[k] = NoRow /\ batch[k] # NoRow}

Init ==
    /\ messages = [k \in Keys |-> NoRow]
    /\ reported = 0

Sync(batch) ==
    /\ messages' = Overlay(messages, batch)
    /\ reported' = reported + Cardinality(NewKeys(messages, batch))

Next == \E batch \in Batch : Sync(batch)

Spec == Init /\ [][Next]_vars
=============================================================================
