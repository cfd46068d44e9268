------------------------------- MODULE Ingest -------------------------------
(***************************************************************************)
(* The ingest service (app/services/ingest.py) writing to Postgres inside  *)
(* session_scope (app/db/session.py).  Several syncs run at once: beat,    *)
(* the API and redelivered tasks all start them and nothing keeps them     *)
(* apart, so their transactions interleave statement by statement under    *)
(* READ COMMITTED and meet only in the row locks Postgres takes.           *)
(*                                                                         *)
(* A message is a key (its source_system and external_id) and a version,   *)
(* which stands for all its mutable columns together: the upsert replaces  *)
(* them in one statement.  The surrogate id of a row is as good as its key *)
(* and is not modelled.                                                    *)
(***************************************************************************)
EXTENDS Naturals, FiniteSets

CONSTANTS
    Txns,      \* sessions, one for each sync_connector task that can run
    Keys,      \* dedup keys, the pairs (source_system, external_id)
    Versions,  \* contents a message can have, as positive numbers
    MaxBatch   \* bound: messages one fetch() yields

ASSUME IngestAssumption ==
    /\ IsFiniteSet(Keys)
    /\ Versions \subseteq Nat \ {0}
    /\ MaxBatch \in Nat

VARIABLES
    messages,  \* committed rows: the version stored under each key, or NoRow
    session,   \* is the session of a sync open
    drawn,     \* the message a sync's loop took from fetch() and not yet wrote
    writes,    \* versions written by each open transaction, not yet committed
    inserted,  \* UpsertResult.inserted of each sync
    updated,   \* UpsertResult.updated of each sync
    reported   \* rows reported as inserted, over all committed syncs

vars == <<messages, session, drawn, writes, inserted, updated, reported>>

NoRow == 0
NoWrites == [k \in Keys |-> NoRow]
Message == [key : Keys, version : Versions]
Nothing == [key |-> NoRow, version |-> NoRow]

TypeOK ==
    /\ messages \in [Keys -> Versions \cup {NoRow}]
    /\ session \in [Txns -> {"closed", "open"}]
    /\ drawn \in [Txns -> Message \cup {Nothing}]
    /\ writes \in [Txns -> [Keys -> Versions \cup {NoRow}]]
    /\ inserted \in [Txns -> Nat]
    /\ updated \in [Txns -> Nat]
    /\ reported \in Nat

Init ==
    /\ messages = NoWrites
    /\ session = [t \in Txns |-> "closed"]
    /\ drawn = [t \in Txns |-> Nothing]
    /\ writes = [t \in Txns |-> NoWrites]
    /\ inserted = [t \in Txns |-> 0]
    /\ updated = [t \in Txns |-> 0]
    /\ reported = 0

-----------------------------------------------------------------------------
(* Row locks.  A statement that inserts or updates a row keeps it locked   *)
(* until its transaction ends; for a new key the unique index makes a      *)
(* second insert wait the same way.                                        *)

Holds(t, k) == writes[t][k] # NoRow

(* Mutant of Blocks: no statement waits for another's row.                 *)
BlocksNever(o, t) == FALSE

Blocks(o, t) ==     \* t waits for o to end
    /\ o # t
    /\ drawn[t] # Nothing
    /\ Holds(o, drawn[t].key)

(* t is on a cycle of the waits-for graph: it belongs to a set of          *)
(* transactions in which each waits for another and is waited for.         *)
Deadlocked(t) ==
    \E D \in SUBSET Txns :
        /\ t \in D
        /\ \A d \in D : /\ \E o \in D : Blocks(o, d)
                        /\ \E o \in D : Blocks(d, o)

-----------------------------------------------------------------------------
(* Entering session_scope and upsert_messages.                             *)
Begin(t) ==
    /\ session[t] = "closed"
    /\ session' = [session EXCEPT ![t] = "open"]
    /\ UNCHANGED <<messages, drawn, writes, inserted, updated, reported>>

(* The loop takes the next message from the connector's generator, which   *)
(* only then fetches or normalizes it.                                     *)
Draw(t, msg) ==
    /\ session[t] = "open"
    /\ drawn[t] = Nothing
    /\ inserted[t] + updated[t] < MaxBatch
    /\ drawn' = [drawn EXCEPT ![t] = msg]
    /\ UNCHANGED <<messages, session, writes, inserted, updated, reported>>

(* Mutant of Visible: the row is looked up among the committed ones only.   *)
VisibleCommitted(t, k) == messages[k]

(* The row ON CONFLICT finds: the transaction's own, else a committed one. *)
Visible(t, k) == IF Holds(t, k) THEN writes[t][k] ELSE messages[k]

(* Mutant of Written: ON CONFLICT DO NOTHING, a row is never updated.      *)
WrittenOnce(t) ==
    LET k == drawn[t].key IN
    [writes EXCEPT ![t][k] = IF Visible(t, k) = NoRow THEN drawn[t].version ELSE @]

(* The transaction's rows with the drawn message.                          *)
Written(t) == [writes EXCEPT ![t][drawn[t].key] = drawn[t].version]

(* Mutant of OneMore: updates are counted by a row count that the driver   *)
(* does not know and gives as -1.                                          *)
OneMoreByRowcount(t) == updated[t] - 1

OneMore(t) == updated[t] + 1

(* INSERT ... ON CONFLICT DO UPDATE of the drawn message, once no other    *)
(* transaction holds its row.  xmax = 0 tells an insert from an update.    *)
Upsert(t) ==
    /\ session[t] = "open"
    /\ drawn[t] # Nothing
    /\ \A o \in Txns : ~Blocks(o, t)
    /\ writes' = Written(t)
    /\ IF Visible(t, drawn[t].key) = NoRow
       THEN /\ inserted' = [inserted EXCEPT ![t] = @ + 1]
            /\ UNCHANGED updated
       ELSE /\ updated' = [updated EXCEPT ![t] = OneMore(t)]
            /\ UNCHANGED inserted
    /\ drawn' = [drawn EXCEPT ![t] = Nothing]
    /\ UNCHANGED <<messages, session, reported>>

(* Mutant of Released: the connection goes back to the pool inside its     *)
(* transaction.                                                            *)
ReleasedNot(t) == writes

(* The writes, and with them the row locks, once a transaction has ended.  *)
Released(t) == [writes EXCEPT ![t] = NoWrites]

(* The session is closed, its locks are gone, and the next sync starts     *)
(* with an UpsertResult of its own.                                        *)
Close(t) ==
    /\ session' = [session EXCEPT ![t] = "closed"]
    /\ drawn' = [drawn EXCEPT ![t] = Nothing]
    /\ writes' = Released(t)
    /\ inserted' = [inserted EXCEPT ![t] = 0]
    /\ updated' = [updated EXCEPT ![t] = 0]

(* The table with the transaction's rows.                                  *)
Merged(t) == [k \in Keys |-> IF Holds(t, k) THEN writes[t][k] ELSE messages[k]]

(* The generator is exhausted: session_scope commits and the caller has    *)
(* its UpsertResult.                                                       *)
Commit(t) ==
    /\ session[t] = "open"
    /\ drawn[t] = Nothing
    /\ messages' = Merged(t)
    /\ reported' = reported + inserted[t]
    /\ Close(t)

(* Mutant of Undone: statements commit one by one (autocommit).            *)
UndoneNot(t) == Merged(t)

(* The table after the transaction's statements are undone.                *)
Undone(t) == messages

(* An exception leaves upsert_messages, or the process dies: all its       *)
(* statements are undone and the caller gets no UpsertResult.              *)
Rollback(t) ==
    /\ session[t] = "open"
    /\ messages' = Undone(t)
    /\ Close(t)
    /\ UNCHANGED reported

(* Postgres ends a deadlock by failing the statement of one transaction on *)
(* the cycle, and session_scope rolls that one back.                       *)
DeadlockVictim(t) == Deadlocked(t) /\ Rollback(t)

Step(t) ==
    \/ Begin(t)
    \/ \E msg \in Message : Draw(t, msg)
    \/ Upsert(t)
    \/ Commit(t)
    \/ Rollback(t)
    \/ DeadlockVictim(t)

Next == \E t \in Txns : Step(t)

Spec == Init /\ [][Next]_vars

(* A running task goes on executing statements, a statement whose row is   *)
(* free gets it, and Postgres looks for deadlocks after deadlock_timeout.  *)
(* Nothing makes a connector yield another message, or a transaction fail. *)
FairSpec ==
    /\ Spec
    /\ \A t \in Txns : /\ SF_vars(Upsert(t))
                       /\ WF_vars(Commit(t))
                       /\ WF_vars(DeadlockVictim(t))

-----------------------------------------------------------------------------
(* Properties.                                                             *)

(* The rows a transaction will create when it commits.                     *)
NewRows(t) == {k \in Keys : Holds(t, k) /\ messages[k] = NoRow}

(* The count of new messages a running sync keeps (UpsertResult.inserted,  *)
(* fed by xmax = 0) is the number of rows its commit will create, whatever *)
(* the other syncs insert, commit or undo meanwhile.                       *)
HonestCounts ==
    \A t \in Txns : inserted[t] = Cardinality(NewRows(t))

(* Over all syncs that committed, the numbers of inserted messages they    *)
(* report add up to the number of rows in the table: overlapping syncs of  *)
(* the same window never both count a row as new, and a sync that was      *)
(* rolled back counts none.                                                *)
ReportedMatchesRows ==
    reported = Cardinality({k \in Keys : messages[k] # NoRow})

(* Two open transactions never both wrote a row.                           *)
ExclusiveWriters ==
    \A t, o \in Txns : \A k \in Keys : Holds(t, k) /\ Holds(o, k) => t = o

(* The inductive invariant.                                                *)
IInv ==
    /\ TypeOK
    /\ ExclusiveWriters
    /\ HonestCounts
    /\ ReportedMatchesRows

(* To anyone who reads the table and the reported counts, a sync happens   *)
(* all at once at its commit, or not at all: upsert_messages inside        *)
(* session_scope implements AtomicIngest.                                  *)
Atomic == INSTANCE AtomicIngest
IngestIsAtomic == Atomic!Spec

(* Every sync that opened its session ends it: waiting for the row locks   *)
(* of other syncs, even in a circle, never lasts for ever.                 *)
SessionsEnd == \A t \in Txns : session[t] = "open" ~> session[t] = "closed"
=============================================================================
