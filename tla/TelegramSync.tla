---------------------------- MODULE TelegramSync ----------------------------
(***************************************************************************)
(* sync_connector("telegram") from end to end: the task queue with its     *)
(* late acknowledgement and retries (app/core/celery_app.py,               *)
(* app/tasks/sync.py), the polling connector with its offset cursor        *)
(* (app/connectors/telegram.py, app/services/cursor.py), the ingest        *)
(* transaction (Ingest) and the fan-out of follow-up tasks.                *)
(*                                                                         *)
(* Telegram numbers the updates of a bot.  An update carries a message,    *)
(* new or edited, or none.  updates[u] is the dedup key of the message     *)
(* update u carries; its content is the number u itself, so of two         *)
(* versions of a message the larger is the newer.                          *)
(***************************************************************************)
EXTENDS Naturals, Sequences, FiniteSets

CONSTANTS
    Workers,     \* Celery worker processes
    Keys,        \* dedup keys "chat_id:message_id"
    NoMessage,   \* what an update without a message carries
    Limit,       \* updates that one getUpdates returns at most
    MaxRetries,  \* max_retries of the task
    Volatile,    \* may Redis lose its data?
    MaxUpdates,  \* bound: updates Telegram receives
    MaxQueue,    \* bound: fresh syncs waiting in the queue
    MaxFaults,   \* bound: failed calls to Telegram, Redis or Postgres
    MaxCrashes   \* bound: losses of a worker, a broker connection or Redis

ASSUME TelegramAssumption ==
    /\ IsFiniteSet(Keys)
    /\ NoMessage \notin Keys
    /\ Limit \in Nat \ {0}
    /\ MaxRetries \in Nat
    /\ Volatile \in BOOLEAN
    /\ MaxUpdates \in Nat
    /\ MaxQueue \in Nat
    /\ MaxFaults \in Nat
    /\ MaxCrashes \in Nat

VARIABLES
    updates,    \* at Telegram: what each update carries, by update_id
    confirmed,  \* at Telegram: the lowest update_id it still hands out
    cursor,     \* in Redis: connector:telegram:offset, 0 when not set
    queue,      \* in Redis: syncs waiting, by the number of their retries
    pc,         \* where in sync_connector each worker is
    retries,    \* request.retries of the task a worker runs
    offset,     \* the offset its fetch() read from the cursor
    first,      \* first update_id of its window
    last,       \* max_update_id: last of its window, first - 1 if empty
    pos,        \* update its loop is at: over the window, then over the ids
    followed,   \* updates whose message had its follow-ups enqueued
    forgotten,  \* workers whose running task Redis no longer knows
    contended,  \* history: messages that two syncs had in their windows at once
    faults, crashes

taskVars == <<pc, retries, offset, first, last, pos>>
budget == <<forgotten, contended, faults, crashes>>

VARIABLES messages, session, drawn, writes, inserted, updated, reported
dbVars == <<messages, session, drawn, writes, inserted, updated, reported>>

vars == <<updates, confirmed, cursor, queue, taskVars, followed, budget, dbVars>>

(* The message store and the transactions of the workers.                  *)
DB == INSTANCE Ingest WITH Txns <- Workers, Versions <- 1..MaxUpdates,
                           MaxBatch <- MaxUpdates

TypeOK ==
    /\ DB!TypeOK
    /\ updates \in Seq(Keys \cup {NoMessage})
    /\ Len(updates) <= MaxUpdates
    /\ confirmed \in Nat \ {0}
    /\ cursor \in Nat
    /\ queue \in [0..MaxRetries -> Nat]
    /\ pc \in [Workers -> {"idle", "fetching", "writing", "committed", "fanning"}]
    /\ retries \in [Workers -> 0..MaxRetries]
    /\ offset \in [Workers -> Nat]
    /\ first \in [Workers -> Nat]
    /\ last \in [Workers -> Nat]
    /\ pos \in [Workers -> Nat]
    /\ followed \subseteq Nat
    /\ forgotten \subseteq Workers
    /\ contended \subseteq Keys
    /\ faults \in 0..MaxFaults
    /\ crashes \in 0..MaxCrashes

Init ==
    /\ DB!Init
    /\ updates = <<>>
    /\ confirmed = 1
    /\ cursor = 0
    /\ queue = [r \in 0..MaxRetries |-> 0]
    /\ pc = [w \in Workers |-> "idle"]
    /\ retries = [w \in Workers |-> 0]
    /\ offset = [w \in Workers |-> 0]
    /\ first = [w \in Workers |-> 0]
    /\ last = [w \in Workers |-> 0]
    /\ pos = [w \in Workers |-> 0]
    /\ followed = {}
    /\ forgotten = {}
    /\ contended = {}
    /\ faults = 0
    /\ crashes = 0

Larger(a, b) == IF a > b THEN a ELSE b
Smaller(a, b) == IF a < b THEN a ELSE b
GoTo(w, place) == pc' = [pc EXCEPT ![w] = place]

Fault ==
    /\ faults < MaxFaults
    /\ faults' = faults + 1
    /\ UNCHANGED <<forgotten, contended, crashes>>

Lost == crashes < MaxCrashes /\ crashes' = crashes + 1 /\ UNCHANGED <<contended, faults>>
Loss == Lost /\ UNCHANGED forgotten

-----------------------------------------------------------------------------
(* The outside world.                                                      *)

(* A chat gets a message, an edit of one, or something else.               *)
Post(what) ==
    /\ Len(updates) < MaxUpdates
    /\ updates' = Append(updates, what)
    /\ UNCHANGED <<confirmed, cursor, queue, taskVars, followed, budget, dbVars>>

(* Beat, or a client of the API, enqueues a sync.                          *)
Enqueue ==
    /\ queue[0] < MaxQueue
    /\ queue' = [queue EXCEPT ![0] = @ + 1]
    /\ UNCHANGED <<updates, confirmed, cursor, taskVars, followed, budget, dbVars>>

-----------------------------------------------------------------------------
(* The end of a task: its worker is free and forgets the connector.        *)
Leave(w) ==
    /\ GoTo(w, "idle")
    /\ retries' = [retries EXCEPT ![w] = 0]
    /\ offset' = [offset EXCEPT ![w] = 0]
    /\ first' = [first EXCEPT ![w] = 0]
    /\ last' = [last EXCEPT ![w] = 0]
    /\ pos' = [pos EXCEPT ![w] = 0]

(* Celery's autoretry: the task is enqueued again, or given up.            *)
Retry(w) ==
    queue' = IF retries[w] < MaxRetries
             THEN [queue EXCEPT ![retries[w] + 1] = @ + 1]
             ELSE queue

(* Mutant of Ready: looking at the queue and taking a task are two steps,  *)
(* so that two workers take the same one.                                  *)
ReadyAlways(r) == TRUE

(* There is a sync to take, with that number of retries.                   *)
Ready(r) == queue[r] > 0

(* A worker takes a sync; it opens its session, and the connector's        *)
(* generator, once started, reads the cursor.                              *)
Start(w) ==
    \E r \in 0..MaxRetries :
        /\ pc[w] = "idle"
        /\ Ready(r)
        /\ queue' = [queue EXCEPT ![r] = @ - 1]
        /\ retries' = [retries EXCEPT ![w] = r]
        /\ offset' = [offset EXCEPT ![w] = cursor]
        /\ GoTo(w, "fetching")
        /\ forgotten' = forgotten \ {w}
        /\ DB!Begin(w)
        /\ UNCHANGED <<updates, confirmed, cursor, first, last, pos, followed,
                       contended, faults, crashes>>

(* The first update Telegram answers with: an offset confirms all updates  *)
(* below it.                                                               *)
From(w) == Larger(confirmed, offset[w])

(* The last one, and the messages that updates from a to b carry.          *)
To(w) == Smaller(From(w) + Limit - 1, Len(updates))
Carried(a, b) == {k \in Keys : \E u \in a..b : updates[u] = k}

(* The messages of the windows that syncs have fetched and not committed.  *)
Underway == UNION {Carried(first[v], last[v]) : v \in {v \in Workers : pc[v] = "writing"}}

(* The answer arrives: a window of the oldest unconfirmed updates.         *)
GetUpdates(w) ==
    /\ pc[w] = "fetching"
    /\ confirmed' = From(w)
    /\ first' = [first EXCEPT ![w] = From(w)]
    /\ last' = [last EXCEPT ![w] = To(w)]
    /\ contended' = contended \cup (Carried(From(w), To(w)) \cap Underway)
    /\ pos' = [pos EXCEPT ![w] = From(w)]
    /\ GoTo(w, "writing")
    /\ UNCHANGED <<updates, cursor, queue, retries, offset, followed, forgotten,
                   faults, crashes, dbVars>>

(* A transport error, 429, 5xx or "not ok": RetryableError.  The request   *)
(* may have reached the server all the same.                               *)
GetUpdatesFails(w) ==
    /\ pc[w] = "fetching"
    /\ Fault
    /\ confirmed' \in {confirmed, From(w)}
    /\ DB!Rollback(w)
    /\ Retry(w)
    /\ Leave(w)
    /\ UNCHANGED <<updates, cursor, followed>>

(* The loop over the window yields the message of an update, or passes     *)
(* over one that has none.                                                 *)
DrawUpdate(w) ==
    LET u == pos[w] IN
    /\ pc[w] = "writing"
    /\ u <= last[w]
    /\ updates[u] # NoMessage
    /\ DB!Draw(w, [key |-> updates[u], version |-> u])
    /\ pos' = [pos EXCEPT ![w] = u + 1]
    /\ UNCHANGED <<updates, confirmed, cursor, queue, pc, retries, offset, first,
                   last, followed, budget>>

SkipUpdate(w) ==
    /\ pc[w] = "writing"
    /\ drawn[w] = DB!Nothing
    /\ pos[w] <= last[w]
    /\ updates[pos[w]] = NoMessage
    /\ pos' = [pos EXCEPT ![w] = @ + 1]
    /\ UNCHANGED <<updates, confirmed, cursor, queue, pc, retries, offset, first,
                   last, followed, budget, dbVars>>

UpsertMessage(w) ==
    /\ pc[w] = "writing"
    /\ DB!Upsert(w)
    /\ UNCHANGED <<updates, confirmed, cursor, queue, taskVars, followed, budget>>

(* The generator is exhausted and the session commits.                     *)
CommitBatch(w) ==
    /\ pc[w] = "writing"
    /\ pos[w] > last[w]
    /\ DB!Commit(w)
    /\ GoTo(w, "committed")
    /\ UNCHANGED <<updates, confirmed, cursor, queue, retries, offset, first, last,
                   pos, followed, budget>>

(* Postgres commits but the connection breaks before it says so: the task  *)
(* fails, and nothing in sync_connector retries it.                        *)
CommitUnheard(w) ==
    /\ pc[w] = "writing"
    /\ pos[w] > last[w]
    /\ Fault
    /\ DB!Commit(w)
    /\ Leave(w)
    /\ UNCHANGED <<updates, confirmed, cursor, queue, followed>>

(* Any other exception inside session_scope: a 4xx of Telegram (409 when   *)
(* two polls meet), Redis not answering, a statement that fails.           *)
SyncFails(w) ==
    /\ pc[w] \in {"fetching", "writing"}
    /\ Fault
    /\ DB!Rollback(w)
    /\ Leave(w)
    /\ UNCHANGED <<updates, confirmed, cursor, queue, followed>>

(* Postgres picks the worker's statement to break a deadlock.              *)
SyncDeadlocks(w) ==
    /\ pc[w] = "writing"
    /\ DB!DeadlockVictim(w)
    /\ Leave(w)
    /\ UNCHANGED <<updates, confirmed, cursor, queue, followed, budget>>

(* Mutant of NextOffset: a window is taken to be full.                     *)
NextOffsetFull(w) == first[w] + Limit

(* Mutant of NextOffset: only updates with a message count.                *)
NextOffsetOfMessages(w) ==
    IF \E u \in first[w]..last[w] : updates[u] # NoMessage THEN last[w] + 1 ELSE cursor

(* The staged offset: past the window, unless that is empty.               *)
NextOffset(w) == IF first[w] <= last[w] THEN last[w] + 1 ELSE cursor

(* on_sync_committed: the staged offset replaces whatever the cursor is.   *)
AdvanceCursor(w) ==
    /\ pc[w] = "committed"
    /\ cursor' = NextOffset(w)
    /\ pos' = [pos EXCEPT ![w] = first[w]]
    /\ GoTo(w, "fanning")
    /\ UNCHANGED <<updates, confirmed, queue, retries, offset, first, last,
                   followed, budget, dbVars>>

(* Redis does not answer: the exception is logged and swallowed.           *)
AdvanceCursorFails(w) ==
    /\ pc[w] = "committed"
    /\ Fault
    /\ pos' = [pos EXCEPT ![w] = first[w]]
    /\ GoTo(w, "fanning")
    /\ UNCHANGED <<updates, confirmed, cursor, queue, retries, offset, first, last,
                   followed, dbVars>>

(* Mutant of Followed: none for a message that had them before.            *)
FollowedOnce(w) ==
    IF \/ updates[pos[w]] = NoMessage
       \/ \E u \in followed : updates[u] = updates[pos[w]]
    THEN followed ELSE followed \cup {pos[w]}

(* The updates whose message has got its follow-up tasks.                  *)
Followed(w) ==
    IF updates[pos[w]] = NoMessage THEN followed ELSE followed \cup {pos[w]}

(* _enqueue_followups, one message id at a time.                           *)
EnqueueFollowup(w) ==
    /\ pc[w] = "fanning"
    /\ pos[w] <= last[w]
    /\ followed' = Followed(w)
    /\ pos' = [pos EXCEPT ![w] = @ + 1]
    /\ UNCHANGED <<updates, confirmed, cursor, queue, pc, retries, offset, first,
                   last, budget, dbVars>>

(* The broker does not take a follow-up: sync_connector fails for good.    *)
EnqueueFollowupFails(w) ==
    /\ pc[w] = "fanning"
    /\ pos[w] <= last[w]
    /\ Loss
    /\ Leave(w)
    /\ UNCHANGED <<updates, confirmed, cursor, queue, followed, dbVars>>

(* sync_connector returns and its task is acknowledged.                    *)
Finish(w) ==
    /\ pc[w] = "fanning"
    /\ pos[w] > last[w]
    /\ Leave(w)
    /\ UNCHANGED <<updates, confirmed, cursor, queue, followed, budget, dbVars>>

(* Redis starts anew without its data (it has no volume): the cursor, the  *)
(* queue, and the tasks it would deliver again.  Workers go on.            *)
RedisLost ==
    /\ Volatile
    /\ Lost
    /\ cursor' = 0
    /\ queue' = [r \in 0..MaxRetries |-> 0]
    /\ forgotten' = {w \in Workers : pc[w] # "idle"}
    /\ UNCHANGED <<updates, confirmed, taskVars, followed, dbVars>>

(* The worker process dies.  Its task was not acknowledged (acks_late) and *)
(* is delivered again (reject_on_worker_lost) if Redis still has it;       *)
(* Postgres undoes its open transaction.                                   *)
Crash(w) ==
    /\ pc[w] # "idle"
    /\ Loss
    /\ IF session[w] = "open" THEN DB!Rollback(w) ELSE UNCHANGED dbVars
    /\ queue' = IF w \in forgotten THEN queue
                                   ELSE [queue EXCEPT ![retries[w]] = @ + 1]
    /\ Leave(w)
    /\ UNCHANGED <<updates, confirmed, cursor, followed>>

-----------------------------------------------------------------------------
(* What a worker does without waiting for anyone.                          *)
Proceed(w) ==
    \/ Start(w)
    \/ GetUpdates(w)
    \/ DrawUpdate(w)
    \/ SkipUpdate(w)
    \/ CommitBatch(w)
    \/ SyncDeadlocks(w)
    \/ AdvanceCursor(w)
    \/ EnqueueFollowup(w)
    \/ Finish(w)

Failure(w) ==
    \/ GetUpdatesFails(w)
    \/ CommitUnheard(w)
    \/ SyncFails(w)
    \/ AdvanceCursorFails(w)
    \/ EnqueueFollowupFails(w)
    \/ Crash(w)

Next ==
    \/ \E what \in Keys \cup {NoMessage} : Post(what)
    \/ Enqueue
    \/ RedisLost
    \/ \E w \in Workers : Proceed(w) \/ UpsertMessage(w) \/ Failure(w)

Spec == Init /\ [][Next]_vars

(* Beat fires for ever, workers run what is queued, Telegram, Redis and    *)
(* Postgres answer unless a bounded failure happens.  Nobody has to post,  *)
(* and nothing has to fail.                                                *)
FairSpec ==
    /\ Spec
    /\ WF_vars(Enqueue)
    /\ \A w \in Workers :
        /\ WF_vars(Proceed(w))
        /\ SF_vars(UpsertMessage(w))

-----------------------------------------------------------------------------
(* Properties.                                                             *)

(* Updates that no sync will ask for again: the cursor is past them, or    *)
(* Telegram has dropped them.                                              *)
Passed(u) == u < cursor \/ u < confirmed

Stored(u) == updates[u] # NoMessage => messages[updates[u]] # DB!NoRow

Seen == 1..Len(updates)

(* At-least-once polling: an update that will never be fetched again has   *)
(* left a row in the database, whatever crashes, failures, lost commit     *)
(* acknowledgements and overlapping syncs there were.  on_sync_committed   *)
(* runs only after the commit.                                             *)
AtLeastOnce == \A u \in Seen : Passed(u) => Stored(u)

(* The connector polls as BaseConnector asks for: an update is released,   *)
(* by the offset of a later getUpdates, only once it is stored, and        *)
(* neither is ever undone.                                                 *)
Contract == INSTANCE Polling WITH arrived <- Len(updates),
                                  stored <- {u \in Seen : Stored(u)},
                                  released <- {u \in Seen : u < confirmed}

PollsAsPromised == Contract!Spec

(* The inductive invariant behind AtLeastOnce.  Every number that becomes  *)
(* the cursor, or is sent to Telegram as an offset, covers only stored     *)
(* updates; a running loop has in its transaction, or in hand, what it     *)
(* passed of its window.                                                   *)
Covered(n) ==
    /\ n <= Len(updates) + 1
    /\ \A u \in Seen : u < n => Stored(u)

InHand(w, u) ==
    updates[u] # NoMessage =>
        \/ DB!Holds(w, updates[u])
        \/ drawn[w] # DB!Nothing /\ drawn[w].key = updates[u]

FetchingOK(w) == pc[w] = "fetching" => Covered(offset[w])

WritingOK(w) ==
    pc[w] = "writing" =>
        /\ 1 <= pos[w] /\ pos[w] <= Len(updates) + 1
        /\ last[w] <= Len(updates)
        /\ Covered(first[w])
        /\ \A u \in Seen : first[w] <= u /\ u < pos[w] => InHand(w, u)

CommittedOK(w) == pc[w] = "committed" => Covered(last[w] + 1)

IInv ==
    /\ TypeOK
    /\ Covered(cursor)
    /\ Covered(confirmed)
    /\ \A w \in Workers : FetchingOK(w) /\ WritingOK(w) /\ CommittedOK(w)

(* An edit that Telegram has dropped, for good, is in its row, or a newer  *)
(* one is.                                                                 *)
Kept(u) == updates[u] # NoMessage => messages[updates[u]] >= u

EditsSurvive == \A u \in Seen : u < confirmed => Kept(u)

(* So it is with each message that no two syncs had in their windows at    *)
(* once, whatever windows are fetched again after failures, in whatever    *)
(* order overlapping syncs commit, and wherever they put the cursor.       *)
EditsSurviveApart ==
    \A u \in Seen : u < confirmed => Kept(u) \/ updates[u] \in contended

(* The row of such a message never goes back to an older version: what is  *)
(* fetched again is not older than what is stored by the time it is.       *)
ContentNeverGoesBack ==
    [][\A k \in Keys \ contended : messages'[k] >= messages[k]]_messages

(* A sync of worker w is on its way to enqueue the follow-ups of u.        *)
WillFollow(w, u) == pc[w] = "fanning" /\ pos[w] <= u /\ u <= last[w]

(* The message of an update that will never be fetched again has had its   *)
(* follow-up tasks enqueued, or a sync is at it: sync_connector advances   *)
(* the cursor first and calls _enqueue_followups after that.               *)
FollowupsAtLeastOnce ==
    \A u \in Seen :
        Passed(u) /\ updates[u] # NoMessage
            => u \in followed \/ \E w \in Workers : WillFollow(w, u)

(* It keeps that promise for as long as no worker and no broker connection *)
(* is lost: failures of Telegram, Redis and Postgres do it no harm, nor do *)
(* syncs that overlap.                                                     *)
FollowupsUnlessLost == crashes = 0 => FollowupsAtLeastOnce

(* Every update posted to the bot is stored in the end: failures delay it, *)
(* and the next beat makes up for tasks that gave up.                      *)
EveryUpdateStored == \A u \in 1..MaxUpdates : u \in Seen ~> u \in Seen /\ Stored(u)
=============================================================================
