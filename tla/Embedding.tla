----------------------------- MODULE Embedding -----------------------------
(***************************************************************************)
(* The vectors of messages, with VECTOR_ENABLED: embed_message tasks, one  *)
(* per message a sync stored (app/tasks/embeddings.py), the collection     *)
(* that whoever comes first creates (app/vector/qdrant.py), and searches   *)
(* (app/api/v1/search.py), which create it too.                            *)
(*                                                                         *)
(* A text is the number of its version.  Its vector is known by the text   *)
(* it was made of; how it is made, and how near two of them are, is the    *)
(* provider's affair (app/vector/embeddings.py).                           *)
(***************************************************************************)
EXTENDS Naturals

CONSTANTS
    Workers,        \* Celery worker processes
    Searches,       \* requests GET /search that may be served at a time
    Messages,       \* messages, by the id of their row and of their point
    NoMessage,
    MaxRetries,     \* max_retries of the task
    MaxSyncs,       \* bound: times that syncs store a message
    MaxTransients,  \* bound: network errors and answers 429 or 5xx of OpenAI
    MaxFaults       \* bound: other calls that fail, and processes lost

ASSUME EmbeddingAssumption ==
    /\ Workers \cap Searches = {}
    /\ NoMessage \notin Messages
    /\ MaxRetries \in Nat
    /\ MaxSyncs \in Nat
    /\ MaxTransients \in Nat
    /\ MaxFaults \in Nat

Clients == Workers \cup Searches

VARIABLES
    row,         \* version of the text in each row, 0 where there is none
    owed,        \* syncs that committed and did not yet enqueue the task
    queue,       \* tasks waiting, by message and number of their retries
    pc,          \* where each worker and each search is
    target,      \* message_id of the task a worker runs
    retries,     \* its request.retries
    text,        \* version of the text it read
    collection,  \* does Qdrant have the collection?
    points,      \* version of the text of each point, 0 where there is none
    overlapped,  \* history: messages whose last task began during another
    dropped,     \* history: messages a task of whose failed, none upserted since
    collided,    \* history: was a create of the collection refused?
    syncs, transients, faults

taskVars == <<target, retries, text>>
qdrant == <<collection, points>>
history == <<overlapped, dropped, collided>>
vars == <<row, owed, queue, pc, taskVars, qdrant, history, syncs, transients, faults>>

Tries == 0..MaxRetries

TypeOK ==
    /\ row \in [Messages -> Nat]
    /\ owed \in [Messages -> Nat]
    /\ queue \in [Messages -> [Tries -> Nat]]
    /\ pc \in [Clients -> {"idle", "embedding", "creating", "calling"}]
    /\ target \in [Workers -> Messages \cup {NoMessage}]
    /\ retries \in [Workers -> Tries]
    /\ text \in [Workers -> Nat]
    /\ collection \in BOOLEAN
    /\ points \in [Messages -> Nat]
    /\ overlapped \subseteq Messages
    /\ dropped \subseteq Messages
    /\ collided \in BOOLEAN
    /\ syncs \in 0..MaxSyncs
    /\ transients \in 0..MaxTransients
    /\ faults \in 0..MaxFaults

Init ==
    /\ row = [m \in Messages |-> 0]
    /\ owed = [m \in Messages |-> 0]
    /\ queue = [m \in Messages |-> [r \in Tries |-> 0]]
    /\ pc = [c \in Clients |-> "idle"]
    /\ target = [w \in Workers |-> NoMessage]
    /\ retries = [w \in Workers |-> 0]
    /\ text = [w \in Workers |-> 0]
    /\ collection = FALSE
    /\ points = [m \in Messages |-> 0]
    /\ overlapped = {}
    /\ dropped = {}
    /\ collided = FALSE
    /\ syncs = 0
    /\ transients = 0
    /\ faults = 0

Fault == faults < MaxFaults /\ faults' = faults + 1
GoTo(c, place) == pc' = [pc EXCEPT ![c] = place]

-----------------------------------------------------------------------------
(* Syncs.                                                                  *)

(* Mutant of FollowUp: only rows that were inserted have follow-ups.       *)
FollowUpNew(m) == IF row[m] = 0 THEN [owed EXCEPT ![m] = @ + 1] ELSE owed

(* upsert_messages returns the ids of all rows it wrote.                   *)
FollowUp(m) == [owed EXCEPT ![m] = @ + 1]

(* A sync commits the message, edited or as it was.                        *)
SyncCommit(m) ==
    /\ syncs < MaxSyncs
    /\ syncs' = syncs + 1
    /\ \E v \in {row[m], row[m] + 1} : v > 0 /\ row' = [row EXCEPT ![m] = v]
    /\ owed' = FollowUp(m)
    /\ UNCHANGED <<queue, pc, taskVars, qdrant, history, transients, faults>>

(* Mutant of Owes: a sync that was rolled back has follow-ups too.         *)
OwesAlways(m) == TRUE

Owes(m) == owed[m] > 0

(* _enqueue_followups of that sync.                                        *)
EnqueueEmbed(m) ==
    /\ Owes(m)
    /\ owed' = [owed EXCEPT ![m] = @ - 1]
    /\ queue' = [queue EXCEPT ![m][0] = @ + 1]
    /\ UNCHANGED <<row, pc, taskVars, qdrant, history, syncs, transients, faults>>

-----------------------------------------------------------------------------
(* embed_message and search, up to their use of the collection.            *)

Overlapping(w, m) == \E x \in Workers \ {w} : target[x] = m

(* A worker takes a task and reads the row.  The row is always there: the  *)
(* task is enqueued after the commit, and rows are not deleted.            *)
LoadRow(w, m, r) ==
    /\ pc[w] = "idle"
    /\ queue[m][r] > 0
    /\ queue' = [queue EXCEPT ![m][r] = @ - 1]
    /\ GoTo(w, "embedding")
    /\ target' = [target EXCEPT ![w] = m]
    /\ retries' = [retries EXCEPT ![w] = r]
    /\ text' = [text EXCEPT ![w] = row[m]]
    /\ overlapped' = IF Overlapping(w, m) THEN overlapped \cup {m}
                                          ELSE overlapped \ {m}
    /\ UNCHANGED <<row, owed, qdrant, dropped, collided, syncs, transients, faults>>

(* A request comes in.                                                     *)
Search(s) ==
    /\ pc[s] = "idle"
    /\ GoTo(s, "embedding")
    /\ UNCHANGED <<row, owed, queue, taskVars, qdrant, history, syncs, transients,
                   faults>>

(* Mutant of AfterListing: the collection is not looked for.               *)
AfterListingBlind == "creating"

(* What follows the listing of collections.                                *)
AfterListing == IF collection THEN "calling" ELSE "creating"

(* The provider embeds the text, or the query, and ensure_collection asks  *)
(* Qdrant for its collections.                                             *)
EnsureCollection(c) ==
    /\ pc[c] = "embedding"
    /\ GoTo(c, AfterListing)
    /\ UNCHANGED <<row, owed, queue, taskVars, qdrant, history, syncs, transients,
                   faults>>

(* It was missing when asked for, and still is: it is created.             *)
CreateCollection(c) ==
    /\ pc[c] = "creating"
    /\ ~collection
    /\ collection' = TRUE
    /\ GoTo(c, "calling")
    /\ UNCHANGED <<row, owed, queue, taskVars, points, history, syncs, transients,
                   faults>>

-----------------------------------------------------------------------------
(* How they end.                                                           *)

Free(w) ==
    /\ GoTo(w, "idle")
    /\ target' = [target EXCEPT ![w] = NoMessage]
    /\ retries' = [retries EXCEPT ![w] = 0]
    /\ text' = [text EXCEPT ![w] = 0]

Written(w) == [points EXCEPT ![target[w]] = text[w]]

(* The point of the message is replaced, and the task returns.             *)
Upsert(w) ==
    /\ pc[w] = "calling"
    /\ points' = Written(w)
    /\ dropped' = dropped \ {target[w]}
    /\ Free(w)
    /\ UNCHANGED <<row, owed, queue, collection, overlapped, collided, syncs,
                   transients, faults>>

(* Qdrant finds the nearest points, and their rows make the answer.        *)
Answer(s) ==
    /\ pc[s] = "calling"
    /\ GoTo(s, "idle")
    /\ UNCHANGED <<row, owed, queue, taskVars, qdrant, history, syncs, transients,
                   faults>>

(* Somebody else created the collection meanwhile.  Qdrant refuses, and    *)
(* its error is none that the task retries.                                *)
Collide(w) ==
    /\ pc[w] = "creating"
    /\ collection
    /\ collided' = TRUE
    /\ dropped' = dropped \cup {target[w]}
    /\ Free(w)
    /\ UNCHANGED <<row, owed, queue, qdrant, overlapped, syncs, transients, faults>>

(* Mutant of Retry: the error is not one that the task retries.            *)
RetryNever(w) == UNCHANGED <<queue, dropped>>

(* Mutant of Retry: the first try counts as a retry.                       *)
RetryOneLess(w) ==
    LET m == target[w] IN
    IF retries[w] + 1 < MaxRetries
    THEN queue' = [queue EXCEPT ![m][retries[w] + 1] = @ + 1] /\ UNCHANGED dropped
    ELSE dropped' = dropped \cup {m} /\ UNCHANGED queue

(* TransientEmbeddingError: the task is enqueued again, or given up.       *)
Retry(w) ==
    LET m == target[w] IN
    IF retries[w] < MaxRetries
    THEN queue' = [queue EXCEPT ![m][retries[w] + 1] = @ + 1] /\ UNCHANGED dropped
    ELSE dropped' = dropped \cup {m} /\ UNCHANGED queue

Transient(w) ==
    /\ pc[w] = "embedding"
    /\ transients < MaxTransients
    /\ transients' = transients + 1
    /\ Retry(w)
    /\ Free(w)
    /\ UNCHANGED <<row, owed, qdrant, overlapped, collided, syncs, faults>>

(* The call to Qdrant that a process has under way may take effect though  *)
(* nobody hears of it.                                                     *)
Unheard(w) ==
    \/ UNCHANGED qdrant
    \/ pc[w] = "creating" /\ collection' = TRUE /\ UNCHANGED points
    \/ pc[w] = "calling" /\ points' = Written(w) /\ UNCHANGED collection

(* OpenAI answers with another 4xx, or Qdrant does not: the task fails for *)
(* good.                                                                   *)
TaskFails(w) ==
    /\ pc[w] # "idle"
    /\ Fault
    /\ Unheard(w)
    /\ dropped' = dropped \cup {target[w]}
    /\ Free(w)
    /\ UNCHANGED <<row, owed, queue, overlapped, collided, syncs, transients>>

(* Mutant of Redeliver: the task was acknowledged when it started.         *)
RedeliverNot(w) == UNCHANGED queue

Redeliver(w) == queue' = [queue EXCEPT ![target[w]][retries[w]] = @ + 1]

(* The worker process dies; its task, not acknowledged, is delivered again. *)
Crash(w) ==
    /\ pc[w] # "idle"
    /\ Fault
    /\ Unheard(w)
    /\ Redeliver(w)
    /\ Free(w)
    /\ UNCHANGED <<row, owed, history, syncs, transients>>

(* The provider or Qdrant fails a search, or refuses its create, and it    *)
(* answers 500; its client may try again.                                  *)
SearchFails(s) ==
    /\ pc[s] # "idle"
    /\ GoTo(s, "idle")
    /\ UNCHANGED <<row, owed, queue, taskVars, qdrant, history, syncs, transients,
                   faults>>

-----------------------------------------------------------------------------
Work(w) ==
    \/ \E m \in Messages, r \in Tries : LoadRow(w, m, r)
    \/ EnsureCollection(w)
    \/ CreateCollection(w)
    \/ Collide(w)
    \/ Upsert(w)

Serve(s) ==
    \/ Search(s)
    \/ EnsureCollection(s)
    \/ CreateCollection(s)
    \/ Answer(s)
    \/ SearchFails(s)

Next ==
    \/ \E m \in Messages : SyncCommit(m) \/ EnqueueEmbed(m)
    \/ \E w \in Workers : Work(w) \/ Transient(w) \/ TaskFails(w) \/ Crash(w)
    \/ \E s \in Searches : Serve(s)

Spec == Init /\ [][Next]_vars

(* A sync that committed enqueues the task (TelegramSync has the ways in   *)
(* which it may not), and workers run what is queued.                      *)
FairSpec ==
    /\ Spec
    /\ \A m \in Messages : WF_vars(EnqueueEmbed(m))
    /\ \A w \in Workers : WF_vars(Work(w))

-----------------------------------------------------------------------------
(* Properties.                                                             *)

(* A task of the message is to be enqueued, waiting or running.            *)
Waiting(m) == owed[m] > 0 \/ \E r \in Tries : queue[m][r] > 0
InProgress(m) == Waiting(m) \/ \E w \in Workers : target[w] = m

Quiet(m) == row[m] # 0 /\ ~InProgress(m)

(* When the tasks of a message are through, search can find it: it has a   *)
(* point, however tasks overlapped, were retried or redelivered, unless    *)
(* one of them failed and none succeeded after it.                         *)
Findable == \A m \in Messages : Quiet(m) => points[m] # 0 \/ m \in dropped

(* Its vector is that of the text in its row, of no older version, unless  *)
(* its last task ran beside another (embed_message reads the row and       *)
(* closes the session before it embeds, and upserts whatever it finds).    *)
Current ==
    \A m \in Messages :
        Quiet(m) => points[m] = row[m] \/ m \in dropped \cup overlapped

(* A task fails for good only by an outage, more transient errors than it  *)
(* has retries, or a collision.                                            *)
DroppedForCause ==
    dropped # {} => faults > 0 \/ transients > MaxRetries \/ collided

(* Collisions are a matter of the first use: once the collection exists    *)
(* and no create is under way, no later task or search tries to create it. *)
CreatedOnce ==
    [][collection /\ (\A c \in Clients : pc[c] # "creating")
           => collection' /\ \A c \in Clients : pc'[c] # "creating"]_vars

(* Every message that is stored becomes searchable in the end, or one of   *)
(* its tasks failed for good.                                              *)
EveryMessageEmbedded ==
    \A m \in Messages : row[m] # 0 ~> points[m] # 0 \/ m \in dropped

(* Qdrant and Postgres agree on which messages there are: a hit of a       *)
(* search has its row, though GET /search would pass over one without.     *)
HitsHaveRows == \A m \in Messages : points[m] # 0 => row[m] # 0

(* The inductive invariant behind them.  A message without its vector is   *)
(* still in progress; and a task of it that runs alone has read its row as *)
(* it is, or there is another to come.                                     *)
HasRow ==
    \A m \in Messages : InProgress(m) \/ m \in dropped \/ points[m] # 0 => row[m] # 0

HasPoint(m) == row[m] # 0 => points[m] # 0 \/ m \in dropped \/ InProgress(m)

IsFresh(m) ==
    row[m] # 0 => points[m] = row[m] \/ m \in dropped \cup overlapped \/ InProgress(m)

RunsAlone(m) ==
    m \notin overlapped =>
        /\ \A w, x \in Workers : target[w] = m /\ target[x] = m => w = x
        /\ \A w \in Workers : target[w] = m => text[w] = row[m] \/ Waiting(m)

Busy == \A w \in Workers :
    /\ pc[w] = "idle" <=> target[w] = NoMessage
    /\ pc[w] # "idle" => text[w] # 0

RetriesCounted ==
    /\ \A w \in Workers : retries[w] <= transients
    /\ \A m \in Messages, r \in Tries : queue[m][r] > 0 => r <= transients

IInv ==
    /\ TypeOK
    /\ Busy
    /\ HasRow
    /\ RetriesCounted
    /\ DroppedForCause
    /\ \A m \in Messages : HasPoint(m) /\ IsFresh(m) /\ RunsAlone(m)
=============================================================================
