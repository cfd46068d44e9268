---------------------------- MODULE Attachments ----------------------------
(***************************************************************************)
(* The attachments of one message: its row and its attachment rows as      *)
(* syncs write them (app/services/ingest.py), the download_attachments     *)
(* tasks that fill in the S3 columns (app/tasks/attachments.py), and the   *)
(* object store (app/services/storage.py).                                 *)
(*                                                                         *)
(* An attachment is its external_id at the source.  Tasks of one message   *)
(* overlap: every sync that stores the message enqueues one, and nothing   *)
(* keeps it apart from the task of an earlier sync.                        *)
(***************************************************************************)
EXTENDS Naturals

CONSTANTS
    Workers,        \* Celery worker processes
    Atts,           \* attachments the message has in any of its versions
    Names,          \* file names; an object key is the message and a name
    Filename,       \* the file name of each attachment
    MaxRetries,     \* max_retries of the task
    MaxSyncs,       \* bound: syncs that store the message
    MaxTransients,  \* bound: network errors and answers 429 or 5xx
    MaxCrashes,     \* bound: worker processes lost
    MaxOutages      \* bound: calls of S3 or Postgres that fail

Nobody == "nobody"

ASSUME AttachmentsAssumption ==
    /\ Nobody \notin Atts
    /\ Filename \in [Atts -> Names]
    /\ MaxRetries \in Nat
    /\ MaxSyncs \in Nat
    /\ MaxTransients \in Nat
    /\ MaxCrashes \in Nat
    /\ MaxOutages \in Nat

VARIABLES
    status,      \* messages.processing_status
    error_log,   \* messages.error_log: the attachments it names, {} for NULL
    present,     \* attachments that have a row
    s3,          \* attachments whose row has s3_bucket and s3_key
    objects,     \* the bucket: whose bytes are stored under each name
    gone,        \* attachments the source answers with 4xx for
    owed,        \* syncs that committed and did not yet enqueue the task
    queue,       \* tasks waiting, by the number of their retries
    pc,          \* is a worker idle, loading the message, or downloading
    retries,     \* request.retries of the task a worker runs
    loaded,      \* processing_status and error_log as its session read them
    todo,        \* its pending attachments that it has not tried
    done,        \* attachments it uploaded; its session is to set their S3 columns
    errors,      \* attachments it could not get
    syncs, transients, crashes, outages,
    apart        \* history: no two tasks of the message ran at once so far

rowVars == <<status, error_log, present, s3>>
taskVars == <<pc, retries, loaded, todo, done, errors>>
history == <<transients, crashes, outages, apart>>
vars == <<rowVars, objects, gone, owed, queue, taskVars, syncs, history>>

Statuses == {"normalized", "error"}
Fresh == [status |-> "normalized", error_log |-> {}]

TypeOK ==
    /\ status \in Statuses
    /\ error_log \subseteq Atts
    /\ present \subseteq Atts
    /\ s3 \subseteq Atts
    /\ objects \in [Names -> Atts \cup {Nobody}]
    /\ gone \subseteq Atts
    /\ owed \in Nat
    /\ queue \in [0..MaxRetries -> Nat]
    /\ pc \in [Workers -> {"idle", "loading", "downloading"}]
    /\ retries \in [Workers -> 0..MaxRetries]
    /\ loaded \in [Workers -> [status : Statuses, error_log : SUBSET Atts]]
    /\ todo \in [Workers -> SUBSET Atts]
    /\ done \in [Workers -> SUBSET Atts]
    /\ errors \in [Workers -> SUBSET Atts]
    /\ syncs \in 0..MaxSyncs
    /\ transients \in 0..MaxTransients
    /\ crashes \in 0..MaxCrashes
    /\ outages \in 0..MaxOutages
    /\ apart \in BOOLEAN

Init ==
    /\ status = "normalized"
    /\ error_log = {}
    /\ present = {}
    /\ s3 = {}
    /\ objects = [n \in Names |-> Nobody]
    /\ gone = {}
    /\ owed = 0
    /\ queue = [r \in 0..MaxRetries |-> 0]
    /\ pc = [w \in Workers |-> "idle"]
    /\ retries = [w \in Workers |-> 0]
    /\ loaded = [w \in Workers |-> Fresh]
    /\ todo = [w \in Workers |-> {}]
    /\ done = [w \in Workers |-> {}]
    /\ errors = [w \in Workers |-> {}]
    /\ syncs = 0
    /\ transients = 0
    /\ crashes = 0
    /\ outages = 0
    /\ apart = TRUE

-----------------------------------------------------------------------------
(* The source and the syncs.                                               *)

(* A file is deleted or expires; the source answers 4xx from now on.       *)
Vanish(a) ==
    /\ a \notin gone
    /\ gone' = gone \cup {a}
    /\ UNCHANGED <<rowVars, objects, owed, queue, taskVars, syncs, history>>

(* Mutant of Kept: the upsert of an attachment resets its S3 columns too.  *)
KeptNot(atts) == s3 \ atts

(* The S3 columns an upsert of attachments atts keeps: they are not in its *)
(* set, so all of them.                                                    *)
Kept(atts) == s3

(* A sync commits a version of the message with attachments atts.  The     *)
(* upsert resets processing_status and error_log; rows of attachments are  *)
(* added, never removed, and keep their S3 columns.                        *)
SyncCommit(atts) ==
    /\ syncs < MaxSyncs
    /\ syncs' = syncs + 1
    /\ status' = "normalized"
    /\ error_log' = {}
    /\ present' = present \cup atts
    /\ s3' = Kept(atts)
    /\ owed' = owed + 1
    /\ UNCHANGED <<objects, gone, queue, taskVars, history>>

(* Mutant of EnqueueDownload: also for a sync that was rolled back.        *)
EnqueueUnowed ==
    /\ owed' = owed - 1
    /\ queue' = [queue EXCEPT ![0] = @ + 1]
    /\ UNCHANGED <<rowVars, objects, gone, taskVars, syncs, history>>

(* _enqueue_followups of a sync that committed.                            *)
EnqueueDownload ==
    /\ owed > 0
    /\ owed' = owed - 1
    /\ queue' = [queue EXCEPT ![0] = @ + 1]
    /\ UNCHANGED <<rowVars, objects, gone, taskVars, syncs, history>>

-----------------------------------------------------------------------------
(* download_attachments.                                                   *)

Leave(w) ==
    /\ pc' = [pc EXCEPT ![w] = "idle"]
    /\ retries' = [retries EXCEPT ![w] = 0]
    /\ loaded' = [loaded EXCEPT ![w] = Fresh]
    /\ todo' = [todo EXCEPT ![w] = {}]
    /\ done' = [done EXCEPT ![w] = {}]
    /\ errors' = [errors EXCEPT ![w] = {}]

(* _downloadable, for a message of Telegram.                               *)
Pending == present \ s3

(* A worker takes a task; its session reads the row of the message.        *)
LoadMessage(w, r) ==
    /\ pc[w] = "idle"
    /\ queue[r] > 0
    /\ queue' = [queue EXCEPT ![r] = @ - 1]
    /\ pc' = [pc EXCEPT ![w] = "loading"]
    /\ retries' = [retries EXCEPT ![w] = r]
    /\ loaded' = [loaded EXCEPT ![w] = [status |-> status, error_log |-> error_log]]
    /\ apart' = (apart /\ \A v \in Workers : pc[v] = "idle")
    /\ UNCHANGED <<rowVars, objects, gone, owed, todo, done, errors, syncs,
                   transients, crashes, outages>>

(* A second statement reads its attachments (lazy="selectin"), which may   *)
(* be newer than the row it has, under READ COMMITTED.                     *)
LoadAttachments(w) ==
    /\ pc[w] = "loading"
    /\ Pending # {}
    /\ pc' = [pc EXCEPT ![w] = "downloading"]
    /\ todo' = [todo EXCEPT ![w] = Pending]
    /\ UNCHANGED <<rowVars, objects, gone, owed, queue, retries, loaded, done, errors,
                   syncs, history>>

(* There is nothing to download, and the task returns.                     *)
LoadNothing(w) ==
    /\ pc[w] = "loading"
    /\ Pending = {}
    /\ Leave(w)
    /\ UNCHANGED <<rowVars, objects, gone, owed, queue, syncs, history>>

(* Mutant of ObjectKey: the key of the message, without a file name.       *)
ObjectKeyOfMessage(a) == CHOOSE n \in Names : TRUE

(* The part of the object key in which attachments of a message differ.    *)
ObjectKey(a) == Filename[a]

(* _download_one: the bytes arrive and are put under the object key.  The  *)
(* S3 columns stay in the session until it commits.                        *)
Download(w, a) ==
    /\ pc[w] = "downloading"
    /\ a \in todo[w]
    /\ a \notin gone
    /\ objects' = [objects EXCEPT ![ObjectKey(a)] = a]
    /\ todo' = [todo EXCEPT ![w] = @ \ {a}]
    /\ done' = [done EXCEPT ![w] = @ \cup {a}]
    /\ UNCHANGED <<rowVars, gone, owed, queue, pc, retries, loaded, errors,
                   syncs, history>>

(* The source answers 4xx: the loop notes it and goes on.                  *)
Deny(w, a) ==
    /\ pc[w] = "downloading"
    /\ a \in todo[w]
    /\ a \in gone
    /\ todo' = [todo EXCEPT ![w] = @ \ {a}]
    /\ errors' = [errors EXCEPT ![w] = @ \cup {a}]
    /\ UNCHANGED <<rowVars, objects, gone, owed, queue, pc, retries, loaded, done,
                   syncs, history>>

(* Mutant of Retry: the error is not one that the task retries.            *)
RetryNever(w) == queue

(* autoretry_for: the task is enqueued again, or given up.                 *)
Retry(w) ==
    IF retries[w] < MaxRetries THEN [queue EXCEPT ![retries[w] + 1] = @ + 1]
                               ELSE queue

(* A transport error, 429 or 5xx: the session is rolled back, with all the *)
(* loop did so far.                                                        *)
Transient(w) ==
    /\ pc[w] = "downloading" /\ todo[w] # {}
    /\ transients < MaxTransients
    /\ transients' = transients + 1
    /\ queue' = Retry(w)
    /\ Leave(w)
    /\ UNCHANGED <<rowVars, objects, gone, owed, syncs, crashes, outages, apart>>

(* Mutant of Filled: the S3 columns are set before the download is tried.  *)
FilledAll(w) == done[w] \cup errors[w]

(* The attachments whose S3 columns the session sets.                      *)
Filled(w) == done[w]

(* Mutant of Log: a log is only written where there was none.              *)
LogOnce(w) ==
    IF errors[w] # {} /\ loaded[w].error_log = {} THEN errors[w] ELSE error_log

(* The log after the commit: written if it differs from the one loaded.    *)
Log(w) ==
    IF errors[w] # {} /\ loaded[w].error_log # errors[w] THEN errors[w] ELSE error_log

(* The session commits.  The ORM updates the columns that differ from what *)
(* it loaded, whatever the row holds by now.                               *)
Finish(w) ==
    /\ pc[w] = "downloading"
    /\ todo[w] = {}
    /\ s3' = s3 \cup Filled(w)
    /\ status' = IF errors[w] # {} /\ loaded[w].status # "error"
                 THEN "error" ELSE status
    /\ error_log' = Log(w)
    /\ Leave(w)
    /\ UNCHANGED <<present, objects, gone, owed, queue, syncs, history>>

(* Mutant of Redeliver: the task was acknowledged when it started.         *)
RedeliverNot(w) == queue

(* task_acks_late: a task whose worker is lost is delivered again.         *)
Redeliver(w) == [queue EXCEPT ![retries[w]] = @ + 1]

(* The worker process dies.  Objects that were put stay.                   *)
Crash(w) ==
    /\ pc[w] # "idle"
    /\ crashes < MaxCrashes
    /\ crashes' = crashes + 1
    /\ queue' = Redeliver(w)
    /\ Leave(w)
    /\ UNCHANGED <<rowVars, objects, gone, owed, syncs, transients, outages, apart>>

(* S3 or Postgres does not answer.  Neither error is one the task retries: *)
(* it fails for good.                                                      *)
TaskFails(w) ==
    /\ pc[w] # "idle"
    /\ outages < MaxOutages
    /\ outages' = outages + 1
    /\ Leave(w)
    /\ UNCHANGED <<rowVars, objects, gone, owed, queue, syncs, transients, crashes,
                   apart>>

-----------------------------------------------------------------------------
Work(w) ==
    \/ \E r \in 0..MaxRetries : LoadMessage(w, r)
    \/ LoadAttachments(w)
    \/ LoadNothing(w)
    \/ \E a \in Atts : Download(w, a) \/ Deny(w, a)
    \/ Finish(w)

Next ==
    \/ \E a \in Atts : Vanish(a)
    \/ \E atts \in SUBSET Atts : SyncCommit(atts)
    \/ EnqueueDownload
    \/ \E w \in Workers : Work(w) \/ Transient(w) \/ Crash(w) \/ TaskFails(w)

Spec == Init /\ [][Next]_vars

(* A sync that committed enqueues the task (TelegramSync has the ways in   *)
(* which it may not), and workers run what is queued.                      *)
FairSpec ==
    /\ Spec
    /\ WF_vars(EnqueueDownload)
    /\ \A w \in Workers : WF_vars(Work(w))

-----------------------------------------------------------------------------
(* Properties.                                                             *)

(* No task of the message is running, waiting or about to be enqueued.     *)
AtRest ==
    /\ owed = 0
    /\ \A r \in 0..MaxRetries : queue[r] = 0
    /\ \A w \in Workers : pc[w] = "idle"

(* An attachment that is missing when the tasks are through shows in       *)
(* GET /messages?status=error, with a log.                                 *)
GapSurfaced ==
    AtRest /\ Pending # {} => status = "error" /\ error_log # {}

(* Nothing happened that can make a task give up: S3 and Postgres answered *)
(* and no task can have had more transient failures than retries.          *)
Spared == outages = 0 /\ transients <= MaxRetries

(* Then overlapping tasks and syncs, that overwrite each other's status    *)
(* and log, leave no gap that does not show.                               *)
GapSurfacedIfSpared == Spared => GapSurfaced

(* Tasks that did not overlap account for each attachment: it is stored,   *)
(* or the message is in status error and its log names it                  *)
(* (download_attachments lines 55-67), although every sync resets both     *)
(* columns and a task writes only those it saw differently.  Overlapping   *)
(* tasks, each refused another file, keep the log of the last one only.    *)
Accounted ==
    Spared /\ apart /\ AtRest =>
        \A a \in Pending : status = "error" /\ a \in error_log

(* The inductive invariant behind it.  Either the row is settled, or a     *)
(* task is still to come, or a running one will settle it when it          *)
(* finishes: it has yet to read what is pending or has seen all of it, and *)
(* what it saw in the row has not been reset since.                        *)
Settled == Pending = {} \/ (status = "error" /\ error_log # {})

WillSettle(w) ==
    /\ \/ pc[w] = "loading"
       \/ /\ pc[w] = "downloading"
          /\ Pending \subseteq todo[w] \cup done[w] \cup errors[w]
    /\ loaded[w].status = "error" => status = "error"
    /\ loaded[w].error_log # {} => error_log # {}

InProgress ==
    \/ owed > 0
    \/ \E r \in 0..MaxRetries : queue[r] > 0
    \/ \E w \in Workers : WillSettle(w)

(* No task was retried more often than transient failures happened.        *)
RetriesCounted ==
    /\ \A w \in Workers : retries[w] <= transients
    /\ \A r \in 0..MaxRetries : queue[r] > 0 => r <= transients

(* The same for Accounted.  A task that ran apart still finds in the row   *)
(* what it loaded, unless a sync that has its own task to come reset it.   *)
Explained == \A a \in Pending : status = "error" /\ a \in error_log

WillExplain(w) ==
    /\ WillSettle(w)
    /\ loaded[w] = [status |-> status, error_log |-> error_log]

Waiting == owed > 0 \/ \E r \in 0..MaxRetries : queue[r] > 0
Busy == {w \in Workers : pc[w] # "idle"}

Apart == apart => \A v, w \in Busy : v = w
ApartExplains == apart => \A w \in Busy : WillExplain(w) \/ Waiting

(* Bytes come before rows, also in the sessions that did not commit yet.   *)
BytesFirst ==
    \A a \in Atts :
        a \in s3 \/ (\E w \in Workers : a \in done[w])
            => objects[ObjectKey(a)] # Nobody

IInv ==
    /\ TypeOK
    /\ BytesFirst
    /\ RetriesCounted
    /\ Apart
    /\ Spared => Settled \/ InProgress
    /\ ApartExplains
    /\ Spared /\ apart => Explained \/ Waiting \/ Busy # {}

(* Once an attachment's row points at S3, no re-sync of the message and no *)
(* stale task takes that back: the S3 columns are not in the upsert's set  *)
(* (ingest.py, _upsert_attachments).                                       *)
NeverClobbered == [][s3 \subseteq s3']_s3

(* A row that points at S3 points at an object that is there: bytes are    *)
(* put before the row is committed.                                        *)
StoredMeansBytes == \A a \in s3 : objects[ObjectKey(a)] # Nobody

(* The attachments of the message with the file name of a, itself         *)
(* included.  The code does not keep names apart: they come from senders.  *)
Namesakes(a) == {b \in Atts : Filename[b] = Filename[a]}

(* The object a row points at holds that attachment's bytes, or those of a *)
(* namesake put over them, whatever tasks overlap and however often they   *)
(* are put: a file whose name no other of the message has keeps its bytes. *)
RightBytes == \A a \in s3 : objects[ObjectKey(a)] \in Namesakes(a)

(* Every attachment row is stored in the end, or shows as an error: a      *)
(* transient failure is retried, as often as a task may be.                *)
AttachmentsSettle ==
    \A a \in Atts : a \in present ~> a \in s3 \/ status = "error" \/ ~Spared
=============================================================================
