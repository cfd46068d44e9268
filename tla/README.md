# Verification of the AI-Ready Workspace Aggregator

TLA+ models of the aggregator's ingestion pipeline, TLC runs that check them on
small instances, and TLAPS proofs of the properties that matter most for
instances of any size. The models follow a message from its source through
ingestion, attachments and embedding to the pages of a listing. Paths below are
relative to the repository's root,
written `app/...` for `src/app/...`.

1. [The system](#1-the-system)
2. [The modules and the code](#2-the-modules-and-the-code)
3. [The runs](#3-the-runs)
4. [Bounds](#4-bounds)
5. [Fairness](#5-fairness)
6. [The proofs](#6-the-proofs)
7. [Disagreements between the code and what is said of it](#7-disagreements-between-the-code-and-what-is-said-of-it)
8. [Limits of the code that the models show](#8-limits-of-the-code-that-the-models-show)
9. [What is not modelled](#9-what-is-not-modelled)
10. [Plan](#10-plan)

## 1. The system

The aggregator pulls messages from Telegram, GitHub and a mailbox, writes them
into one table of Postgres under a dedup key (`source_system`, `external_id`),
downloads attachments to S3, embeds message texts into Qdrant, and offers a
read and search API. Everything that writes runs in Celery tasks over Redis.

```
 beat / POST /connectors/{source}/sync
        |  enqueue
        v
 Redis queue --> sync_connector(source) ---- reads cursor ----> Redis
                   |  connector.fetch() : Telegram | GitHub | IMAP
                   |  upsert_messages in session_scope --------> Postgres
                   |  -- commit --
                   |  connector.on_sync_committed() -----------> Redis cursor / \Seen flags
                   |  _enqueue_followups(message ids)
                   v
            download_attachments(id)        embed_message(id)
                   |  source -> S3                | row -> embedder -> Qdrant
                   v                              v
            S3 columns, status, error_log     vector of the message
```

The parts, the state each keeps, its operations, and what makes it correct:

| Part (code) | State | Operations | Hard about it | Correct when |
|---|---|---|---|---|
| Message store (`app/db/models.py`) | rows of messages and attachments; two unique constraints | read and written by all others | READ COMMITTED: two statements of a task see different states | one row for a key; no row without its bytes |
| Session scope (`app/db/session.py`) | an open transaction | begin, commit, rollback, close | an acknowledgement of a commit that is lost | all or nothing |
| Ingest service (`app/services/ingest.py`) | counters of one call | `upsert_messages` | statements of overlapping syncs interleave, lock each other's rows and deadlock; the generator raises half-way | counts equal rows; a batch is atomic; nobody waits for ever |
| Cursor store (`app/services/cursor.py`) | integers and strings in Redis | get, set | read by one sync while another writes | never past what is stored |
| Telegram connector (`app/connectors/telegram.py`) | staged offset | `fetch`, `on_sync_committed`, `resolve_file_url` | an offset confirms updates at the server for good; overlapping syncs write the cursor in any order | at least once; an edit is not lost |
| GitHub connector (`app/connectors/github.py`) | staged cursors, one for a repository | `fetch` by pages, `on_sync_committed` | pages of a listing that moves, the page cap, several cursors | no changed issue is passed over |
| Email connector (`app/connectors/email.py`) | UIDs to flag | `fetch` with uploads, `on_sync_committed` | S3 and IMAP have no transactions; keys that depend on a process | a flagged mail is stored |
| Sync task (`app/tasks/sync.py`) | Celery task with retries | `sync_connector`, `_enqueue_followups`, `sync_all_connectors` | a crash between any two of commit, cursor and fan-out | a stored message has its follow-ups |
| Celery set-up (`app/core/celery_app.py`) | queue | late acknowledgement, redelivery, beat | tasks run more than once, and at once | the tasks are idempotent |
| Download task (`app/tasks/attachments.py`) | ORM session | `download_attachments` | stale ORM state, partial failure, retries, overlap with syncs and with itself | each attachment is stored or its gap shows |
| Object storage (`app/services/storage.py`) | bucket | `ensure_bucket`, `upload_bytes` | fails in the middle; keys by file name | bytes before rows |
| Embedding task and vector store (`app/tasks/embeddings.py`, `app/vector/`) | collection in Qdrant | `embed_message`, `ensure_collection` | a stale text overwrites a newer vector; two tasks create the collection | the vector is that of the row in the end |
| Messages and search API (`app/api/v1/`) | none | list, get, search, trigger a sync | total and page are two statements; offsets over rows that come, go and move | pages neither skip nor repeat |

How they interact: `sync_connector` drives a connector's generator from inside
the ingest transaction, so a fetch that fails rolls back rows that were written
already; the cursor is only staged until the transaction has committed
(`on_sync_committed`); follow-up tasks are enqueued after that. Nothing keeps
two syncs of one source apart: beat enqueues them every 300 seconds
whether or not the last one ended, the API enqueues more, and retries and
redeliveries come on top. Nothing keeps the download tasks of a message apart
either. The overlap of such tasks is what most of the properties are about.

`PROJECT.json` lists the hazards one by one, at their lines.

## 2. The modules and the code

```
 AtomicIngest <==== implemented by ==== Ingest           Polling  <== implemented by ==+
     ^   ^                                ^               (contract of a connector)    |
     |   |                                | INSTANCE                                   |
 GitHubSync  EmailSync ...........  TelegramSync  .....................................+
                  |                       | follow-ups: one task each for a stored message
                  |            +----------+----------+
                  |            v                     v
                  |       Attachments            Embedding          MessageListing
                  |     (download tasks, S3)  (tasks, Qdrant,     (a client's walk while
                  |                              searches)          rows are committed)
                  +== implements Polling too
```

Each component has its theorems in a module `...Proofs` (TelegramSync has two, with
TelegramDeliveryProofs). `MC*.tla` hold the instances. Definitions that begin with *Mutant of* a definition are
plausible bugs of the code; each property is shown to notice one. Some operators
(`Released`, `NextOffset`, `Kept`, `Log`, `Flagged`, ...) name the one expression of an
action that such a bug would change.

**Conventions.** A message's content is a number, its version: `Upsert` replaces
all mutable columns (`_MUTABLE`) in one statement, so no property can tell more
of it. Row ids stand for keys. A failing call to a service, the loss of a worker
and other misfortunes are actions of their own, which may happen anywhere and a
bounded number of times. Variables marked *history* record what happened, for
the conditions of properties; no action reads them.

### AtomicIngest

What `upsert_messages` inside `session_scope` promises: `Sync(batch)` overlays
the table with the batch and reports the number of rows that are new.

### Polling (`app/connectors/base.py`)

What `BaseConnector` asks of a connector that polls, as an abstract specification of
three sets: items that arrived, items that are stored, and items the source has
been told to let go of. `Release` may only let go of what is stored, and nothing is
ever unstored or handed back. TelegramSync implements it with *released* as the
updates below the offset Telegram has confirmed, EmailSync with *released* as the mails
flagged `\Seen` (`PollsAsPromised` in both; that Telegram's cursor in Redis may go
backwards or get lost is no step of the contract).

### Ingest (`app/services/ingest.py`, `app/db/session.py`)

Sessions of several tasks over one table, statement by statement.

| Action | Code |
|---|---|
| `Begin` | entering `session_scope`, `UpsertResult()` |
| `Draw` | the `for` loop takes the next message from the generator |
| `Upsert` | `_upsert_message`: `INSERT .. ON CONFLICT DO UPDATE`, `xmax = 0`, the count; waits for the row lock of another transaction |
| `Commit` | end of the loop, `session.commit()`, `close()` |
| `Rollback` | an exception of the generator or of a statement; the process dies |
| `DeadlockVictim` | Postgres fails one statement of a circle of waits |

`writes[t]` is what transaction `t` has written and not committed; it is also its
set of row locks (`Holds`). `Deadlocked` looks for circles of any length. A key
that two messages of one batch share is written twice and counted as inserted
and then as updated, which is what `xmax` says. Attachment upserts touch no
column that counts depend on and are part of `Attachments`.

### TelegramSync (`app/tasks/sync.py`, `app/connectors/telegram.py`, `app/services/cursor.py`, `app/core/celery_app.py`)

The whole path of a sync, with the queue. It instantiates `Ingest` with the
workers as transactions.

| Action | Code |
|---|---|
| `Post` | Telegram gets an update: a message or edit (a key) or something else (`NoMessage`) |
| `Enqueue` | `sync_all_connectors`, `trigger_sync` |
| `Start` | the worker takes a task, opens the session, `fetch()` reads the cursor |
| `GetUpdates`, `GetUpdatesFails` | the HTTP call with its offset, `_check_response`; the offset may be confirmed at the server although the answer is lost |
| `DrawUpdate`, `SkipUpdate`, `UpsertMessage` | the loop over the result, `_normalize` |
| `CommitBatch`, `CommitUnheard` | the end of `session_scope`; an acknowledgement that is lost |
| `SyncFails`, `SyncDeadlocks` | exceptions inside the session which autoretry does not cover |
| `AdvanceCursor`, `AdvanceCursorFails` | `on_sync_committed`; its exception is logged and swallowed |
| `EnqueueFollowup`, `EnqueueFollowupFails` | `_enqueue_followups`, one id at a time |
| `Finish` | the task returns and is acknowledged |
| `Crash` | the worker is lost; the task comes back with its retry count (`acks_late`, `reject_on_worker_lost`) |
| `RedisLost` | Redis starts without its data: no cursor, no queue, and the tasks that run will not be delivered again (`forgotten`). `Volatile` turns it on |

`pc` follows `sync_connector`: *fetching* (session open, request sent), *writing*
(loop), *committed*, *fanning*. `confirmed` is Telegram's own state: an offset
confirms every update below it and those are never handed out again. The history variable
`contended` has the messages that two syncs had in their windows at once: one fetched an
update of it while another had fetched one and not committed (`Underway`).

### Attachments (`app/tasks/attachments.py`, `app/services/ingest.py` lines 50-104, `app/services/storage.py`)

One message. `SyncCommit` is the committed effect of a sync on it (the upsert
resets `processing_status` and `error_log`, adds attachment rows, keeps S3
columns). `LoadMessage` and `LoadAttachments` are the two statements of the
task's read (`lazy="selectin"`). `Download`, `Deny` and `Transient` are the ways
in which `_download_one` ends: bytes in S3, a note in `errors`, `RetryableError`
that leaves the session. A download of a file whose name another attachment of the message
has goes to the same object (`ObjectKey`). `Finish` commits as the ORM does it: a column is written
only if the new value differs from the *loaded* one, whatever the row holds
meanwhile. `TaskFails` is an error of S3 or Postgres, which the task does not retry.
The history variable `apart` says that no two tasks of the message ran at once.

### Embedding (`app/tasks/embeddings.py`, `app/vector/qdrant.py`, `app/vector/embeddings.py`, `app/api/v1/search.py`)

The tasks of several messages, the collection they share, and searches, which
create it too.

| Action | Code |
|---|---|
| `SyncCommit`, `EnqueueEmbed` | a sync stores the message, edited or as it was; `_enqueue_followups` for all rows it wrote |
| `LoadRow` | `embed_message` reads the row, in a session that is closed before it goes on |
| `Transient` | `TransientEmbeddingError` of the provider: `autoretry_for`, at most `MaxRetries` times |
| `EnsureCollection`, `CreateCollection` | the two requests of `ensure_collection` |
| `Collide` | the create is refused, since somebody else was faster; not an error that is retried |
| `Upsert` | the point of the message's id is replaced |
| `TaskFails`, `Crash` | any other error ends the task; a lost worker's task comes back. The call under way may have taken effect (`Unheard`) |
| `Search`, `Answer`, `SearchFails` | a request of `GET /search`, through the same `EnsureCollection` and `CreateCollection` |

A vector is the version of the text it was made of. History: `overlapped` (the last
task of a message started beside another of it), `dropped` (a task of the message
failed for good, and none succeeded since) and `collided`.

### MessageListing (`app/api/v1/messages.py`)

A client that walks through all pages of `GET /messages` with some filters while
syncs and download tasks commit. `Count` and `Read` are the two statements of a
request. `Commit(rows, match, times)` is any commit between two statements: it writes some
rows, after which those of `match` match the filters, and gives them new values of
`source_created_at`, which is one of the columns every upsert writes
(`_MUTABLE_MESSAGE_FIELDS`; two mails of one Message-ID need not have one Date). `Before` is
`ORDER BY source_created_at DESC NULLS LAST, id DESC` over the times of that moment,
`IsPage` is OFFSET and LIMIT, said as: `skipped` and `skipped \cup page` are the first rows
of that order. The client is not in the repository: it stops at a short page or when it
has as many rows as the last total says (`byTotal`). History: `steady` (rows that have matched
since the walk began, with the time they had then), `pushed` (rows began to match or moved
to the front), `pulled` (rows ceased to match or moved to the back) and `slipped` (one began
to match since the last count).

### GitHubSync (`app/connectors/github.py`, `app/services/cursor.py`, `app/tasks/sync.py`)

`Create` and `Update` change issues and pull requests of a repository at the
second `clock` (`Bulk` allows several changes in one second, `Drift` allows
changes while a sync is running). `Page(r, s, p)` is what GitHub answers: newest
first without `since`, oldest update first with it. `Ask` reads the cursor for
each request (`_params` does), `NextPage` and `LastPage` consume the answer and
obey `PER_PAGE` and `MAX_PAGES`; `LastPage` stages the cursor. `Commit`, then
`AdvanceCursor` once for each staged repository, in order, then `Finish`.
`Fail` covers exceptions and lost workers at any of these places; a retry or a
redelivery is a later `Start`. The history variable `moved` has the repositories
whose listing moved under a sync: one that changed while a sync was `Engaged` with it,
or of which a page was asked for with a later cursor than the page before.

### EmailSync (`app/connectors/email.py`, `app/tasks/sync.py`, `app/services/storage.py`)

`Fetch` searches UNSEEN, keeps the first `Limit` and peeks at them (a refused
fetch is passed over). `Normalize` notes the UID, uploads the attachment and
writes the row into the transaction: `_normalize` uploads while the generator is
being consumed, so S3 changes before the commit. `Commit`, then `MarkSeen` one
mail at a time (`MarkRefused`: nobody looks at the answer of `uid("store")`).
`FailAfterPut` fails between upload and row. `Refuse` is the mail whose row Postgres
rejects every time (constant `Refused`): its batch is rolled back, and no retry helps.
`Restart` starts a container anew, which changes the salt of `hash(raw)`, the key of
a mail without Message-ID (`Key`). The history variable `unflagged` has the mails without
Message-ID that a restart found stored and not flagged.

## 3. The runs

Eight runs pass; four end in a violation and are explained in section 7. Run one
with `tlc -workers 2 -config X.cfg M`.

| Run (module, configuration) | Instance | What it shows |
|---|---|---|
| `ingest` (MCIngest, Ingest.cfg) | 3 transactions, 3 keys, batches of up to 2 | The counts of an open transaction are always the rows its commit will create (`HonestCounts`); the reported counts add up to the rows of the table (`ReportedMatchesRows`); a sync is atomic (`IngestIsAtomic`, a refinement of AtomicIngest); deadlocks of two and three transactions are resolved and every session ends (`SessionsEnd`). |
| `telegram_overlap` (MCTelegramSync, TelegramOverlap.cfg) | 2 workers, 2 messages, 3 updates in windows of 2, one retry, one failed call or one loss (`OneMishap`) | Updates that no sync will ask for again have a row (`AtLeastOnce`), although overlapping syncs move the cursor back and forth. Their follow-ups are enqueued or about to be, unless a worker or broker connection is lost (`FollowupsUnlessLost`). Edits that Telegram has dropped are in the table (`EditsSurviveApart`) and no commit writes an older version (`ContentNeverGoesBack`), for each message that was not in the windows of both syncs at once. |
| `telegram_single` (MCTelegramSync, TelegramSingle.cfg) | 1 worker, the same, 2 failed calls, one loss of a worker or of all that Redis holds | Without overlap, when no message is `contended`, edits that Telegram has dropped are in the table (`EditsSurviveApart`), re-fetched windows never write an older version (`ContentNeverGoesBack`), also after more failures than the run above has and the loss of Redis; an update is let go of only once it is stored (`PollsAsPromised`, a refinement of Polling), and every update is stored in the end (`EveryUpdateStored`), those of tasks that gave up or were forgotten included. |
| `attachments` (MCAttachments, Attachments.cfg) | 2 workers, 2 attachments, 3 syncs, 1 retry, 2 transient failures, 1 crash, 1 outage | A message with a missing attachment shows as an error (`GapSurfacedIfSpared`), and its log names the attachment (`Accounted`); rows point at objects that are there (`StoredMeansBytes`), with their own bytes where file names differ, as here (`RightBytes`), and keep pointing (`NeverClobbered`); every attachment is stored or shows in the end (`AttachmentsSettle`). |
| `github` (MCGitHubSync, GitHub.cfg) | 2 workers, 2 repositories, 3 issues of which one is a pull request, 3 changes of which several may share a second, 2 pages of 1, 1 failure | No changed issue gets below the cursor without being stored as it is, unless the listing moved under a sync (`NothingSlipsIfStill`): here, where nothing changes while a sync runs, only by the cursor of the other sync. The page cap and a failure between the two cursors only delay (`EveryChangeStored`). |
| `email` (MCEmailSync, Email.cfg) | 2 workers, 4 mails (one without Message-ID, two with the same, one that Postgres refuses), limit 2, 1 restart, 2 failures | A flagged mail has its row (`SeenMeansStored`) and flags and rows stay (`PollsAsPromised`); rows lead to the bytes of their mail (`RowsHaveBytes`); no mail has two rows unless a restart found it stored and not flagged, and none does without a failure (`OneRowPerMail`); every mail is stored in the end (`EveryMailStored`). |
| `embedding` (MCEmbedding, Embedding.cfg) | 2 workers, 1 search at a time, 2 messages, 3 syncs, 1 retry, 2 transient failures, 1 other failure | When the tasks of a message are through, it has a vector (`Findable`), and it is that of the text in its row (`Current`); tasks fail for good only for the causes the code has (`DroppedForCause`); the race for the collection is over once it exists (`CreatedOnce`); every stored message becomes searchable (`EveryMessageEmbedded`). |
| `listing` (MCMessageListing, Listing.cfg) | 4 messages, each of two times or without one, pages of 2, 2 commits of one row in a walk, any rows with any times to begin with | A walk passes over no row that kept matching and kept its time, if no row ceased to match or moved to the back (`NothingMissed`), and meets none twice, if no row began to match or moved to the front (`NothingRepeated`), whatever is committed between two statements. |
| `telegram_edits_lost` | 2 workers, 1 message, 2 updates, no failure | violates `EditsSurvive` |
| `telegram_followups_lost` | 1 worker, 1 message, 1 crash | violates `FollowupsAtLeastOnce` |
| `attachments_outage` | 1 worker, 1 outage | violates `GapSurfaced` |
| `github_drift` | 1 worker, pages of 2, changes while paging | violates `NothingSlips` |

Several properties hold under a condition, which is stated in the property and
not in the model, and which happens and does not happen in its run:

* `FollowupsUnlessLost`: no worker and no broker connection was lost
  (`telegram_followups_lost` shows why).
* `GapSurfacedIfSpared`, `AttachmentsSettle`, `Accounted`: `Spared`, no call of S3 or Postgres
  failed and transient failures do not outnumber the retries (`attachments_outage`).
  `Accounted` also asks that no two tasks of the message have overlapped.
* `EditsSurviveApart`, `ContentNeverGoesBack`: no two syncs had the message in their windows
  at once (`contended`; `telegram_edits_lost` shows why). The message is excused, not the
  behaviour: overlapping syncs must keep all others.
* `OneRowPerMail`: no restart found the mail stored and not flagged (`unflagged`; section 7
  shows why), and as long as nothing failed none does. `RowsHaveBytes`: no other mail has that
  object key. `RightBytes`: bytes of a namesake count as well.
* `EveryMailStored`: no mail that Postgres refuses has come up in a batch (`Blocked`).
* `NothingSlipsIfStill`, `EveryChangeStored`: the listing of the repository never moved under a
  sync (`moved`). `github_drift` and section 7 show why.
* `EveryChangeStored`: no second of the repository holds as many changes as a capped
  sync can list (`Crowded`). `LeftOut` in it and in `NothingSlips` are issues older than the
  first, capped backfill, which is not meant to reach them.
* `Findable`, `EveryMessageEmbedded`: no task of the message failed for good since its last
  vector. `Current` also asks that the last task started beside no other.
* `NothingMissed`: no row ceased to match or moved to the back during the walk, and, for a
  client that trusts the total, none began to match between the last two statements.
  `NothingRepeated`: no row began to match or moved to the front. Both speak of rows that
  kept matching and kept their times (`steady`): a row that moves itself may well be missed
  or met twice.

The run `github` has no changes while a sync runs (`Drift = FALSE`), which keeps liveness
within TLC's reach; `moved` holds what the other sync does to the listing. The same
instance with `Drift = TRUE` was checked as well (section 4), and the theorem needs neither.
`EditsSurvive`, without the exception for contended messages, is what the code claims and
`telegram_edits_lost` refutes.

Deadlock is checked except where the modelled system really stops: the
configurations of Attachments, where the number of syncs of the message is
bounded, end with all tasks done. In the others a sync, a search or a walk can
start at any time.

## 4. Bounds

TLC needs the model finite; these constants, and the constraint `OneMishap` of one run, bound
it and do nothing else.

* *Transactions and workers: 3 in Ingest, 2 elsewhere.* Two give every race of a
  pair; three give circles of waits that are no pair, and a third transaction
  that waits for both others.
* *Ingest: 3 keys, batches of 2, one version.* Two keys make the pairwise
  deadlock and three the circle of three; a batch of two has the duplicate
  within a batch and the half-written batch. The version of a row takes no part
  in counts, locks or atomicity of which keys appear; TelegramSync, which uses the
  same module, has as many versions as updates.
* *Telegram: 3 updates, window 2.* The smallest instance where a window does not
  hold everything, two windows overlap in part, and a message has an original
  and an edit in different windows. `MaxRetries = 1` has both outcomes of
  a failure, the retry and the task that gave up. `MaxQueue = 1` bounds fresh
  syncs only; retries and redeliveries come on top. Redis loses its data in the run
  with one worker, where the order of versions is checked as well. With two workers,
  `OneMishap` cuts the behaviours in which a failed call and a loss both happen; the run passed
  without it too (4,370,000 states).
* *Attachments: 2 attachments, 3 syncs.* One attachment can be done and the other
  refused or late; one sync before, one during and one after a task. Two transient
  failures for one retry, so that tasks do give up, and so that `Spared` is false
  in some behaviours and true in others.
  Namesakes make sense only beside a third attachment, whose name is its own. That instance was
  checked as well, with 2 syncs and 1 transient failure (470,869 states): the namesakes' object
  has the bytes of either, and the third one's its own.
* *Embedding: 2 messages, 3 syncs, 1 search.* Two messages share a collection and
  race for it; a message with two syncs has an old and a new text, and tasks
  of both. Transient failures exceed the retries here too. A second search adds
  nothing that a task and a search do not do to each other.
* *Listing: 4 messages, pages of 2, 2 commits of one row.* Three pages, the last one empty, or
  two with a short last one; all subsets of the messages and all times to begin with, so that
  walks of any length occur; rows of one time, and rows without, fall on both sides of the end
  of a page; two commits can undo each other, or move two rows past each other. A commit of
  two rows is two commits with no statement of the walk between them.
* *GitHub: 3 issues, 3 changes, 2 pages of 1.* More issues than a capped sync
  can list, updates on top of creations, several in one second, and a
  pull request, which only moves the cursor. The order *oldest first* of a
  capped listing can matter only from four changes on, and a cursor that moves between
  pages from five. Two larger instances were checked as well: this one with `Drift = TRUE`,
  with liveness (1,890,834 states), and one repository with 5 issues, 5 changes, 3 pages of 1 and
  a failure (1,253,644 states). The inductive invariant of the proof was checked on
  the second and, without a failure, on the first, before it was proved.
  Pages of 2 in the drift run, since the gap opens in the middle of a page.
* *Email: 4 mails, limit 2.* More than two polls' worth with two polls at once; the
  refused mail comes last, so that it shares a batch in some behaviours, is alone
  in others, and comes after all others are stored in some.
* *Failures, crashes, outages: one or two.* One at every place; two where the
  second one could hit the recovery from the first. Those bounds are also what
  makes liveness meaningful: services fail finitely often.

The largest instances are `telegram_overlap` with 1,779,000 distinct states and `listing` with
820,000; `embedding` and `github` have about 450,000 each, `attachments` 323,000. Each run ends
within a few minutes.

## 5. Fairness

* *Telegram.* `WF(Enqueue)`: beat fires for ever. `WF(Proceed(w))`: a worker that
  can go on without waiting for another does. `SF(UpsertMessage(w))`: the row lock
  it waits for may be taken and freed over and over; Postgres queues waiters, so
  that it gets its turn. Failures, crashes and posts are not fair. Autoretry's
  backoff is a delay before a task can be taken, which weak fairness covers.
* *Ingest.* `SF(Upsert(t))` for the same reason, `WF(Commit(t))` since a generator that
  is exhausted leads to the commit, `WF(DeadlockVictim(t))` since Postgres looks for
  deadlocks after `deadlock_timeout`. `Draw` is not fair: nothing makes a connector
  yield.
* *Attachments, Embedding.* `WF(EnqueueDownload)`, `WF(EnqueueEmbed(m))` and `WF(Work(w))`: a
  committed sync goes on to its fan-out (TelegramSync has the ways in which it does
  not), and queued tasks are run. Searches are not fair: nobody has to search.
* *GitHub, email.* `WF(Proceed(w))`, which includes the start of a sync: beat. In email
  it goes with `Refuse(w, u)`: a sync that draws a refused mail fails and does not
  stay where it is.
* *Listing.* None; its properties are about what happened, and a client may stop.

## 6. The proofs

The `*Proofs` modules prove, with TLAPS, for every value of the constants that
satisfies the named assumption of the module (`IngestAssumption` and so on: the
set of keys is finite, bounds are natural numbers, page and window sizes are
positive; nothing is assumed of the number of workers, messages or failures):

| Theorem | Says |
|---|---|
| Ingest: `TypeCorrect`, `CountsAreHonest`, `ReportsMatchTable` | `TypeOK`, `HonestCounts` and `ReportedMatchesRows` are invariants |
| Ingest: `Refinement` | `Spec => IngestIsAtomic`: upsert statements in a session implement AtomicIngest |
| TelegramSync: `TypeCorrect`, `PollingIsAtLeastOnce` | `TypeOK` and `AtLeastOnce` are invariants, loss of Redis's data included |
| TelegramSync: `ImplementsPolling` | `Spec => PollsAsPromised`: the pipeline implements Polling |
| TelegramSync (TelegramDeliveryProofs): `FollowupsUntilLoss` | `FollowupsUnlessLost` is an invariant |
| TelegramSync (TelegramDeliveryProofs): `EditsSurviveOverlap`, `ContentGrows` | `EditsSurviveApart` is an invariant and `ContentNeverGoesBack` holds of every step, for any number of overlapping syncs |
| TelegramSync, GitHubSync, EmailSync: `ImplementsIngest` | `Spec => DB!Spec`: what the pipeline does to the table are transactions of AtomicIngest |
| Attachments: `TypeCorrect`, `BytesBeforeRows`, `S3ColumnsStay`, `GapsAreSurfaced` | `TypeOK`, `StoredMeansBytes` and `GapSurfacedIfSpared` are invariants, and `NeverClobbered` holds of every step |
| Attachments: `EveryGapIsNamed`, `FilesKeepTheirBytes` | `Accounted` and `RightBytes` are invariants, the latter whatever the file names |
| EmailSync: `TypeCorrect`, `PollingIsAtLeastOnce`, `BytesBeforeRows` | `TypeOK`, `SeenMeansStored` and `RowsHaveBytes` are invariants |
| EmailSync: `ImplementsPolling` | `Spec => PollsAsPromised` |
| EmailSync: `RowsAreUnique` | `OneRowPerMail` is an invariant, failures and restarts included |
| GitHubSync: `TypeCorrect`, `NothingSlipsBetweenSyncs` | `TypeOK` and `NothingSlipsIfStill` are invariants, for any number of syncs at once, with changes at any time |
| Embedding: `TypeCorrect`, `MessagesAreFindable`, `VectorsAreCurrent`, `FailuresHaveCauses`, `CollectionIsCreatedOnce` | `TypeOK`, `Findable`, `Current` and `DroppedForCause` are invariants, and `CreatedOnce` holds of every step |
| Embedding: `HitsAreStored` | a point of Qdrant always has its row (`HitsHaveRows`), so that `search` never has to pass over a hit |
| MessageListing: `TypeCorrect`, `WalksAreComplete`, `WalksDoNotRepeat` | `TypeOK`, `NothingMissed` and `NothingRepeated` are invariants |

The arguments, each through an inductive invariant, `IInv` in the component's module or, for
GitHubSync and the second part of TelegramSync, in the module of proofs, where it quantifies
over all numbers:

* **Ingest.** `HonestCounts` alone is not inductive: if two transactions could
  have written one new row, the commit of one would make the other's count wrong.
  `IInv` adds `ExclusiveWriters`, which the wait in `Upsert` keeps. With it a commit
  changes no other transaction's new rows, `inserted` is their number, and
  `reported` grows by exactly the rows that appear. The refinement maps
  `Commit(t)` to `Sync(writes[t])` and everything else to a stutter; that the
  reported number is right is where it needs `IInv`.
* **TelegramSync.** `AtLeastOnce` speaks of two numbers, the cursor and what Telegram
  has confirmed, both of which come from a worker's window a long while before. `IInv`
  therefore says of *every* number that can become one of them that all updates
  below it are stored (`Covered`): the offset of a fetching worker, the start of a
  writing worker's window, the end of a committed one's. In between, a writing
  worker has what it passed in its transaction or in hand (`InHand`), which `Commit`
  turns into rows. Rows never disappear, so `Covered` is stable under the steps
  of others; the cursor that Redis forgets is 0, which covers nothing. For
  `PollsAsPromised`, `GetUpdates` is the step that releases: it confirms an offset that is
  `Covered`. Posts arrive, commits store, and no step does two of these.
* **Follow-ups of Telegram.** `FollowupsUnlessLost` again speaks of the cursor and of what
  Telegram has confirmed, and `FollowupsKept` of every number that can become one of them,
  for as long as nothing was lost: each update below it has been followed, or a worker
  *will follow* it (`WillFollow`). The start of a writing or committed worker's window is
  such a number, not its end: the worker itself is what stands between the two, until
  `MoveCursor` takes it to its fan-out. A task that fails before that gives up only
  updates that are not below any of these numbers.
* **Edits of Telegram.** `ContentIInv` speaks of the messages that are not contended, for any
  number of syncs. As in `AtLeastOnce`, every number that can become the cursor or an offset has
  below it only updates of which the row is as new or newer (`Fresh`). What failed tasks and
  overlapping ones leave behind is the danger: a commit may have stored versions that are
  newer than the next window begins with. Every stored version is therefore below the confirmed
  offset plus the size of a window (`RowsOK`), so that the next window reaches past all of them;
  a writing worker's window reaches past the row of each message that it has to itself
  (`WindowOK`), which the commits of others leave alone since windows of two writing workers
  share contended messages only (`Apart`); and the version a transaction ends with is the latest
  one up to the end of its window (`Latest`).
* **Attachments.** A gap can only go unnoticed if the last task to end neither stored
  nor noted it. `IInv` says that the row is settled or somebody will settle it
  (`InProgress`): a sync that owes a task, a queued task, or a running one that has
  seen every pending attachment and whose loaded status and log are not newer than
  the row's, so that the ORM will write what it must (`WillSettle`). A sync that
  resets the row meanwhile owes a new task, a crash puts the task back, and
  `RetriesCounted` gives that no spared task runs out of retries. For `Accounted` a
  task that runs apart moreover finds the row as it loaded it, or another task
  is to come (`ApartExplains`). `BytesFirst` carries `StoredMeansBytes` through sessions
  that have not committed. For `RightBytes`, what is put under a key comes from an attachment
  with that key, and keys are equal only for namesakes.
* **EmailSync.** `IInv` follows the noted UIDs: in the transaction until the commit, in
  the table from then on (`Noted`). `BytesInv` says of open transactions what
  `RowsHaveBytes` says of the table: an upload comes before its row, and uploads of
  others under that key put the same bytes. `MailboxInv` keeps what is noted among what
  has arrived, which the contract needs. For `OneRowPerMail`, `KeysInv` says of each mail that no
  restart found stored and not flagged that, if it is stored under the key of an earlier
  container, it is flagged (`TableOK`), so that no sync has it in its window, and that what is in
  a transaction has keys of the present container (`SyncOK`), since a restart that kills no task
  waits for those that run. `FlagsInv` adds that as long as nothing failed what is stored is
  flagged or about to be, so that a restart finds no such mail.
* **GitHubSync.** That nothing slips below a cursor rests on what a sync knows in the middle
  of its pages. A sync with `since` has passed a prefix of a listing in order of updates
  (`CatchingUp`): what is older than `since` was held already, what is on the pages seen or
  older than the newest of them is in its transaction. A lower cursor, which another sync
  may write, only lengthens the listing (`LaterSinceFirst`); a later one numbers the pages
  over another listing, and the repository is in `moved`. A backfill has only seen the issues
  created last (`BackFilling`); its cursor is the newest time on them, and two backfills
  that overlap agree on it (`ReachesOne`), or the second one would move the cursor past what
  the first left out. A staged cursor is then safe to write once the transaction is
  committed (`StagedInv`), in any order with the cursors of other syncs. Beneath it lie
  lemmas about the pages, for any page size: ranks in a finite strict order are
  0, 1, 2, ... without gaps (`Ranking`), so a page before a listed issue is full
  (`FullPage`), a page that is not full is the last one (`ShortPageIsLast`), and pages with
  `since` leave no older issue behind (`OldestFirst`).
* **Embedding.** A message without its vector is still in progress, or dropped (`HasPoint`);
  a message whose vector is old is in progress, dropped or overlapped (`IsFresh`). What
  carries the second one is `RunsAlone`: unless tasks overlapped there is one task of the
  message at most, and it has read the row as it is, or another is to come, since
  the sync that changed the row owes one.
* **MessageListing.** `SeenBefore` says that the first `offset` rows of what matches *now*, in
  the order of now, hold no steady row that was not seen: a row that appears or moves to the
  front only pushes others back. `GotFirst` is the converse for walks in which none did. Both
  rest on the order being total at each moment, so that the first rows of one number are the
  same set (a chain of lemmas on `First`), and on what a commit does to it: two rows that keep
  their times keep their order.

Only model-checked are the liveness properties (`SessionsEnd`, `EveryUpdateStored`,
`AttachmentsSettle`, `EveryChangeStored`, `EveryMailStored`, `EveryMessageEmbedded`), which are
out of TLAPS's reach together with ENABLED. Every safety property of a passing run is
stated by a theorem, and no theorem has an assumption besides the named one of its module:
none restricts the number of workers, what overlaps, or what changes meanwhile. What the code
does not keep under overlap is excused message by message, mail by mail or repository by
repository, by the history variables that the properties name. One limit of the composition of
proofs remains: a theorem about `Ingest` cannot be cited through the `INSTANCE` in TelegramSync,
whose proofs therefore carry the facts about row locks themselves.

## 7. Disagreements between the code and what is said of it

1. *Overlapping Telegram syncs lose an edit* (`telegram_edits_lost`). `app/tasks/sync.py`
   lines 5-6 and `README.md` line 45 say that a window may be processed again safely.
   It may not while another sync runs: A fetches update 1 (a message), the
   message is edited, B fetches 1 and 2 and commits the edit, A commits the
   original over it and writes its cursor, and B writes its own last. The next
   poll sends B's offset, which confirms the edit at Telegram, and the row keeps
   the old text.
2. *Follow-ups are lost with a worker* (`telegram_followups_lost`). `app/schemas/message.py`
   lines 21-22 promise that the download task stores attachments later.
   The cursor moves before the fan-out (`app/tasks/sync.py` lines 57 and 62), so the
   redelivered task finds an empty window and enqueues nothing.
3. *One S3 failure ends a download for good* (`attachments_outage`). `app/tasks/attachments.py`
   lines 11-14 say that transient network problems are retried; errors of `ensure_bucket`
   and `upload_bytes` are not `RetryableError`, and nothing shows the gap.
4. *GitHub pages drift* (`github_drift`). `app/connectors/github.py` lines 3-5 say that every later
   sync walks updates oldest-first so that changed issues are fetched. An update
   between two page requests moves an issue to the end of the listing and the
   first issue of the next page onto the page that was fetched already; the
   cursor then moves past it.

Two more are reproduced by changing constants of an instance:

5. *Overlapping GitHub syncs pass over issues*, with no change at all and no failure: `_params`
   reads the cursor for every page (`app/connectors/github.py` line 78). A sync that has fetched
   page 1 asks for page 2 with the cursor that another, capped sync has moved on meanwhile, and
   skips a page of the new listing; then its own cursor passes what it skipped. Lines 3-5 claim
   the same as above. The proof of `NothingSlipsBetweenSyncs` found this; `MCGitHubSync` shows it
   with `TwoWorkers`, `OneRepo`, `PerPage = 1`, `MaxPages = 3`, 5 issues, 5 changes, `Drift` and `Bulk`
   off, no pull request, no failure and `INVARIANT NothingSlips` (32 states, in ten seconds).
6. *A mail gets a second row.* `README.md` line 45 says that running a sync again is a no-op on data.
   A mail without Message-ID is keyed by `hash(raw)` (`app/connectors/email.py` line 149), which
   every Python process salts anew: if the task fails between its commit and the flag, and the
   worker restarts, the mail is inserted again under another key. `MCEmailSync` shows it in 12
   states if `OneRowPerMail` is asked for all of `Mails`.

## 8. Limits of the code that the models show

These have no run of their own; each is a condition of a property, which fails without it. For
most of them the repository says nothing to the contrary; where it can be read so, it is noted.

* Tasks of a message that overlap overwrite each other's `error_log`, so that a refused
  file may be named nowhere (`apart` in `Accounted`). That the message shows as an error
  at all is `GapSurfacedIfSpared`, which holds.
* A task whose retries run out on one attachment takes its notes on the
  others with it: the rollback of `RetryableError` undoes them (`Spared`).
* Two attachments of a message with one file name share an object: the row of one leads to
  the bytes of the other (`Namesakes` in `RightBytes`).
* As many changes in one second as `MAX_PAGES * PER_PAGE` stop a repository's cursor for
  ever (`Crowded`): `since` includes the cursor's second, and each sync lists the same issues. The
  comment in `app/connectors/github.py` lines 81-82, that the cap "still makes forward progress
  every run", does not hold of such a second.
* A mail whose row Postgres refuses, for a NUL character in its body or a header that is
  longer than its column, blocks the mailbox as soon as it is among the first
  `imap_max_messages` unseen ones: every sync fails at it, and mails of its batches and
  behind it are not stored (`Blocked`).
* Mails without Message-ID share the object prefix `no-id`: equal file names share
  an object. `RowsHaveBytes` leaves out attachments that share their key.
* Whoever loses the race for the collection fails for good: a task leaves its message
  without a vector until a sync stores it again (`collided`, `dropped`). It happens at first use
  only (`CreatedOnce`).
* Embedding tasks of one message that overlap may leave the vector of the older text
  (`overlapped`), until a sync stores the message again.
* A client that trusts `total` may stop a page too early, and rows that leave the filter
  while it walks, such as `status=normalized` when a download fails, or that get an earlier
  `source_created_at`, make it pass over others (`slipped` and `pulled` in `NothingMissed`).

## 9. What is not modelled

* *The loss of a GitHub cursor with Redis*: the next sync is a first run again, by time of
  creation and capped, and moves the cursor past updates of older issues. Nothing in the code
  promises otherwise, so there is no property to check. TelegramSync has the loss of Redis's
  data, and there it does no harm.
* *A change of the embedding provider to another dimension*: the code has no step for
  it (`README.md` lines 112-113 ask for a fresh collection).
* *Two tasks that create the bucket*: the models assume that it exists from the start.
  `minio-init` of `docker-compose.yml` makes it, but `depends_on` lets the workers start without
  waiting for that: a task that comes first creates the bucket in `ensure_bucket`, and two that
  come first may collide, which would be one more `TaskFails`.
* *Visibility timeout of the broker*: Celery over Redis redelivers a task that runs
  for more than an hour. It would be one more overlapping task.
* *Backoff delays*: a retry is taken at any time.
* *MIME parsing, message texts, HTTP status codes and JSON shapes, distances of
  vectors*: the models have the outcomes (a message or none, a retryable error or
  another, a vector of this text or that).
* *Which provider embeds and what a hash vector holds* (`app/vector/embeddings.py`): the model
  has when it fails and that its vector is a function of the text.
* *Registry, schemas, configuration, logging, application set-up, migrations,
  deployment*: they keep no state that a property here speaks of.

## 10. Plan

Done, in this order: Ingest with its abstract specification and proofs;
TelegramSync and Attachments with their proofs; GitHubSync; EmailSync and its proof;
Polling, the contract that TelegramSync and EmailSync implement; Embedding and MessageListing
with their proofs; the loss of Redis's data; refused mails; the proofs of GitHubSync, of the
follow-ups and edits of TelegramSync, of unique rows in EmailSync, and of AtomicIngest for the
three pipelines. To come:

1. **Pipeline**: TelegramSync's follow-ups driving Attachments and Embedding for several
   messages, so that a source's attachment ends in S3 or as a visible error.
2. **GitHubSync with a Redis that loses its data**, once there is a promise to check it against.
