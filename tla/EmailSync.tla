------------------------------ MODULE EmailSync ------------------------------
(***************************************************************************)
(* sync_connector("email"): the connector that polls a mailbox for UNSEEN  *)
(* mails, uploads their attachments while it yields them, and flags them   *)
(* \Seen only after the commit (app/connectors/email.py).  The ingest      *)
(* transaction is taken in the abstract form that Ingest implements        *)
(* (AtomicIngest), but S3 knows no transactions: what a sync uploaded      *)
(* stays when its rows are rolled back.                                    *)
(*                                                                         *)
(* A sync may start at any time, as in GitHubSync; what fails is undone    *)
(* and comes back as a later start.  The mailbox is the connector's own:   *)
(* nobody else flags or deletes mails.                                     *)
(***************************************************************************)
EXTENDS Naturals, FiniteSets

CONSTANTS
    Workers,    \* Celery worker processes
    MaxMails,   \* bound: mails that arrive, numbered by their UIDs
    Ids,        \* values of the Message-ID header, and NoId
    NoId,       \* a mail without one
    MessageId,  \* the Message-ID of each mail
    Object,     \* key its attachment has in S3, or NoObject: without one
    NoObject,
    Refused,    \* mails whose row Postgres refuses, whenever it is written
    Limit,      \* settings.imap_max_messages
    MaxBoots,   \* bound: restarts of the worker container
    MaxFaults   \* bound: calls that fail or are refused, and tasks killed

Mails == 1..MaxMails

ASSUME EmailAssumption ==
    /\ MaxMails \in Nat
    /\ IsFiniteSet(Ids) /\ NoId \in Ids
    /\ MessageId \in [Mails -> Ids]
    /\ DOMAIN Object = Mails
    /\ Refused \subseteq Mails
    /\ Limit \in Nat \ {0}
    /\ MaxBoots \in Nat
    /\ MaxFaults \in Nat

VARIABLES
    arrived,   \* number of mails that arrived; 1..arrived are in the mailbox
    seen,      \* mails flagged \Seen
    objects,   \* the bucket: the mail whose bytes each key holds
    boots,     \* restarts of the worker container so far
    unflagged, \* history: mails without Message-ID that were stored and not
               \* flagged when it restarted
    pc,        \* where in sync_connector each worker is
    window,    \* mails fetched and not yet yielded
    pending,   \* _pending_uids: mails yielded, to be flagged after the commit
    batch,     \* its transaction: the mail it wrote under each key
    faults

VARIABLES messages, reported

mailbox == <<arrived, seen>>
restarts == <<boots, unflagged>>
syncVars == <<pc, window, pending, batch>>
dbVars == <<messages, reported>>
vars == <<mailbox, objects, restarts, syncVars, faults, dbVars>>

Nobody == 0
Objects == {Object[u] : u \in Mails} \ {NoObject}

(* Keys of rows: the Message-ID, else no-id with the hash of the mail,     *)
(* that Python salts anew in every process it starts.  The processes of    *)
(* one container are forked from one and share their salt.                 *)
Keys == {<<i, 0, 0>> : i \in Ids \ {NoId}}
            \cup {<<NoId, u, b>> : u \in Mails, b \in 0..MaxBoots}

KeysOf(u) ==
    IF MessageId[u] = NoId THEN {<<NoId, u, b>> : b \in 0..MaxBoots}
                           ELSE {<<MessageId[u], 0, 0>>}

DB == INSTANCE AtomicIngest WITH Versions <- Mails

NoBatch == [k \in Keys |-> DB!NoRow]

Stored(u) == \E k \in KeysOf(u) : messages[k] # DB!NoRow

TypeOK ==
    /\ arrived \in 0..MaxMails
    /\ seen \subseteq Mails
    /\ objects \in [Objects -> Mails \cup {Nobody}]
    /\ boots \in 0..MaxBoots
    /\ unflagged \subseteq Mails
    /\ pc \in [Workers -> {"idle", "storing", "marking"}]
    /\ window \in [Workers -> SUBSET Mails]
    /\ pending \in [Workers -> SUBSET Mails]
    /\ batch \in [Workers -> DB!Batch]
    /\ faults \in 0..MaxFaults
    /\ messages \in DB!Batch
    /\ reported \in Nat

Init ==
    /\ arrived = 0
    /\ seen = {}
    /\ objects = [o \in Objects |-> Nobody]
    /\ boots = 0
    /\ unflagged = {}
    /\ pc = [w \in Workers |-> "idle"]
    /\ window = [w \in Workers |-> {}]
    /\ pending = [w \in Workers |-> {}]
    /\ batch = [w \in Workers |-> NoBatch]
    /\ faults = 0
    /\ DB!Init

-----------------------------------------------------------------------------
Arrive ==
    /\ arrived < MaxMails
    /\ arrived' = arrived + 1
    /\ UNCHANGED <<seen, objects, restarts, syncVars, faults, dbVars>>

Unseen == (1..arrived) \ seen

(* UNSEEN, the first of it: what a sync asks for.                          *)
Oldest == {u \in Unseen : Cardinality({v \in Unseen : v < u}) < Limit}

(* Mutant of Peeked: no PEEK, a mail is flagged \Seen when it is fetched.   *)
PeekedNot(mails) == seen \cup mails

(* The flags after mails were fetched with BODY.PEEK[].                    *)
Peeked(mails) == seen

(* fetch() searches, and peeks at every mail; one whose fetch the server   *)
(* refuses is passed over.                                                 *)
Fetch(w, refused) ==
    /\ pc[w] = "idle"
    /\ refused \subseteq Oldest
    /\ faults + Cardinality(refused) <= MaxFaults
    /\ faults' = faults + Cardinality(refused)
    /\ window' = [window EXCEPT ![w] = Oldest \ refused]
    /\ seen' = Peeked(Oldest \ refused)
    /\ pc' = [pc EXCEPT ![w] = "storing"]
    /\ UNCHANGED <<arrived, objects, restarts, pending, batch, dbVars>>

First(u, S) == u \in S /\ \A v \in S : u <= v

(* The key of the row that the worker would write for a mail.              *)
Key(u) == IF MessageId[u] = NoId THEN <<NoId, u, boots>> ELSE <<MessageId[u], 0, 0>>

(* Mutant of Put: the attachment is left to be uploaded later.             *)
PutLater(u) == UNCHANGED objects

Put(u) ==
    objects' = IF Object[u] = NoObject THEN objects
                                       ELSE [objects EXCEPT ![Object[u]] = u]

(* Mutant of ToFlag: the UID of a mail is not kept.                        *)
ToFlagNone(w, u) == pending[w]

(* _pending_uids with one mail more.                                       *)
ToFlag(w, u) == pending[w] \cup {u}

(* The loop draws the oldest mail of the window: its UID is noted, its     *)
(* attachment uploaded, its row upserted.                                  *)
Normalize(w, u) ==
    /\ pc[w] = "storing"
    /\ First(u, window[w])
    /\ u \notin Refused
    /\ pending' = [pending EXCEPT ![w] = ToFlag(w, u)]
    /\ Put(u)
    /\ batch' = [batch EXCEPT ![w][Key(u)] = u]
    /\ window' = [window EXCEPT ![w] = @ \ {u}]
    /\ UNCHANGED <<mailbox, restarts, pc, faults, dbVars>>

(* session_scope commits what the loop wrote.                              *)
Commit(w) ==
    /\ pc[w] = "storing"
    /\ window[w] = {}
    /\ DB!Sync(batch[w])
    /\ batch' = [batch EXCEPT ![w] = NoBatch]
    /\ pc' = [pc EXCEPT ![w] = "marking"]
    /\ UNCHANGED <<mailbox, objects, restarts, window, pending, faults>>

(* Mutant of Flagged: mails are numbered by their place in the mailbox as  *)
(* a list from 0, instead of by their UIDs.                                *)
FlaggedByPlace(u) == seen \cup {u - 1}

Flagged(u) == seen \cup {u}

(* on_sync_committed flags one mail after the other.                       *)
MarkSeen(w, u) ==
    /\ pc[w] = "marking"
    /\ First(u, pending[w])
    /\ seen' = Flagged(u)
    /\ pending' = [pending EXCEPT ![w] = @ \ {u}]
    /\ UNCHANGED <<arrived, objects, restarts, pc, window, batch, faults, dbVars>>

(* The server refuses a flag; nobody looks at its answer.                  *)
MarkRefused(w, u) ==
    /\ pc[w] = "marking"
    /\ First(u, pending[w])
    /\ faults < MaxFaults
    /\ faults' = faults + 1
    /\ pending' = [pending EXCEPT ![w] = @ \ {u}]
    /\ UNCHANGED <<mailbox, objects, restarts, pc, window, batch, dbVars>>

Finish(w) ==
    /\ pc[w] = "marking"
    /\ pending[w] = {}
    /\ pc' = [pc EXCEPT ![w] = "idle"]
    /\ UNCHANGED <<mailbox, objects, restarts, window, pending, batch, faults, dbVars>>

Reset(w) ==
    /\ pc' = [pc EXCEPT ![w] = "idle"]
    /\ window' = [window EXCEPT ![w] = {}]
    /\ pending' = [pending EXCEPT ![w] = {}]
    /\ batch' = [batch EXCEPT ![w] = NoBatch]

(* IMAP, S3 or Postgres fails, or the process dies: before the commit the  *)
(* rows are undone and the objects stay, after it the flags that are left  *)
(* are not set.                                                            *)
Fail(w) ==
    /\ pc[w] # "idle"
    /\ faults < MaxFaults
    /\ faults' = faults + 1
    /\ Reset(w)
    /\ UNCHANGED <<mailbox, objects, restarts, dbVars>>

(* The upload went through and its row did not.                            *)
FailAfterPut(w, u) ==
    /\ pc[w] = "storing"
    /\ First(u, window[w])
    /\ faults < MaxFaults
    /\ faults' = faults + 1
    /\ Put(u)
    /\ Reset(w)
    /\ UNCHANGED <<mailbox, restarts, dbVars>>

(* Postgres refuses the row of a mail every time, for a NUL character or a *)
(* header that is longer than its column: the batch fails with it.         *)
Refuse(w, u) ==
    /\ pc[w] = "storing"
    /\ First(u, window[w])
    /\ u \in Refused
    /\ Put(u)
    /\ Reset(w)
    /\ UNCHANGED <<mailbox, restarts, faults, dbVars>>

(* Postgres commits, but the task does not hear of it.                     *)
CommitUnheard(w) ==
    /\ pc[w] = "storing"
    /\ window[w] = {}
    /\ faults < MaxFaults
    /\ faults' = faults + 1
    /\ DB!Sync(batch[w])
    /\ Reset(w)
    /\ UNCHANGED <<mailbox, objects, restarts>>

(* The worker container is started anew, by a shutdown that waits for its  *)
(* tasks; one that kills them is a Fail of each and then this.             *)
Restart ==
    /\ boots < MaxBoots
    /\ \A w \in Workers : pc[w] = "idle"
    /\ boots' = boots + 1
    /\ unflagged' = unflagged \cup {u \in Mails \ seen : MessageId[u] = NoId /\ Stored(u)}
    /\ UNCHANGED <<mailbox, objects, syncVars, faults, dbVars>>

-----------------------------------------------------------------------------
Proceed(w) ==
    \/ \E refused \in SUBSET Oldest : Fetch(w, refused)
    \/ \E u \in Mails : Normalize(w, u) \/ MarkSeen(w, u) \/ MarkRefused(w, u)
    \/ Commit(w)
    \/ Finish(w)

Failure(w) ==
    \/ Fail(w)
    \/ \E u \in Mails : FailAfterPut(w, u) \/ Refuse(w, u)
    \/ CommitUnheard(w)

Next ==
    \/ Arrive
    \/ \E w \in Workers : Proceed(w) \/ Failure(w)
    \/ Restart

Spec == Init /\ [][Next]_vars

(* Beat starts syncs for ever, and a running one goes on unless it fails,  *)
(* IMAP, S3 and Postgres fail a bounded number of times.                   *)
FairSpec ==
    Spec /\ \A w \in Workers : WF_vars(Proceed(w) \/ \E u \in Mails : Refuse(w, u))

-----------------------------------------------------------------------------
(* Properties.                                                             *)

(* A mail that no sync will fetch again, since it is flagged \Seen, has    *)
(* its row: "the flag is set only after the sync task commits" (docstring  *)
(* of app/connectors/email.py), whatever fails and however syncs overlap.  *)
SeenMeansStored == \A u \in seen : Stored(u)

(* The connector polls as BaseConnector asks for: a mail is released, by   *)
(* its flag, only once it is stored, and neither is ever undone.           *)
Contract == INSTANCE Polling WITH stored <- {u \in 1..arrived : Stored(u)},
                                  released <- seen

PollsAsPromised == Contract!Spec

(* A mail has one row at the most, one without a Message-ID too, whose key *)
(* changes with every restart, unless it was stored and not flagged when   *)
(* the worker restarted; no mail is, as long as nothing fails: it is       *)
(* flagged before that, and overlapping syncs agree on its key.            *)
RowsOf(u) == {k \in KeysOf(u) : messages[k] # DB!NoRow}

OneRowPerMail ==
    /\ \A u \in Mails \ unflagged : Cardinality(RowsOf(u)) <= 1
    /\ faults = 0 => unflagged = {}

(* A row leads to the bytes of its mail's attachment, unless another mail  *)
(* has the same object key (_extract_attachments uploads before the row    *)
(* is written, and the key is the same for every fetch).                   *)
OwnObject(u) ==
    Object[u] # NoObject /\ \A v \in Mails : Object[v] = Object[u] => v = u

Uploaded(rows) ==
    \A k \in Keys : \A u \in Mails :
        rows[k] = u /\ OwnObject(u) => objects[Object[u]] = u

RowsHaveBytes == Uploaded(messages)

(* Every mail that arrives is stored in the end, more than a sync takes    *)
(* and those whose sync failed included, unless a mail that Postgres       *)
(* refuses comes up in a batch: it is never flagged, each sync fetches it  *)
(* again, and no mail is stored from then on.                              *)
Blocked == Oldest \cap Refused # {}

EveryMailStored == \A u \in Mails : u <= arrived ~> Stored(u) \/ Blocked

(* The inductive invariant behind SeenMeansStored: what a sync noted is in *)
(* its transaction until that commits, and in the table from then on.      *)
Noted(w) ==
    /\ pc[w] = "idle" => pending[w] = {}
    /\ pc[w] = "storing" =>
           \A u \in pending[w] : \E k \in KeysOf(u) : batch[w][k] # DB!NoRow
    /\ pc[w] = "marking" => \A u \in pending[w] : Stored(u)

IInv ==
    /\ TypeOK
    /\ SeenMeansStored
    /\ \A w \in Workers : Noted(w)

(* What RowsHaveBytes and PollsAsPromised rest on besides: the rows of an  *)
(* open transaction have their bytes too, and mails that syncs deal with   *)
(* have arrived.                                                           *)
BytesInv == RowsHaveBytes /\ \A w \in Workers : Uploaded(batch[w])

MailboxInv ==
    /\ seen \subseteq 1..arrived
    /\ \A w \in Workers : window[w] \cup pending[w] \subseteq 1..arrived
=============================================================================
