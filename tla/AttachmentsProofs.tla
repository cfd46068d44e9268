------------------------- MODULE AttachmentsProofs -------------------------
(***************************************************************************)
(* Proofs about Attachments, for any set of attachments and file names,    *)
(* any number of workers and any bounds.                                   *)
(***************************************************************************)
EXTENDS Attachments, TLAPS

USE AttachmentsAssumption
USE DEF AttachmentsAssumption, Kept, ObjectKey, Retry, Filled, Log, Redeliver

-----------------------------------------------------------------------------
(* Types.                                                                  *)

LEMMA LeaveTypes ==
    ASSUME TypeOK, NEW w \in Workers, Leave(w)
    PROVE  /\ pc' \in [Workers -> {"idle", "loading", "downloading"}]
           /\ retries' \in [Workers -> 0..MaxRetries]
           /\ loaded' \in [Workers -> [status : Statuses, error_log : SUBSET Atts]]
           /\ todo' \in [Workers -> SUBSET Atts]
           /\ done' \in [Workers -> SUBSET Atts]
           /\ errors' \in [Workers -> SUBSET Atts]
BY DEF TypeOK, Leave, Fresh, Statuses

LEMMA IdleTypes ==
    ASSUME TypeOK, UNCHANGED taskVars
    PROVE  /\ pc' \in [Workers -> {"idle", "loading", "downloading"}]
           /\ retries' \in [Workers -> 0..MaxRetries]
           /\ loaded' \in [Workers -> [status : Statuses, error_log : SUBSET Atts]]
           /\ todo' \in [Workers -> SUBSET Atts]
           /\ done' \in [Workers -> SUBSET Atts]
           /\ errors' \in [Workers -> SUBSET Atts]
BY DEF TypeOK, taskVars

(* A worker's queue operations stay within the retries there are.          *)
LEMMA QueueTypes ==
    ASSUME TypeOK, NEW r \in 0..MaxRetries,
           \/ queue[r] > 0 /\ queue' = [queue EXCEPT ![r] = queue[r] - 1]
           \/ queue' = [queue EXCEPT ![r] = queue[r] + 1]
           \/ queue' = queue
    PROVE  queue' \in [0..MaxRetries -> Nat]
<1>1. queue \in [0..MaxRetries -> Nat] /\ queue[r] \in Nat
    BY DEF TypeOK
<1>2. CASE queue[r] > 0 /\ queue' = [queue EXCEPT ![r] = queue[r] - 1]
    <2>1. queue[r] - 1 \in Nat
        BY <1>1, <1>2
    <2> QED
        BY <1>1, <1>2, <2>1
<1>3. CASE queue' = [queue EXCEPT ![r] = queue[r] + 1]
    <2>1. queue[r] + 1 \in Nat
        BY <1>1
    <2> QED
        BY <1>1, <1>3, <2>1
<1> QED
    BY <1>1, <1>2, <1>3

(* What Transient does to the queue.                                       *)
LEMMA RetryTypes ==
    ASSUME TypeOK, NEW w \in Workers, Transient(w)
    PROVE  queue' \in [0..MaxRetries -> Nat]
<1>1. retries[w] \in 0..MaxRetries
    BY DEF TypeOK
<1>2. CASE retries[w] < MaxRetries
    <2>1. retries[w] + 1 \in 0..MaxRetries
        BY <1>1, <1>2
    <2> QED
        BY <1>2, <2>1, QueueTypes DEF Transient
<1>3. CASE ~(retries[w] < MaxRetries)
    BY <1>1, <1>3, QueueTypes DEF Transient
<1> QED
    BY <1>2, <1>3

LEMMA WorkTypes ==
    ASSUME TypeOK, NEW w \in Workers, Work(w)
    PROVE  TypeOK'
<1>1. ASSUME NEW r \in 0..MaxRetries, LoadMessage(w, r)
      PROVE  TypeOK'
    <2>1. queue' \in [0..MaxRetries -> Nat]
        BY <1>1, QueueTypes DEF LoadMessage
    <2>2. /\ pc' \in [Workers -> {"idle", "loading", "downloading"}]
          /\ retries' \in [Workers -> 0..MaxRetries]
        BY <1>1 DEF TypeOK, LoadMessage
    <2>3. loaded' \in [Workers -> [status : Statuses, error_log : SUBSET Atts]]
        BY <1>1 DEF TypeOK, LoadMessage
    <2>4. apart' \in BOOLEAN
        BY <1>1 DEF TypeOK, LoadMessage
    <2> QED
        BY <1>1, <2>1, <2>2, <2>3, <2>4 DEF TypeOK, LoadMessage, rowVars
<1>2. CASE LoadAttachments(w)
    <2>1. /\ pc' \in [Workers -> {"idle", "loading", "downloading"}]
          /\ todo' \in [Workers -> SUBSET Atts]
        BY <1>2 DEF TypeOK, LoadAttachments, Pending
    <2> QED
        BY <1>2, <2>1 DEF TypeOK, LoadAttachments, rowVars, history
<1>6. CASE LoadNothing(w)
    BY <1>6, LeaveTypes DEF TypeOK, LoadNothing, rowVars, history
<1>3. ASSUME NEW a \in Atts, Download(w, a)
      PROVE  TypeOK'
    <2>1. objects' \in [Names -> Atts \cup {Nobody}]
        BY <1>3 DEF TypeOK, Download
    <2>2. todo' \in [Workers -> SUBSET Atts] /\ done' \in [Workers -> SUBSET Atts]
        BY <1>3 DEF TypeOK, Download
    <2> QED
        BY <1>3, <2>1, <2>2 DEF TypeOK, Download, rowVars, history
<1>4. ASSUME NEW a \in Atts, Deny(w, a)
      PROVE  TypeOK'
    <2>1. todo' \in [Workers -> SUBSET Atts] /\ errors' \in [Workers -> SUBSET Atts]
        BY <1>4 DEF TypeOK, Deny
    <2> QED
        BY <1>4, <2>1 DEF TypeOK, Deny, rowVars, history
<1>5. CASE Finish(w)
    <2>1. s3' \subseteq Atts /\ status' \in Statuses /\ error_log' \subseteq Atts
        BY <1>5 DEF TypeOK, Finish, Statuses
    <2> QED
        BY <1>5, <2>1, LeaveTypes DEF TypeOK, Finish, history
<1> QED
    BY <1>1, <1>2, <1>3, <1>4, <1>5, <1>6 DEF Work

LEMMA FailureTypes ==
    ASSUME TypeOK, NEW w \in Workers, Transient(w) \/ Crash(w) \/ TaskFails(w)
    PROVE  TypeOK'
<1>1. CASE Transient(w)
    <2>1. transients' \in 0..MaxTransients
        BY <1>1 DEF TypeOK, Transient
    <2> QED
        BY <1>1, <2>1, RetryTypes, LeaveTypes DEF TypeOK, Transient, rowVars
<1>2. CASE Crash(w)
    <2>1. crashes' \in 0..MaxCrashes
        BY <1>2 DEF TypeOK, Crash
    <2>2. queue' \in [0..MaxRetries -> Nat]
        BY <1>2, QueueTypes DEF TypeOK, Crash
    <2> QED
        BY <1>2, <2>1, <2>2, LeaveTypes DEF TypeOK, Crash, rowVars
<1>3. CASE TaskFails(w)
    <2>1. outages' \in 0..MaxOutages
        BY <1>3 DEF TypeOK, TaskFails
    <2> QED
        BY <1>3, <2>1, LeaveTypes DEF TypeOK, TaskFails, rowVars
<1> QED
    BY <1>1, <1>2, <1>3

LEMMA SourceTypes ==
    ASSUME TypeOK,
           \/ \E a \in Atts : Vanish(a)
           \/ \E atts \in SUBSET Atts : SyncCommit(atts)
           \/ EnqueueDownload
    PROVE  TypeOK'
<1>1. ASSUME NEW a \in Atts, Vanish(a)
      PROVE  TypeOK'
    BY <1>1, IdleTypes DEF TypeOK, Vanish, rowVars, history
<1>2. ASSUME NEW atts \in SUBSET Atts, SyncCommit(atts)
      PROVE  TypeOK'
    <2>1. /\ status' \in Statuses /\ error_log' \subseteq Atts
          /\ present' \subseteq Atts
        BY <1>2 DEF TypeOK, SyncCommit, Statuses
    <2>2. syncs' \in 0..MaxSyncs /\ owed' \in Nat
        BY <1>2 DEF TypeOK, SyncCommit
    <2> QED
        BY <1>2, <2>1, <2>2, IdleTypes DEF TypeOK, SyncCommit, history
<1>3. CASE EnqueueDownload
    <2>1. owed' \in Nat
        BY <1>3 DEF TypeOK, EnqueueDownload
    <2>2. queue' \in [0..MaxRetries -> Nat]
        <3>1. 0 \in 0..MaxRetries
            OBVIOUS
        <3> QED
            BY <1>3, <3>1, QueueTypes DEF EnqueueDownload
    <2> QED
        BY <1>3, <2>1, <2>2, IdleTypes DEF TypeOK, EnqueueDownload, rowVars, history
<1> QED
    BY <1>1, <1>2, <1>3

LEMMA NextTypes ==
    ASSUME TypeOK, Next
    PROVE  TypeOK'
BY WorkTypes, FailureTypes, SourceTypes DEF Next

-----------------------------------------------------------------------------
(* Bytes come before rows.                                                 *)

LEMMA BytesStay ==
    ASSUME TypeOK, BytesFirst, objects' = objects,
           \A a \in Atts :
              a \in s3' \/ (\E w \in Workers : a \in done'[w])
                => a \in s3 \/ (\E w \in Workers : a \in done[w])
    PROVE  BytesFirst'
BY DEF BytesFirst

(* Leaving or finishing a task adds no attachment to the uploaded ones.    *)
LEMMA LeaveBytes ==
    ASSUME TypeOK, BytesFirst, objects' = objects, NEW w \in Workers, Leave(w),
           s3' = s3 \/ s3' = s3 \cup done[w]
    PROVE  BytesFirst'
<1>1. \A v \in Workers : done'[v] \subseteq done[v]
    BY DEF TypeOK, Leave
<1> QED
    BY <1>1, BytesStay

LEMMA DownloadBytes ==
    ASSUME TypeOK, BytesFirst, NEW w \in Workers, NEW a \in Atts, Download(w, a)
    PROVE  BytesFirst'
<1>1. /\ objects' = [objects EXCEPT ![Filename[a]] = a]
      /\ done' = [done EXCEPT ![w] = @ \cup {a}]
      /\ s3' = s3
    BY DEF Download, rowVars
<1>2. \A n \in Names : objects[n] # Nobody => objects'[n] # Nobody
    BY <1>1 DEF TypeOK
<1>3. objects'[Filename[a]] # Nobody
    BY <1>1 DEF TypeOK
<1>4. \A v \in Workers, b \in Atts : b \in done'[v] => b = a \/ b \in done[v]
    BY <1>1 DEF TypeOK
<1> QED
    BY <1>1, <1>2, <1>3, <1>4 DEF BytesFirst

LEMMA BytesStep ==
    ASSUME TypeOK, BytesFirst, Next
    PROVE  BytesFirst'
<1>1. ASSUME UNCHANGED <<s3, objects, done>>
      PROVE  BytesFirst'
    BY <1>1, BytesStay
<1>2. CASE \/ \E a \in Atts : Vanish(a)
           \/ \E atts \in SUBSET Atts : SyncCommit(atts)
           \/ EnqueueDownload
    BY <1>1, <1>2 DEF Vanish, SyncCommit, EnqueueDownload, rowVars, taskVars
<1>3. ASSUME NEW w \in Workers, Work(w)
      PROVE  BytesFirst'
    <2>1. ASSUME NEW r \in 0..MaxRetries, LoadMessage(w, r)
          PROVE  BytesFirst'
        BY <1>1, <2>1 DEF LoadMessage, rowVars
    <2>4. CASE LoadAttachments(w)
        BY <1>1, <2>4 DEF LoadAttachments, rowVars
    <2>5. CASE LoadNothing(w)
        BY <2>5, LeaveBytes DEF LoadNothing, rowVars
    <2>2. ASSUME NEW a \in Atts, Deny(w, a)
          PROVE  BytesFirst'
        BY <1>1, <2>2 DEF Deny, rowVars
    <2>3. CASE Finish(w)
        BY <2>3, LeaveBytes DEF Finish
    <2> QED
        BY <1>3, <2>1, <2>2, <2>3, <2>4, <2>5, DownloadBytes DEF Work
<1>4. ASSUME NEW w \in Workers, Transient(w) \/ Crash(w) \/ TaskFails(w)
      PROVE  BytesFirst'
    BY <1>4, LeaveBytes DEF Transient, Crash, TaskFails, rowVars
<1> QED
    BY <1>2, <1>3, <1>4 DEF Next

-----------------------------------------------------------------------------
(* Retries.                                                                *)

(* Putting a task of bounded retries back into the queue, or taking one    *)
(* out, keeps the count.                                                   *)
LEMMA QueueCounted ==
    ASSUME TypeOK, RetriesCounted, NEW r \in 0..MaxRetries, NEW n \in Nat,
           transients <= n,
           \/ queue' = queue
           \/ queue' = [queue EXCEPT ![r] = queue[r] - 1]
           \/ r <= n /\ queue' = [queue EXCEPT ![r] = queue[r] + 1]
    PROVE  \A q \in 0..MaxRetries : queue'[q] > 0 => q <= n
<1>1. queue \in [0..MaxRetries -> Nat] /\ transients \in Nat
    BY DEF TypeOK
<1>2. \A q \in 0..MaxRetries : queue[q] > 0 => q <= n
    BY <1>1 DEF RetriesCounted
<1>3. CASE queue' = queue
    BY <1>2, <1>3
<1>4. CASE queue' = [queue EXCEPT ![r] = queue[r] - 1]
    BY <1>1, <1>2, <1>4
<1>5. CASE r <= n /\ queue' = [queue EXCEPT ![r] = queue[r] + 1]
    BY <1>1, <1>2, <1>5
<1> QED
    BY <1>3, <1>4, <1>5

LEMMA WorkersCounted ==
    ASSUME TypeOK, RetriesCounted, NEW n \in Nat, transients <= n,
           \/ UNCHANGED retries
           \/ \E w \in Workers, m \in 0..n : retries' = [retries EXCEPT ![w] = m]
    PROVE  \A w \in Workers : retries'[w] <= n
<1>1. /\ transients \in Nat
      /\ \A w \in Workers : retries[w] \in Nat /\ retries[w] <= transients
    BY DEF TypeOK, RetriesCounted
<1>2. \A w \in Workers : retries[w] <= n
    BY <1>1
<1>3. CASE UNCHANGED retries
    BY <1>2, <1>3
<1>4. ASSUME NEW w \in Workers, NEW m \in 0..n, retries' = [retries EXCEPT ![w] = m]
      PROVE  \A v \in Workers : retries'[v] <= n
    BY <1>2, <1>4 DEF TypeOK
<1> QED
    BY <1>3, <1>4

LEMMA RetriesStep ==
    ASSUME TypeOK, RetriesCounted, Next
    PROVE  RetriesCounted'
<1>0. /\ transients \in Nat /\ transients <= transients
      /\ 0 \in 0..MaxRetries /\ 0 <= transients
      /\ \A w \in Workers : retries[w] \in 0..MaxRetries /\ retries[w] <= transients
    BY DEF TypeOK, RetriesCounted
<1>1. ASSUME UNCHANGED <<retries, queue, transients>>
      PROVE  RetriesCounted'
    BY <1>1 DEF RetriesCounted
<1>2. ASSUME NEW n \in Nat, transients' = n,
             \A w \in Workers : retries'[w] <= n,
             \A r \in 0..MaxRetries : queue'[r] > 0 => r <= n
      PROVE  RetriesCounted'
    BY <1>2 DEF RetriesCounted
<1>3. ASSUME NEW a \in Atts, Vanish(a)
      PROVE  RetriesCounted'
    BY <1>1, <1>3 DEF Vanish, taskVars, history
<1>4. ASSUME NEW atts \in SUBSET Atts, SyncCommit(atts)
      PROVE  RetriesCounted'
    BY <1>1, <1>4 DEF SyncCommit, taskVars, history
<1>5. CASE EnqueueDownload
    <2>1. /\ queue' = [queue EXCEPT ![0] = queue[0] + 1]
          /\ transients' = transients /\ retries' = retries
        BY <1>5 DEF EnqueueDownload, taskVars, history
    <2>2. \A r \in 0..MaxRetries : queue'[r] > 0 => r <= transients
        BY <1>0, <2>1, QueueCounted
    <2> QED
        BY <1>0, <1>2, <2>1, <2>2
<1>6. ASSUME NEW w \in Workers, LoadAttachments(w)
      PROVE  RetriesCounted'
    BY <1>1, <1>6 DEF LoadAttachments, history
<1>7. ASSUME NEW w \in Workers, NEW r \in 0..MaxRetries, LoadMessage(w, r)
      PROVE  RetriesCounted'
    <2>1. /\ queue' = [queue EXCEPT ![r] = queue[r] - 1]
          /\ transients' = transients
          /\ retries' = [retries EXCEPT ![w] = r]
          /\ queue[r] > 0
        BY <1>7 DEF LoadMessage
    <2>2. \A q \in 0..MaxRetries : queue'[q] > 0 => q <= transients
        BY <1>0, <2>1, QueueCounted
    <2>3. r \in 0..transients
        BY <1>0, <2>1 DEF RetriesCounted
    <2>4. \A v \in Workers : retries'[v] <= transients
        BY <1>0, <2>1, <2>3, WorkersCounted
    <2> QED
        BY <1>0, <1>2, <2>1, <2>2, <2>4
<1>8. ASSUME NEW w \in Workers, NEW a \in Atts, Download(w, a) \/ Deny(w, a)
      PROVE  RetriesCounted'
    BY <1>1, <1>8 DEF Download, Deny, history
<1>9. ASSUME NEW w \in Workers, Leave(w), UNCHANGED <<queue, transients>>
      PROVE  RetriesCounted'
    <2>1. \A v \in Workers : retries'[v] <= transients
        BY <1>0, <1>9, WorkersCounted DEF Leave
    <2>2. \A q \in 0..MaxRetries : queue'[q] > 0 => q <= transients
        BY <1>0, <1>9, QueueCounted
    <2> QED
        BY <1>0, <1>2, <1>9, <2>1, <2>2
<1>10. ASSUME NEW w \in Workers, LoadNothing(w) \/ Finish(w) \/ TaskFails(w)
       PROVE  RetriesCounted'
    BY <1>9, <1>10 DEF LoadNothing, Finish, TaskFails, history
<1>11. ASSUME NEW w \in Workers, Crash(w)
       PROVE  RetriesCounted'
    <2>0. PICK m \in 0..MaxRetries : m = retries[w] /\ m <= transients
        BY <1>0
    <2>1. /\ queue' = [queue EXCEPT ![m] = queue[m] + 1]
          /\ transients' = transients
          /\ Leave(w)
        BY <1>11, <2>0 DEF Crash
    <2>2. \A q \in 0..MaxRetries : queue'[q] > 0 => q <= transients
        BY <1>0, <2>0, <2>1, QueueCounted
    <2>3. \A v \in Workers : retries'[v] <= transients
        BY <1>0, <2>1, WorkersCounted DEF Leave
    <2> QED
        BY <1>0, <1>2, <2>1, <2>2, <2>3
<1>12. ASSUME NEW w \in Workers, Transient(w)
       PROVE  RetriesCounted'
    <2> DEFINE n == transients + 1
    <2>0. n \in Nat /\ transients <= n /\ 0 \in 0..n
        BY <1>0
    <2>1. /\ transients' = n
          /\ Leave(w)
          /\ queue' = IF retries[w] < MaxRetries
                      THEN [queue EXCEPT ![retries[w] + 1] = queue[retries[w] + 1] + 1]
                      ELSE queue
        BY <1>12 DEF Transient
    <2> HIDE DEF n
    <2>2. \A q \in 0..MaxRetries : queue'[q] > 0 => q <= n
        <3>1. CASE retries[w] < MaxRetries
            <4>1. retries[w] + 1 \in 0..MaxRetries /\ retries[w] + 1 <= n
                BY <1>0, <3>1 DEF n
            <4> QED
                BY <2>0, <2>1, <3>1, <4>1, QueueCounted
        <3>2. CASE ~(retries[w] < MaxRetries)
            BY <1>0, <2>0, <2>1, <3>2, QueueCounted
        <3> QED
            BY <3>1, <3>2
    <2>3. \A v \in Workers : retries'[v] <= n
        <3>1. retries' = [retries EXCEPT ![w] = 0]
            BY <2>1 DEF Leave
        <3> QED
            BY <2>0, <3>1, WorkersCounted
    <2> QED
        BY <1>2, <2>0, <2>1, <2>2, <2>3
<1> QED
    BY <1>3, <1>4, <1>5, <1>6, <1>7, <1>8, <1>10, <1>11, <1>12 DEF Next, Work

-----------------------------------------------------------------------------
(* The row is settled, or a task that will settle it is on its way.        *)

(* Finishing settles the row if the worker was to do so, and disturbs      *)
(* neither a settled row nor the other workers that are to settle it.      *)
LEMMA FinishSettles ==
    ASSUME TypeOK, NEW w \in Workers, Finish(w), Settled \/ InProgress
    PROVE  (Settled \/ InProgress)'
<1>1. /\ pc[w] = "downloading" /\ todo[w] = {}
      /\ s3' = s3 \cup done[w]
      /\ status' = IF errors[w] # {} /\ loaded[w].status # "error"
                   THEN "error" ELSE status
      /\ error_log' = IF errors[w] # {} /\ loaded[w].error_log # errors[w]
                      THEN errors[w] ELSE error_log
      /\ present' = present /\ owed' = owed /\ queue' = queue
      /\ Leave(w)
    BY DEF Finish
<1>2. Pending' \subseteq Pending \ done[w]
    BY <1>1 DEF Pending
<1>3. CASE Settled
    BY <1>1, <1>2, <1>3 DEF Settled
<1>4. CASE owed > 0 \/ \E r \in 0..MaxRetries : queue[r] > 0
    BY <1>1, <1>4 DEF InProgress
<1>5. ASSUME NEW v \in Workers, v # w, WillSettle(v)
      PROVE  WillSettle(v)'
    <2>1. /\ pc'[v] = pc[v] /\ loaded'[v] = loaded[v] /\ todo'[v] = todo[v]
          /\ done'[v] = done[v] /\ errors'[v] = errors[v]
        BY <1>1, <1>5 DEF TypeOK, Leave
    <2>2. status = "error" => status' = "error"
        BY <1>1
    <2>3. error_log # {} => error_log' # {}
        BY <1>1
    <2> QED
        BY <1>2, <1>5, <2>1, <2>2, <2>3 DEF WillSettle
<1>6. CASE WillSettle(w)
    <2>1. Pending' \subseteq errors[w]
        BY <1>1, <1>2, <1>6 DEF WillSettle
    <2>2. CASE errors[w] = {}
        BY <2>1, <2>2 DEF Settled
    <2>3. CASE errors[w] # {}
        BY <1>1, <1>6, <2>3 DEF Settled, WillSettle
    <2> QED
        BY <2>2, <2>3
<1> QED
    BY <1>3, <1>4, <1>5, <1>6 DEF InProgress

(* Who is spared after a step was spared before it.                        *)
LEMMA SparedBefore ==
    ASSUME TypeOK, Spared', Next
    PROVE  Spared
<1>1. transients \in Nat /\ outages \in Nat
    BY DEF TypeOK
<1>2. CASE UNCHANGED <<transients, outages>>
    BY <1>2 DEF Spared
<1>3. ASSUME NEW w \in Workers, Transient(w)
      PROVE  Spared
    <2>1. transients + 1 <= MaxRetries /\ outages = 0
        BY <1>3 DEF Transient, Spared
    <2> QED
        BY <1>1, <2>1 DEF Spared
<1>4. ASSUME NEW w \in Workers, TaskFails(w)
      PROVE  FALSE
    <2>1. outages + 1 = 0
        BY <1>4 DEF TaskFails, Spared
    <2> QED
        BY <1>1, <2>1
<1>5. ASSUME NEW w \in Workers, Work(w) \/ Crash(w)
      PROVE  UNCHANGED <<transients, outages>>
    BY <1>5 DEF Work, LoadMessage, LoadAttachments, LoadNothing, Download, Deny,
                Finish, Crash, history
<1>6. ASSUME \/ \E a \in Atts : Vanish(a)
             \/ \E atts \in SUBSET Atts : SyncCommit(atts)
             \/ EnqueueDownload
      PROVE  UNCHANGED <<transients, outages>>
    BY <1>6 DEF Vanish, SyncCommit, EnqueueDownload, history
<1> QED
    BY <1>2, <1>3, <1>4, <1>5, <1>6 DEF Next

LEMMA SettleStep ==
    ASSUME TypeOK, RetriesCounted, Spared', Settled \/ InProgress, Next
    PROVE  (Settled \/ InProgress)'
<1>1. ASSUME NEW a \in Atts, Vanish(a)
      PROVE  (Settled \/ InProgress)'
    BY <1>1 DEF Vanish, rowVars, taskVars, Settled, InProgress, WillSettle, Pending
<1>2. ASSUME NEW atts \in SUBSET Atts, SyncCommit(atts)
      PROVE  (Settled \/ InProgress)'
    <2>1. owed' = owed + 1 /\ owed + 1 > 0
        BY <1>2 DEF TypeOK, SyncCommit
    <2> QED
        BY <2>1 DEF InProgress
<1>3. ASSUME NEW r \in 0..MaxRetries, queue' = [queue EXCEPT ![r] = queue[r] + 1]
      PROVE  InProgress'
    <2>1. queue'[r] = queue[r] + 1 /\ queue[r] + 1 > 0
        BY <1>3 DEF TypeOK
    <2> QED
        BY <2>1 DEF InProgress
<1>4. CASE EnqueueDownload
    <2>1. 0 \in 0..MaxRetries
        OBVIOUS
    <2> QED
        BY <1>3, <1>4, <2>1 DEF EnqueueDownload
<1>5. ASSUME NEW w \in Workers, LoadNothing(w)
      PROVE  (Settled \/ InProgress)'
    BY <1>5 DEF LoadNothing, rowVars, Settled, Pending
<1>6. ASSUME NEW w \in Workers, NEW r \in 0..MaxRetries, LoadMessage(w, r)
      PROVE  (Settled \/ InProgress)'
    <2>1. /\ pc'[w] = "loading"
          /\ loaded'[w] = [status |-> status, error_log |-> error_log]
        BY <1>6 DEF TypeOK, LoadMessage
    <2>2. status' = status /\ error_log' = error_log
        BY <1>6 DEF LoadMessage, rowVars
    <2>3. WillSettle(w)'
        BY <2>1, <2>2 DEF WillSettle
    <2> QED
        BY <2>3 DEF InProgress
<1>11. ASSUME NEW w \in Workers, LoadAttachments(w)
       PROVE  (Settled \/ InProgress)'
    <2>1. /\ status' = status /\ error_log' = error_log /\ Pending' = Pending
          /\ owed' = owed /\ queue' = queue /\ loaded' = loaded
          /\ done' = done /\ errors' = errors
        BY <1>11 DEF LoadAttachments, rowVars, Pending
    <2>2. /\ pc[w] = "loading" /\ pc'[w] = "downloading" /\ todo'[w] = Pending
          /\ \A v \in Workers : v # w => pc'[v] = pc[v] /\ todo'[v] = todo[v]
        BY <1>11 DEF TypeOK, LoadAttachments
    <2>3. ASSUME NEW v \in Workers, WillSettle(v)
          PROVE  WillSettle(v)'
        <3>1. CASE v = w
            BY <2>1, <2>2, <2>3, <3>1 DEF WillSettle
        <3>2. CASE v # w
            BY <2>1, <2>2, <2>3, <3>2 DEF WillSettle
        <3> QED
            BY <3>1, <3>2
    <2> QED
        BY <2>1, <2>3 DEF Settled, InProgress
<1>7. ASSUME NEW w \in Workers, NEW a \in Atts, Download(w, a) \/ Deny(w, a)
      PROVE  (Settled \/ InProgress)'
    <2>1. UNCHANGED <<rowVars, owed, queue, pc, loaded>>
        BY <1>7 DEF Download, Deny
    <2>2. \A v \in Workers : todo[v] \cup done[v] \cup errors[v]
                                \subseteq todo'[v] \cup done'[v] \cup errors'[v]
        <3>1. \A v \in Workers : done[v] \subseteq done'[v] /\ errors[v] \subseteq errors'[v]
            <4>1. CASE Download(w, a)
                BY <4>1 DEF TypeOK, Download
            <4>2. CASE Deny(w, a)
                BY <4>2 DEF TypeOK, Deny
            <4> QED
                BY <1>7, <4>1, <4>2
        <3>2. \A v \in Workers : v # w => todo'[v] = todo[v]
            BY <1>7 DEF TypeOK, Download, Deny
        <3>3. todo'[w] = todo[w] \ {a} /\ a \in done'[w] \cup errors'[w]
            BY <1>7 DEF TypeOK, Download, Deny
        <3> QED
            BY <3>1, <3>2, <3>3
    <2>3. ASSUME NEW v \in Workers, WillSettle(v)
          PROVE  WillSettle(v)'
        <3>1. /\ pc'[v] = pc[v] /\ loaded'[v] = loaded[v]
              /\ status' = status /\ error_log' = error_log /\ Pending' = Pending
            BY <2>1 DEF Pending, rowVars
        <3>3. Pending \subseteq todo[v] \cup done[v] \cup errors[v]
                => Pending' \subseteq todo'[v] \cup done'[v] \cup errors'[v]
            BY <2>2, <3>1
        <3> QED
            BY <2>3, <3>1, <3>3 DEF WillSettle
    <2> QED
        BY <2>1, <2>3 DEF Settled, InProgress, Pending, rowVars
<1>8. ASSUME NEW w \in Workers, Crash(w)
      PROVE  (Settled \/ InProgress)'
    <2>1. retries[w] \in 0..MaxRetries
        BY DEF TypeOK
    <2> QED
        BY <1>3, <1>8, <2>1 DEF Crash
<1>9. ASSUME NEW w \in Workers, Transient(w)
      PROVE  (Settled \/ InProgress)'
    <2>1. /\ retries[w] \in 0..MaxRetries /\ transients \in Nat
          /\ retries[w] <= transients
        BY DEF TypeOK, RetriesCounted
    <2>3. transients + 1 <= MaxRetries
        BY <1>9 DEF Transient, Spared
    <2>2. retries[w] < MaxRetries /\ retries[w] + 1 \in 0..MaxRetries
        BY <2>1, <2>3
    <2> QED
        BY <1>3, <1>9, <2>2 DEF Transient
<1>10. ASSUME NEW w \in Workers, TaskFails(w)
       PROVE  FALSE
    <2>1. outages + 1 = 0
        BY <1>10 DEF TaskFails, Spared
    <2> QED
        BY <2>1 DEF TypeOK
<1> QED
    BY <1>1, <1>2, <1>4, <1>5, <1>6, <1>7, <1>8, <1>9, <1>10, <1>11, FinishSettles
       DEF Next, Work

-----------------------------------------------------------------------------
(* Tasks that ran apart account for every attachment.                      *)

(* What a step does to the set of busy workers.                            *)
LEMMA LeaveBusy ==
    ASSUME TypeOK, NEW w \in Workers, Leave(w)
    PROVE  Busy' = Busy \ {w}
BY DEF TypeOK, Leave, Busy

LEMMA StayBusy ==
    ASSUME TypeOK, NEW w \in Workers,
           \/ LoadAttachments(w)
           \/ \E a \in Atts : Download(w, a) \/ Deny(w, a)
    PROVE  Busy' = Busy
BY DEF TypeOK, LoadAttachments, Download, Deny, Busy

(* The worker leaves, or was idle before: the others do as they did.       *)
LEMMA LoadMessageApart ==
    ASSUME TypeOK, NEW w \in Workers, NEW r \in 0..MaxRetries, LoadMessage(w, r), apart'
    PROVE  Busy' = {w} /\ WillExplain(w)' /\ apart
<1>1. /\ apart /\ \A v \in Workers : pc[v] = "idle"
      /\ pc' = [pc EXCEPT ![w] = "loading"]
      /\ loaded'[w] = [status |-> status, error_log |-> error_log]
      /\ status' = status /\ error_log' = error_log
    BY DEF TypeOK, LoadMessage, rowVars
<1>2. Busy' = {w}
    BY <1>1 DEF TypeOK, Busy
<1>3. WillExplain(w)'
    BY <1>1 DEF TypeOK, WillExplain, WillSettle
<1> QED
    BY <1>1, <1>2, <1>3

LEMMA LoadAttachmentsExplains ==
    ASSUME TypeOK, NEW w \in Workers, LoadAttachments(w), WillExplain(w)
    PROVE  WillExplain(w)'
<1>1. /\ pc'[w] = "downloading" /\ todo'[w] = Pending
      /\ UNCHANGED <<loaded, status, error_log, Pending>>
    BY DEF TypeOK, LoadAttachments, rowVars, Pending
<1> QED
    BY <1>1 DEF WillExplain, WillSettle

LEMMA LoopExplains ==
    ASSUME TypeOK, NEW w \in Workers, NEW a \in Atts, Download(w, a) \/ Deny(w, a),
           WillExplain(w)
    PROVE  WillExplain(w)'
<1>1. UNCHANGED <<loaded, status, error_log, Pending, pc>>
    BY DEF Download, Deny, rowVars, Pending
<1>2. todo[w] \cup done[w] \cup errors[w] \subseteq todo'[w] \cup done'[w] \cup errors'[w]
    <2>1. CASE Download(w, a)
        BY <2>1 DEF TypeOK, Download
    <2>2. CASE Deny(w, a)
        BY <2>2 DEF TypeOK, Deny
    <2> QED
        BY <2>1, <2>2
<1> QED
    BY <1>1, <1>2 DEF WillExplain, WillSettle

LEMMA EnqueueWaits ==
    ASSUME TypeOK, NEW r \in 0..MaxRetries, queue' = [queue EXCEPT ![r] = queue[r] + 1]
    PROVE  Waiting'
<1>1. queue'[r] = queue[r] + 1 /\ queue[r] + 1 > 0
    BY DEF TypeOK
<1> QED
    BY <1>1 DEF Waiting

(* What a sync does: it has a task to come, or there is one in the queue.  *)
LEMMA SourceApart ==
    ASSUME TypeOK,
           \/ \E a \in Atts : Vanish(a)
           \/ \E atts \in SUBSET Atts : SyncCommit(atts)
           \/ EnqueueDownload
    PROVE  /\ UNCHANGED <<Busy, apart, transients, outages>>
           /\ Waiting' \/ UNCHANGED <<rowVars, taskVars, owed, queue>>
<1>1. UNCHANGED <<Busy, apart, transients, outages>>
    BY DEF Vanish, SyncCommit, EnqueueDownload, taskVars, history, Busy
<1>2. ASSUME NEW a \in Atts, Vanish(a)
      PROVE  UNCHANGED <<rowVars, taskVars, owed, queue>>
    BY <1>2 DEF Vanish
<1>3. ASSUME NEW atts \in SUBSET Atts, SyncCommit(atts)
      PROVE  Waiting'
    <2>1. owed' = owed + 1 /\ owed + 1 > 0
        BY <1>3 DEF TypeOK, SyncCommit
    <2> QED
        BY <2>1 DEF Waiting
<1>4. CASE EnqueueDownload
    <2>1. 0 \in 0..MaxRetries /\ queue' = [queue EXCEPT ![0] = queue[0] + 1]
        BY <1>4 DEF EnqueueDownload
    <2> QED
        BY <1>1, <2>1, EnqueueWaits
<1> QED
    BY <1>1, <1>2, <1>3, <1>4

LEMMA ApartStep ==
    ASSUME TypeOK, Apart, ApartExplains, Next
    PROVE  Apart' /\ ApartExplains'
<1> SUFFICES ASSUME apart' PROVE (\A v, w \in Busy : v = w)'
                                 /\ (\A w \in Busy : WillExplain(w) \/ Waiting)'
    BY DEF Apart, ApartExplains
<1>1. CASE \/ \E a \in Atts : Vanish(a)
           \/ \E atts \in SUBSET Atts : SyncCommit(atts)
           \/ EnqueueDownload
    <2>1. UNCHANGED <<Busy, apart>>
        BY <1>1, SourceApart
    <2>2. CASE Waiting'
        BY <2>1, <2>2 DEF Apart
    <2>3. CASE UNCHANGED <<rowVars, taskVars, owed, queue>>
        <3>1. Waiting' = Waiting /\ \A w \in Workers : WillExplain(w)' = WillExplain(w)
            BY <2>3 DEF Waiting, WillExplain, WillSettle, Pending, rowVars, taskVars
        <3> QED
            BY <2>1, <3>1 DEF Apart, ApartExplains, Busy
    <2> QED
        BY <1>1, <2>2, <2>3, SourceApart
<1>2. ASSUME NEW w \in Workers, NEW r \in 0..MaxRetries, LoadMessage(w, r)
      PROVE  (\A u, v \in Busy : u = v)' /\ (\A v \in Busy : WillExplain(v) \/ Waiting)'
    <2>1. Busy' = {w} /\ WillExplain(w)'
        BY <1>2, LoadMessageApart
    <2> QED
        BY <2>1
<1>3. ASSUME NEW w \in Workers, w \in Busy, Leave(w), UNCHANGED apart
      PROVE  (\A u, v \in Busy : u = v)' /\ (\A v \in Busy : WillExplain(v) \/ Waiting)'
    <2>1. Busy' = {}
        BY <1>3, LeaveBusy DEF Apart
    <2> QED
        BY <2>1
<1>4. ASSUME NEW w \in Workers,
             \/ LoadNothing(w) \/ Finish(w) \/ Transient(w) \/ Crash(w) \/ TaskFails(w)
      PROVE  w \in Busy /\ Leave(w) /\ UNCHANGED apart
    BY <1>4 DEF LoadNothing, Finish, Transient, Crash, TaskFails, history, Busy
<1>5. ASSUME NEW w \in Workers, w \in Busy, Busy' = Busy, UNCHANGED <<apart, owed, queue>>,
             WillExplain(w) => WillExplain(w)'
      PROVE  (\A u, v \in Busy : u = v)' /\ (\A v \in Busy : WillExplain(v) \/ Waiting)'
    <2>1. Waiting' = Waiting
        BY <1>5 DEF Waiting
    <2>2. Busy = {w}
        BY <1>5 DEF Apart
    <2>3. WillExplain(w) \/ Waiting
        BY <1>5, <2>2 DEF ApartExplains
    <2> QED
        BY <1>5, <2>1, <2>2, <2>3
<1>6. ASSUME NEW w \in Workers, LoadAttachments(w)
      PROVE  (\A u, v \in Busy : u = v)' /\ (\A v \in Busy : WillExplain(v) \/ Waiting)'
    <2>1. w \in Busy /\ UNCHANGED <<apart, owed, queue>>
        BY <1>6 DEF LoadAttachments, history, Busy
    <2> QED
        BY <1>5, <1>6, <2>1, StayBusy, LoadAttachmentsExplains
<1>7. ASSUME NEW w \in Workers, NEW a \in Atts, Download(w, a) \/ Deny(w, a)
      PROVE  (\A u, v \in Busy : u = v)' /\ (\A v \in Busy : WillExplain(v) \/ Waiting)'
    <2>1. UNCHANGED <<apart, owed, queue>> /\ Busy' = Busy
        BY <1>7, StayBusy DEF Download, Deny, history
    <2>2. w \in Busy
        BY <1>7 DEF Download, Deny, Busy
    <2> QED
        BY <1>5, <1>7, <2>1, <2>2, LoopExplains
<1> QED
    BY <1>1, <1>2, <1>3, <1>4, <1>6, <1>7 DEF Next, Work

LEMMA FinishExplains ==
    ASSUME TypeOK, Apart, ApartExplains, apart, NEW w \in Workers, Finish(w)
    PROVE  Explained' \/ Waiting'
<1>1. /\ pc[w] = "downloading" /\ todo[w] = {}
      /\ s3' = s3 \cup done[w]
      /\ status' = IF errors[w] # {} /\ loaded[w].status # "error"
                   THEN "error" ELSE status
      /\ error_log' = IF errors[w] # {} /\ loaded[w].error_log # errors[w]
                      THEN errors[w] ELSE error_log
      /\ present' = present /\ owed' = owed /\ queue' = queue
    BY DEF Finish
<1>2. Pending' \subseteq Pending \ done[w]
    BY <1>1 DEF Pending
<1>3. WillExplain(w) \/ Waiting
    BY <1>1 DEF ApartExplains, Busy
<1>4. CASE Waiting
    BY <1>1, <1>4 DEF Waiting
<1>5. CASE WillExplain(w)
    <2>1. Pending' \subseteq errors[w]
        BY <1>1, <1>2, <1>5 DEF WillExplain, WillSettle
    <2>2. loaded[w].status = status /\ loaded[w].error_log = error_log
        BY <1>5 DEF WillExplain
    <2>3. CASE errors[w] = {}
        BY <2>1, <2>3 DEF Explained
    <2>4. CASE errors[w] # {}
        <3>1. status' = "error" /\ error_log' = errors[w]
            BY <1>1, <2>2, <2>4
        <3> QED
            BY <2>1, <3>1 DEF Explained
    <2> QED
        BY <2>3, <2>4
<1> QED
    BY <1>3, <1>4, <1>5

LEMMA ExplainStep ==
    ASSUME TypeOK, Apart, ApartExplains, RetriesCounted, Next, Spared', apart', apart,
           Explained \/ Waiting \/ Busy # {}
    PROVE  (Explained \/ Waiting \/ Busy # {})'
<1>1. CASE \/ \E a \in Atts : Vanish(a)
           \/ \E atts \in SUBSET Atts : SyncCommit(atts)
           \/ EnqueueDownload
    <2>1. CASE Waiting'
        BY <2>1
    <2>2. CASE UNCHANGED <<rowVars, taskVars, owed, queue>>
        BY <2>2 DEF Explained, Waiting, Busy, Pending, rowVars, taskVars
    <2> QED
        BY <1>1, <2>1, <2>2, SourceApart
<1>2. ASSUME NEW w \in Workers, NEW r \in 0..MaxRetries, LoadMessage(w, r)
      PROVE  (Busy # {})'
    <2>1. Busy' = {w}
        BY <1>2, LoadMessageApart
    <2> QED
        BY <2>1
<1>3. ASSUME NEW w \in Workers, LoadAttachments(w)
      PROVE  (Busy # {})'
    BY <1>3, StayBusy DEF LoadAttachments, Busy
<1>4. ASSUME NEW w \in Workers, NEW a \in Atts, Download(w, a) \/ Deny(w, a)
      PROVE  (Busy # {})'
    BY <1>4, StayBusy DEF Download, Deny, Busy
<1>5. ASSUME NEW w \in Workers, LoadNothing(w)
      PROVE  Explained'
    BY <1>5 DEF LoadNothing, rowVars, Pending, Explained
<1>6. ASSUME NEW w \in Workers, Finish(w)
      PROVE  Explained' \/ Waiting'
    BY <1>6, FinishExplains
<1>7. ASSUME NEW w \in Workers, Crash(w)
      PROVE  Waiting'
    <2>1. retries[w] \in 0..MaxRetries
        BY DEF TypeOK
    <2> QED
        BY <1>7, <2>1, EnqueueWaits DEF Crash
<1>8. ASSUME NEW w \in Workers, Transient(w)
      PROVE  Waiting'
    <2>1. /\ retries[w] \in 0..MaxRetries /\ transients \in Nat
          /\ retries[w] <= transients
        BY DEF TypeOK, RetriesCounted
    <2>2. transients + 1 <= MaxRetries
        BY <1>8 DEF Transient, Spared
    <2>3. retries[w] < MaxRetries /\ retries[w] + 1 \in 0..MaxRetries
        BY <2>1, <2>2
    <2> QED
        BY <1>8, <2>3, EnqueueWaits DEF Transient
<1>9. ASSUME NEW w \in Workers, TaskFails(w)
      PROVE  FALSE
    <2>1. outages + 1 = 0
        BY <1>9 DEF TaskFails, Spared
    <2> QED
        BY <2>1 DEF TypeOK
<1> QED
    BY <1>1, <1>2, <1>3, <1>4, <1>5, <1>6, <1>7, <1>8, <1>9 DEF Next, Work

(* Tasks that ran apart after a step ran apart before it.                  *)
LEMMA ApartBefore ==
    ASSUME TypeOK, apart', Next
    PROVE  apart
BY DEF Next, Work, Vanish, SyncCommit, EnqueueDownload, LoadMessage, LoadAttachments,
       LoadNothing, Download, Deny, Transient, Finish, Crash, TaskFails, history

-----------------------------------------------------------------------------
(* The inductive invariant.                                                *)

LEMMA InitIInv == Init => IInv
<1> SUFFICES ASSUME Init PROVE IInv
    OBVIOUS
<1>1. TypeOK
    BY DEF Init, TypeOK, Statuses, Fresh
<1>2. BytesFirst
    BY DEF Init, BytesFirst
<1>3. RetriesCounted
    BY DEF Init, RetriesCounted
<1>4. Settled /\ Explained
    BY DEF Init, Settled, Explained, Pending
<1>5. Apart /\ ApartExplains
    BY DEF Init, Apart, ApartExplains, Busy
<1> QED
    BY <1>1, <1>2, <1>3, <1>4, <1>5 DEF IInv

LEMMA NextIInv == IInv /\ [Next]_vars => IInv'
<1> SUFFICES ASSUME IInv, [Next]_vars PROVE IInv'
    OBVIOUS
<1>1. CASE Next
    <2>1. TypeOK' /\ BytesFirst' /\ RetriesCounted'
        BY <1>1, NextTypes, BytesStep, RetriesStep DEF IInv
    <2>2. ASSUME Spared' PROVE (Settled \/ InProgress)'
        BY <1>1, <2>2, SparedBefore, SettleStep DEF IInv
    <2>3. Apart' /\ ApartExplains'
        BY <1>1, ApartStep DEF IInv
    <2>4. ASSUME Spared', apart' PROVE (Explained \/ Waiting \/ Busy # {})'
        BY <1>1, <2>4, SparedBefore, ApartBefore, ExplainStep DEF IInv
    <2> QED
        BY <2>1, <2>2, <2>3, <2>4 DEF IInv
<1>2. CASE UNCHANGED vars
    <2>1. TypeOK'
        BY <1>2, IdleTypes DEF IInv, TypeOK, vars, rowVars, history
    <2>2. BytesFirst'
        BY <1>2 DEF IInv, BytesFirst, vars, rowVars, taskVars
    <2>3. RetriesCounted'
        BY <1>2 DEF IInv, RetriesCounted, vars, taskVars, history
    <2>4. (Spared => Settled \/ InProgress)'
        BY <1>2 DEF IInv, Spared, Settled, InProgress, WillSettle, Pending, vars,
                    rowVars, taskVars, history
    <2>5. Busy' = Busy /\ Waiting' = Waiting /\ apart' = apart /\ Spared' = Spared
          /\ Explained' = Explained /\ \A w \in Workers : WillExplain(w)' = WillExplain(w)
        BY <1>2 DEF Busy, Waiting, Spared, Explained, WillExplain, WillSettle, Pending,
                    vars, rowVars, taskVars, history
    <2>6. Apart' /\ ApartExplains'
        BY <2>5 DEF IInv, Apart, ApartExplains, Busy
    <2>7. (Spared /\ apart => Explained \/ Waiting \/ Busy # {})'
        BY <2>5 DEF IInv
    <2> QED
        BY <2>1, <2>2, <2>3, <2>4, <2>6, <2>7 DEF IInv
<1> QED
    BY <1>1, <1>2

(* Types, bytes before rows, counted retries, and a message that is        *)
(* settled or on its way there hold in every state of every behaviour.     *)
THEOREM Invariance == Spec => []IInv
BY InitIInv, NextIInv, PTL DEF Spec

(* Every state of the attachment pipeline is well typed; in particular no  *)
(* task of download_attachments is retried more than max_retries times.    *)
THEOREM TypeCorrect == Spec => []TypeOK
<1>1. IInv => TypeOK
    BY DEF IInv
<1> QED
    BY <1>1, Invariance, PTL

(* No crash, retry, outage or overlap of tasks leaves a row that points    *)
(* at an object that was never put (_download_one puts, then sets).        *)
THEOREM BytesBeforeRows == Spec => []StoredMeansBytes
<1>1. IInv => StoredMeansBytes
    BY DEF IInv, TypeOK, BytesFirst, StoredMeansBytes
<1> QED
    BY <1>1, Invariance, PTL

(* No step of a sync or of a task takes the S3 columns of a row back       *)
(* (_upsert_attachments leaves them out of its set).                       *)
THEOREM S3ColumnsStay == Spec => NeverClobbered
<1>1. [Next]_vars => [s3 \subseteq s3']_s3
    <2> SUFFICES ASSUME [Next]_vars PROVE s3 \subseteq s3'
        OBVIOUS
    <2> QED
        BY DEF Next, Work, Vanish, SyncCommit, EnqueueDownload, LoadMessage,
            LoadAttachments,
               LoadNothing,
               Download, Deny, Transient, Finish, Crash, TaskFails, vars, rowVars
<1> QED
    BY <1>1, PTL DEF Spec, NeverClobbered

(* As long as S3 and Postgres answered and transient failures were no more *)
(* than a task may retry, a message whose tasks are through has all its    *)
(* attachments stored, or shows as an error with a log: for any number of  *)
(* overlapping tasks, syncs and crashes (download_attachments).            *)
THEOREM GapsAreSurfaced == Spec => []GapSurfacedIfSpared
<1>1. IInv => GapSurfacedIfSpared
    <2> SUFFICES ASSUME IInv, Spared, AtRest, Pending # {}
                 PROVE  status = "error" /\ error_log # {}
        BY DEF GapSurfacedIfSpared, GapSurfaced
    <2>1. ~InProgress
        BY DEF AtRest, InProgress, WillSettle, IInv, TypeOK
    <2> QED
        BY <2>1 DEF IInv, Settled
<1> QED
    BY <1>1, Invariance, PTL

(* Tasks of a message that did not overlap, and were spared, account for   *)
(* each of its attachments: stored, or named in the log of a message in    *)
(* status error, whatever syncs reset in between (download_attachments).   *)
THEOREM EveryGapIsNamed == Spec => []Accounted
<1>1. IInv => Accounted
    <2> SUFFICES ASSUME IInv, Spared, apart, AtRest
                 PROVE  Explained
        BY DEF Accounted, Explained
    <2>1. ~Waiting /\ Busy = {}
        BY DEF AtRest, Waiting, Busy, IInv, TypeOK
    <2> QED
        BY <2>1 DEF IInv
<1> QED
    BY <1>1, Invariance, PTL

(* The bytes a session or a row claims are under the key, or those of a    *)
(* file of the same name are.                                              *)
NamedBytes ==
    \A a \in Atts :
        a \in s3 \/ (\E w \in Workers : a \in done[w])
            => objects[Filename[a]] \in Namesakes(a)

LEMMA NamedBytesStay ==
    ASSUME TypeOK, NamedBytes, objects' = objects,
           \A a \in Atts :
              a \in s3' \/ (\E w \in Workers : a \in done'[w])
                => a \in s3 \/ (\E w \in Workers : a \in done[w])
    PROVE  NamedBytes'
BY DEF NamedBytes

LEMMA NamedBytesStep ==
    ASSUME TypeOK, NamedBytes, [Next]_vars
    PROVE  NamedBytes'
<1>1. ASSUME UNCHANGED <<s3, objects, done>>
      PROVE  NamedBytes'
    BY <1>1, NamedBytesStay
<1>2. ASSUME NEW w \in Workers, Leave(w), objects' = objects,
             s3' = s3 \/ s3' = s3 \cup done[w]
      PROVE  NamedBytes'
    <2>1. \A v \in Workers : done'[v] \subseteq done[v]
        BY <1>2 DEF TypeOK, Leave
    <2> QED
        BY <1>2, <2>1, NamedBytesStay
<1>3. ASSUME NEW w \in Workers, NEW a \in Atts, Download(w, a)
      PROVE  NamedBytes'
    <2>1. /\ objects' = [objects EXCEPT ![Filename[a]] = a]
          /\ done' = [done EXCEPT ![w] = @ \cup {a}]
          /\ s3' = s3
        BY <1>3 DEF Download, rowVars
    <2>2. \A b \in Atts : Filename[b] = Filename[a] => objects'[Filename[b]] = a
        BY <2>1 DEF TypeOK
    <2>3. \A b \in Atts :
             Filename[b] # Filename[a] => objects'[Filename[b]] = objects[Filename[b]]
        BY <2>1 DEF TypeOK
    <2>4. \A v \in Workers, b \in Atts : b \in done'[v] => b = a \/ b \in done[v]
        BY <2>1 DEF TypeOK
    <2> QED
        BY <2>1, <2>2, <2>3, <2>4 DEF NamedBytes, Namesakes
<1>4. CASE \/ \E a \in Atts : Vanish(a)
           \/ \E atts \in SUBSET Atts : SyncCommit(atts)
           \/ EnqueueDownload
    BY <1>1, <1>4 DEF Vanish, SyncCommit, EnqueueDownload, rowVars, taskVars
<1>5. ASSUME NEW w \in Workers,
             \/ LoadNothing(w) \/ Finish(w) \/ Transient(w) \/ Crash(w) \/ TaskFails(w)
      PROVE  NamedBytes'
    BY <1>2, <1>5 DEF LoadNothing, Finish, Transient, Crash, TaskFails, rowVars
<1>6. ASSUME NEW w \in Workers,
             \/ \E r \in 0..MaxRetries : LoadMessage(w, r)
             \/ LoadAttachments(w)
             \/ \E a \in Atts : Deny(w, a)
      PROVE  NamedBytes'
    BY <1>1, <1>6 DEF LoadMessage, LoadAttachments, Deny, rowVars
<1>7. CASE UNCHANGED vars
    BY <1>1, <1>7 DEF vars, rowVars, taskVars
<1> QED
    BY <1>3, <1>4, <1>5, <1>6, <1>7 DEF Next, Work

(* No overlap of tasks, retry or crash makes a row point at the bytes of a *)
(* file of another name, whatever names the attachments of a message have  *)
(* (build_object_key names an object after the message and the file).      *)
THEOREM FilesKeepTheirBytes == Spec => []RightBytes
<1>1. Init => NamedBytes
    BY DEF Init, NamedBytes
<1>2. TypeOK /\ NamedBytes /\ [Next]_vars => NamedBytes'
    BY NamedBytesStep
<1>3. TypeOK /\ NamedBytes => RightBytes
    BY DEF TypeOK, NamedBytes, RightBytes, ObjectKey
<1> QED
    BY <1>1, <1>2, <1>3, TypeCorrect, PTL DEF Spec
=============================================================================
