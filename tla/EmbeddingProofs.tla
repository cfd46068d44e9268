--------------------------- MODULE EmbeddingProofs ---------------------------
(***************************************************************************)
(* Proofs about Embedding, for any set of messages, any number of workers  *)
(* and of searches at a time, and any bounds.                              *)
(***************************************************************************)
EXTENDS Embedding, TLAPS

USE EmbeddingAssumption
USE DEF EmbeddingAssumption, Clients, Tries, GoTo, FollowUp, Owes, Written, Retry,
Redeliver

-----------------------------------------------------------------------------
(* The steps, by what they leave alone.                                    *)

(* Steps on the way to the call of Qdrant, and all steps of searches: they *)
(* change only how far someone is, and whether there is a collection.      *)
Passing(c) ==
    \/ c \in Searches /\ Serve(c)
    \/ c \in Workers /\ (EnsureCollection(c) \/ CreateCollection(c))

LEMMA PassingStep ==
    ASSUME TypeOK, NEW c \in Clients, Passing(c)
    PROVE  /\ UNCHANGED <<row, owed, queue, taskVars, points, history, syncs,
                          transients, faults>>
           /\ collection' \in BOOLEAN
           /\ \E place \in {"idle", "embedding", "creating", "calling"} :
                pc' = [pc EXCEPT ![c] = place]
           /\ c \in Workers => pc[c] # "idle" /\ pc'[c] # "idle"
<1>1. CASE c \in Searches /\ (Search(c) \/ Answer(c) \/ SearchFails(c))
    BY <1>1 DEF TypeOK, Search, Answer, SearchFails, qdrant
<1>2. CASE EnsureCollection(c)
    BY <1>2 DEF TypeOK, EnsureCollection, AfterListing, qdrant
<1>3. CASE CreateCollection(c)
    BY <1>3 DEF TypeOK, CreateCollection
<1> QED
    BY <1>1, <1>2, <1>3 DEF Passing, Serve

(* Steps by which a worker is done with its task.                          *)
Ending(w) ==
    \/ Upsert(w) \/ Collide(w) \/ Transient(w) \/ TaskFails(w) \/ Crash(w)

LEMMA EndingStep ==
    ASSUME TypeOK, NEW w \in Workers, Ending(w)
    PROVE  /\ UNCHANGED <<row, owed, overlapped, syncs>>
           /\ Free(w)
           /\ pc[w] # "idle"
BY DEF Ending, Upsert, Collide, Transient, TaskFails, Crash, history

LEMMA NextCases ==
    ASSUME Next, NEW P,
           ASSUME NEW m \in Messages, SyncCommit(m) PROVE P,
           ASSUME NEW m \in Messages, EnqueueEmbed(m) PROVE P,
           ASSUME NEW w \in Workers, NEW m \in Messages, NEW r \in Tries, LoadRow(w, m, r)
           PROVE P,
           ASSUME NEW c \in Clients, Passing(c) PROVE P,
           ASSUME NEW w \in Workers, Ending(w) PROVE P
    PROVE  P
BY DEF Next, Work, Passing, Ending

-----------------------------------------------------------------------------
(* Types.                                                                  *)

LEMMA FreeTypes ==
    ASSUME TypeOK, NEW w \in Workers, Free(w)
    PROVE  /\ pc' \in [Clients -> {"idle", "embedding", "creating", "calling"}]
           /\ target' \in [Workers -> Messages \cup {NoMessage}]
           /\ retries' \in [Workers -> Tries]
           /\ text' \in [Workers -> Nat]
BY DEF TypeOK, Free

(* A queue of a message that gains a task, or loses one it had.            *)
LEMMA QueueTypes ==
    ASSUME TypeOK, NEW m \in Messages, NEW r \in Tries,
           \/ queue' = queue
           \/ queue[m][r] > 0 /\ queue' = [queue EXCEPT ![m][r] = queue[m][r] - 1]
           \/ queue' = [queue EXCEPT ![m][r] = queue[m][r] + 1]
    PROVE  queue' \in [Messages -> [Tries -> Nat]]
<1>1. queue \in [Messages -> [Tries -> Nat]] /\ queue[m][r] \in Nat
    BY DEF TypeOK
<1>2. CASE queue[m][r] > 0 /\ queue' = [queue EXCEPT ![m][r] = queue[m][r] - 1]
    <2>1. queue[m][r] - 1 \in Nat
        BY <1>1, <1>2
    <2> QED
        BY <1>1, <1>2, <2>1
<1>3. CASE queue' = [queue EXCEPT ![m][r] = queue[m][r] + 1]
    <2>1. queue[m][r] + 1 \in Nat
        BY <1>1
    <2> QED
        BY <1>1, <1>3, <2>1
<1> QED
    BY <1>1, <1>2, <1>3

LEMMA EndingTypes ==
    ASSUME TypeOK, Busy, NEW w \in Workers, Ending(w)
    PROVE  TypeOK'
<1> USE DEF Fault
<1>1. target[w] \in Messages /\ retries[w] \in Tries /\ text[w] \in Nat
    BY EndingStep DEF TypeOK, Busy
<1>2. /\ UNCHANGED <<row, owed, overlapped, syncs>>
      /\ Free(w)
    BY EndingStep
<1>3. queue' \in [Messages -> [Tries -> Nat]]
    <2>1. CASE Upsert(w) \/ Collide(w) \/ TaskFails(w)
        BY <2>1 DEF TypeOK, Upsert, Collide, TaskFails
    <2>2. CASE Crash(w)
        BY <1>1, <2>2, QueueTypes DEF Crash
    <2>3. CASE Transient(w) /\ retries[w] < MaxRetries
        <3>1. retries[w] + 1 \in Tries
            BY <1>1, <2>3
        <3>2. queue' = [queue EXCEPT ![target[w]][retries[w] + 1] = @ + 1]
            BY <2>3 DEF Transient
        <3> QED
            BY <1>1, <3>1, <3>2, QueueTypes
    <2>4. CASE Transient(w) /\ ~(retries[w] < MaxRetries)
        BY <2>4 DEF TypeOK, Transient
    <2> QED
        BY <2>1, <2>2, <2>3, <2>4 DEF Ending
<1>4. collection' \in BOOLEAN /\ points' \in [Messages -> Nat]
    <2>1. CASE Upsert(w)
        BY <1>1, <2>1 DEF TypeOK, Upsert
    <2>2. CASE Collide(w) \/ Transient(w)
        BY <2>2 DEF TypeOK, Collide, Transient, qdrant
    <2>3. CASE Unheard(w)
        BY <1>1, <2>3 DEF TypeOK, Unheard, qdrant
    <2> QED
        BY <2>1, <2>2, <2>3 DEF Ending, TaskFails, Crash
<1>5. dropped' \subseteq Messages /\ collided' \in BOOLEAN
    BY <1>1 DEF TypeOK, Ending, Upsert, Collide, Transient, TaskFails, Crash, history
<1>6. transients' \in 0..MaxTransients /\ faults' \in 0..MaxFaults
    BY DEF TypeOK, Ending, Upsert, Collide, Transient, TaskFails, Crash
<1> QED
    BY <1>2, <1>3, <1>4, <1>5, <1>6, FreeTypes DEF TypeOK

LEMMA NextTypes ==
    ASSUME TypeOK, Busy, Next
    PROVE  TypeOK'
<1>1. ASSUME NEW m \in Messages, SyncCommit(m)
      PROVE  TypeOK'
    <2>1. row' \in [Messages -> Nat] /\ owed' \in [Messages -> Nat]
        BY <1>1 DEF TypeOK, SyncCommit
    <2>2. syncs' \in 0..MaxSyncs
        BY <1>1 DEF TypeOK, SyncCommit
    <2> QED
        BY <1>1, <2>1, <2>2 DEF TypeOK, SyncCommit, taskVars, qdrant, history
<1>2. ASSUME NEW m \in Messages, EnqueueEmbed(m)
      PROVE  TypeOK'
    <2>1. owed' \in [Messages -> Nat]
        BY <1>2 DEF TypeOK, EnqueueEmbed
    <2>2. 0 \in Tries /\ queue' = [queue EXCEPT ![m][0] = queue[m][0] + 1]
        BY <1>2 DEF EnqueueEmbed
    <2> QED
        BY <1>2, <2>1, <2>2, QueueTypes
           DEF TypeOK, EnqueueEmbed, taskVars, qdrant, history
<1>3. ASSUME NEW w \in Workers, NEW m \in Messages, NEW r \in Tries, LoadRow(w, m, r)
      PROVE  TypeOK'
    <2>1. queue' \in [Messages -> [Tries -> Nat]]
        BY <1>3, QueueTypes DEF LoadRow
    <2>2. /\ pc' \in [Clients -> {"idle", "embedding", "creating", "calling"}]
          /\ target' \in [Workers -> Messages \cup {NoMessage}]
          /\ retries' \in [Workers -> Tries]
          /\ text' \in [Workers -> Nat]
        BY <1>3 DEF TypeOK, LoadRow
    <2>3. overlapped' \subseteq Messages
        BY <1>3 DEF TypeOK, LoadRow
    <2> QED
        BY <1>3, <2>1, <2>2, <2>3 DEF TypeOK, LoadRow, qdrant
<1>4. ASSUME NEW c \in Clients, Passing(c)
      PROVE  TypeOK'
    <2>1. pc' \in [Clients -> {"idle", "embedding", "creating", "calling"}]
        BY <1>4, PassingStep DEF TypeOK
    <2> QED
        BY <1>4, <2>1, PassingStep DEF TypeOK, taskVars, history
<1> QED
    BY <1>1, <1>2, <1>3, <1>4, EndingTypes, NextCases

-----------------------------------------------------------------------------
(* What each kind of step means for a message.                             *)

LEMMA EnqueueEffect ==
    ASSUME TypeOK, NEW m \in Messages, EnqueueEmbed(m)
    PROVE  /\ \A n \in Messages : Waiting(n) => Waiting(n)'
           /\ \A n \in Messages : Waiting(n)' => Waiting(n)
<1>1. /\ 0 \in Tries /\ owed[m] > 0
      /\ queue'[m][0] > 0
      /\ \A n \in Messages : n # m => owed'[n] = owed[n] /\ queue'[n] = queue[n]
    BY DEF TypeOK, EnqueueEmbed
<1>2. Waiting(m) /\ Waiting(m)'
    BY <1>1 DEF Waiting
<1>3. \A n \in Messages : n # m => Waiting(n)' = Waiting(n)
    BY <1>1 DEF Waiting
<1> QED
    BY <1>2, <1>3

(* A message whose task a worker starts.                                   *)
LEMMA LoadEffect ==
    ASSUME TypeOK, Busy, NEW w \in Workers, NEW m \in Messages, NEW r \in Tries,
           LoadRow(w, m, r)
    PROVE  /\ Waiting(m)
           /\ target'[w] = m /\ text'[w] = row[m] /\ retries'[w] = r
           /\ pc[w] = "idle" /\ pc'[w] # "idle"
           /\ \A x \in Workers : x # w => /\ target'[x] = target[x] /\ text'[x] = text[x]
                                          /\ pc'[x] = pc[x] /\ retries'[x] = retries[x]
           /\ m \notin overlapped' => \A x \in Workers : x # w => target[x] # m
           /\ \A n \in Messages : n # m => /\ Waiting(n)' = Waiting(n)
                                           /\ n \in overlapped' <=> n \in overlapped
           /\ \A n \in Messages, q \in Tries : queue'[n][q] > 0 => queue[n][q] > 0
           /\ \A n \in Messages : InProgress(n) => InProgress(n)'
<1>1. /\ target' = [target EXCEPT ![w] = m]
      /\ text' = [text EXCEPT ![w] = row[m]]
      /\ retries' = [retries EXCEPT ![w] = r]
      /\ pc' = [pc EXCEPT ![w] = "embedding"]
      /\ queue' = [queue EXCEPT ![m][r] = queue[m][r] - 1]
      /\ queue[m][r] > 0 /\ pc[w] = "idle" /\ owed' = owed
      /\ overlapped' = IF Overlapping(w, m) THEN overlapped \cup {m}
                                            ELSE overlapped \ {m}
    BY DEF LoadRow
<1>2. /\ target'[w] = m /\ text'[w] = row[m] /\ retries'[w] = r /\ pc'[w] # "idle"
      /\ \A x \in Workers : x # w => /\ target'[x] = target[x] /\ text'[x] = text[x]
                                     /\ pc'[x] = pc[x] /\ retries'[x] = retries[x]
    BY <1>1 DEF TypeOK
<1>3. m \notin overlapped' => \A x \in Workers : x # w => target[x] # m
    BY <1>1 DEF Overlapping
<1>4. \A n \in Messages : n # m => queue'[n] = queue[n]
    BY <1>1 DEF TypeOK
<1>5. \A n \in Messages : n # m => Waiting(n)' = Waiting(n)
    BY <1>1, <1>4 DEF Waiting
<1>6. \A q \in Tries : queue'[m][q] > 0 => queue[m][q] > 0
    BY <1>1 DEF TypeOK
<1>7. ASSUME NEW n \in Messages, InProgress(n)
      PROVE  InProgress(n)'
    <2>1. CASE n = m
        BY <1>2, <2>1 DEF InProgress
    <2>2. CASE n # m /\ Waiting(n)
        BY <1>5, <2>2 DEF InProgress
    <2>3. ASSUME n # m, NEW x \in Workers, target[x] = n
          PROVE  InProgress(n)'
        <3>1. CASE x # w
            BY <1>2, <2>3, <3>1 DEF InProgress
        <3>2. CASE x = w
            BY <1>1, <2>3, <3>2 DEF Busy
        <3> QED
            BY <2>3, <3>1, <3>2
    <2> QED
        BY <1>7, <2>1, <2>2, <2>3 DEF InProgress
<1> QED
    BY <1>1, <1>2, <1>3, <1>4, <1>5, <1>6, <1>7 DEF Waiting

LEMMA EndingTask ==
    ASSUME TypeOK, Busy, NEW w \in Workers, Ending(w)
    PROVE  target[w] \in Messages
BY EndingStep DEF TypeOK, Busy

(* A worker that is done with its task: the message of the task has its    *)
(* text upserted, is marked as dropped, or has the task in the queue       *)
(* again; no other message is touched.                                     *)
LEMMA EndingEffect ==
    ASSUME TypeOK, Busy, NEW w \in Workers, Ending(w), NEW m \in Messages, target[w] = m
    PROVE  /\ text[w] \in Nat \ {0} /\ target'[w] = NoMessage
           /\ \A x \in Workers : x # w => /\ target'[x] = target[x] /\ text'[x] = text[x]
                                          /\ pc'[x] = pc[x] /\ retries'[x] = retries[x]
           /\ \A n \in Messages : n # m =>
                 /\ points'[n] = points[n] /\ Waiting(n)' = Waiting(n)
                 /\ n \in dropped' <=> n \in dropped
           /\ \A n \in Messages : Waiting(n) => Waiting(n)'
           /\ points'[m] \in {points[m], text[w]}
           /\ \/ points'[m] = text[w]
              \/ m \in dropped'
              \/ Waiting(m)' /\ dropped' = dropped
<1>1. text[w] \in Nat \ {0} /\ retries[w] \in Tries
    BY EndingStep DEF TypeOK, Busy
<1>2. UNCHANGED <<row, owed, overlapped, syncs>> /\ Free(w)
    BY EndingStep
<1>3. /\ target'[w] = NoMessage
      /\ \A x \in Workers : x # w => /\ target'[x] = target[x] /\ text'[x] = text[x]
                                     /\ pc'[x] = pc[x] /\ retries'[x] = retries[x]
    BY <1>2 DEF TypeOK, Free
<1>4. /\ \A n \in Messages : n # m => points'[n] = points[n]
      /\ points'[m] \in {points[m], text[w]}
      /\ Upsert(w) => points'[m] = text[w]
    <2>1. points' = points \/ points' = [points EXCEPT ![m] = text[w]]
        BY DEF Ending, Upsert, Collide, Transient, TaskFails, Crash, Unheard, qdrant
    <2>2. Upsert(w) => points' = [points EXCEPT ![m] = text[w]]
        BY DEF Upsert
    <2> QED
        BY <1>1, <2>1, <2>2 DEF TypeOK
<1>5. /\ \A n \in Messages : n # m => (n \in dropped' <=> n \in dropped)
      /\ Upsert(w) \/ m \in dropped' \/ dropped' = dropped
      /\ Collide(w) \/ TaskFails(w) => m \in dropped'
    BY <1>1 DEF Ending, Upsert, Collide, Transient, TaskFails, Crash, history
<1>6. ASSUME NEW q \in Tries, queue' = [queue EXCEPT ![m][q] = queue[m][q] + 1]
      PROVE  /\ Waiting(m)'
             /\ \A n \in Messages : n # m => queue'[n] = queue[n]
             /\ \A n \in Messages : Waiting(n) => Waiting(n)'
    <2>1. /\ queue'[m][q] > 0
          /\ \A n \in Messages : n # m => queue'[n] = queue[n]
        BY <1>1, <1>6 DEF TypeOK
    <2>2. Waiting(m)'
        BY <2>1 DEF Waiting
    <2>3. \A n \in Messages : n # m => Waiting(n)' = Waiting(n)
        BY <1>2, <2>1 DEF Waiting
    <2> QED
        BY <2>1, <2>2, <2>3
<1>7. CASE queue' = queue /\ (Upsert(w) \/ m \in dropped')
    BY <1>1, <1>2, <1>3, <1>4, <1>5, <1>7 DEF Waiting
<1>8. ASSUME NEW q \in Tries, queue' = [queue EXCEPT ![m][q] = queue[m][q] + 1],
             dropped' = dropped
      PROVE  /\ \A n \in Messages : n # m => Waiting(n)' = Waiting(n)
             /\ \A n \in Messages : Waiting(n) => Waiting(n)'
             /\ Waiting(m)'
    BY <1>2, <1>6, <1>8 DEF Waiting
<1>9. CASE Upsert(w) \/ Collide(w) \/ TaskFails(w)
    <2>1. queue' = queue
        BY <1>9 DEF Upsert, Collide, TaskFails
    <2> QED
        BY <1>5, <1>7, <1>9, <2>1
<1>10. CASE Crash(w)
    <2>1. queue' = [queue EXCEPT ![m][retries[w]] = queue[m][retries[w]] + 1]
          /\ dropped' = dropped
        BY <1>10 DEF Crash, history
    <2> QED
        BY <1>1, <1>3, <1>4, <1>5, <1>8, <2>1
<1>11. CASE Transient(w)
    <2>1. CASE retries[w] < MaxRetries
        <3>1. queue' = [queue EXCEPT ![m][retries[w] + 1] = queue[m][retries[w] + 1] + 1]
              /\ dropped' = dropped
            BY <1>11, <2>1 DEF Transient
        <3>2. retries[w] + 1 \in Tries
            BY <1>1, <2>1
        <3> QED
            BY <1>1, <1>3, <1>4, <1>5, <1>8, <3>1, <3>2
    <2>2. CASE ~(retries[w] < MaxRetries)
        <3>1. queue' = queue /\ m \in dropped'
            BY <1>11, <2>2 DEF Transient
        <3> QED
            BY <1>7, <3>1
    <2> QED
        BY <2>1, <2>2
<1> QED
    BY <1>9, <1>10, <1>11 DEF Ending

LEMMA PassingEffect ==
    ASSUME TypeOK, NEW c \in Clients, Passing(c)
    PROVE  /\ UNCHANGED <<row, owed, queue, target, retries, text, points, overlapped,
                          dropped, collided, transients, faults>>
           /\ \A n \in Messages : /\ Waiting(n)' = Waiting(n)
                                  /\ InProgress(n)' = InProgress(n)
<1>1. UNCHANGED <<row, owed, queue, target, retries, text, points, overlapped, dropped,
                  collided, transients, faults>>
    BY PassingStep DEF taskVars, history
<1> QED
    BY <1>1 DEF Waiting, InProgress

-----------------------------------------------------------------------------
(* The parts of the invariant.                                             *)

LEMMA BusyStep ==
    ASSUME TypeOK, Busy, HasRow, Next
    PROVE  Busy'
<1>1. ASSUME NEW m \in Messages, SyncCommit(m) \/ EnqueueEmbed(m)
      PROVE  Busy'
    BY <1>1 DEF Busy, SyncCommit, EnqueueEmbed, taskVars
<1>2. ASSUME NEW w \in Workers, NEW m \in Messages, NEW r \in Tries, LoadRow(w, m, r)
      PROVE  Busy'
    <2>1. row[m] # 0
        BY <1>2, LoadEffect DEF HasRow, InProgress
    <2> QED
        BY <1>2, <2>1, LoadEffect DEF Busy
<1>3. ASSUME NEW c \in Clients, Passing(c)
      PROVE  Busy'
    <2>1. UNCHANGED <<target, text>>
        BY <1>3, PassingEffect
    <2>2. \A w \in Workers : pc'[w] = "idle" <=> pc[w] = "idle"
        BY <1>3, PassingStep DEF TypeOK
    <2> QED
        BY <2>1, <2>2 DEF Busy
<1>4. ASSUME NEW w \in Workers, Ending(w)
      PROVE  Busy'
    <2>1. /\ pc'[w] = "idle" /\ target'[w] = NoMessage
          /\ \A x \in Workers : x # w => /\ pc'[x] = pc[x] /\ target'[x] = target[x]
                                         /\ text'[x] = text[x]
        BY <1>4, EndingStep DEF TypeOK, Free
    <2> QED
        BY <2>1 DEF Busy
<1> QED
    BY <1>1, <1>2, <1>3, <1>4, NextCases

LEMMA HasRowStep ==
    ASSUME TypeOK, Busy, HasRow, Next
    PROVE  HasRow'
<1>1. ASSUME NEW m \in Messages, SyncCommit(m)
      PROVE  HasRow'
    <2>1. /\ row'[m] # 0
          /\ \A n \in Messages : n # m => row'[n] = row[n] /\ owed'[n] = owed[n]
          /\ UNCHANGED <<queue, target, dropped, points>>
        BY <1>1 DEF TypeOK, SyncCommit, taskVars, qdrant, history
    <2>2. \A n \in Messages : n # m => InProgress(n)' = InProgress(n)
        BY <2>1 DEF InProgress, Waiting
    <2> QED
        BY <2>1, <2>2 DEF HasRow
<1>2. ASSUME NEW m \in Messages, EnqueueEmbed(m)
      PROVE  HasRow'
    <2>1. UNCHANGED <<row, target, dropped, points>>
        BY <1>2 DEF EnqueueEmbed, taskVars, qdrant, history
    <2>2. \A n \in Messages : InProgress(n)' => InProgress(n)
        BY <1>2, <2>1, EnqueueEffect DEF InProgress
    <2> QED
        BY <2>1, <2>2 DEF HasRow
<1>3. ASSUME NEW w \in Workers, NEW m \in Messages, NEW r \in Tries, LoadRow(w, m, r)
      PROVE  HasRow'
    <2>1. UNCHANGED <<row, dropped, points>>
        BY <1>3 DEF LoadRow, qdrant
    <2>2. InProgress(m)
        BY <1>3, LoadEffect DEF InProgress
    <2>3. \A n \in Messages : n # m => (InProgress(n)' => InProgress(n))
        BY <1>3, LoadEffect DEF InProgress
    <2> QED
        BY <2>1, <2>2, <2>3 DEF HasRow
<1>4. ASSUME NEW c \in Clients, Passing(c)
      PROVE  HasRow'
    BY <1>4, PassingEffect DEF HasRow
<1>5. ASSUME NEW w \in Workers, Ending(w)
      PROVE  HasRow'
    <2>1. PICK m \in Messages : target[w] = m
        BY <1>5, EndingTask
    <2>2. row' = row /\ row[m] # 0
        BY <1>5, <2>1, EndingStep DEF HasRow, InProgress
    <2>3. \A n \in Messages : n # m =>
             /\ InProgress(n)' => InProgress(n)
             /\ points'[n] = points[n] /\ (n \in dropped' <=> n \in dropped)
        BY <1>5, <2>1, EndingEffect DEF InProgress
    <2> QED
        BY <2>2, <2>3 DEF HasRow
<1> QED
    BY <1>1, <1>2, <1>3, <1>4, <1>5, NextCases

LEMMA RetriesStep ==
    ASSUME TypeOK, Busy, RetriesCounted, Next
    PROVE  RetriesCounted'
<1>0. /\ transients \in Nat
      /\ \A w \in Workers : retries[w] \in Tries /\ retries[w] <= transients
      /\ \A n \in Messages, q \in Tries : queue[n][q] \in Nat /\ (queue[n][q] > 0 => q <= transients)
    BY DEF TypeOK, RetriesCounted
<1>1. ASSUME NEW m \in Messages, SyncCommit(m)
      PROVE  RetriesCounted'
    BY <1>1 DEF SyncCommit, taskVars, RetriesCounted
<1>2. ASSUME NEW m \in Messages, EnqueueEmbed(m)
      PROVE  RetriesCounted'
    <2>1. UNCHANGED <<retries, transients>>
        BY <1>2 DEF EnqueueEmbed, taskVars
    <2>2. \A n \in Messages, q \in Tries : queue'[n][q] > 0 => queue[n][q] > 0 \/ q = 0
        BY <1>2 DEF TypeOK, EnqueueEmbed
    <2> QED
        BY <1>0, <2>1, <2>2 DEF RetriesCounted
<1>3. ASSUME NEW w \in Workers, NEW m \in Messages, NEW r \in Tries, LoadRow(w, m, r)
      PROVE  RetriesCounted'
    <2>1. transients' = transients /\ queue[m][r] > 0
        BY <1>3 DEF LoadRow
    <2> QED
        BY <1>0, <1>3, <2>1, LoadEffect DEF RetriesCounted
<1>4. ASSUME NEW c \in Clients, Passing(c)
      PROVE  RetriesCounted'
    BY <1>4, PassingEffect DEF RetriesCounted
<1>5. ASSUME NEW w \in Workers, Ending(w)
      PROVE  RetriesCounted'
    <2>1. PICK m \in Messages : target[w] = m
        BY <1>5, EndingTask
    <2>2. transients' \in Nat /\ transients <= transients'
        BY <1>0, <1>5 DEF Ending, Upsert, Collide, Transient, TaskFails, Crash
    <2>3. \A x \in Workers : retries'[x] <= transients'
        <3>1. \A x \in Workers : retries'[x] = 0 \/ retries'[x] = retries[x]
            BY <1>5, EndingStep DEF TypeOK, Free
        <3> QED
            BY <1>0, <2>2, <3>1
    <2>4. \A n \in Messages, q \in Tries : queue'[n][q] > 0 => q <= transients'
        <3>1. CASE queue' = queue
            BY <1>0, <2>2, <3>1
        <3>2. ASSUME NEW q \in Tries, q <= transients',
                     queue' = [queue EXCEPT ![m][q] = queue[m][q] + 1]
              PROVE  \A n \in Messages, p \in Tries : queue'[n][p] > 0 => p <= transients'
            <4>1. \A n \in Messages, p \in Tries :
                     queue'[n][p] > 0 => queue[n][p] > 0 \/ p = q
                BY <3>2 DEF TypeOK
            <4> QED
                BY <1>0, <2>2, <3>2, <4>1
        <3>3. CASE Crash(w)
            <4>1. queue' = [queue EXCEPT ![m][retries[w]] = queue[m][retries[w]] + 1]
                BY <2>1, <3>3 DEF Crash
            <4> QED
                BY <1>0, <2>2, <3>2, <4>1
        <3>4. CASE Transient(w) /\ retries[w] < MaxRetries
            <4>1. /\ queue' = [queue EXCEPT ![m][retries[w] + 1] = queue[m][retries[w] + 1] + 1]
                  /\ transients' = transients + 1
                BY <2>1, <3>4 DEF Transient
            <4>2. retries[w] + 1 \in Tries /\ retries[w] + 1 <= transients'
                BY <1>0, <3>4, <4>1
            <4> QED
                BY <3>2, <4>1, <4>2
        <3> QED
            BY <1>5, <3>1, <3>3, <3>4 DEF Ending, Upsert, Collide, Transient, TaskFails
    <2> QED
        BY <2>3, <2>4 DEF RetriesCounted
<1> QED
    BY <1>1, <1>2, <1>3, <1>4, <1>5, NextCases

LEMMA DroppedStep ==
    ASSUME TypeOK, RetriesCounted, DroppedForCause, Next
    PROVE  DroppedForCause'
<1>0. transients \in Nat /\ faults \in Nat
    BY DEF TypeOK
<1>1. ASSUME dropped' \subseteq dropped, transients' \in Nat, transients <= transients',
             faults' \in Nat, faults <= faults', collided => collided'
      PROVE  DroppedForCause'
    BY <1>0, <1>1 DEF DroppedForCause
<1>2. ASSUME NEW m \in Messages, SyncCommit(m) \/ EnqueueEmbed(m)
      PROVE  DroppedForCause'
    BY <1>0, <1>1, <1>2 DEF SyncCommit, EnqueueEmbed, history
<1>3. ASSUME NEW w \in Workers, NEW m \in Messages, NEW r \in Tries, LoadRow(w, m, r)
      PROVE  DroppedForCause'
    BY <1>0, <1>1, <1>3 DEF LoadRow
<1>4. ASSUME NEW c \in Clients, Passing(c)
      PROVE  DroppedForCause'
    BY <1>4, PassingEffect DEF DroppedForCause
<1>5. ASSUME NEW w \in Workers, Ending(w)
      PROVE  DroppedForCause'
    <2>1. CASE Upsert(w)
        BY <1>0, <1>1, <2>1 DEF Upsert
    <2>2. CASE Collide(w)
        BY <2>2 DEF Collide, DroppedForCause
    <2>3. CASE TaskFails(w) \/ Crash(w)
        BY <1>0, <2>3 DEF TaskFails, Crash, Fault, DroppedForCause
    <2>4. CASE Transient(w) /\ retries[w] < MaxRetries
        BY <1>0, <1>1, <2>4 DEF Transient
    <2>5. CASE Transient(w) /\ ~(retries[w] < MaxRetries)
        <3>1. retries[w] \in Tries /\ retries[w] <= transients /\ transients' = transients + 1
            BY <2>5 DEF TypeOK, RetriesCounted, Transient
        <3>2. transients' > MaxRetries
            BY <1>0, <2>5, <3>1
        <3> QED
            BY <3>2 DEF DroppedForCause
    <2> QED
        BY <1>5, <2>1, <2>2, <2>3, <2>4, <2>5 DEF Ending
<1> QED
    BY <1>2, <1>3, <1>4, <1>5, NextCases

(* Each message keeps the three parts of IInv that are about it.           *)
Followed(m) == HasPoint(m) /\ IsFresh(m) /\ RunsAlone(m)

(* A step that leaves the message alone, or gives it a task to come.       *)
LEMMA Untouched ==
    ASSUME NEW n \in Messages, Followed(n),
           UNCHANGED <<row[n], points[n]>>,
           n \in dropped' <=> n \in dropped,
           n \in overlapped' <=> n \in overlapped,
           InProgress(n) => InProgress(n)',
           Waiting(n) => Waiting(n)',
           \A w \in Workers : target'[w] = n => target[w] = n /\ text'[w] = text[w]
    PROVE  Followed(n)'
<1>1. HasPoint(n)' /\ IsFresh(n)'
    BY DEF Followed, HasPoint, IsFresh
<1>2. RunsAlone(n)'
    BY DEF Followed, RunsAlone
<1> QED
    BY <1>1, <1>2 DEF Followed

LEMMA SyncFollowed ==
    ASSUME TypeOK, NEW m \in Messages, SyncCommit(m), NEW n \in Messages, Followed(n)
    PROVE  Followed(n)'
<1>1. /\ owed'[m] > 0
      /\ m # n => row'[n] = row[n] /\ owed'[n] = owed[n]
      /\ UNCHANGED <<queue, target, text, points, dropped, overlapped>>
    BY DEF TypeOK, SyncCommit, taskVars, qdrant, history
<1>2. CASE m = n
    <2>1. Waiting(n)' /\ InProgress(n)'
        BY <1>1, <1>2 DEF Waiting, InProgress
    <2> QED
        BY <1>1, <2>1 DEF Followed, HasPoint, IsFresh, RunsAlone
<1>3. CASE m # n
    <2>1. Waiting(n)' = Waiting(n) /\ InProgress(n)' = InProgress(n)
        BY <1>1, <1>3 DEF Waiting, InProgress
    <2> QED
        BY <1>1, <1>3, <2>1, Untouched
<1> QED
    BY <1>2, <1>3

LEMMA LoadFollowed ==
    ASSUME TypeOK, Busy, NEW w \in Workers, NEW m \in Messages, NEW r \in Tries,
           LoadRow(w, m, r), NEW n \in Messages, Followed(n)
    PROVE  Followed(n)'
<1>1. UNCHANGED <<row, points, dropped>>
    BY DEF LoadRow, qdrant
<1>2. CASE m # n
    <2>1. \A x \in Workers : target'[x] = n => target[x] = n /\ text'[x] = text[x]
        BY <1>2, LoadEffect
    <2> QED
        BY <1>1, <1>2, <2>1, LoadEffect, Untouched
<1>3. CASE m = n
    <2>1. InProgress(n)'
        BY <1>3, LoadEffect DEF InProgress
    <2>2. RunsAlone(n)'
        <3> SUFFICES ASSUME n \notin overlapped'
                     PROVE  /\ \A x \in Workers : target'[x] = n => x = w
                            /\ text'[w] = row'[n]
            BY DEF RunsAlone
        <3> QED
            BY <1>1, <1>3, LoadEffect
    <2> QED
        BY <2>1, <2>2 DEF Followed, HasPoint, IsFresh
<1> QED
    BY <1>2, <1>3

LEMMA EndingFollowed ==
    ASSUME TypeOK, Busy, NEW w \in Workers, Ending(w), NEW n \in Messages, Followed(n)
    PROVE  Followed(n)'
<1>1. UNCHANGED <<row, overlapped>>
    BY EndingStep
<1>2. PICK m \in Messages : target[w] = m
    BY EndingTask
<1>3. /\ text[w] \in Nat \ {0} /\ target'[w] = NoMessage
      /\ \A x \in Workers : x # w => target'[x] = target[x] /\ text'[x] = text[x]
      /\ Waiting(n) => Waiting(n)'
    BY <1>2, EndingEffect
<1>4. CASE n # m
    <2>1. points'[n] = points[n] /\ (n \in dropped' <=> n \in dropped)
        BY <1>2, <1>4, EndingEffect
    <2>2. \A x \in Workers : target'[x] = n <=> target[x] = n
        BY <1>2, <1>3, <1>4
    <2>3. InProgress(n) => InProgress(n)'
        BY <1>3, <2>2 DEF InProgress
    <2>4. \A x \in Workers : target'[x] = n => target[x] = n /\ text'[x] = text[x]
        BY <1>3, <2>2
    <2> QED
        BY <1>1, <1>3, <2>1, <2>3, <2>4, Untouched
<1>5. CASE n = m
    <2>1. RunsAlone(n)'
        BY <1>1, <1>3 DEF Followed, RunsAlone
    <2>2. /\ points'[n] \in {points[n], text[w]}
          /\ points'[n] = text[w] \/ n \in dropped' \/ Waiting(n)'
        BY <1>2, <1>5, EndingEffect
    <2>3. HasPoint(n)'
        BY <1>3, <2>2 DEF HasPoint, InProgress
    <2>4. IsFresh(n)'
        <3>1. CASE n \in dropped' \/ n \in overlapped' \/ Waiting(n)'
            BY <3>1 DEF IsFresh, InProgress
        <3>2. CASE n \notin overlapped' /\ points'[n] = text[w]
            <4>1. text[w] = row[n] \/ Waiting(n)
                BY <1>1, <1>2, <1>5, <3>2 DEF Followed, RunsAlone
            <4> QED
                BY <1>1, <1>3, <3>2, <4>1 DEF IsFresh, InProgress
        <3> QED
            BY <2>2, <3>1, <3>2
    <2> QED
        BY <2>1, <2>3, <2>4 DEF Followed
<1> QED
    BY <1>4, <1>5

LEMMA FollowedStep ==
    ASSUME TypeOK, Busy, Next, NEW n \in Messages, Followed(n)
    PROVE  Followed(n)'
<1>1. ASSUME NEW m \in Messages, EnqueueEmbed(m)
      PROVE  Followed(n)'
    <2>1. UNCHANGED <<row, points, dropped, overlapped, target, text>>
        BY <1>1 DEF EnqueueEmbed, taskVars, qdrant, history
    <2>2. InProgress(n) => InProgress(n)'
        BY <1>1, <2>1, EnqueueEffect DEF InProgress
    <2> QED
        BY <1>1, <2>1, <2>2, EnqueueEffect, Untouched
<1>2. ASSUME NEW c \in Clients, Passing(c)
      PROVE  Followed(n)'
    BY <1>2, PassingEffect, Untouched
<1> QED
    BY <1>1, <1>2, SyncFollowed, LoadFollowed, EndingFollowed, NextCases

-----------------------------------------------------------------------------
(* The inductive invariant, and the theorems.                              *)

LEMMA InitIInv == Init => IInv
<1> SUFFICES ASSUME Init PROVE IInv
    OBVIOUS
<1>1. TypeOK
    <2>1. [r \in Tries |-> 0] \in [Tries -> Nat]
        OBVIOUS
    <2>2. queue \in [Messages -> [Tries -> Nat]]
        BY <2>1 DEF Init
    <2>3. retries \in [Workers -> Tries]
        BY DEF Init
    <2>4. /\ row \in [Messages -> Nat] /\ owed \in [Messages -> Nat]
          /\ points \in [Messages -> Nat] /\ text \in [Workers -> Nat]
        BY DEF Init
    <2>5. /\ pc \in [Clients -> {"idle", "embedding", "creating", "calling"}]
          /\ target \in [Workers -> Messages \cup {NoMessage}]
        BY DEF Init
    <2>7. collection \in BOOLEAN /\ collided \in BOOLEAN
        BY Zenon DEF Init
    <2>6. /\ overlapped \subseteq Messages /\ dropped \subseteq Messages
          /\ syncs \in 0..MaxSyncs /\ transients \in 0..MaxTransients
          /\ faults \in 0..MaxFaults
        BY DEF Init
    <2> QED
        BY <2>2, <2>3, <2>4, <2>5, <2>6, <2>7 DEF TypeOK
<1>2. Busy /\ RetriesCounted /\ DroppedForCause
    BY DEF Init, Busy, RetriesCounted, DroppedForCause
<1>3. \A m \in Messages : row[m] = 0 /\ ~InProgress(m) /\ points[m] = 0 /\ m \notin dropped
    BY DEF Init, InProgress, Waiting
<1>4. HasRow /\ \A m \in Messages : HasPoint(m) /\ IsFresh(m)
    BY <1>3 DEF HasRow, HasPoint, IsFresh
<1>5. \A m \in Messages : RunsAlone(m)
    BY DEF Init, RunsAlone
<1> QED
    BY <1>1, <1>2, <1>4, <1>5 DEF IInv

LEMMA NextIInv == IInv /\ [Next]_vars => IInv'
<1> SUFFICES ASSUME IInv, [Next]_vars PROVE IInv'
    OBVIOUS
<1>1. CASE Next
    <2>1. TypeOK' /\ Busy' /\ HasRow' /\ RetriesCounted' /\ DroppedForCause'
        BY <1>1, NextTypes, BusyStep, HasRowStep, RetriesStep, DroppedStep DEF IInv
    <2>2. \A m \in Messages : Followed(m)'
        BY <1>1, FollowedStep DEF IInv, Followed
    <2> QED
        BY <2>1, <2>2 DEF IInv, Followed
<1>2. CASE UNCHANGED vars
    <2>1. TypeOK' /\ Busy' /\ RetriesCounted' /\ DroppedForCause'
        BY <1>2 DEF IInv, TypeOK, Busy, RetriesCounted, DroppedForCause, vars, taskVars,
                    qdrant, history
    <2>2. \A m \in Messages : InProgress(m)' = InProgress(m) /\ Waiting(m)' = Waiting(m)
        BY <1>2 DEF InProgress, Waiting, vars, taskVars
    <2>3. HasRow' /\ \A m \in Messages : HasPoint(m)' /\ IsFresh(m)' /\ RunsAlone(m)'
        BY <1>2, <2>2 DEF IInv, HasRow, HasPoint, IsFresh, RunsAlone, vars, taskVars,
                          qdrant, history
    <2> QED
        BY <2>1, <2>3 DEF IInv
<1> QED
    BY <1>1, <1>2

(* The inductive invariant of Embedding holds at every step of the syncs,  *)
(* the tasks and the searches.                                             *)
THEOREM Invariance == Spec => []IInv
BY InitIInv, NextIInv, PTL DEF Spec

(* Every state is well typed; no task of embed_message is retried more     *)
(* than max_retries times.                                                 *)
THEOREM TypeCorrect == Spec => []TypeOK
<1>1. IInv => TypeOK
    BY DEF IInv
<1> QED
    BY <1>1, Invariance, PTL

(* Whatever overlaps, is retried or redelivered, a message whose tasks are *)
(* through has a point, unless one of them failed for good since the last  *)
(* that did not.                                                           *)
THEOREM MessagesAreFindable == Spec => []Findable
<1>1. IInv => Findable
    BY DEF IInv, HasPoint, Findable, Quiet
<1> QED
    BY <1>1, Invariance, PTL

(* A vector of an older text than the row's is there only while a task is  *)
(* in progress, after a failure, or after tasks of the message that ran    *)
(* beside each other (embed_message).                                      *)
THEOREM VectorsAreCurrent == Spec => []Current
<1>1. IInv => Current
    BY DEF IInv, IsFresh, Current, Quiet
<1> QED
    BY <1>1, Invariance, PTL

(* Tasks fail for good by an outage, by more transient errors than the     *)
(* task may be retried, or because another process created the collection  *)
(* first (ensure_collection).                                              *)
THEOREM FailuresHaveCauses == Spec => []DroppedForCause
<1>1. IInv => DroppedForCause
    BY DEF IInv
<1> QED
    BY <1>1, Invariance, PTL

(* What Qdrant finds has its row: points are written by tasks that a sync  *)
(* enqueues after its commit, so the hits that GET /search passes over     *)
(* because their message is gone do not come from the pipeline.            *)
THEOREM HitsAreStored == Spec => []HitsHaveRows
<1>1. IInv => HitsHaveRows
    BY DEF IInv, HasRow, HitsHaveRows
<1> QED
    BY <1>1, Invariance, PTL

(* Once there is a collection, and nobody is creating one, no task and no  *)
(* search ever creates it again (ensure_collection).                       *)
THEOREM CollectionIsCreatedOnce == Spec => CreatedOnce
<1>1. TypeOK /\ Busy /\ [Next]_vars
        => [collection /\ (\A c \in Clients : pc[c] # "creating")
               => collection' /\ \A c \in Clients : pc'[c] # "creating"]_vars
    <2> SUFFICES ASSUME TypeOK, Busy, Next, collection, \A c \in Clients : pc[c] # "creating"
                 PROVE  collection' /\ \A c \in Clients : pc'[c] # "creating"
        OBVIOUS
    <2>1. ASSUME NEW m \in Messages, SyncCommit(m) \/ EnqueueEmbed(m)
          PROVE  collection' /\ \A c \in Clients : pc'[c] # "creating"
        BY <2>1 DEF SyncCommit, EnqueueEmbed, qdrant
    <2>2. ASSUME NEW w \in Workers, NEW m \in Messages, NEW r \in Tries, LoadRow(w, m, r)
          PROVE  collection' /\ \A c \in Clients : pc'[c] # "creating"
        BY <2>2 DEF TypeOK, LoadRow, qdrant
    <2>3. ASSUME NEW c \in Clients, Passing(c)
          PROVE  collection' /\ \A d \in Clients : pc'[d] # "creating"
        BY <2>3 DEF TypeOK, Passing, Serve, Search, Answer, SearchFails,
            EnsureCollection,
                    AfterListing, CreateCollection, qdrant
    <2>4. ASSUME NEW w \in Workers, Ending(w)
          PROVE  collection' /\ \A c \in Clients : pc'[c] # "creating"
        <3>1. \A c \in Clients : pc'[c] # "creating"
            BY <2>4, EndingStep DEF TypeOK, Free
        <3>2. collection'
            BY <2>4 DEF Ending, Upsert, Collide, Transient, TaskFails, Crash, Unheard,
                qdrant
        <3> QED
            BY <3>1, <3>2
    <2> QED
        BY <2>1, <2>2, <2>3, <2>4, NextCases
<1>2. IInv => TypeOK /\ Busy
    BY DEF IInv
<1> QED
    BY <1>1, <1>2, Invariance, PTL DEF Spec, CreatedOnce
=============================================================================
