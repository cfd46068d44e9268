------------------------- MODULE TelegramSyncProofs -------------------------
(***************************************************************************)
(* Proofs about TelegramSync, for any set of workers and of messages and   *)
(* any bounds: no update is passed before it is stored.                    *)
(***************************************************************************)
EXTENDS TelegramSync, TLAPS

USE TelegramAssumption DEF TelegramAssumption, DB!NoRow

-----------------------------------------------------------------------------
(* Types.                                                                  *)

(* The columns of a message in hand.                                       *)
LEMMA DrawnMessage ==
    ASSUME DB!TypeOK, NEW w \in Workers, drawn[w] # DB!Nothing
    PROVE  drawn[w].key \in Keys /\ drawn[w].version \in 1..MaxUpdates
BY DEF DB!TypeOK, DB!Message

(* The database keeps its types in every step of a worker's transaction.   *)
LEMMA UpsertTypes ==
    ASSUME DB!TypeOK, NEW w \in Workers, DB!Upsert(w)
    PROVE  DB!TypeOK'
<1>1. drawn[w].key \in Keys /\ drawn[w].version \in 1..MaxUpdates
    BY DrawnMessage DEF DB!Upsert, DB!Written, DB!OneMore
<1>2. writes' \in [Workers -> [Keys -> 1..MaxUpdates \cup {DB!NoRow}]]
    BY <1>1 DEF DB!TypeOK, DB!Upsert, DB!Written, DB!OneMore
<1>3. inserted' \in [Workers -> Nat] /\ updated' \in [Workers -> Nat]
    <2>1. CASE DB!Visible(w, drawn[w].key) = DB!NoRow
        BY <2>1 DEF DB!TypeOK, DB!Upsert, DB!Written, DB!OneMore
    <2>2. CASE DB!Visible(w, drawn[w].key) # DB!NoRow
        BY <2>2 DEF DB!TypeOK, DB!Upsert, DB!Written, DB!OneMore
    <2> QED
        BY <2>1, <2>2
<1> QED
    BY <1>2, <1>3 DEF DB!TypeOK, DB!Upsert, DB!Written, DB!OneMore

LEMMA CloseTypes ==
    ASSUME DB!TypeOK, NEW w \in Workers, DB!Commit(w) \/ DB!Rollback(w)
    PROVE  DB!TypeOK'
<1>1. DB!Close(w)
    BY DEF DB!Commit, DB!Rollback, DB!Merged, DB!Undone
<1>2. /\ session' \in [Workers -> {"closed", "open"}]
      /\ drawn' \in [Workers -> DB!Message \cup {DB!Nothing}]
      /\ writes' \in [Workers -> [Keys -> 1..MaxUpdates \cup {DB!NoRow}]]
      /\ inserted' \in [Workers -> Nat]
      /\ updated' \in [Workers -> Nat]
    BY <1>1 DEF DB!TypeOK, DB!Close, DB!NoWrites, DB!Released
<1>3. messages' \in [Keys -> 1..MaxUpdates \cup {DB!NoRow}]
    BY DEF DB!TypeOK, DB!Commit, DB!Rollback, DB!Merged, DB!Undone
<1>4. reported' \in Nat
    BY DEF DB!TypeOK, DB!Commit, DB!Rollback, DB!Merged, DB!Undone
<1> QED
    BY <1>2, <1>3, <1>4 DEF DB!TypeOK

LEMMA IdleTypes ==
    ASSUME DB!TypeOK, UNCHANGED dbVars
    PROVE  DB!TypeOK'
BY DEF DB!TypeOK, dbVars

(* A worker that ends its task leaves well-typed variables.                *)
LEMMA LeaveTypes ==
    ASSUME TypeOK, NEW w \in Workers, Leave(w)
    PROVE  /\ pc' \in [Workers -> {"idle", "fetching", "writing", "committed",
                                   "fanning"}]
           /\ retries' \in [Workers -> 0..MaxRetries]
           /\ offset' \in [Workers -> Nat]
           /\ first' \in [Workers -> Nat]
           /\ last' \in [Workers -> Nat]
           /\ pos' \in [Workers -> Nat]
BY DEF TypeOK, Leave, GoTo

LEMMA BudgetTypes ==
    ASSUME TypeOK, Fault \/ Loss \/ UNCHANGED budget
    PROVE  /\ faults' \in 0..MaxFaults /\ crashes' \in 0..MaxCrashes
           /\ forgotten' \subseteq Workers /\ contended' \subseteq Keys
BY DEF TypeOK, Fault, Loss, Lost, budget

LEMMA FromType ==
    ASSUME TypeOK, NEW w \in Workers
    PROVE  From(w) \in Nat \ {0}
BY DEF TypeOK, From, Larger

(* Every step that ends a task keeps the types of what the task held.      *)
LEMMA FailureTypes ==
    ASSUME TypeOK, NEW w \in Workers,
           Failure(w) \/ SyncDeadlocks(w) \/ Finish(w)
    PROVE  TypeOK'
<1>1. CASE GetUpdatesFails(w)
    <2>1. DB!TypeOK'
        BY <1>1, CloseTypes DEF TypeOK, GetUpdatesFails
    <2>2. confirmed' \in Nat \ {0}
        BY <1>1, FromType DEF TypeOK, GetUpdatesFails
    <2>3. queue' \in [0..MaxRetries -> Nat]
        <3>1. queue \in [0..MaxRetries -> Nat] /\ retries[w] \in 0..MaxRetries
            BY DEF TypeOK
        <3>2. CASE retries[w] < MaxRetries
            <4>1. queue' = [queue EXCEPT ![retries[w] + 1] = @ + 1]
                BY <1>1, <3>2 DEF GetUpdatesFails, Retry
            <4>2. retries[w] + 1 \in 0..MaxRetries
                BY <3>1, <3>2
            <4> QED
                BY <3>1, <4>1, <4>2
        <3>3. CASE ~(retries[w] < MaxRetries)
            BY <1>1, <3>1, <3>3 DEF GetUpdatesFails, Retry
        <3> QED
            BY <3>2, <3>3
    <2> QED
        BY <1>1, <2>1, <2>2, <2>3, LeaveTypes, BudgetTypes
        DEF TypeOK, GetUpdatesFails
<1>2. CASE CommitUnheard(w)
    BY <1>2, CloseTypes, LeaveTypes, BudgetTypes DEF TypeOK, CommitUnheard
<1>3. CASE SyncFails(w)
    BY <1>3, CloseTypes, LeaveTypes, BudgetTypes DEF TypeOK, SyncFails
<1>4. CASE AdvanceCursorFails(w)
    BY <1>4, IdleTypes, BudgetTypes DEF TypeOK, AdvanceCursorFails, GoTo
<1>5. CASE EnqueueFollowupFails(w)
    BY <1>5, IdleTypes, LeaveTypes, BudgetTypes DEF TypeOK, EnqueueFollowupFails
<1>6. CASE Crash(w)
    <2>1. DB!TypeOK'
        BY <1>6, CloseTypes, IdleTypes DEF TypeOK, Crash
    <2>2. queue' \in [0..MaxRetries -> Nat]
        BY <1>6 DEF TypeOK, Crash
    <2> QED
        BY <1>6, <2>1, <2>2, LeaveTypes, BudgetTypes DEF TypeOK, Crash
<1>7. CASE SyncDeadlocks(w)
    BY <1>7, CloseTypes, LeaveTypes, BudgetTypes
    DEF TypeOK, SyncDeadlocks, DB!DeadlockVictim
<1>8. CASE Finish(w)
    BY <1>8, IdleTypes, LeaveTypes, BudgetTypes DEF TypeOK, Finish
<1> QED
    BY <1>1, <1>2, <1>3, <1>4, <1>5, <1>6, <1>7, <1>8 DEF Failure

(* A loop that goes on to the next update stays in the numbers.            *)
LEMMA PosStep ==
    ASSUME TypeOK, NEW w \in Workers, pos' = [pos EXCEPT ![w] = pos[w] + 1]
    PROVE  pos' \in [Workers -> Nat]
BY DEF TypeOK

(* The steps of a task keep the types; a window lies within the updates.   *)
LEMMA ProgressTypes ==
    ASSUME IInv, NEW w \in Workers, Proceed(w) \/ UpsertMessage(w)
    PROVE  TypeOK'
<1>0. TypeOK
    BY DEF IInv
<1>1. CASE Start(w)
    <2>1. PICK r \in 0..MaxRetries :
            /\ queue[r] > 0
            /\ queue' = [queue EXCEPT ![r] = @ - 1]
            /\ retries' = [retries EXCEPT ![w] = r]
        BY <1>1 DEF Start, Ready
    <2>4. /\ offset' = [offset EXCEPT ![w] = cursor]
          /\ pc' = [pc EXCEPT ![w] = "fetching"]
          /\ forgotten' = forgotten \ {w}
          /\ UNCHANGED <<updates, confirmed, cursor, first, last, pos, followed,
                          contended, faults, crashes>>
        BY <1>1 DEF Start, GoTo, Ready
    <2>2. queue' \in [0..MaxRetries -> Nat]
        <3>1. queue \in [0..MaxRetries -> Nat]
            BY <1>0 DEF TypeOK
        <3> QED
            BY <2>1, <3>1
    <2>3. DB!TypeOK'
        BY <1>0, <1>1 DEF Start, TypeOK, DB!TypeOK, DB!Begin, Ready
    <2> QED
        BY <1>0, <2>1, <2>2, <2>3, <2>4 DEF TypeOK
<1>2. CASE GetUpdates(w)
    <2>1. DB!TypeOK'
        BY <1>0, <1>2, IdleTypes DEF TypeOK, GetUpdates
    <2>2. From(w) \in Nat \ {0} /\ Len(updates) \in Nat
        <3>1. From(w) \in Nat \ {0}
            BY <1>0, FromType
        <3>2. Len(updates) \in Nat
            BY <1>0 DEF TypeOK
        <3> QED
            BY <3>1, <3>2
    <2>3. To(w) \in Nat
        BY <2>2 DEF To, Smaller
    <2>4. /\ confirmed' = From(w)
          /\ first' = [first EXCEPT ![w] = From(w)]
          /\ last' = [last EXCEPT ![w] = To(w)]
          /\ contended' = contended \cup (Carried(From(w), To(w)) \cap Underway)
          /\ pos' = [pos EXCEPT ![w] = From(w)]
          /\ pc' = [pc EXCEPT ![w] = "writing"]
          /\ UNCHANGED <<updates, cursor, queue, retries, offset, followed,
                         forgotten, faults, crashes>>
        BY <1>2 DEF GetUpdates, GoTo
    <2>5. contended' \subseteq Keys
        BY <1>0, <2>4 DEF TypeOK, Carried
    <2> QED
        BY <1>0, <2>1, <2>2, <2>3, <2>4, <2>5 DEF TypeOK
<1>3. CASE DrawUpdate(w)
    <2> DEFINE msg == [key |-> updates[pos[w]], version |-> pos[w]]
    <2>1. pos[w] \in 1..Len(updates)
        <3>1. pos[w] \in Nat /\ last[w] \in Nat /\ Len(updates) \in Nat
            BY <1>0 DEF TypeOK
        <3>2. 1 <= pos[w] /\ pos[w] <= last[w] /\ last[w] <= Len(updates)
            BY <1>3 DEF IInv, WritingOK, DrawUpdate
        <3> QED
            BY <3>1, <3>2
    <2>2. msg \in DB!Message
        BY <1>0, <1>3, <2>1 DEF TypeOK, DrawUpdate, DB!Message
    <2>3. DB!TypeOK'
        BY <1>0, <1>3, <2>2 DEF TypeOK, DrawUpdate, DB!TypeOK, DB!Draw
    <2>4. pos' \in [Workers -> Nat]
        BY <1>0, <1>3, PosStep DEF DrawUpdate
    <2> QED
        BY <1>0, <1>3, <2>3, <2>4, BudgetTypes DEF TypeOK, DrawUpdate
<1>4. CASE SkipUpdate(w)
    <2>1. DB!TypeOK'
        BY <1>0, <1>4, IdleTypes DEF TypeOK, SkipUpdate
    <2>2. pos' \in [Workers -> Nat]
        BY <1>0, <1>4, PosStep DEF SkipUpdate
    <2>3. UNCHANGED <<updates, confirmed, cursor, queue, pc, retries, offset,
                      first, last, followed, budget>>
        BY <1>4 DEF SkipUpdate
    <2> QED
        BY <1>0, <2>1, <2>2, <2>3, BudgetTypes DEF TypeOK
<1>5. CASE UpsertMessage(w)
    <2>1. DB!TypeOK'
        BY <1>0, <1>5, UpsertTypes DEF TypeOK, UpsertMessage
    <2>2. UNCHANGED <<updates, confirmed, cursor, queue, pc, retries, offset,
                      first, last, pos, followed, budget>>
        BY <1>5 DEF UpsertMessage, taskVars
    <2> QED
        BY <1>0, <2>1, <2>2, BudgetTypes DEF TypeOK
<1>6. CASE CommitBatch(w)
    <2>1. DB!TypeOK'
        BY <1>0, <1>6, CloseTypes DEF TypeOK, CommitBatch
    <2>2. /\ pc' = [pc EXCEPT ![w] = "committed"]
          /\ UNCHANGED <<updates, confirmed, cursor, queue, retries, offset, first,
                         last, pos, followed, budget>>
        BY <1>6 DEF CommitBatch, GoTo
    <2> QED
        BY <1>0, <2>1, <2>2, BudgetTypes DEF TypeOK
<1>7. CASE AdvanceCursor(w)
    <2>1. DB!TypeOK'
        BY <1>0, <1>7, IdleTypes DEF TypeOK, AdvanceCursor, NextOffset
    <2>2. cursor' \in Nat
        <3>1. last[w] + 1 \in Nat /\ cursor \in Nat
            BY <1>0 DEF TypeOK
        <3> QED
            BY <1>7, <3>1 DEF AdvanceCursor, NextOffset
    <2>3. /\ pos' = [pos EXCEPT ![w] = first[w]]
          /\ pc' = [pc EXCEPT ![w] = "fanning"]
          /\ UNCHANGED <<updates, confirmed, queue, retries, offset, first, last,
                         followed, budget>>
        BY <1>7 DEF AdvanceCursor, GoTo, NextOffset
    <2> QED
        BY <1>0, <2>1, <2>2, <2>3, BudgetTypes DEF TypeOK
<1>8. CASE EnqueueFollowup(w)
    <2>1. DB!TypeOK'
        BY <1>0, <1>8, IdleTypes DEF TypeOK, EnqueueFollowup, Followed
    <2>2. followed' \subseteq Nat
        BY <1>0, <1>8 DEF TypeOK, EnqueueFollowup, Followed
    <2>3. pos' \in [Workers -> Nat]
        BY <1>0, <1>8, PosStep DEF EnqueueFollowup, Followed
    <2>4. UNCHANGED <<updates, confirmed, cursor, queue, pc, retries, offset,
                      first, last, budget>>
        BY <1>8 DEF EnqueueFollowup, Followed
    <2> QED
        BY <1>0, <2>1, <2>2, <2>3, <2>4, BudgetTypes DEF TypeOK
<1> QED
    BY <1>0, <1>1, <1>2, <1>3, <1>4, <1>5, <1>6, <1>7, <1>8, FailureTypes
    DEF Proceed

-----------------------------------------------------------------------------
(* Stored updates stay stored.                                             *)

RowsStay == \A k \in Keys : messages[k] # DB!NoRow => messages'[k] # DB!NoRow

(* Covered(n) in the next state, for a number n that does not change.      *)
StillCovered(n) ==
    /\ n <= Len(updates') + 1
    /\ \A u \in 1..Len(updates') :
        u < n => (updates'[u] # NoMessage => messages'[updates'[u]] # DB!NoRow)

LEMMA MessageKey ==
    ASSUME TypeOK, NEW u \in Seen, updates[u] # NoMessage
    PROVE  updates[u] \in Keys /\ u \in Nat \ {0}
BY DEF TypeOK, Seen

LEMMA CoveredStays ==
    ASSUME TypeOK, updates' = updates, RowsStay
    PROVE  \A n \in Nat : Covered(n) => StillCovered(n)
<1> SUFFICES ASSUME NEW n \in Nat, Covered(n),
                    NEW u \in 1..Len(updates), u < n, updates[u] # NoMessage
             PROVE  messages'[updates[u]] # DB!NoRow
    BY DEF StillCovered, Covered
<1>1. updates[u] \in Keys
    BY MessageKey DEF Seen
<1> QED
    BY <1>1 DEF Covered, Seen, Stored, RowsStay

(* A commit removes no row and creates one for each key it wrote.          *)
LEMMA CommitRows ==
    ASSUME DB!TypeOK, NEW w \in Workers, DB!Commit(w)
    PROVE  /\ RowsStay
           /\ \A k \in Keys : DB!Holds(w, k) => messages'[k] # DB!NoRow
BY DEF DB!TypeOK, DB!Commit, DB!Holds, RowsStay, DB!Merged

-----------------------------------------------------------------------------
(* One worker at a time: the invariant about the others is kept by what    *)
(* they do not share.                                                      *)

Undisturbed(o) ==
    /\ pc'[o] = pc[o]
    /\ offset'[o] = offset[o]
    /\ first'[o] = first[o]
    /\ last'[o] = last[o]
    /\ pos'[o] = pos[o]
    /\ drawn'[o] = drawn[o]
    /\ writes'[o] = writes[o]

LEMMA OthersKeep ==
    ASSUME IInv, updates' = updates, RowsStay, NEW o \in Workers, Undisturbed(o)
    PROVE  FetchingOK(o)' /\ WritingOK(o)' /\ CommittedOK(o)'
<1>1. \A n \in Nat : Covered(n) => StillCovered(n)
    BY CoveredStays DEF IInv
<1>2. offset[o] \in Nat /\ first[o] \in Nat /\ last[o] + 1 \in Nat
    BY DEF IInv, TypeOK
<1>3. FetchingOK(o) /\ WritingOK(o) /\ CommittedOK(o)
    BY DEF IInv
<1>4. FetchingOK(o)'
    <2>1. pc[o] = "fetching" => StillCovered(offset[o])
        BY <1>1, <1>2, <1>3 DEF FetchingOK
    <2> QED
        BY <2>1 DEF FetchingOK, Undisturbed, Covered, StillCovered, Seen, Stored
<1>5. CommittedOK(o)'
    <2>1. pc[o] = "committed" => StillCovered(last[o] + 1)
        BY <1>1, <1>2, <1>3 DEF CommittedOK
    <2> QED
        BY <2>1 DEF CommittedOK, Undisturbed, Covered, StillCovered, Seen, Stored
<1>6. WritingOK(o)'
    <2>1. pc[o] = "writing" => StillCovered(first[o])
        BY <1>1, <1>2, <1>3 DEF WritingOK
    <2>2. \A u : InHand(o, u) => InHand(o, u)'
        BY DEF InHand, Undisturbed, DB!Holds, DB!Nothing
    <2> QED
        BY <1>3, <2>1, <2>2
        DEF WritingOK, Undisturbed, Covered, StillCovered, Seen, Stored
<1> QED
    BY <1>4, <1>5, <1>6

(* The step of one worker keeps the invariant if it keeps the part about   *)
(* that worker and about the cursor and the server.                        *)
LEMMA WorkerStep ==
    ASSUME IInv, TypeOK', updates' = updates, RowsStay, NEW w \in Workers,
           \A o \in Workers : o # w => Undisturbed(o),
           FetchingOK(w)', WritingOK(w)', CommittedOK(w)',
           Covered(cursor)', Covered(confirmed)'
    PROVE  IInv'
<1>1. \A o \in Workers : FetchingOK(o)' /\ WritingOK(o)' /\ CommittedOK(o)'
    BY OthersKeep
<1> QED
    BY <1>1 DEF IInv

LEMMA CursorStays ==
    ASSUME IInv, updates' = updates, RowsStay, cursor' = cursor
    PROVE  Covered(cursor)'
<1>1. StillCovered(cursor)
    BY CoveredStays DEF IInv, TypeOK
<1> QED
    BY <1>1 DEF StillCovered, Covered, Seen, Stored

LEMMA ConfirmedStays ==
    ASSUME IInv, updates' = updates, RowsStay, confirmed' = confirmed
    PROVE  Covered(confirmed)'
<1>1. StillCovered(confirmed)
    BY CoveredStays DEF IInv, TypeOK
<1> QED
    BY <1>1 DEF StillCovered, Covered, Seen, Stored

(* The first update that Telegram answers with: all before it are stored.  *)
LEMMA FromCovered ==
    ASSUME IInv, NEW w \in Workers, pc[w] = "fetching"
    PROVE  Covered(From(w))
BY DEF IInv, FetchingOK, From, Larger

(* A worker that leaves gives up its window and its transaction.           *)
LEMMA LeaveStep ==
    ASSUME IInv, TypeOK', updates' = updates, RowsStay, NEW w \in Workers,
           Leave(w),
           \A o \in Workers : o # w => drawn'[o] = drawn[o] /\ writes'[o] = writes[o],
           cursor' = cursor, Covered(confirmed)'
    PROVE  IInv'
<1>1. TypeOK
    BY DEF IInv
<1>2. \A o \in Workers : o # w => Undisturbed(o)
    BY <1>1 DEF TypeOK, Leave, GoTo, Undisturbed
<1>3. pc'[w] = "idle"
    BY <1>1 DEF TypeOK, Leave, GoTo
<1>4. FetchingOK(w)' /\ WritingOK(w)' /\ CommittedOK(w)'
    BY <1>3 DEF FetchingOK, WritingOK, CommittedOK
<1> QED
    BY <1>2, <1>4, CursorStays, WorkerStep

(* Closing a session touches no other session.                             *)
LEMMA CloseAlone ==
    ASSUME DB!TypeOK, NEW w \in Workers, DB!Commit(w) \/ DB!Rollback(w)
    PROVE  \A o \in Workers : o # w => drawn'[o] = drawn[o] /\ writes'[o] = writes[o]
BY DEF DB!TypeOK, DB!Commit, DB!Rollback, DB!Close, DB!Merged, DB!Undone, DB!Released

LEMMA RollbackRows ==
    ASSUME NEW w \in Workers, DB!Rollback(w)
    PROVE  RowsStay
BY DEF DB!Rollback, RowsStay, DB!Undone

-----------------------------------------------------------------------------
(* Steps that end a task.                                                  *)
LEMMA FailureStep ==
    ASSUME IInv, NEW w \in Workers,
           Failure(w) \/ SyncDeadlocks(w) \/ Finish(w)
    PROVE  IInv'
<1>0. TypeOK /\ DB!TypeOK /\ TypeOK'
    BY FailureTypes DEF IInv, TypeOK
<1>1. CASE GetUpdatesFails(w)
    <2>1. RowsStay /\ updates' = updates /\ cursor' = cursor
        BY <1>1, RollbackRows DEF GetUpdatesFails
    <2>2. Covered(confirmed)'
        <3>1. CASE confirmed' = confirmed
            BY <2>1, <3>1, ConfirmedStays
        <3>2. CASE confirmed' = From(w)
            <4>1. StillCovered(From(w))
                BY <1>0, <1>1, <2>1, FromType, FromCovered, CoveredStays
                DEF GetUpdatesFails
            <4> QED
                BY <3>2, <4>1 DEF StillCovered, Covered, Seen, Stored
        <3> QED
            BY <1>1, <3>1, <3>2 DEF GetUpdatesFails
    <2> QED
        BY <1>0, <1>1, <2>1, <2>2, CloseAlone, LeaveStep DEF GetUpdatesFails
<1>2. CASE CommitUnheard(w)
    <2>1. RowsStay /\ updates' = updates /\ cursor' = cursor
        BY <1>0, <1>2, CommitRows DEF CommitUnheard
    <2>2. Covered(confirmed)'
        BY <1>2, <2>1, ConfirmedStays DEF CommitUnheard
    <2> QED
        BY <1>0, <1>2, <2>1, <2>2, CloseAlone, LeaveStep DEF CommitUnheard
<1>3. CASE SyncFails(w) \/ SyncDeadlocks(w)
    <2>1. DB!Rollback(w) /\ Leave(w)
        BY <1>3 DEF SyncFails, SyncDeadlocks, DB!DeadlockVictim
    <2>2. RowsStay /\ updates' = updates /\ cursor' = cursor
        BY <1>3, <2>1, RollbackRows DEF SyncFails, SyncDeadlocks
    <2>3. Covered(confirmed)'
        BY <1>3, <2>2, ConfirmedStays DEF SyncFails, SyncDeadlocks
    <2> QED
        BY <1>0, <2>1, <2>2, <2>3, CloseAlone, LeaveStep
<1>4. CASE EnqueueFollowupFails(w) \/ Finish(w)
    <2>1. Leave(w) /\ UNCHANGED <<messages, drawn, writes>>
        BY <1>4 DEF EnqueueFollowupFails, Finish, dbVars
    <2>2. RowsStay /\ updates' = updates /\ cursor' = cursor
        BY <1>4, <2>1 DEF EnqueueFollowupFails, Finish, RowsStay
    <2>3. Covered(confirmed)'
        BY <1>4, <2>2, ConfirmedStays DEF EnqueueFollowupFails, Finish
    <2> QED
        BY <1>0, <2>1, <2>2, <2>3, LeaveStep
<1>5. CASE Crash(w)
    <2>1. /\ RowsStay
          /\ \A o \in Workers : o # w => /\ drawn'[o] = drawn[o]
                                         /\ writes'[o] = writes[o]
        <3>1. CASE DB!Rollback(w)
            BY <1>0, <3>1, RollbackRows, CloseAlone
        <3>2. CASE UNCHANGED dbVars
            BY <3>2 DEF dbVars, RowsStay
        <3> QED
            BY <1>5, <3>1, <3>2 DEF Crash
    <2>2. Leave(w) /\ updates' = updates /\ cursor' = cursor
        BY <1>5 DEF Crash
    <2>3. Covered(confirmed)'
        BY <1>5, <2>1, <2>2, ConfirmedStays DEF Crash
    <2> QED
        BY <1>0, <2>1, <2>2, <2>3, LeaveStep
<1>6. CASE AdvanceCursorFails(w)
    <2>1. /\ RowsStay
          /\ updates' = updates /\ cursor' = cursor /\ confirmed' = confirmed
        BY <1>6 DEF AdvanceCursorFails, dbVars, RowsStay
    <2>2. \A o \in Workers : o # w => Undisturbed(o)
        BY <1>0, <1>6 DEF TypeOK, AdvanceCursorFails, GoTo, dbVars, Undisturbed
    <2>3. pc'[w] = "fanning"
        BY <1>0, <1>6 DEF TypeOK, AdvanceCursorFails, GoTo
    <2>4. FetchingOK(w)' /\ WritingOK(w)' /\ CommittedOK(w)'
        BY <2>3 DEF FetchingOK, WritingOK, CommittedOK
    <2> QED
        BY <1>0, <2>1, <2>2, <2>4, CursorStays, ConfirmedStays, WorkerStep
<1> QED
    BY <1>1, <1>2, <1>3, <1>4, <1>5, <1>6 DEF Failure

-----------------------------------------------------------------------------
(* Steps that go on with a task.                                           *)

(* A sync that starts reads an offset that covers only stored updates.     *)
LEMMA StartStep ==
    ASSUME IInv, NEW w \in Workers, Start(w)
    PROVE  IInv'
<1>0. TypeOK /\ DB!TypeOK /\ TypeOK'
    BY ProgressTypes DEF IInv, TypeOK, Proceed
<1>1. /\ offset' = [offset EXCEPT ![w] = cursor]
      /\ pc' = [pc EXCEPT ![w] = "fetching"]
      /\ UNCHANGED <<updates, confirmed, cursor, first, last, pos, messages,
                     drawn, writes>>
    BY DEF Start, GoTo, DB!Begin, Ready
<1>2. RowsStay
    BY <1>1 DEF RowsStay
<1>3. \A o \in Workers : o # w => Undisturbed(o)
    BY <1>0, <1>1 DEF TypeOK, Undisturbed
<1>4. Covered(cursor)' /\ Covered(confirmed)'
    BY <1>1, <1>2, CursorStays, ConfirmedStays
<1>5. offset'[w] = cursor' /\ pc'[w] = "fetching"
    BY <1>0, <1>1 DEF TypeOK
<1>6. FetchingOK(w)' /\ WritingOK(w)' /\ CommittedOK(w)'
    BY <1>4, <1>5 DEF FetchingOK, WritingOK, CommittedOK, Covered, Seen, Stored
<1> QED
    BY <1>0, <1>1, <1>2, <1>3, <1>4, <1>6, WorkerStep

(* The window begins where the stored updates end.                         *)
LEMMA GetUpdatesStep ==
    ASSUME IInv, NEW w \in Workers, GetUpdates(w)
    PROVE  IInv'
<1>0. TypeOK /\ TypeOK' /\ Len(updates) \in Nat /\ From(w) \in Nat \ {0}
    <2>1. TypeOK /\ TypeOK'
        BY ProgressTypes DEF IInv, Proceed
    <2>2. Len(updates) \in Nat
        BY <2>1 DEF TypeOK
    <2> QED
        BY <2>1, <2>2, FromType
<1>1. /\ confirmed' = From(w)
      /\ first' = [first EXCEPT ![w] = From(w)]
      /\ last' = [last EXCEPT ![w] = To(w)]
      /\ pos' = [pos EXCEPT ![w] = From(w)]
      /\ pc' = [pc EXCEPT ![w] = "writing"]
      /\ UNCHANGED <<updates, cursor, offset, messages, drawn, writes>>
    BY DEF GetUpdates, GoTo, dbVars
<1>2. RowsStay
    BY <1>1 DEF RowsStay
<1>3. \A o \in Workers : o # w => Undisturbed(o)
    BY <1>0, <1>1 DEF TypeOK, Undisturbed
<1>4. StillCovered(From(w))
    BY <1>0, <1>1, <1>2, FromCovered, CoveredStays DEF GetUpdates
<1>5. Covered(confirmed)'
    BY <1>1, <1>4 DEF StillCovered, Covered, Seen, Stored
<1>6. /\ first'[w] = From(w) /\ pos'[w] = From(w) /\ last'[w] = To(w)
      /\ pc'[w] = "writing"
    BY <1>0, <1>1 DEF TypeOK
<1>7. To(w) <= Len(updates)
    BY <1>0 DEF To, Smaller
<1>8. WritingOK(w)'
    <2>1. Covered(first[w])'
        BY <1>1, <1>4, <1>6 DEF StillCovered, Covered, Seen, Stored
    <2>2. \A u \in Seen' : ~(first'[w] <= u /\ u < pos'[w])
        BY <1>0, <1>1, <1>6 DEF Seen
    <2>3. /\ 1 <= pos'[w] /\ pos'[w] <= Len(updates') + 1
          /\ last'[w] <= Len(updates')
        BY <1>0, <1>1, <1>4, <1>6, <1>7 DEF StillCovered
    <2> QED
        BY <2>1, <2>2, <2>3 DEF WritingOK
<1>9. FetchingOK(w)' /\ CommittedOK(w)'
    BY <1>6 DEF FetchingOK, CommittedOK
<1> QED
    BY <1>0, <1>1, <1>2, <1>3, <1>5, <1>8, <1>9, CursorStays, WorkerStep

(* The loop moves on: what it passes has no message, or is in hand.        *)
LEMMA LoopStep ==
    ASSUME IInv, NEW w \in Workers, DrawUpdate(w) \/ SkipUpdate(w)
    PROVE  IInv'
<1>0. TypeOK /\ DB!TypeOK /\ TypeOK' /\ Len(updates) \in Nat
    <2>1. TypeOK /\ TypeOK'
        BY ProgressTypes DEF IInv, Proceed
    <2>2. DB!TypeOK /\ Len(updates) \in Nat
        BY <2>1 DEF TypeOK
    <2> QED
        BY <2>1, <2>2
<1>1. /\ pc[w] = "writing" /\ drawn[w] = DB!Nothing /\ pos[w] <= last[w]
      /\ pos' = [pos EXCEPT ![w] = pos[w] + 1]
      /\ UNCHANGED <<updates, confirmed, cursor, pc, offset, first, last, messages,
                     writes>>
      /\ \A o \in Workers : o # w => drawn'[o] = drawn[o]
    <2>1. CASE DrawUpdate(w)
        BY <1>0, <2>1 DEF DrawUpdate, DB!Draw, DB!TypeOK
    <2>2. CASE SkipUpdate(w)
        BY <2>2 DEF SkipUpdate, dbVars
    <2> QED
        BY <2>1, <2>2
<1>2. RowsStay
    BY <1>1 DEF RowsStay
<1>3. \A o \in Workers : o # w => Undisturbed(o)
    BY <1>0, <1>1 DEF TypeOK, Undisturbed
<1>4. pos[w] \in Nat /\ last[w] \in Nat /\ pos'[w] = pos[w] + 1
    BY <1>0, <1>1 DEF TypeOK
<1>5. WritingOK(w)
    BY DEF IInv
<1>6. ASSUME NEW u, u = pos[w]
      PROVE  InHand(w, u)'
    <2>1. CASE DrawUpdate(w)
        <3>1. drawn'[w] = [key |-> updates[u], version |-> u]
            BY <1>0, <1>6, <2>1 DEF DrawUpdate, DB!Draw, DB!TypeOK
        <3>2. drawn'[w].key = updates[u] /\ drawn'[w].version = u
            BY <3>1
        <3>3. u # 0
            BY <1>1, <1>4, <1>5, <1>6 DEF WritingOK
        <3>4. drawn'[w] # DB!Nothing
            BY <3>2, <3>3 DEF DB!Nothing
        <3>5. drawn'[w].key = updates'[u]
            BY <1>1, <3>2
        <3> QED
            BY <3>4, <3>5 DEF InHand, DB!Nothing
    <2>2. CASE SkipUpdate(w)
        BY <1>1, <1>6, <2>2 DEF SkipUpdate, InHand
    <2> QED
        BY <2>1, <2>2
<1>7. WritingOK(w)'
    <2>1. \A u : InHand(w, u) => InHand(w, u)'
        BY <1>1 DEF InHand, DB!Holds
    <2>2. Covered(first[w])'
        BY <1>1, <1>5 DEF WritingOK, Covered, Seen, Stored
    <2>3. ASSUME NEW u \in Seen', first'[w] <= u, u < pos'[w]
          PROVE  InHand(w, u)'
        <3>1. u \in Seen /\ first[w] <= u /\ (u < pos[w] \/ u = pos[w])
            BY <1>0, <1>1, <1>4, <2>3 DEF Seen
        <3> QED
            BY <1>1, <1>5, <1>6, <2>1, <3>1 DEF WritingOK
    <2>4. /\ 1 <= pos'[w] /\ pos'[w] <= Len(updates') + 1
          /\ last'[w] <= Len(updates')
        BY <1>0, <1>1, <1>4, <1>5 DEF WritingOK
    <2> QED
        BY <2>2, <2>3, <2>4 DEF WritingOK
<1>8. FetchingOK(w)' /\ CommittedOK(w)'
    BY <1>1 DEF FetchingOK, CommittedOK
<1> QED
    BY <1>0, <1>1, <1>2, <1>3, <1>7, <1>8, CursorStays, ConfirmedStays, WorkerStep

(* The message in hand goes into the transaction.                          *)
LEMMA UpsertStep ==
    ASSUME IInv, NEW w \in Workers, UpsertMessage(w)
    PROVE  IInv'
<1>0. TypeOK /\ DB!TypeOK /\ TypeOK'
    <2>1. TypeOK /\ TypeOK'
        BY ProgressTypes DEF IInv
    <2> QED
        BY <2>1 DEF TypeOK
<1>1. /\ pc[w] = "writing" /\ drawn[w] # DB!Nothing
      /\ writes' = [writes EXCEPT ![w][drawn[w].key] = drawn[w].version]
      /\ drawn' = [drawn EXCEPT ![w] = DB!Nothing]
      /\ UNCHANGED <<updates, confirmed, cursor, pc, offset, first, last, pos,
                     messages>>
    BY DEF UpsertMessage, DB!Upsert, taskVars, DB!Written, DB!OneMore
<1>2. drawn[w].key \in Keys /\ drawn[w].version # DB!NoRow
    BY <1>0, <1>1, DrawnMessage
<1>3. RowsStay
    BY <1>1 DEF RowsStay
<1>4. \A o \in Workers : o # w => Undisturbed(o)
    BY <1>0, <1>1 DEF DB!TypeOK, Undisturbed
<1>5. \A k \in Keys : DB!Holds(w, k) \/ k = drawn[w].key => DB!Holds(w, k)'
    BY <1>0, <1>1, <1>2 DEF DB!TypeOK, DB!Holds
<1>6. \A u \in Seen : InHand(w, u) => InHand(w, u)'
    <2> SUFFICES ASSUME NEW u \in Seen, InHand(w, u), updates[u] # NoMessage
                 PROVE  DB!Holds(w, updates[u])'
        BY <1>1 DEF InHand
    <2>1. updates[u] \in Keys
        BY <1>0, MessageKey
    <2>2. DB!Holds(w, updates[u]) \/ updates[u] = drawn[w].key
        BY DEF InHand
    <2>3. writes'[w][updates[u]] # DB!NoRow
        BY <1>5, <2>1, <2>2 DEF DB!Holds
    <2> QED
        BY <1>1, <2>3 DEF DB!Holds
<1>7. WritingOK(w)'
    <2>1. WritingOK(w)
        BY DEF IInv
    <2>2. Covered(first[w])'
        BY <1>1, <2>1 DEF WritingOK, Covered, Seen, Stored
    <2> QED
        BY <1>1, <1>6, <2>1, <2>2 DEF WritingOK, Seen
<1>8. FetchingOK(w)' /\ CommittedOK(w)'
    BY <1>1 DEF FetchingOK, CommittedOK
<1> QED
    BY <1>0, <1>1, <1>3, <1>4, <1>7, <1>8, CursorStays, ConfirmedStays, WorkerStep

(* A commit stores the whole window.                                       *)
LEMMA CommitStep ==
    ASSUME IInv, NEW w \in Workers, CommitBatch(w)
    PROVE  IInv'
<1>0. /\ TypeOK /\ DB!TypeOK /\ TypeOK'
      /\ pos[w] \in Nat /\ last[w] \in Nat /\ first[w] \in Nat
    <2>1. TypeOK /\ TypeOK'
        BY ProgressTypes DEF IInv, Proceed
    <2> QED
        BY <2>1 DEF TypeOK
<1>1. /\ pc[w] = "writing" /\ drawn[w] = DB!Nothing /\ pos[w] > last[w]
      /\ DB!Commit(w)
      /\ pc' = [pc EXCEPT ![w] = "committed"]
      /\ UNCHANGED <<updates, confirmed, cursor, offset, first, last, pos>>
    BY DEF CommitBatch, GoTo, DB!Commit, DB!Merged
<1>2. RowsStay
    BY <1>0, <1>1, CommitRows
<1>3. \A o \in Workers : o # w => Undisturbed(o)
    BY <1>0, <1>1, CloseAlone DEF TypeOK, Undisturbed
<1>4. WritingOK(w)
    BY DEF IInv
<1>5. StillCovered(last[w] + 1)
    <2>0. last[w] + 1 <= Len(updates') + 1
        BY <1>0, <1>1, <1>4 DEF WritingOK, TypeOK
    <2> SUFFICES ASSUME NEW u \in Seen, u < last[w] + 1, updates[u] # NoMessage
                 PROVE  messages'[updates[u]] # DB!NoRow
        BY <1>1, <2>0 DEF StillCovered, Seen
    <2>1. updates[u] \in Keys /\ u \in Nat
        BY <1>0, MessageKey
    <2>2. CASE u < first[w]
        BY <1>1, <1>2, <1>4, <2>1, <2>2 DEF WritingOK, Covered, Stored, RowsStay
    <2>3. CASE first[w] <= u
        <3>1. InHand(w, u)
            BY <1>0, <1>1, <1>4, <2>1, <2>3 DEF WritingOK
        <3>2. DB!Holds(w, updates[u])
            BY <1>1, <3>1 DEF InHand
        <3> QED
            BY <1>0, <1>1, <2>1, <3>2, CommitRows
    <2> QED
        BY <1>0, <2>1, <2>2, <2>3
<1>6. pc'[w] = "committed"
    BY <1>0, <1>1 DEF TypeOK
<1>7. FetchingOK(w)' /\ WritingOK(w)' /\ CommittedOK(w)'
    BY <1>1, <1>5, <1>6
    DEF FetchingOK, WritingOK, CommittedOK, StillCovered, Covered, Seen, Stored
<1> QED
    BY <1>0, <1>1, <1>2, <1>3, <1>7, CursorStays, ConfirmedStays, WorkerStep

(* The cursor moves to the end of a window that is stored.                 *)
LEMMA AdvanceStep ==
    ASSUME IInv, NEW w \in Workers, AdvanceCursor(w) \/ EnqueueFollowup(w)
    PROVE  IInv'
<1>0. TypeOK /\ TypeOK'
    BY ProgressTypes DEF IInv, Proceed
<1>1. /\ UNCHANGED <<updates, confirmed, offset, first, last, messages, drawn,
                     writes>>
      /\ pc'[w] = "fanning"
      /\ \A o \in Workers : o # w => pc'[o] = pc[o] /\ pos'[o] = pos[o]
    <2>1. CASE AdvanceCursor(w)
        BY <1>0, <2>1 DEF TypeOK, AdvanceCursor, GoTo, dbVars, NextOffset
    <2>2. CASE EnqueueFollowup(w)
        BY <1>0, <2>2 DEF TypeOK, EnqueueFollowup, dbVars, Followed
    <2> QED
        BY <2>1, <2>2
<1>2. RowsStay
    BY <1>1 DEF RowsStay
<1>3. \A o \in Workers : o # w => Undisturbed(o)
    BY <1>1 DEF Undisturbed
<1>4. Covered(cursor)'
    <2>1. CASE cursor' = cursor
        BY <1>1, <1>2, <2>1, CursorStays
    <2>2. CASE AdvanceCursor(w) /\ cursor' = last[w] + 1
        <3>1. Covered(last[w] + 1)
            BY <2>2 DEF IInv, CommittedOK, AdvanceCursor, NextOffset
        <3> QED
            BY <1>1, <2>2, <3>1 DEF Covered, Seen, Stored
    <2> QED
        BY <2>1, <2>2 DEF AdvanceCursor, EnqueueFollowup, NextOffset, Followed
<1>5. FetchingOK(w)' /\ WritingOK(w)' /\ CommittedOK(w)'
    BY <1>1 DEF FetchingOK, WritingOK, CommittedOK
<1> QED
    BY <1>0, <1>1, <1>2, <1>3, <1>4, <1>5, ConfirmedStays, WorkerStep

-----------------------------------------------------------------------------
(* The outside world.                                                      *)

LEMMA PostTypes ==
    ASSUME TypeOK, NEW what \in Keys \cup {NoMessage}, Post(what)
    PROVE  TypeOK'
<1>1. /\ updates' \in Seq(Keys \cup {NoMessage})
      /\ Len(updates') <= MaxUpdates
    BY DEF TypeOK, Post
<1>2. DB!TypeOK'
    BY IdleTypes DEF TypeOK, Post
<1>3. UNCHANGED <<confirmed, cursor, queue, pc, retries, offset, first, last, pos,
                  followed, budget>>
    BY DEF Post, taskVars
<1> QED
    BY <1>1, <1>2, <1>3, BudgetTypes DEF TypeOK

LEMMA EnqueueTypes ==
    ASSUME TypeOK, Enqueue
    PROVE  TypeOK'
<1>1. queue' \in [0..MaxRetries -> Nat]
    BY DEF TypeOK, Enqueue
<1>2. DB!TypeOK'
    BY IdleTypes DEF TypeOK, Enqueue
<1>3. UNCHANGED <<updates, confirmed, cursor, pc, retries, offset, first, last, pos,
                  followed, budget>>
    BY DEF Enqueue, taskVars
<1> QED
    BY <1>1, <1>2, <1>3, BudgetTypes DEF TypeOK

(* A new update is above every number that covers the earlier ones.        *)
LEMMA PostCovers ==
    ASSUME TypeOK, NEW what \in Keys \cup {NoMessage}, Post(what)
    PROVE  /\ \A n \in Nat : Covered(n) => StillCovered(n)
           /\ Len(updates') = Len(updates) + 1
           /\ \A u \in Seen : updates'[u] = updates[u]
<1>1. /\ updates \in Seq(Keys \cup {NoMessage})
      /\ updates' = Append(updates, what)
      /\ messages' = messages
    BY DEF TypeOK, Post, dbVars
<1>2. Len(updates) \in Nat /\ Len(updates') = Len(updates) + 1
    BY <1>1
<1>3. \A u \in Seen : updates'[u] = updates[u]
    BY <1>1 DEF Seen
<1>4. ASSUME NEW n \in Nat, Covered(n)
      PROVE  StillCovered(n)
    <2>1. n <= Len(updates) + 1
        BY <1>4 DEF Covered
    <2>2. \A u \in 1..Len(updates') : u < n => u \in Seen
        BY <1>2, <2>1 DEF Seen
    <2>3. n <= Len(updates') + 1
        BY <1>2, <2>1
    <2> QED
        BY <1>1, <1>3, <1>4, <2>2, <2>3 DEF StillCovered, Covered, Stored
<1> QED
    BY <1>2, <1>3, <1>4

LEMMA PostStep ==
    ASSUME IInv, NEW what \in Keys \cup {NoMessage}, Post(what)
    PROVE  IInv'
<1>0. /\ TypeOK /\ TypeOK' /\ Len(updates) \in Nat /\ confirmed \in Nat
      /\ cursor \in Nat
    <2>1. TypeOK /\ TypeOK'
        BY PostTypes DEF IInv
    <2>2. Len(updates) \in Nat /\ confirmed \in Nat /\ cursor \in Nat
        BY <2>1 DEF TypeOK
    <2> QED
        BY <2>1, <2>2
<1>1. UNCHANGED <<confirmed, cursor, pc, offset, first, last, pos, drawn, writes>>
    BY DEF Post, taskVars, dbVars
<1>2. /\ \A n \in Nat : Covered(n) => StillCovered(n)
      /\ Len(updates') = Len(updates) + 1
      /\ \A u \in Seen : updates'[u] = updates[u]
    BY <1>0, PostCovers
<1>3. Covered(cursor)'
    <2>1. StillCovered(cursor)
        BY <1>0, <1>2 DEF IInv
    <2> QED
        BY <1>1, <2>1 DEF StillCovered, Covered, Seen, Stored
<1>4. Covered(confirmed)'
    <2>1. StillCovered(confirmed)
        BY <1>0, <1>2 DEF IInv
    <2> QED
        BY <1>1, <2>1 DEF StillCovered, Covered, Seen, Stored
<1>5. ASSUME NEW w \in Workers
      PROVE  FetchingOK(w)' /\ WritingOK(w)' /\ CommittedOK(w)'
    <2>0. /\ FetchingOK(w) /\ WritingOK(w) /\ CommittedOK(w)
          /\ offset[w] \in Nat /\ first[w] \in Nat /\ last[w] \in Nat
          /\ pos[w] \in Nat
        BY <1>0 DEF IInv, TypeOK
    <2>1. FetchingOK(w)'
        <3>1. pc[w] = "fetching" => StillCovered(offset[w])
            BY <1>2, <2>0 DEF FetchingOK
        <3> QED
            BY <1>1, <3>1 DEF FetchingOK, StillCovered, Covered, Seen, Stored
    <2>2. CommittedOK(w)'
        <3>1. pc[w] = "committed" => StillCovered(last[w] + 1)
            BY <1>2, <2>0 DEF CommittedOK
        <3> QED
            BY <1>1, <3>1 DEF CommittedOK, StillCovered, Covered, Seen, Stored
    <2>3. CASE pc[w] = "writing"
        <3>1. StillCovered(first[w])
            BY <1>2, <2>0, <2>3 DEF WritingOK
        <3>2. Covered(first[w])'
            BY <1>1, <3>1 DEF StillCovered, Covered, Seen, Stored
        <3>3. /\ 1 <= pos'[w] /\ pos'[w] <= Len(updates') + 1
              /\ last'[w] <= Len(updates')
            BY <1>0, <1>1, <1>2, <2>0, <2>3 DEF WritingOK
        <3>4. ASSUME NEW u \in Seen', first[w] <= u, u < pos[w]
              PROVE  InHand(w, u)'
            <4>1. u \in Seen
                BY <1>0, <1>2, <2>0, <2>3, <3>4 DEF WritingOK, Seen
            <4>2. InHand(w, u)
                BY <2>0, <2>3, <3>4, <4>1 DEF WritingOK
            <4>3. updates'[u] = updates[u]
                BY <1>2, <4>1
            <4> QED
                BY <1>1, <4>2, <4>3 DEF InHand, DB!Holds, DB!Nothing
        <3>5. WritingOK(w)'
            BY <1>1, <3>2, <3>3, <3>4 DEF WritingOK
        <3> QED
            BY <2>1, <2>2, <3>5
    <2>4. CASE pc[w] # "writing"
        BY <1>1, <2>1, <2>2, <2>4 DEF WritingOK
    <2> QED
        BY <2>3, <2>4
<1> QED
    BY <1>0, <1>3, <1>4, <1>5 DEF IInv

(* Without its data Redis hands out the cursor 0, which covers everything. *)
LEMMA RedisLostStep ==
    ASSUME IInv, RedisLost
    PROVE  IInv'
<1>0. TypeOK
    BY DEF IInv
<1>1. /\ cursor' = 0
      /\ queue' = [r \in 0..MaxRetries |-> 0]
      /\ forgotten' \subseteq Workers
      /\ crashes' = crashes + 1 /\ crashes < MaxCrashes
      /\ UNCHANGED <<updates, confirmed, pc, retries, offset, first, last, pos,
                     followed, contended, faults, dbVars>>
    BY DEF RedisLost, Lost, taskVars
<1>2. DB!TypeOK'
    BY <1>0, <1>1, IdleTypes DEF TypeOK
<1>3. TypeOK'
    BY <1>0, <1>1, <1>2 DEF TypeOK
<1>4. RowsStay
    BY <1>1 DEF RowsStay, dbVars
<1>5. \A w \in Workers : Undisturbed(w)
    BY <1>1 DEF Undisturbed, dbVars
<1>6. Covered(confirmed)'
    BY <1>1, <1>4, ConfirmedStays
<1>7. Covered(cursor)'
    <2>1. Len(updates') \in Nat
        BY <1>3 DEF TypeOK
    <2>2. \A u \in 1..Len(updates') : ~(u < 0)
        BY <2>1
    <2> QED
        BY <1>1, <2>1, <2>2 DEF Covered, Seen
<1> QED
    BY <1>1, <1>3, <1>4, <1>5, <1>6, <1>7, OthersKeep DEF IInv

LEMMA EnqueueStep ==
    ASSUME IInv, Enqueue
    PROVE  IInv'
<1>1. TypeOK'
    BY EnqueueTypes DEF IInv
<1>2. UNCHANGED <<updates, confirmed, cursor, pc, offset, first, last, pos, messages,
                  drawn, writes>>
    BY DEF Enqueue, taskVars, dbVars
<1>3. RowsStay
    BY <1>2 DEF RowsStay
<1>4. \A w \in Workers : Undisturbed(w)
    BY <1>2 DEF Undisturbed
<1>5. Covered(cursor)' /\ Covered(confirmed)'
    BY <1>2, <1>3, CursorStays, ConfirmedStays
<1> QED
    BY <1>1, <1>2, <1>3, <1>4, <1>5, OthersKeep DEF IInv

-----------------------------------------------------------------------------
(* The theorems.                                                           *)

LEMMA InitIInv == Init => IInv
<1> SUFFICES ASSUME Init
             PROVE  IInv
    OBVIOUS
<1>1. DB!TypeOK
    BY DEF Init, DB!Init, DB!TypeOK, DB!NoWrites
<1>2. updates = <<>> /\ Len(updates) = 0 /\ cursor = 0 /\ confirmed = 1
    BY DEF Init
<1>3. updates \in Seq(Keys \cup {NoMessage}) /\ Len(updates) <= MaxUpdates
    BY <1>2
<1>4. TypeOK
    BY <1>1, <1>3 DEF Init, TypeOK
<1>5. Covered(cursor) /\ Covered(confirmed)
    BY <1>2 DEF Covered, Seen
<1>6. \A w \in Workers : FetchingOK(w) /\ WritingOK(w) /\ CommittedOK(w)
    BY DEF Init, FetchingOK, WritingOK, CommittedOK
<1> QED
    BY <1>4, <1>5, <1>6 DEF IInv

LEMMA NextIInv == IInv /\ [Next]_vars => IInv'
<1> SUFFICES ASSUME IInv, [Next]_vars
             PROVE  IInv'
    OBVIOUS
<1>1. ASSUME NEW what \in Keys \cup {NoMessage}, Post(what)
      PROVE  IInv'
    BY <1>1, PostStep
<1>2. CASE Enqueue
    BY <1>2, EnqueueStep
<1>7. CASE RedisLost
    BY <1>7, RedisLostStep
<1>3. ASSUME NEW w \in Workers, Proceed(w)
      PROVE  IInv'
    BY <1>3, StartStep, GetUpdatesStep, LoopStep, CommitStep, AdvanceStep,
       FailureStep DEF Proceed
<1>4. ASSUME NEW w \in Workers, UpsertMessage(w)
      PROVE  IInv'
    BY <1>4, UpsertStep
<1>5. ASSUME NEW w \in Workers, Failure(w)
      PROVE  IInv'
    BY <1>5, FailureStep
<1>6. CASE UNCHANGED vars
    <2>1. DB!TypeOK /\ UNCHANGED dbVars
        BY <1>6 DEF IInv, TypeOK, vars
    <2>2. DB!TypeOK'
        BY <2>1, IdleTypes
    <2> QED
        BY <1>6, <2>2
        DEF IInv, TypeOK, vars, taskVars, budget, dbVars, FetchingOK, WritingOK,
            CommittedOK, Covered, Stored, Seen, InHand, DB!Holds, DB!Nothing
<1> QED
    BY <1>1, <1>2, <1>3, <1>4, <1>5, <1>6, <1>7 DEF Next

(* IInv holds in every reachable state.                                    *)
THEOREM Invariance == Spec => []IInv
<1>1. Init => IInv
    BY InitIInv
<1>2. IInv /\ [Next]_vars => IInv'
    BY NextIInv
<1> QED
    BY <1>1, <1>2, PTL DEF Spec

(* Every variable keeps its type.                                          *)
THEOREM TypeCorrect == Spec => []TypeOK
<1>1. IInv => TypeOK
    BY DEF IInv
<1> QED
    BY <1>1, Invariance, PTL

(* At-least-once polling, for any number of workers, messages, updates,    *)
(* failures and crashes.                                                   *)
THEOREM PollingIsAtLeastOnce == Spec => []AtLeastOnce
<1>1. IInv => AtLeastOnce
    BY DEF IInv, Covered, AtLeastOnce, Passed
<1> QED
    BY <1>1, Invariance, PTL

-----------------------------------------------------------------------------
(* The contract of a polling connector.                                    *)

(* Apart from posts, a step changes the rows or what is confirmed, never   *)
(* both: rows stay, and what is confirmed grows.                           *)
LEMMA StepShape ==
    ASSUME IInv, [Next]_vars, \A what \in Keys \cup {NoMessage} : ~Post(what)
    PROVE  /\ updates' = updates
           /\ \/ messages' = messages /\ confirmed' >= confirmed
              \/ RowsStay /\ confirmed' = confirmed
<1>0. TypeOK /\ DB!TypeOK /\ confirmed \in Nat
    BY DEF IInv, TypeOK
<1>1. CASE Enqueue \/ RedisLost \/ UNCHANGED vars
    BY <1>0, <1>1 DEF Enqueue, RedisLost, vars, dbVars
<1>2. ASSUME NEW w \in Workers, From(w) >= confirmed,
             GetUpdates(w) \/ GetUpdatesFails(w)
      PROVE  updates' = updates /\ messages' = messages /\ confirmed' >= confirmed
    BY <1>0, <1>2 DEF GetUpdates, GetUpdatesFails, DB!Rollback, dbVars, DB!Undone
<1>3. ASSUME NEW w \in Workers, Proceed(w) \/ UpsertMessage(w) \/ Failure(w),
             ~GetUpdates(w), ~GetUpdatesFails(w)
      PROVE  updates' = updates /\ RowsStay /\ confirmed' = confirmed
    <2>1. CASE Start(w) \/ DrawUpdate(w) \/ SkipUpdate(w) \/ UpsertMessage(w)
        BY <2>1 DEF Start, DrawUpdate, SkipUpdate, UpsertMessage, DB!Begin, DB!Draw,
                    DB!Upsert, dbVars, RowsStay, DB!Written, DB!OneMore, Ready
    <2>2. CASE CommitBatch(w) \/ CommitUnheard(w)
        BY <1>0, <2>2, CommitRows DEF CommitBatch, CommitUnheard
    <2>3. CASE SyncFails(w) \/ SyncDeadlocks(w)
        BY <2>3, RollbackRows DEF SyncFails, SyncDeadlocks, DB!DeadlockVictim
    <2>4. CASE AdvanceCursor(w) \/ AdvanceCursorFails(w) \/ EnqueueFollowup(w)
               \/ EnqueueFollowupFails(w) \/ Finish(w)
        BY <2>4 DEF AdvanceCursor, AdvanceCursorFails, EnqueueFollowup,
                    EnqueueFollowupFails, Finish, dbVars, RowsStay, NextOffset, Followed
    <2>5. CASE Crash(w)
        BY <2>5, RollbackRows DEF Crash, dbVars, RowsStay
    <2> QED
        BY <1>3, <2>1, <2>2, <2>3, <2>4, <2>5 DEF Proceed, Failure
<1>4. \A w \in Workers : From(w) >= confirmed
    BY <1>0 DEF TypeOK, From, Larger
<1> QED
    BY <1>1, <1>2, <1>3, <1>4 DEF Next

(* A post is the arrival of an item.                                       *)
LEMMA PostArrives ==
    ASSUME IInv, NEW what \in Keys \cup {NoMessage}, Post(what)
    PROVE  Contract!Arrive
<1>0. TypeOK /\ Len(updates) \in Nat
    BY DEF IInv, TypeOK
<1>1. /\ Len(updates') = Len(updates) + 1
      /\ \A u \in Seen : updates'[u] = updates[u]
      /\ messages' = messages /\ confirmed' = confirmed
    BY <1>0, PostCovers DEF Post, dbVars
<1>2. Seen' = Seen \cup {Len(updates) + 1}
    BY <1>0, <1>1 DEF Seen
<1>3. \A u \in Seen : Stored(u)' = Stored(u)
    BY <1>1 DEF Stored
<1>4. confirmed <= Len(updates) + 1
    BY DEF IInv, Covered
<1>5. {u \in Seen : u < confirmed}' = {u \in Seen : u < confirmed}
    BY <1>0, <1>1, <1>2, <1>4 DEF TypeOK
<1>6. {u \in Seen : Stored(u)}' \in {{u \in Seen : Stored(u)},
                                    {u \in Seen : Stored(u)} \cup {Len(updates')}}
    BY <1>1, <1>2, <1>3
<1> QED
    BY <1>1, <1>5, <1>6 DEF Contract!Arrive

(* The connector implements the contract, for any number of workers,       *)
(* updates, failures and crashes.                                          *)
THEOREM ImplementsPolling == Spec => PollsAsPromised
<1>1. Init => Contract!Init
    <2> SUFFICES ASSUME Init
                 PROVE  Contract!Init
        OBVIOUS
    <2>1. Len(updates) = 0 /\ Seen = {}
        BY DEF Init, Seen
    <2> QED
        BY <2>1 DEF Contract!Init
<1>2. IInv /\ IInv' /\ [Next]_vars
        => [Contract!Next]_<<Len(updates), {u \in Seen : Stored(u)},
                             {u \in Seen : u < confirmed}>>
    <2> SUFFICES ASSUME IInv, IInv', [Next]_vars
                 PROVE  Contract!Arrive \/ Contract!Store \/ Contract!Release
        BY DEF Contract!Next
    <2>1. CASE \E what \in Keys \cup {NoMessage} : Post(what)
        BY <2>1, PostArrives
    <2>2. CASE \A what \in Keys \cup {NoMessage} : ~Post(what)
        <3>1. updates' = updates /\ Seen' = Seen
            BY <2>2, StepShape DEF Seen
        <3>2. CASE RowsStay /\ confirmed' = confirmed
            <4>1. \A u \in Seen : Stored(u) => Stored(u)'
                BY <3>1, <3>2, MessageKey DEF IInv, Stored, RowsStay
            <4> QED
                BY <3>1, <3>2, <4>1 DEF Contract!Store, Seen
        <3>3. CASE messages' = messages /\ confirmed' >= confirmed
            <4>1. \A u \in Seen : Stored(u)' = Stored(u)
                BY <3>1, <3>3 DEF Stored
            <4>2. \A u \in Seen : u < confirmed' => Stored(u)'
                BY <3>1 DEF IInv, Covered
            <4>3. \A u \in Seen : u < confirmed => u < confirmed'
                BY <3>3 DEF IInv, TypeOK, Seen
            <4> QED
                BY <3>1, <3>3, <4>1, <4>2, <4>3 DEF Contract!Release
        <3> QED
            BY <2>2, <3>2, <3>3, StepShape
    <2> QED
        BY <2>1, <2>2
<1> QED
    BY <1>1, <1>2, Invariance, PTL DEF Spec, PollsAsPromised, Contract!Spec
=============================================================================
