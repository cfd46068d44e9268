----------------------- MODULE TelegramDeliveryProofs -----------------------
(***************************************************************************)
(* More proofs about TelegramSync: follow-up tasks are enqueued for all    *)
(* that is passed as long as nothing is lost, the syncs are transactions   *)
(* of Ingest, and what is stored of a message goes back only when an older *)
(* answer was under way at the commit of a newer one: all for any number   *)
(* of workers.                                                             *)
(***************************************************************************)
EXTENDS TelegramSyncProofs

USE TelegramAssumption DEF TelegramAssumption, DB!NoRow

-----------------------------------------------------------------------------
(* Follow-ups.  What becomes the cursor, or an offset, has only handled    *)
(* updates below it: theirs are enqueued or a worker is on its way to it.  *)

Handled(u) ==
    updates[u] # NoMessage => u \in followed \/ \E w \in Workers : WillFollow(w, u)

Handed(n) ==
    /\ n <= Len(updates) + 1
    /\ \A u \in Seen : u < n => Handled(u)

(* Handed(n) in the next state, for a number n that does not change.       *)
StillHanded(n) ==
    /\ n <= Len(updates') + 1
    /\ \A u \in Seen' : u < n => Handled(u)'

WorkerHanded(w) ==
    /\ pc[w] = "fetching" => Handed(offset[w])
    /\ pc[w] \in {"writing", "committed"} => Handed(first[w])

FollowupsKept ==
    /\ Handed(cursor)
    /\ Handed(confirmed)
    /\ \A w \in Workers : WorkerHanded(w)

FollowupsIInv == IInv /\ (crashes = 0 => FollowupsKept)

(* A step keeps all that it does not take back from what is handled.       *)
HandledStay == \A u \in Seen : Handled(u) => Handled(u)'

LEMMA HandedStays ==
    ASSUME updates' = updates, HandledStay
    PROVE  \A n : Handed(n) => StillHanded(n)
BY DEF Handed, StillHanded, HandledStay, Seen

(* A worker that is not fanning out before the step is on its way to       *)
(* nothing: what it does takes nothing back.                               *)
LEMMA OthersFollow ==
    ASSUME TypeOK, updates' = updates, followed \subseteq followed',
           NEW w \in Workers, \A u \in Seen : ~WillFollow(w, u),
           \A o \in Workers : o # w => Undisturbed(o)
    PROVE  HandledStay
<1> SUFFICES ASSUME NEW u \in Seen, Handled(u), updates[u] # NoMessage
             PROVE  u \in followed' \/ \E o \in Workers : WillFollow(o, u)'
    BY DEF HandledStay, Handled
<1>1. CASE u \in followed
    BY <1>1
<1>2. ASSUME NEW o \in Workers, WillFollow(o, u)
      PROVE  WillFollow(o, u)'
    <2>1. o # w
        BY <1>2
    <2> QED
        BY <1>2, <2>1 DEF WillFollow, Undisturbed
<1> QED
    BY <1>1, <1>2 DEF Handled

(* The part about the cursor, the server and one worker is all that the    *)
(* step of this worker can disturb.                                        *)
LEMMA KeptByWorker ==
    ASSUME FollowupsKept, updates' = updates, HandledStay, NEW w \in Workers,
           \A o \in Workers : o # w => Undisturbed(o),
           cursor' = cursor \/ Handed(cursor)',
           confirmed' = confirmed \/ Handed(confirmed)',
           WorkerHanded(w)'
    PROVE  FollowupsKept'
<1>1. \A n : Handed(n) => StillHanded(n)
    BY HandedStays
<1>2. Handed(cursor)'
    BY <1>1 DEF FollowupsKept, Handed, StillHanded
<1>3. Handed(confirmed)'
    BY <1>1 DEF FollowupsKept, Handed, StillHanded
<1>4. ASSUME NEW o \in Workers
      PROVE  WorkerHanded(o)'
    <2>1. CASE o # w
        BY <1>1, <2>1 DEF FollowupsKept, WorkerHanded, Undisturbed, Handed,
           StillHanded
    <2> QED
        BY <2>1
<1> QED
    BY <1>2, <1>3, <1>4 DEF FollowupsKept

(* A worker that leaves owes no follow-ups, unless it was fanning out.     *)
LEMMA LeaveFollows ==
    ASSUME TypeOK, FollowupsKept, NEW w \in Workers, Leave(w),
           \A u \in Seen : ~WillFollow(w, u),
           \A o \in Workers : o # w => drawn'[o] = drawn[o] /\ writes'[o] = writes[o],
           UNCHANGED <<updates, cursor, followed>>,
           confirmed' = confirmed \/ (pc[w] = "fetching" /\ confirmed' = From(w))
    PROVE  FollowupsKept'
<1>1. \A o \in Workers : o # w => Undisturbed(o)
    BY DEF TypeOK, Leave, GoTo, Undisturbed
<1>2. HandledStay
    BY <1>1, OthersFollow
<1>3. pc'[w] = "idle"
    BY DEF TypeOK, Leave, GoTo
<1>4. confirmed' = confirmed \/ Handed(confirmed)'
    <2>1. pc[w] = "fetching" => Handed(From(w))
        BY DEF FollowupsKept, WorkerHanded, From, Larger
    <2> QED
        BY <1>2, <2>1, HandedStays DEF Handed, StillHanded
<1>5. WorkerHanded(w)'
    BY <1>3 DEF WorkerHanded
<1> QED
    BY <1>1, <1>2, <1>4, <1>5, KeptByWorker

LEMMA FailureFollows ==
    ASSUME IInv, FollowupsKept, NEW w \in Workers, crashes' = 0,
           Failure(w) \/ SyncDeadlocks(w) \/ Finish(w)
    PROVE  FollowupsKept'
<1>0. TypeOK /\ DB!TypeOK
    BY DEF IInv, TypeOK
<1>1. CASE GetUpdatesFails(w)
    <2>1. \A u \in Seen : ~WillFollow(w, u)
        BY <1>1 DEF GetUpdatesFails, WillFollow
    <2> QED
        BY <1>0, <1>1, <2>1, CloseAlone, LeaveFollows DEF GetUpdatesFails
<1>2. CASE CommitUnheard(w)
    <2>1. \A u \in Seen : ~WillFollow(w, u)
        BY <1>2 DEF CommitUnheard, WillFollow
    <2> QED
        BY <1>0, <1>2, <2>1, CloseAlone, LeaveFollows DEF CommitUnheard
<1>3. CASE SyncFails(w) \/ SyncDeadlocks(w)
    <2>1. \A u \in Seen : ~WillFollow(w, u)
        BY <1>3 DEF SyncFails, SyncDeadlocks, WillFollow
    <2>2. DB!Rollback(w) /\ Leave(w) /\ UNCHANGED <<updates, confirmed, cursor, followed>>
        BY <1>3 DEF SyncFails, SyncDeadlocks, DB!DeadlockVictim
    <2> QED
        BY <1>0, <2>1, <2>2, CloseAlone, LeaveFollows
<1>4. CASE AdvanceCursorFails(w)
    <2>1. \A u \in Seen : ~WillFollow(w, u)
        BY <1>4 DEF AdvanceCursorFails, WillFollow
    <2>2. \A o \in Workers : o # w => Undisturbed(o)
        BY <1>0, <1>4 DEF TypeOK, AdvanceCursorFails, GoTo, dbVars, Undisturbed
    <2>3. pc'[w] = "fanning"
        BY <1>0, <1>4 DEF TypeOK, AdvanceCursorFails, GoTo
    <2>4. UNCHANGED <<updates, cursor, confirmed, followed>>
        BY <1>4 DEF AdvanceCursorFails
    <2>5. HandledStay
        BY <1>0, <2>1, <2>2, <2>4, OthersFollow
    <2>6. WorkerHanded(w)'
        BY <2>3 DEF WorkerHanded
    <2> QED
        BY <2>2, <2>4, <2>5, <2>6, KeptByWorker
<1>5. CASE EnqueueFollowupFails(w) \/ Crash(w)
    BY <1>0, <1>5 DEF EnqueueFollowupFails, Crash, Loss, Lost, TypeOK
<1>6. CASE Finish(w)
    <2>1. \A u \in Seen : ~WillFollow(w, u)
        <3>1. pos[w] > last[w] /\ pos[w] \in Nat /\ last[w] \in Nat
            BY <1>0, <1>6 DEF Finish, TypeOK
        <3> QED
            BY <3>1 DEF WillFollow, Seen
    <2> QED
        BY <1>0, <1>6, <2>1, LeaveFollows DEF Finish, dbVars
<1> QED
    BY <1>1, <1>2, <1>3, <1>4, <1>5, <1>6 DEF Failure

(* A step within a task, up to the commit, leaves the follow-ups alone: a  *)
(* window begins where the handled updates end.                            *)
LEMMA LoopFollows ==
    ASSUME IInv, FollowupsKept, NEW w \in Workers,
           \/ Start(w) \/ GetUpdates(w) \/ DrawUpdate(w) \/ SkipUpdate(w)
           \/ UpsertMessage(w) \/ CommitBatch(w)
    PROVE  FollowupsKept'
<1>0. TypeOK /\ DB!TypeOK
    BY DEF IInv, TypeOK
<1>1. updates' = updates /\ followed' = followed /\ cursor' = cursor
    BY DEF Start, GetUpdates, DrawUpdate, SkipUpdate, UpsertMessage, CommitBatch
<1>2. \A u \in Seen : ~WillFollow(w, u)
    BY DEF Start, GetUpdates, DrawUpdate, SkipUpdate, UpsertMessage, CommitBatch,
           WillFollow
<1>3. ASSUME \A o \in Workers : o # w => Undisturbed(o),
             confirmed' = confirmed \/ (pc[w] = "fetching" /\ confirmed' = From(w)),
             HandledStay => WorkerHanded(w)'
      PROVE  FollowupsKept'
    <2>1. HandledStay
        BY <1>0, <1>1, <1>2, <1>3, OthersFollow
    <2>2. pc[w] = "fetching" => Handed(From(w))
        BY DEF FollowupsKept, WorkerHanded, From, Larger
    <2>3. confirmed' = confirmed \/ Handed(confirmed)'
        BY <1>1, <1>3, <2>1, <2>2, HandedStays DEF Handed, StillHanded
    <2> QED
        BY <1>1, <1>3, <2>1, <2>3, KeptByWorker
<1>4. CASE Start(w)
    <2>1. /\ offset' = [offset EXCEPT ![w] = cursor]
          /\ pc' = [pc EXCEPT ![w] = "fetching"]
          /\ UNCHANGED <<confirmed, first, last, pos, drawn, writes>>
        BY <1>4 DEF Start, GoTo, DB!Begin, Ready
    <2>2. \A o \in Workers : o # w => Undisturbed(o)
        BY <1>0, <2>1 DEF TypeOK, Undisturbed
    <2>3. offset'[w] = cursor /\ pc'[w] = "fetching"
        BY <1>0, <2>1 DEF TypeOK
    <2>4. HandledStay => WorkerHanded(w)'
        BY <1>1, <2>3, HandedStays
        DEF FollowupsKept, WorkerHanded, Handed, StillHanded
    <2> QED
        BY <1>3, <2>1, <2>2, <2>4
<1>5. CASE GetUpdates(w)
    <2>1. /\ confirmed' = From(w) /\ pc[w] = "fetching"
          /\ first' = [first EXCEPT ![w] = From(w)]
          /\ pc' = [pc EXCEPT ![w] = "writing"]
          /\ UNCHANGED <<offset, drawn, writes>>
          /\ \A o \in Workers : o # w => last'[o] = last[o] /\ pos'[o] = pos[o]
        BY <1>0, <1>5 DEF GetUpdates, GoTo, dbVars, TypeOK
    <2>2. \A o \in Workers : o # w => Undisturbed(o)
        BY <1>0, <2>1 DEF TypeOK, Undisturbed
    <2>3. first'[w] = From(w) /\ pc'[w] = "writing"
        BY <1>0, <2>1 DEF TypeOK
    <2>4. Handed(From(w))
        BY <2>1 DEF FollowupsKept, WorkerHanded, From, Larger
    <2>5. HandledStay => WorkerHanded(w)'
        BY <1>1, <2>3, <2>4, HandedStays DEF WorkerHanded, Handed, StillHanded
    <2> QED
        BY <1>3, <2>1, <2>2, <2>5
<1>6. CASE DrawUpdate(w) \/ SkipUpdate(w) \/ UpsertMessage(w)
    <2>1. /\ UNCHANGED <<confirmed, pc, offset, first, last>>
          /\ \A o \in Workers : o # w => /\ drawn'[o] = drawn[o]
                                         /\ writes'[o] = writes[o]
                                         /\ pos'[o] = pos[o]
        BY <1>0, <1>6 DEF DrawUpdate, SkipUpdate, UpsertMessage, DB!Draw, DB!Upsert,
           DB!Written, DB!TypeOK, TypeOK, dbVars, taskVars
    <2>2. \A o \in Workers : o # w => Undisturbed(o)
        BY <2>1 DEF Undisturbed
    <2>3. HandledStay => WorkerHanded(w)'
        BY <1>1, <2>1, HandedStays
        DEF FollowupsKept, WorkerHanded, Handed, StillHanded
    <2> QED
        BY <1>3, <2>1, <2>2, <2>3
<1>7. CASE CommitBatch(w)
    <2>1. /\ pc' = [pc EXCEPT ![w] = "committed"] /\ pc[w] = "writing"
          /\ UNCHANGED <<confirmed, offset, first, last, pos>>
          /\ DB!Commit(w)
        BY <1>7 DEF CommitBatch, GoTo
    <2>2. \A o \in Workers : o # w => Undisturbed(o)
        BY <1>0, <2>1, CloseAlone DEF TypeOK, Undisturbed
    <2>3. pc'[w] = "committed"
        BY <1>0, <2>1 DEF TypeOK
    <2>4. HandledStay => WorkerHanded(w)'
        BY <1>1, <2>1, <2>3, HandedStays
        DEF FollowupsKept, WorkerHanded, Handed, StillHanded
    <2> QED
        BY <1>3, <2>1, <2>2, <2>4
<1> QED
    BY <1>4, <1>5, <1>6, <1>7

(* The cursor moves past a window whose follow-ups the worker goes on to   *)
(* enqueue, one after the other.                                           *)
LEMMA FanOutFollows ==
    ASSUME IInv, FollowupsKept, NEW w \in Workers,
           AdvanceCursor(w) \/ EnqueueFollowup(w)
    PROVE  FollowupsKept'
<1>0. TypeOK /\ pos[w] \in Nat /\ last[w] \in Nat /\ first[w] \in Nat
    BY DEF IInv, TypeOK
<1>1. CASE AdvanceCursor(w)
    <2>1. /\ pc[w] = "committed" /\ pc'[w] = "fanning" /\ pos'[w] = first[w]
          /\ UNCHANGED <<updates, confirmed, first, last, followed>>
          /\ \A u \in Seen : ~WillFollow(w, u)
        BY <1>0, <1>1 DEF AdvanceCursor, GoTo, TypeOK, WillFollow
    <2>2. \A o \in Workers : o # w => Undisturbed(o)
        BY <1>0, <1>1 DEF TypeOK, AdvanceCursor, GoTo, dbVars, Undisturbed
    <2>3. HandledStay
        BY <1>0, <2>1, <2>2, OthersFollow
    <2>4. WorkerHanded(w)'
        BY <2>1 DEF WorkerHanded
    <2>5. CASE first[w] <= last[w]
        <3>1. cursor' = last[w] + 1
            BY <1>1, <2>5 DEF AdvanceCursor, NextOffset
        <3>2. Handed(first[w])
            BY <2>1 DEF FollowupsKept, WorkerHanded
        <3>3. ASSUME NEW u \in Seen', u < last[w] + 1
              PROVE  Handled(u)'
            <4>1. u \in Seen /\ u \in Nat
                BY <2>1 DEF Seen
            <4>2. CASE u < first[w]
                BY <3>2, <4>1, <4>2, <2>3 DEF Handed, HandledStay
            <4>3. CASE first[w] <= u /\ u <= last[w]
                <5>1. WillFollow(w, u)'
                    BY <2>1, <4>3 DEF WillFollow
                <5> QED
                    BY <5>1 DEF Handled
            <4> QED
                BY <1>0, <3>3, <4>1, <4>2, <4>3
        <3>4. last[w] + 1 <= Len(updates') + 1
            BY <2>1 DEF IInv, CommittedOK, Covered
        <3>5. Handed(cursor)'
            BY <3>1, <3>3, <3>4 DEF Handed
        <3> QED
            BY <2>1, <2>2, <2>3, <2>4, <3>5, KeptByWorker
    <2>6. CASE ~(first[w] <= last[w])
        <3>1. cursor' = cursor
            BY <1>1, <2>6 DEF AdvanceCursor, NextOffset
        <3> QED
            BY <2>1, <2>2, <2>3, <2>4, <3>1, KeptByWorker
    <2> QED
        BY <2>5, <2>6
<1>2. CASE EnqueueFollowup(w)
    <2>1. /\ pc[w] = "fanning"
          /\ pos' = [pos EXCEPT ![w] = @ + 1]
          /\ followed' = Followed(w)
          /\ UNCHANGED <<updates, confirmed, cursor, pc, offset, first, last, drawn,
                         writes>>
        BY <1>2 DEF EnqueueFollowup, dbVars
    <2>2. \A o \in Workers : o # w => Undisturbed(o)
        BY <1>0, <2>1 DEF TypeOK, Undisturbed
    <2>3. HandledStay
        <3> SUFFICES ASSUME NEW u \in Seen, Handled(u), updates[u] # NoMessage
                     PROVE  u \in followed' \/ \E o \in Workers : WillFollow(o, u)'
            BY <2>1 DEF HandledStay, Handled
        <3>0. u \in Nat /\ pos'[w] = pos[w] + 1
            BY <1>0, <2>1 DEF Seen, TypeOK
        <3>1. CASE u \in followed \/ u = pos[w]
            BY <2>1, <3>1 DEF Followed
        <3>2. CASE WillFollow(w, u) /\ u # pos[w]
            <4>1. pos[w] + 1 <= u
                BY <1>0, <3>0, <3>2 DEF WillFollow
            <4>2. WillFollow(w, u)'
                BY <2>1, <3>0, <3>2, <4>1 DEF WillFollow
            <4> QED
                BY <4>2
        <3>3. ASSUME NEW o \in Workers, o # w, WillFollow(o, u)
              PROVE  WillFollow(o, u)'
            BY <2>2, <3>3 DEF WillFollow, Undisturbed
        <3> QED
            BY <3>1, <3>2, <3>3 DEF Handled
    <2>4. WorkerHanded(w)'
        BY <2>1 DEF WorkerHanded
    <2> QED
        BY <2>1, <2>2, <2>3, <2>4, KeptByWorker
<1> QED
    BY <1>1, <1>2

(* A new update is above all that is passed, and nobody has met it yet.    *)
LEMMA PostFollows ==
    ASSUME IInv, FollowupsKept, NEW what \in Keys \cup {NoMessage}, Post(what)
    PROVE  FollowupsKept'
<1>0. TypeOK /\ Len(updates) \in Nat
    BY DEF IInv, TypeOK
<1>1. UNCHANGED <<confirmed, cursor, pc, offset, first, last, pos, followed>>
    BY DEF Post, taskVars
<1>2. /\ Len(updates') = Len(updates) + 1
      /\ \A u \in Seen : updates'[u] = updates[u]
    BY <1>0, PostCovers
<1>3. \A u \in Seen : Handled(u) => Handled(u)'
    BY <1>1, <1>2 DEF Handled, WillFollow
<1>4. ASSUME NEW n \in Nat, Handed(n)
      PROVE  StillHanded(n)
    <2>1. ASSUME NEW u \in Seen', u < n
          PROVE  Handled(u)'
        <3>1. u \in Seen
            BY <1>0, <1>2, <1>4, <2>1 DEF Handed, Seen
        <3> QED
            BY <1>3, <1>4, <2>1, <3>1 DEF Handed
    <2> QED
        BY <1>0, <1>2, <1>4, <2>1 DEF Handed, StillHanded
<1>5. cursor \in Nat /\ confirmed \in Nat
    BY <1>0 DEF TypeOK
<1>6. Handed(cursor)' /\ Handed(confirmed)'
    BY <1>1, <1>4, <1>5 DEF FollowupsKept, Handed, StillHanded
<1>7. ASSUME NEW w \in Workers
      PROVE  WorkerHanded(w)'
    <2>1. WorkerHanded(w) /\ offset[w] \in Nat /\ first[w] \in Nat
        BY <1>0 DEF FollowupsKept, TypeOK
    <2> QED
        BY <1>1, <1>4, <2>1 DEF WorkerHanded, Handed, StillHanded
<1> QED
    BY <1>6, <1>7 DEF FollowupsKept

(* Crashes are only counted up.                                            *)
LEMMA CrashesGrow ==
    ASSUME IInv, [Next]_vars
    PROVE  crashes' = 0 => crashes = 0
<1>1. crashes \in Nat
    BY DEF IInv, TypeOK
<1>2. crashes' = crashes \/ crashes' = crashes + 1
    <2>1. CASE Enqueue \/ RedisLost \/ UNCHANGED vars
        BY <2>1 DEF Enqueue, RedisLost, Lost, vars, budget
    <2>2. ASSUME NEW what \in Keys \cup {NoMessage}, Post(what)
          PROVE  crashes' = crashes
        BY <2>2 DEF Post, budget
    <2>3. ASSUME NEW w \in Workers, Proceed(w) \/ UpsertMessage(w)
          PROVE  crashes' = crashes
        BY <2>3 DEF Proceed, UpsertMessage, Start, GetUpdates, DrawUpdate,
           SkipUpdate, CommitBatch, SyncDeadlocks, AdvanceCursor, EnqueueFollowup,
           Finish, budget
    <2>4. ASSUME NEW w \in Workers, Failure(w)
          PROVE  crashes' = crashes \/ crashes' = crashes + 1
        BY <2>4 DEF Failure, GetUpdatesFails, CommitUnheard, SyncFails,
           AdvanceCursorFails, EnqueueFollowupFails, Crash, Fault, Loss, Lost
    <2> QED
        BY <2>1, <2>2, <2>3, <2>4 DEF Next
<1> QED
    BY <1>1, <1>2

LEMMA InitFollowups == Init => FollowupsIInv
<1> SUFFICES ASSUME Init
             PROVE  FollowupsIInv
    OBVIOUS
<1>1. Seen = {} /\ Len(updates) = 0
    BY DEF Init, Seen
<1>2. Handed(cursor) /\ Handed(confirmed)
    BY <1>1 DEF Init, Handed
<1>3. \A w \in Workers : WorkerHanded(w)
    BY DEF Init, WorkerHanded
<1> QED
    BY <1>2, <1>3, InitIInv DEF FollowupsIInv, FollowupsKept

LEMMA NextFollowups == FollowupsIInv /\ [Next]_vars => FollowupsIInv'
<1> SUFFICES ASSUME FollowupsIInv, [Next]_vars, crashes' = 0
             PROVE  FollowupsKept'
    BY NextIInv DEF FollowupsIInv
<1>0. IInv /\ FollowupsKept
    BY CrashesGrow DEF FollowupsIInv
<1>1. ASSUME NEW what \in Keys \cup {NoMessage}, Post(what)
      PROVE  FollowupsKept'
    BY <1>0, <1>1, PostFollows
<1>2. CASE Enqueue \/ UNCHANGED vars
    <2>1. UNCHANGED <<updates, cursor, confirmed, pc, offset, first, last, pos, followed>>
        BY <1>2 DEF Enqueue, vars, taskVars
    <2> QED
        BY <1>0, <2>1
        DEF FollowupsKept, WorkerHanded, Handed, Handled, WillFollow, Seen
<1>3. CASE RedisLost
    BY <1>0, <1>3 DEF RedisLost, Lost, IInv, TypeOK
<1>4. ASSUME NEW w \in Workers, Proceed(w) \/ UpsertMessage(w)
      PROVE  FollowupsKept'
    BY <1>0, <1>4, LoopFollows, FanOutFollows, FailureFollows DEF Proceed
<1>5. ASSUME NEW w \in Workers, Failure(w)
      PROVE  FollowupsKept'
    BY <1>0, <1>5, FailureFollows
<1> QED
    BY <1>1, <1>2, <1>3, <1>4, <1>5 DEF Next

(* As long as no worker, broker connection or Redis is lost, the message   *)
(* of an update that will never be fetched again has its follow-ups        *)
(* enqueued or about to be: for any number of workers, overlapping syncs   *)
(* and failing calls.                                                      *)
THEOREM FollowupsUntilLoss == Spec => []FollowupsUnlessLost
<1>1. Init => FollowupsIInv
    BY InitFollowups
<1>2. FollowupsIInv /\ [Next]_vars => FollowupsIInv'
    BY NextFollowups
<1>3. FollowupsIInv => FollowupsUnlessLost
    BY DEF FollowupsIInv, FollowupsKept, Handed, Handled, FollowupsUnlessLost,
           FollowupsAtLeastOnce, Passed
<1> QED
    BY <1>1, <1>2, <1>3, PTL DEF Spec

-----------------------------------------------------------------------------
(* Edits.  The versions of a message that no two syncs have in their       *)
(* windows at once are read and written in their order.  What becomes the  *)
(* cursor, or an offset, has below it only updates whose row is as new, or *)
(* newer, or whose message was contended.                                  *)

Fresh(n) ==
    \A u \in Seen :
        u < n /\ updates[u] # NoMessage =>
            messages[updates[u]] >= u \/ updates[u] \in contended

Carries(u, k) == u \in Seen /\ updates[u] = k

(* Rows come from windows that began at or below the lowest update that    *)
(* Telegram still hands out: the next window reaches beyond all of them.   *)
RowsOK ==
    \A k \in Keys : messages[k] # DB!NoRow =>
        Carries(messages[k], k) /\ messages[k] < confirmed + Limit

EmptyHanded(w) ==
    drawn[w] = DB!Nothing /\ \A k \in Keys : writes[w][k] = DB!NoRow

(* A running loop has the latest version up to its position of each        *)
(* message in its transaction, or in hand.                                 *)
Latest(w, u) ==
    updates[u] # NoMessage =>
        \/ writes[w][updates[u]] >= u
        \/ drawn[w] # DB!Nothing /\ drawn[w].key = updates[u] /\ drawn[w].version >= u

InWindow(w, u) == first[w] <= u /\ u < pos[w]

WritesOK(w) ==
    \A k \in Keys : writes[w][k] # DB!NoRow =>
        Carries(writes[w][k], k) /\ InWindow(w, writes[w][k])

DrawnOK(w) ==
    drawn[w] # DB!Nothing =>
        /\ Carries(drawn[w].version, drawn[w].key)
        /\ InWindow(w, drawn[w].version)
        /\ \A k \in Keys : writes[w][k] < drawn[w].version

(* The messages of the window, and those of them the worker has to itself. *)
Window(w) == Carried(first[w], last[w])
Own(w) == Window(w) \ contended

WindowOK(w) ==
    /\ Fresh(first[w])
    /\ 1 <= first[w] /\ first[w] <= pos[w]
    /\ pos[w] <= last[w] + 1 /\ last[w] < confirmed + Limit
    /\ \A k \in Own(w) : messages[k] <= last[w]
    /\ WritesOK(w)
    /\ DrawnOK(w)
    /\ \A u \in Seen : InWindow(w, u) => Latest(w, u)

ContentOK(w) ==
    /\ session[w] = "open" <=> pc[w] \in {"fetching", "writing"}
    /\ pc[w] # "writing" => EmptyHanded(w)
    /\ pc[w] = "fetching" => Fresh(offset[w])
    /\ pc[w] = "writing" => WindowOK(w)
    /\ pc[w] = "committed" => Fresh(last[w] + 1)

(* Syncs that have fetched and not committed share contended messages only. *)
Apart(v, w) ==
    pc[v] = "writing" /\ pc[w] = "writing" => Window(v) \cap Window(w) \subseteq contended

ContentIInv ==
    /\ IInv
    /\ Fresh(cursor)
    /\ Fresh(confirmed)
    /\ RowsOK
    /\ \A w \in Workers : ContentOK(w)
    /\ \A v, w \in Workers : v # w => Apart(v, w)

(* The numbers these predicates compare.                                   *)
LEMMA ContentTypes ==
    ASSUME TypeOK
    PROVE  /\ Len(updates) \in Nat /\ cursor \in Nat /\ confirmed \in Nat \ {0}
           /\ \A k \in Keys : messages[k] \in Nat
           /\ \A w \in Workers :
                /\ offset[w] \in Nat /\ first[w] \in Nat /\ last[w] \in Nat
                /\ pos[w] \in Nat
                /\ \A k \in Keys : writes[w][k] \in Nat
<1>1. DB!TypeOK /\ Len(updates) \in Nat
    BY DEF TypeOK
<1>2. 1..MaxUpdates \cup {0} \subseteq Nat
    OBVIOUS
<1>3. \A k \in Keys : messages[k] \in Nat
    BY <1>1, <1>2 DEF DB!TypeOK
<1>4. ASSUME NEW w \in Workers, NEW k \in Keys
      PROVE  writes[w][k] \in Nat
    <2>1. writes[w] \in [Keys -> 1..MaxUpdates \cup {DB!NoRow}]
        BY <1>1 DEF DB!TypeOK
    <2> QED
        BY <1>2, <2>1
<1> QED
    BY <1>1, <1>3, <1>4 DEF TypeOK

(* Rows that only get newer keep what is fresh, and so does a message that *)
(* becomes contended.                                                      *)
RowsGrow == \A k \in Keys \ contended : messages'[k] >= messages[k]

StillFresh(n) ==
    \A u \in 1..Len(updates') :
        u < n /\ updates'[u] # NoMessage =>
            messages'[updates'[u]] >= u \/ updates'[u] \in contended'

LEMMA FreshStays ==
    ASSUME TypeOK, TypeOK', updates' = updates, RowsGrow, contended \subseteq contended'
    PROVE  \A n \in Nat : Fresh(n) => StillFresh(n)
<1> SUFFICES ASSUME NEW n \in Nat, Fresh(n), NEW u \in Seen, u < n,
                    updates[u] # NoMessage, updates[u] \notin contended
             PROVE  messages'[updates[u]] >= u
    BY DEF StillFresh, Seen
<1>1. updates[u] \in Keys /\ u \in Nat
    BY MessageKey
<1>2. messages[updates[u]] \in Nat /\ messages'[updates[u]] \in Nat
    <2>1. DB!TypeOK /\ DB!TypeOK' /\ 1..MaxUpdates \cup {0} \subseteq Nat
        BY DEF TypeOK
    <2> QED
        BY <1>1, <2>1 DEF DB!TypeOK
<1>3. messages[updates[u]] >= u
    BY DEF Fresh
<1> QED
    BY <1>1, <1>2, <1>3 DEF RowsGrow

(* What a commit makes of the table: no row gets older, each is an update  *)
(* that Telegram sent, and the window is fresh to its end.                 *)
LEMMA CommitContent ==
    ASSUME ContentIInv, NEW w \in Workers, pc[w] = "writing", pos[w] > last[w],
           DB!Commit(w)
    PROVE  /\ RowsGrow
           /\ \A k \in Keys : messages'[k] # DB!NoRow =>
                Carries(messages'[k], k) /\ messages'[k] < confirmed + Limit
           /\ \A k \in Keys \ Window(w) : messages'[k] = messages[k]
           /\ \A u \in Seen : u < last[w] + 1 /\ updates[u] # NoMessage
                                => messages'[updates[u]] >= u \/ updates[u] \in contended
<1>0. TypeOK
    BY DEF ContentIInv, IInv
<1>1. WindowOK(w) /\ RowsOK
    BY DEF ContentIInv, ContentOK
<1>2. /\ first[w] \in Nat /\ last[w] \in Nat /\ pos[w] \in Nat /\ confirmed \in Nat
      /\ \A k \in Keys : messages[k] \in Nat /\ writes[w][k] \in Nat
    BY <1>0, ContentTypes
<1>3. pos[w] = last[w] + 1
    BY <1>1, <1>2 DEF WindowOK
<1>4. drawn[w] = DB!Nothing
    BY DEF DB!Commit, DB!Merged
<1>5. \A k \in Keys :
        messages'[k] = IF writes[w][k] # DB!NoRow THEN writes[w][k] ELSE messages[k]
    BY DEF DB!Commit, DB!Merged, DB!Holds
<1>6. ASSUME NEW u \in Seen, first[w] <= u, u <= last[w], updates[u] # NoMessage
      PROVE  writes[w][updates[u]] >= u
    <2>1. InWindow(w, u)
        BY <1>2, <1>3, <1>6 DEF InWindow, Seen
    <2> QED
        BY <1>1, <1>4, <1>6, <2>1 DEF WindowOK, Latest
<1>7. \A k \in Keys : writes[w][k] # DB!NoRow => /\ Carries(writes[w][k], k)
                                                 /\ first[w] <= writes[w][k]
                                                 /\ writes[w][k] <= last[w]
    BY <1>1, <1>2, <1>3 DEF WindowOK, WritesOK, InWindow
<1>11. ASSUME NEW k \in Keys, writes[w][k] # DB!NoRow
       PROVE  k \in Window(w)
    <2>1. writes[w][k] \in first[w]..last[w] /\ updates[writes[w][k]] = k
        BY <1>2, <1>7, <1>11 DEF Carries
    <2> QED
        BY <2>1 DEF Window, Carried
<1>8. ASSUME NEW k \in Keys \ contended
      PROVE  messages'[k] >= messages[k]
    <2>1. CASE writes[w][k] = DB!NoRow \/ messages[k] = DB!NoRow
        BY <1>2, <1>5, <2>1
    <2>2. CASE writes[w][k] # DB!NoRow /\ messages[k] # DB!NoRow
        <3>1. messages[k] \in Seen /\ updates[messages[k]] = k
            BY <1>1, <2>2 DEF RowsOK, Carries
        <3>2. messages[k] <= last[w] /\ k # NoMessage
            BY <1>1, <1>11, <2>2 DEF WindowOK, Own
        <3>3. CASE messages[k] < first[w]
            BY <1>2, <1>5, <1>7, <2>2, <3>3
        <3>4. CASE first[w] <= messages[k]
            <4>1. writes[w][k] >= messages[k]
                BY <1>6, <3>1, <3>2, <3>4
            <4> QED
                BY <1>5, <2>2, <4>1
        <3> QED
            BY <1>2, <3>3, <3>4
    <2> QED
        BY <2>1, <2>2
<1>9. ASSUME NEW k \in Keys, messages'[k] # DB!NoRow
      PROVE  Carries(messages'[k], k) /\ messages'[k] < confirmed + Limit
    <2>1. CASE writes[w][k] = DB!NoRow
        BY <1>1, <1>5, <1>9, <2>1 DEF RowsOK
    <2>2. CASE writes[w][k] # DB!NoRow
        BY <1>1, <1>2, <1>5, <1>7, <2>2 DEF WindowOK
    <2> QED
        BY <2>1, <2>2
<1>10. ASSUME NEW u \in Seen, u < last[w] + 1, updates[u] # NoMessage,
              updates[u] \notin contended
       PROVE  messages'[updates[u]] >= u
    <2>1. updates[u] \in Keys /\ u \in Nat \ {0}
        BY <1>0, <1>10, MessageKey
    <2>2. CASE u < first[w]
        <3>1. messages[updates[u]] >= u
            BY <1>1, <1>10, <2>2 DEF WindowOK, Fresh
        <3>2. messages'[updates[u]] >= messages[updates[u]]
            BY <1>8, <1>10, <2>1
        <3>3. messages'[updates[u]] \in Nat /\ messages[updates[u]] \in Nat
            BY <1>2, <1>5, <2>1
        <3> QED
            BY <2>1, <3>1, <3>2, <3>3
    <2>3. CASE first[w] <= u
        <3>1. writes[w][updates[u]] >= u
            BY <1>2, <1>6, <1>10, <2>1, <2>3
        <3>2. writes[w][updates[u]] # DB!NoRow
            BY <1>2, <2>1, <3>1
        <3> QED
            BY <1>5, <2>1, <3>1, <3>2
    <2> QED
        BY <1>2, <2>1, <2>2, <2>3
<1>12. \A k \in Keys \ Window(w) : messages'[k] = messages[k]
    BY <1>5, <1>11
<1> QED
    BY <1>8, <1>9, <1>10, <1>12 DEF RowsGrow

LEMMA FromFresh ==
    ASSUME ContentIInv, NEW w \in Workers, pc[w] = "fetching"
    PROVE  Fresh(From(w)) /\ From(w) >= confirmed /\ From(w) \in Nat
<1>1. Fresh(offset[w]) /\ Fresh(confirmed)
    BY DEF ContentIInv, ContentOK
<1>2. offset[w] \in Nat /\ confirmed \in Nat
    BY ContentTypes DEF ContentIInv, IInv
<1> QED
    BY <1>1, <1>2 DEF From, Larger

(* What a step of worker w may do to the rows and to the lowest update     *)
(* still handed out.                                                       *)
RowsStep(w) ==
    \/ messages' = messages
    \/ pc[w] = "writing" /\ pos[w] > last[w] /\ DB!Commit(w)

ConfirmedStep(w) ==
    confirmed' = confirmed \/ (pc[w] = "fetching" /\ confirmed' = From(w))

(* A window's bound moves up with the update it counts from.              *)
LEMMA Beyond ==
    ASSUME NEW a \in Nat, NEW b \in Nat, b >= a
    PROVE  \A u \in Nat : u < a + Limit => u < b + Limit
OBVIOUS

(* The rows after such a step: none that is not contended is older, and    *)
(* what was fresh is.                                                      *)
LEMMA RowsContent ==
    ASSUME ContentIInv, TypeOK', updates' = updates, contended \subseteq contended',
           NEW w \in Workers, RowsStep(w), ConfirmedStep(w)
    PROVE  /\ RowsGrow
           /\ \A n \in Nat : Fresh(n) => StillFresh(n)
           /\ Fresh(confirmed)'
           /\ RowsOK'
<1>0. TypeOK /\ confirmed \in Nat /\ \A k \in Keys : messages[k] \in Nat
    BY ContentTypes DEF ContentIInv, IInv
<1>1. RowsGrow
    BY <1>0, CommitContent DEF RowsStep, RowsGrow
<1>2. \A n \in Nat : Fresh(n) => StillFresh(n)
    BY <1>0, <1>1, FreshStays
<1>3. confirmed' >= confirmed /\ confirmed' \in Nat
    BY <1>0, FromFresh DEF ConfirmedStep
<1>4. Fresh(confirmed)'
    <2>1. Fresh(confirmed')
        BY FromFresh DEF ConfirmedStep, ContentIInv
    <2> QED
        BY <1>2, <1>3, <2>1 DEF Fresh, StillFresh, Seen
<1>7. \A u \in Nat : u < confirmed + Limit => u < confirmed' + Limit
    BY <1>0, <1>3, Beyond
<1>5. ASSUME NEW k \in Keys, messages'[k] # DB!NoRow
      PROVE  /\ messages'[k] \in Seen /\ updates[messages'[k]] = k
             /\ messages'[k] < confirmed' + Limit
    <2>1. Carries(messages'[k], k) /\ messages'[k] < confirmed + Limit
        BY <1>5, CommitContent DEF RowsStep, ContentIInv, RowsOK
    <2>2. messages'[k] \in Nat
        BY <2>1 DEF Carries, Seen
    <2> QED
        BY <1>7, <2>1, <2>2 DEF Carries
<1>6. RowsOK'
    BY <1>5 DEF RowsOK, Carries, Seen
<1> QED
    BY <1>1, <1>2, <1>4, <1>6

(* A worker that does not take the step keeps what is known of it: a       *)
(* commit of another changes no row that it has to itself.                 *)
Aside(o) == Undisturbed(o) /\ session'[o] = session[o]

LEMMA OthersContent ==
    ASSUME ContentIInv, TypeOK', updates' = updates, contended \subseteq contended',
           NEW w \in Workers, RowsStep(w), ConfirmedStep(w),
           NEW o \in Workers, o # w, Aside(o)
    PROVE  ContentOK(o)'
<1>0. TypeOK /\ ContentOK(o) /\ offset[o] \in Nat /\ first[o] \in Nat /\ last[o] \in Nat
    BY ContentTypes DEF ContentIInv, IInv
<1>1. \A n \in Nat : Fresh(n) => StillFresh(n)
    BY RowsContent
<1>2. /\ UNCHANGED <<pc[o], offset[o], first[o], last[o], pos[o], drawn[o], writes[o]>>
      /\ session'[o] = session[o]
    BY DEF Aside, Undisturbed
<1>3. EmptyHanded(o) => EmptyHanded(o)'
    BY <1>2 DEF EmptyHanded, DB!Nothing
<1>4. Fresh(offset[o]) => Fresh(offset[o])'
    BY <1>0, <1>1, <1>2 DEF Fresh, StillFresh, Seen
<1>5. Fresh(last[o] + 1) => Fresh(last[o] + 1)'
    <2>1. last[o] + 1 \in Nat /\ last'[o] + 1 = last[o] + 1
        BY <1>0, <1>2
    <2> QED
        BY <1>1, <2>1 DEF Fresh, StillFresh, Seen
<1>6. ASSUME pc[o] = "writing"
      PROVE  WindowOK(o)'
    <2>0. WindowOK(o)
        BY <1>0, <1>6 DEF ContentOK
    <2>1. Fresh(first[o])'
        BY <1>0, <1>1, <1>2, <2>0 DEF WindowOK, Fresh, StillFresh, Seen
    <2>2. /\ 1 <= first'[o] /\ first'[o] <= pos'[o]
          /\ pos'[o] <= last'[o] + 1 /\ last'[o] < confirmed' + Limit
        <3>1. confirmed \in Nat /\ confirmed' \in Nat /\ confirmed' >= confirmed
            BY <1>0, FromFresh, ContentTypes DEF ConfirmedStep
        <3> QED
            BY <1>0, <1>2, <2>0, <3>1 DEF WindowOK
    <2>3. Window(o)' = Window(o)
        BY <1>2 DEF Window, Carried
    <2>4. ASSUME NEW k \in Own(o)'
          PROVE  messages'[k] <= last'[o]
        <3>1. k \in Keys /\ k \in Own(o) /\ k \in Window(o)
            BY <2>3, <2>4 DEF Own, Window, Carried
        <3>2. messages'[k] = messages[k]
            <4>1. CASE messages' = messages
                BY <4>1
            <4>2. CASE pc[w] = "writing" /\ pos[w] > last[w] /\ DB!Commit(w)
                <5>1. k \notin Window(w)
                    BY <1>6, <3>1, <4>2 DEF ContentIInv, Apart, Own
                <5> QED
                    BY <3>1, <4>2, <5>1, CommitContent
            <4> QED
                BY <4>1, <4>2 DEF RowsStep
        <3> QED
            BY <1>2, <2>0, <3>1, <3>2 DEF WindowOK
    <2>5. WritesOK(o)'
        BY <1>2, <2>0 DEF WindowOK, WritesOK, InWindow, Carries, Seen
    <2>6. DrawnOK(o)'
        BY <1>2, <2>0 DEF WindowOK, DrawnOK, InWindow, Carries, Seen, DB!Nothing
    <2>7. \A u \in Seen' : InWindow(o, u)' => Latest(o, u)'
        BY <1>2, <2>0 DEF WindowOK, InWindow, Latest, Seen, DB!Nothing
    <2> QED
        BY <2>1, <2>2, <2>4, <2>5, <2>6, <2>7 DEF WindowOK
<1> QED
    BY <1>0, <1>2, <1>3, <1>4, <1>5, <1>6 DEF ContentOK

(* The invariant after a step of one worker, from what the step does to    *)
(* that worker, to the cursor and to its window.                           *)
Stays(w) == UNCHANGED <<pc[w], first[w], last[w]>>

LEMMA ContentStep ==
    ASSUME ContentIInv, IInv', updates' = updates, contended \subseteq contended',
           NEW w \in Workers, RowsStep(w), ConfirmedStep(w),
           \A o \in Workers : o # w => Aside(o),
           Fresh(cursor)', ContentOK(w)',
           \/ pc'[w] # "writing"
           \/ Stays(w)
           \/ \A o \in Workers : o # w /\ pc[o] = "writing"
                                    => Window(w)' \cap Window(o) \subseteq contended'
    PROVE  ContentIInv'
<1>1. TypeOK'
    BY DEF IInv
<1>2. Fresh(confirmed)' /\ RowsOK'
    BY <1>1, RowsContent
<1>3. \A o \in Workers : ContentOK(o)'
    BY <1>1, OthersContent
<1>4. ASSUME NEW o \in Workers, o # w
      PROVE  Stays(o) /\ Window(o)' = Window(o)
    BY <1>4 DEF Aside, Undisturbed, Stays, Window, Carried
<1>5. Stays(w) => Window(w)' = Window(w)
    BY DEF Stays, Window, Carried
<1>6. ASSUME NEW o \in Workers, o # w
      PROVE  Apart(w, o)' /\ Apart(o, w)'
    <2>1. ASSUME pc'[w] = "writing", pc'[o] = "writing"
          PROVE  Window(w)' \cap Window(o)' \subseteq contended'
        <3>1. CASE Stays(w)
            BY <1>4, <1>5, <1>6, <2>1, <3>1 DEF ContentIInv, Apart, Stays
        <3>2. CASE ~Stays(w)
            BY <1>4, <1>6, <2>1, <3>2 DEF Stays
        <3> QED
            BY <3>1, <3>2
    <2> QED
        BY <2>1 DEF Apart
<1>7. ASSUME NEW v \in Workers, NEW o \in Workers, v # o, v # w, o # w
      PROVE  Apart(v, o)'
    BY <1>4, <1>7 DEF ContentIInv, Apart, Stays
<1>8. \A v, o \in Workers : v # o => Apart(v, o)'
    BY <1>6, <1>7
<1> QED
    BY <1>2, <1>3, <1>8 DEF ContentIInv

(* Ending the session leaves nothing in hand.                              *)
LEMMA CloseEmpties ==
    ASSUME DB!TypeOK, NEW w \in Workers, DB!Commit(w) \/ DB!Rollback(w)
    PROVE  /\ session'[w] = "closed" /\ EmptyHanded(w)'
           /\ \A o \in Workers : o # w => session'[o] = session[o]
BY DEF DB!TypeOK, DB!Commit, DB!Rollback, DB!Close, DB!Merged, DB!Undone,
       DB!Released, DB!NoWrites, EmptyHanded, DB!Nothing

(* A cursor that stays put stays fresh.                                    *)
LEMMA CursorContent ==
    ASSUME ContentIInv, TypeOK', updates' = updates, contended \subseteq contended',
           NEW w \in Workers, RowsStep(w), ConfirmedStep(w), cursor' = cursor
    PROVE  Fresh(cursor)'
<1>1. cursor \in Nat /\ Fresh(cursor)
    BY ContentTypes DEF ContentIInv, IInv
<1> QED
    BY <1>1, RowsContent DEF Fresh, StillFresh, Seen

(* A worker that ends its task, with its session closed.                   *)
LEMMA LeaveContent ==
    ASSUME ContentIInv, IInv', NEW w \in Workers, Leave(w),
           UNCHANGED <<updates, cursor, contended>>, RowsStep(w), ConfirmedStep(w),
           session'[w] # "open", EmptyHanded(w)',
           \A o \in Workers : o # w => /\ drawn'[o] = drawn[o]
                                       /\ writes'[o] = writes[o]
                                       /\ session'[o] = session[o]
    PROVE  ContentIInv'
<1>0. TypeOK /\ TypeOK'
    BY DEF ContentIInv, IInv
<1>1. pc'[w] = "idle"
    BY <1>0 DEF TypeOK, Leave, GoTo
<1>2. ContentOK(w)'
    BY <1>1 DEF ContentOK
<1>3. Fresh(cursor)'
    BY <1>0, CursorContent
<1>4. \A o \in Workers : o # w => Aside(o)
    BY <1>0 DEF TypeOK, Leave, GoTo, Aside, Undisturbed
<1> QED
    BY <1>1, <1>2, <1>3, <1>4, ContentStep

LEMMA FailureContent ==
    ASSUME ContentIInv, IInv', NEW w \in Workers,
           Failure(w) \/ SyncDeadlocks(w) \/ Finish(w)
    PROVE  ContentIInv'
<1>0. TypeOK /\ TypeOK' /\ DB!TypeOK /\ ContentOK(w)
    BY DEF ContentIInv, IInv, TypeOK
<1>1. CASE GetUpdatesFails(w) \/ SyncFails(w) \/ SyncDeadlocks(w)
    <2>1. /\ DB!Rollback(w) /\ Leave(w) /\ UNCHANGED <<updates, cursor, contended>>
          /\ ConfirmedStep(w)
        BY <1>1 DEF GetUpdatesFails, SyncFails, SyncDeadlocks, DB!DeadlockVictim,
           Fault, budget, ConfirmedStep
    <2>2. RowsStep(w)
        BY <2>1 DEF DB!Rollback, DB!Undone, RowsStep
    <2> QED
        BY <1>0, <2>1, <2>2, CloseEmpties, CloseAlone, LeaveContent
<1>2. CASE CommitUnheard(w)
    <2>1. /\ DB!Commit(w) /\ Leave(w) /\ UNCHANGED <<updates, cursor, contended>>
          /\ RowsStep(w) /\ ConfirmedStep(w)
        BY <1>2 DEF CommitUnheard, Fault, RowsStep, ConfirmedStep
    <2> QED
        BY <1>0, <2>1, CloseEmpties, CloseAlone, LeaveContent
<1>3. CASE EnqueueFollowupFails(w) \/ Finish(w)
    <2>1. /\ Leave(w) /\ UNCHANGED <<updates, cursor, contended, dbVars>>
          /\ pc[w] = "fanning" /\ ConfirmedStep(w)
        BY <1>3 DEF EnqueueFollowupFails, Finish, Loss, Lost, budget, ConfirmedStep
    <2>2. session'[w] # "open" /\ EmptyHanded(w)' /\ RowsStep(w)
        BY <1>0, <2>1 DEF ContentOK, EmptyHanded, dbVars, DB!Nothing, RowsStep
    <2> QED
        BY <2>1, <2>2, LeaveContent DEF dbVars
<1>4. CASE Crash(w)
    <2>1. Leave(w) /\ UNCHANGED <<updates, cursor, contended>> /\ ConfirmedStep(w)
        BY <1>4 DEF Crash, Loss, Lost, ConfirmedStep
    <2>2. CASE session[w] = "open"
        <3>1. DB!Rollback(w)
            BY <1>4, <2>2 DEF Crash
        <3>2. RowsStep(w)
            BY <3>1 DEF DB!Rollback, DB!Undone, RowsStep
        <3> QED
            BY <1>0, <2>1, <3>1, <3>2, CloseEmpties, CloseAlone, LeaveContent
    <2>3. CASE session[w] # "open"
        <3>1. UNCHANGED dbVars
            BY <1>4, <2>3 DEF Crash
        <3>2. session'[w] # "open" /\ EmptyHanded(w)' /\ RowsStep(w)
            BY <1>0, <2>3, <3>1 DEF ContentOK, EmptyHanded, dbVars, DB!Nothing, RowsStep
        <3> QED
            BY <2>1, <3>1, <3>2, LeaveContent DEF dbVars
    <2> QED
        BY <2>2, <2>3
<1>5. CASE AdvanceCursorFails(w)
    <2>1. /\ UNCHANGED <<updates, confirmed, cursor, contended, dbVars>>
          /\ pc[w] = "committed" /\ pc'[w] = "fanning"
        BY <1>0, <1>5 DEF AdvanceCursorFails, Fault, GoTo, TypeOK
    <2>2. ContentOK(w)'
        BY <1>0, <2>1 DEF ContentOK, EmptyHanded, DB!Nothing, dbVars
    <2>3. RowsStep(w) /\ ConfirmedStep(w)
        BY <2>1 DEF dbVars, RowsStep, ConfirmedStep
    <2>4. Fresh(cursor)'
        BY <1>0, <2>1, <2>3, CursorContent
    <2>5. \A o \in Workers : o # w => Aside(o)
        BY <1>0, <1>5 DEF AdvanceCursorFails, GoTo, dbVars, TypeOK, Aside, Undisturbed
    <2> QED
        BY <2>1, <2>2, <2>3, <2>4, <2>5, ContentStep
<1> QED
    BY <1>1, <1>2, <1>3, <1>4, <1>5 DEF Failure

(* A sync starts from a fresh cursor, and its window begins where the      *)
(* fresh updates end and reaches beyond every stored version.              *)
LEMMA StartContent ==
    ASSUME ContentIInv, IInv', NEW w \in Workers, Start(w)
    PROVE  ContentIInv'
<1>0. TypeOK /\ TypeOK' /\ DB!TypeOK /\ ContentOK(w)
    BY DEF ContentIInv, IInv, TypeOK
<1>1. /\ UNCHANGED <<updates, confirmed, cursor, messages, drawn, writes, contended>>
      /\ pc[w] = "idle" /\ pc'[w] = "fetching" /\ offset'[w] = cursor
      /\ session'[w] = "open"
    BY <1>0 DEF Start, GoTo, DB!Begin, TypeOK, DB!TypeOK, Ready
<1>2. \A o \in Workers : o # w => Aside(o)
    BY <1>0 DEF Start, GoTo, DB!Begin, TypeOK, DB!TypeOK, Ready, Aside, Undisturbed
<1>3. RowsStep(w) /\ ConfirmedStep(w)
    BY <1>1 DEF RowsStep, ConfirmedStep
<1>4. Fresh(cursor)'
    BY <1>0, <1>1, <1>3, CursorContent
<1>5. ContentOK(w)'
    BY <1>0, <1>1, <1>4 DEF ContentOK, EmptyHanded, DB!Nothing, Fresh, Seen
<1> QED
    BY <1>1, <1>2, <1>3, <1>4, <1>5, ContentStep

LEMMA GetUpdatesContent ==
    ASSUME ContentIInv, IInv', NEW w \in Workers, GetUpdates(w)
    PROVE  ContentIInv'
<1>0. TypeOK /\ TypeOK' /\ ContentOK(w) /\ RowsOK /\ Len(updates) \in Nat
    BY ContentTypes DEF ContentIInv, IInv
<1>1. /\ UNCHANGED <<updates, cursor, messages, drawn, writes, session>>
      /\ pc[w] = "fetching" /\ pc'[w] = "writing" /\ confirmed' = From(w)
      /\ first'[w] = From(w) /\ pos'[w] = From(w) /\ last'[w] = To(w)
      /\ contended' = contended \cup (Carried(From(w), To(w)) \cap Underway)
    BY <1>0 DEF GetUpdates, GoTo, TypeOK, dbVars
<1>2. From(w) >= confirmed /\ From(w) \in Nat \ {0} /\ Fresh(From(w))
    BY <1>0, <1>1, FromFresh, FromType
<1>3. From(w) <= Len(updates) + 1
    BY <1>1, FromCovered DEF ContentIInv, Covered
<1>4. /\ To(w) \in Nat /\ To(w) < From(w) + Limit /\ From(w) <= To(w) + 1
      /\ \A v \in Nat : v <= Len(updates) /\ v < From(w) + Limit => v <= To(w)
    BY <1>0, <1>2, <1>3 DEF To, Smaller
<1>5. \A o \in Workers : o # w => Aside(o)
    BY <1>0 DEF GetUpdates, GoTo, TypeOK, dbVars, Aside, Undisturbed
<1>6. RowsStep(w) /\ ConfirmedStep(w) /\ contended \subseteq contended'
    BY <1>1 DEF RowsStep, ConfirmedStep
<1>7. Fresh(cursor)' /\ Fresh(first[w])'
    <2>1. StillFresh(From(w))
        BY <1>0, <1>1, <1>2, <1>6, RowsContent
    <2> QED
        BY <1>0, <1>1, <1>6, <2>1, CursorContent DEF Fresh, StillFresh, Seen
<1>8. \A k \in Keys : messages[k] <= To(w)
    <2> TAKE k \in Keys
    <2>1. messages[k] \in Nat /\ confirmed \in Nat
        BY <1>0, ContentTypes
    <2>2. messages[k] # DB!NoRow => /\ messages[k] <= Len(updates)
                                    /\ messages[k] < confirmed + Limit
        BY <1>0 DEF RowsOK, Carries, Seen
    <2>3. messages[k] <= Len(updates) /\ messages[k] < From(w) + Limit
        BY <1>0, <1>2, <2>1, <2>2
    <2> QED
        BY <1>4, <2>1, <2>3
<1>9. EmptyHanded(w)'
    BY <1>0, <1>1 DEF ContentOK, EmptyHanded, DB!Nothing
<1>10. WritesOK(w)' /\ DrawnOK(w)'
    BY <1>9 DEF WritesOK, DrawnOK, EmptyHanded, DB!Nothing
<1>11. WindowOK(w)'
    <2>1. /\ 1 <= first'[w] /\ first'[w] <= pos'[w] /\ pos'[w] <= last'[w] + 1
          /\ last'[w] < confirmed' + Limit
        BY <1>1, <1>2, <1>4
    <2>2. \A k \in Own(w)' : messages'[k] <= last'[w]
        BY <1>1, <1>8 DEF Own, Window, Carried
    <2>3. \A u \in Seen' : ~InWindow(w, u)'
        BY <1>1, <1>2 DEF InWindow, Seen
    <2> QED
        BY <1>7, <1>10, <2>1, <2>2, <2>3 DEF WindowOK
<1>12. ContentOK(w)'
    BY <1>0, <1>1, <1>11 DEF ContentOK
<1>13. ASSUME NEW o \in Workers, o # w, pc[o] = "writing"
       PROVE  Window(w)' \cap Window(o) \subseteq contended'
    <2>1. Window(o) \subseteq Underway
        BY <1>13 DEF Underway, Window
    <2>2. Window(w)' = Carried(From(w), To(w))
        BY <1>1 DEF Window, Carried
    <2> QED
        BY <1>1, <2>1, <2>2
<1> QED
    BY <1>1, <1>5, <1>6, <1>7, <1>12, <1>13, ContentStep

(* The loop draws a version newer than all it has, and passes no other.    *)
LEMMA LoopContent ==
    ASSUME ContentIInv, IInv', NEW w \in Workers,
           DrawUpdate(w) \/ SkipUpdate(w)
    PROVE  ContentIInv'
<1>0. TypeOK /\ TypeOK' /\ DB!TypeOK /\ ContentOK(w)
    BY DEF ContentIInv, IInv, TypeOK
<1>1. /\ UNCHANGED <<updates, confirmed, cursor, pc, first, last, messages, writes,
                     session, contended>>
      /\ pc[w] = "writing" /\ drawn[w] = DB!Nothing /\ pos[w] <= last[w]
      /\ pos'[w] = pos[w] + 1
    BY <1>0 DEF DrawUpdate, SkipUpdate, DB!Draw, dbVars, TypeOK, budget
<1>2. /\ first[w] \in Nat /\ last[w] \in Nat /\ pos[w] \in Nat
      /\ \A k \in Keys : writes[w][k] \in Nat
    BY <1>0, ContentTypes
<1>3. WindowOK(w) /\ pos[w] \in Seen
    <2>1. last[w] <= Len(updates) /\ 1 <= pos[w] /\ Len(updates) \in Nat
        BY <1>0, <1>1, ContentTypes DEF ContentIInv, IInv, WritingOK
    <2> QED
        BY <1>0, <1>1, <1>2, <2>1 DEF ContentOK, Seen
<1>4. \A u \in Nat : InWindow(w, u) => InWindow(w, u)'
    BY <1>1, <1>2 DEF InWindow
<1>5. WritesOK(w)'
    <2>1. \A k \in Keys : writes[w][k] # DB!NoRow =>
            Carries(writes[w][k], k) /\ InWindow(w, writes[w][k])
        BY <1>3 DEF WindowOK, WritesOK
    <2> SUFFICES ASSUME NEW k \in Keys, NEW v, v = writes[w][k], v # DB!NoRow
                 PROVE  Carries(v, k)' /\ InWindow(w, v)'
        BY <1>1 DEF WritesOK, Carries, InWindow, Seen
    <2> QED
        BY <1>1, <1>2, <1>4, <2>1 DEF Carries, Seen
<1>6. DrawUpdate(w) => /\ drawn'[w] # DB!Nothing
                       /\ drawn'[w].key = updates[pos[w]]
                       /\ drawn'[w].version = pos[w]
                       /\ updates[pos[w]] # NoMessage
    <2> SUFFICES ASSUME DrawUpdate(w)
                 PROVE  /\ drawn'[w] # DB!Nothing
                        /\ drawn'[w].key = updates[pos[w]]
                        /\ drawn'[w].version = pos[w]
                        /\ updates[pos[w]] # NoMessage
        OBVIOUS
    <2>1. drawn'[w] = [key |-> updates[pos[w]], version |-> pos[w]]
        BY <1>0 DEF DrawUpdate, DB!Draw, DB!TypeOK
    <2>2. drawn'[w].key = updates[pos[w]] /\ drawn'[w].version = pos[w]
        BY <2>1
    <2>3. pos[w] # 0
        BY <1>3 DEF Seen
    <2> QED
        BY <2>2, <2>3 DEF DrawUpdate, DB!Nothing
<1>7. SkipUpdate(w) => drawn' = drawn /\ updates[pos[w]] = NoMessage
    BY DEF SkipUpdate, dbVars
<1>8. ASSUME NEW u, u = pos[w]
      PROVE  Carries(u, updates[u])' /\ InWindow(w, u)'
    BY <1>1, <1>2, <1>3, <1>8 DEF Carries, InWindow, WindowOK, Seen
<1>9. DrawnOK(w)'
    <2>1. CASE DrawUpdate(w)
        <3>1. \A k \in Keys : writes[w][k] < pos[w]
            <4> TAKE k \in Keys
            <4>1. CASE writes[w][k] # DB!NoRow
                BY <1>3, <4>1 DEF WindowOK, WritesOK, InWindow
            <4>2. CASE writes[w][k] = DB!NoRow
                BY <1>2, <1>3, <4>2 DEF Seen
            <4> QED
                BY <4>1, <4>2
        <3> QED
            BY <1>1, <1>6, <1>8, <2>1, <3>1 DEF DrawnOK, Carries, InWindow
    <2>2. CASE SkipUpdate(w)
        BY <1>1, <1>7, <2>2 DEF DrawnOK, DB!Nothing
    <2> QED
        BY <2>1, <2>2
<1>10. ASSUME NEW u \in Seen, InWindow(w, u)'
       PROVE  Latest(w, u)'
    <2>1. CASE u = pos[w]
        BY <1>1, <1>2, <1>6, <1>7, <2>1 DEF Latest, DB!Nothing
    <2>2. CASE u # pos[w]
        <3>1. InWindow(w, u)
            BY <1>1, <1>2, <1>10, <2>2 DEF InWindow, Seen
        <3>2. Latest(w, u)
            BY <1>3, <3>1 DEF WindowOK
        <3> QED
            BY <1>1, <3>2 DEF Latest
    <2> QED
        BY <2>1, <2>2
<1>11. WindowOK(w)'
    <2>1. Fresh(first[w])'
        BY <1>1, <1>3 DEF WindowOK, Fresh, Seen
    <2>2. /\ 1 <= first'[w] /\ first'[w] <= pos'[w] /\ pos'[w] <= last'[w] + 1
          /\ last'[w] < confirmed' + Limit
        BY <1>1, <1>2, <1>3 DEF WindowOK
    <2>3. \A k \in Own(w)' : messages'[k] <= last'[w]
        BY <1>1, <1>3 DEF WindowOK, Own, Window, Carried
    <2>4. \A u \in Seen' : InWindow(w, u)' => Latest(w, u)'
        BY <1>1, <1>10 DEF Seen
    <2> QED
        BY <1>5, <1>9, <2>1, <2>2, <2>3, <2>4 DEF WindowOK
<1>12. ContentOK(w)'
    BY <1>0, <1>1, <1>11 DEF ContentOK
<1>13. \A o \in Workers : o # w => Aside(o)
    <2>1. CASE DrawUpdate(w)
        BY <1>0, <2>1 DEF DrawUpdate, DB!Draw, DB!TypeOK, TypeOK, Aside, Undisturbed
    <2>2. CASE SkipUpdate(w)
        BY <1>0, <2>2 DEF SkipUpdate, dbVars, TypeOK, Aside, Undisturbed
    <2> QED
        BY <2>1, <2>2
<1>14. RowsStep(w) /\ ConfirmedStep(w) /\ Stays(w)
    BY <1>1 DEF RowsStep, ConfirmedStep, Stays
<1>15. Fresh(cursor)'
    BY <1>0, <1>1, <1>14, CursorContent
<1> QED
    BY <1>1, <1>12, <1>13, <1>14, <1>15, ContentStep

(* What is written replaces an older version of the same message.          *)
LEMMA UpsertContent ==
    ASSUME ContentIInv, IInv', NEW w \in Workers, UpsertMessage(w)
    PROVE  ContentIInv'
<1>0. TypeOK /\ TypeOK' /\ DB!TypeOK /\ ContentOK(w)
    BY DEF ContentIInv, IInv, TypeOK
<1>1. /\ UNCHANGED <<updates, confirmed, cursor, pc, offset, first, last, pos,
                     messages, session, contended>>
      /\ pc[w] = "writing" /\ drawn[w] # DB!Nothing
      /\ writes' = [writes EXCEPT ![w][drawn[w].key] = drawn[w].version]
      /\ drawn'[w] = DB!Nothing
    BY <1>0 DEF UpsertMessage, DB!Upsert, DB!Written, DB!TypeOK, taskVars, budget
<1>2. /\ drawn[w].key \in Keys /\ drawn[w].version \in Nat
      /\ \A k \in Keys : writes[w][k] \in Nat
    <2>1. drawn[w].key \in Keys /\ drawn[w].version \in 1..MaxUpdates
        BY <1>0, <1>1, DrawnMessage
    <2> QED
        BY <1>0, <2>1, ContentTypes
<1>3. WindowOK(w)
    BY <1>0, <1>1 DEF ContentOK
<1>4. \A k \in Keys :
        writes'[w][k] = IF k = drawn[w].key THEN drawn[w].version ELSE writes[w][k]
    <2>1. writes \in [Workers -> [Keys -> 1..MaxUpdates \cup {DB!NoRow}]]
        BY <1>0 DEF DB!TypeOK
    <2> QED
        BY <1>1, <1>2, <2>1
<1>5. \A k \in Keys : writes'[w][k] >= writes[w][k]
    <2>1. \A k \in Keys : writes[w][k] < drawn[w].version
        BY <1>1, <1>3 DEF WindowOK, DrawnOK
    <2> QED
        BY <1>2, <1>4, <2>1
<1>6. WritesOK(w)'
    <2> SUFFICES ASSUME NEW k \in Keys, NEW v, v = writes'[w][k], v # DB!NoRow
                 PROVE  Carries(v, k)' /\ InWindow(w, v)'
        BY DEF WritesOK, Carries, InWindow, Seen
    <2>1. Carries(v, k) /\ InWindow(w, v)
        <3>1. CASE k = drawn[w].key
            BY <1>1, <1>3, <1>4, <3>1 DEF WindowOK, DrawnOK
        <3>2. CASE k # drawn[w].key
            BY <1>3, <1>4, <3>2 DEF WindowOK, WritesOK
        <3> QED
            BY <3>1, <3>2
    <2> QED
        BY <1>1, <2>1 DEF Carries, InWindow, Seen
<1>7. ASSUME NEW u \in Seen, InWindow(w, u), updates[u] # NoMessage
      PROVE  writes'[w][updates[u]] >= u
    <2>1. updates[u] \in Keys /\ u \in Nat
        BY <1>0, <1>7, MessageKey
    <2>2. \/ writes[w][updates[u]] >= u
          \/ drawn[w].key = updates[u] /\ drawn[w].version >= u
        BY <1>3, <1>7 DEF WindowOK, Latest
    <2>3. writes'[w][updates[u]] \in Nat /\ writes[w][updates[u]] \in Nat
        BY <1>2, <1>4, <2>1
    <2> QED
        BY <1>4, <1>5, <2>1, <2>2, <2>3
<1>8. WindowOK(w)'
    <2>1. Fresh(first[w])'
        BY <1>1, <1>3 DEF WindowOK, Fresh, Seen
    <2>2. DrawnOK(w)'
        BY <1>1 DEF DrawnOK, DB!Nothing
    <2>3. \A u \in Seen' : InWindow(w, u)' => Latest(w, u)'
        BY <1>1, <1>7 DEF InWindow, Latest, Seen
    <2>4. /\ 1 <= first'[w] /\ first'[w] <= pos'[w] /\ pos'[w] <= last'[w] + 1
          /\ last'[w] < confirmed' + Limit
          /\ \A k \in Own(w)' : messages'[k] <= last'[w]
        BY <1>1, <1>3 DEF WindowOK, Own, Window, Carried
    <2> QED
        BY <1>6, <2>1, <2>2, <2>3, <2>4 DEF WindowOK
<1>9. ContentOK(w)'
    BY <1>0, <1>1, <1>8 DEF ContentOK
<1>10. \A o \in Workers : o # w => Aside(o)
    <2>1. \A o \in Workers : o # w => drawn'[o] = drawn[o] /\ writes'[o] = writes[o]
        BY <1>0, <1>1 DEF UpsertMessage, DB!Upsert, DB!TypeOK
    <2> QED
        BY <1>1, <2>1 DEF Aside, Undisturbed
<1>11. RowsStep(w) /\ ConfirmedStep(w) /\ Stays(w)
    BY <1>1 DEF RowsStep, ConfirmedStep, Stays
<1>12. Fresh(cursor)'
    BY <1>0, <1>1, <1>11, CursorContent
<1> QED
    BY <1>1, <1>9, <1>10, <1>11, <1>12, ContentStep

LEMMA CommitBatchContent ==
    ASSUME ContentIInv, IInv', NEW w \in Workers, CommitBatch(w)
    PROVE  ContentIInv'
<1>0. TypeOK /\ TypeOK' /\ DB!TypeOK /\ ContentOK(w)
    BY DEF ContentIInv, IInv, TypeOK
<1>1. /\ DB!Commit(w)
      /\ UNCHANGED <<updates, cursor, confirmed, offset, first, last, pos, contended>>
      /\ pc[w] = "writing" /\ pos[w] > last[w] /\ pc' = [pc EXCEPT ![w] = "committed"]
    BY <1>0 DEF CommitBatch, GoTo, TypeOK, budget
<1>2. pc'[w] = "committed"
    BY <1>0, <1>1 DEF TypeOK
<1>3. RowsStep(w) /\ ConfirmedStep(w)
    BY <1>1 DEF RowsStep, ConfirmedStep
<1>4. Fresh(cursor)'
    BY <1>0, <1>1, <1>3, CursorContent
<1>5. Fresh(last[w] + 1)'
    BY <1>1, CommitContent DEF Fresh, Seen
<1>6. ContentOK(w)'
    BY <1>0, <1>1, <1>2, <1>5, CloseEmpties DEF ContentOK
<1>7. \A o \in Workers : o # w => Aside(o)
    BY <1>0, <1>1, CloseAlone, CloseEmpties DEF Aside, Undisturbed, TypeOK
<1> QED
    BY <1>1, <1>2, <1>3, <1>4, <1>6, <1>7, ContentStep

LEMMA FanOutContent ==
    ASSUME ContentIInv, IInv', NEW w \in Workers,
           AdvanceCursor(w) \/ EnqueueFollowup(w)
    PROVE  ContentIInv'
<1>0. TypeOK /\ TypeOK' /\ ContentOK(w)
    BY DEF ContentIInv, IInv
<1>1. /\ UNCHANGED <<updates, confirmed, offset, first, last, messages, session, drawn,
                     writes, contended>>
      /\ pc[w] \in {"committed", "fanning"} /\ pc'[w] = "fanning"
      /\ cursor' = cursor \/ (pc[w] = "committed" /\ cursor' = last[w] + 1)
      /\ \A o \in Workers : o # w => pc'[o] = pc[o] /\ pos'[o] = pos[o]
    BY <1>0 DEF AdvanceCursor, EnqueueFollowup, NextOffset, GoTo, TypeOK, dbVars, budget
<1>2. ContentOK(w)'
    BY <1>0, <1>1 DEF ContentOK, EmptyHanded, DB!Nothing
<1>3. Fresh(cursor)'
    BY <1>0, <1>1 DEF ContentIInv, ContentOK, Fresh, Seen
<1>4. \A o \in Workers : o # w => Aside(o)
    BY <1>1 DEF Aside, Undisturbed
<1>5. RowsStep(w) /\ ConfirmedStep(w)
    BY <1>1 DEF RowsStep, ConfirmedStep
<1> QED
    BY <1>1, <1>2, <1>3, <1>4, <1>5, ContentStep

(* A new update is above every number that covers the earlier ones.        *)
LEMMA PostContent ==
    ASSUME ContentIInv, IInv', NEW what \in Keys \cup {NoMessage}, Post(what)
    PROVE  ContentIInv'
<1>0. TypeOK /\ Len(updates) \in Nat
    BY ContentTypes DEF ContentIInv, IInv
<1>1. UNCHANGED <<confirmed, cursor, pc, offset, first, last, pos, messages, session,
                  drawn, writes, contended>>
    BY DEF Post, taskVars, dbVars, budget
<1>2. /\ Len(updates') = Len(updates) + 1
      /\ \A u \in Seen : updates'[u] = updates[u]
    BY <1>0, PostCovers
<1>3. ASSUME NEW n \in Nat, Fresh(n), n <= Len(updates) + 1
      PROVE  \A u \in Seen' : u < n /\ updates'[u] # NoMessage =>
                messages[updates'[u]] >= u \/ updates'[u] \in contended
    <2> SUFFICES ASSUME NEW u \in Seen', u < n
                 PROVE  u \in Seen
        BY <1>2, <1>3 DEF Fresh
    <2> QED
        BY <1>0, <1>2, <1>3 DEF Seen
<1>4. \A u, k : Carries(u, k) => Carries(u, k)'
    BY <1>0, <1>2 DEF Carries, Seen
<1>5. Fresh(cursor)' /\ Fresh(confirmed)'
    <2>1. /\ cursor \in Nat /\ cursor <= Len(updates) + 1
          /\ confirmed \in Nat /\ confirmed <= Len(updates) + 1
        BY <1>0, ContentTypes DEF ContentIInv, IInv, Covered
    <2> QED
        BY <1>1, <1>3, <2>1 DEF ContentIInv, Fresh
<1>6. RowsOK'
    BY <1>1, <1>4 DEF ContentIInv, RowsOK, Carries
<1>8. ASSUME NEW w \in Workers, pc[w] = "writing"
      PROVE  Window(w)' = Window(w)
    <2>1. /\ 1 <= first[w] /\ last[w] <= Len(updates)
          /\ first[w] \in Nat /\ last[w] \in Nat
        BY <1>0, <1>8, ContentTypes
        DEF ContentIInv, IInv, WritingOK, ContentOK, WindowOK
    <2>2. \A u \in first[w]..last[w] : updates'[u] = updates[u]
        BY <1>0, <1>2, <2>1 DEF Seen
    <2> QED
        BY <1>1, <2>2 DEF Window, Carried
<1>7. ASSUME NEW w \in Workers
      PROVE  ContentOK(w)'
    <2>0. /\ ContentOK(w) /\ FetchingOK(w) /\ WritingOK(w) /\ CommittedOK(w)
          /\ offset[w] \in Nat /\ first[w] \in Nat /\ last[w] \in Nat /\ pos[w] \in Nat
        BY <1>0, ContentTypes DEF ContentIInv, IInv
    <2>1. CASE pc[w] = "writing"
        <3>1. WindowOK(w)
            BY <2>0, <2>1 DEF ContentOK
        <3>2. Fresh(first[w])'
            <4>1. Fresh(first[w]) /\ first[w] <= Len(updates) + 1
                BY <2>0, <2>1, <3>1 DEF WindowOK, WritingOK, Covered
            <4> QED
                BY <1>1, <1>3, <2>0, <4>1 DEF Fresh
        <3>3. WritesOK(w)'
            BY <1>1, <1>4, <3>1 DEF WindowOK, WritesOK, InWindow, Carries
        <3>4. DrawnOK(w)'
            BY <1>1, <1>4, <3>1 DEF WindowOK, DrawnOK, InWindow, Carries, DB!Nothing
        <3>5. ASSUME NEW u \in Seen', InWindow(w, u)'
              PROVE  Latest(w, u)'
            <4>1. pos[w] <= Len(updates) + 1
                BY <2>0, <2>1 DEF WritingOK
            <4>2. u \in Seen /\ InWindow(w, u)
                BY <1>0, <1>1, <1>2, <2>0, <3>5, <4>1 DEF InWindow, Seen
            <4>3. Latest(w, u) /\ updates'[u] = updates[u]
                BY <1>2, <3>1, <4>2 DEF WindowOK
            <4> QED
                BY <1>1, <4>3 DEF Latest, DB!Nothing
        <3>6. \A k \in Own(w)' : messages'[k] <= last'[w]
            BY <1>1, <1>8, <2>1, <3>1 DEF WindowOK, Own
        <3>7. WindowOK(w)'
            BY <1>1, <3>1, <3>2, <3>3, <3>4, <3>5, <3>6 DEF WindowOK
        <3> QED
            BY <1>1, <2>0, <2>1, <3>7 DEF ContentOK
    <2>2. CASE pc[w] # "writing"
        <3>1. EmptyHanded(w)'
            BY <1>1, <2>0, <2>2 DEF ContentOK, EmptyHanded, DB!Nothing
        <3>2. pc[w] = "fetching" => Fresh(offset[w])'
            BY <1>1, <1>3, <2>0 DEF ContentOK, FetchingOK, Covered, Fresh
        <3>3. pc[w] = "committed" => Fresh(last[w] + 1)'
            BY <1>1, <1>3, <2>0 DEF ContentOK, CommittedOK, Covered, Fresh
        <3> QED
            BY <1>1, <2>0, <2>2, <3>1, <3>2, <3>3 DEF ContentOK
    <2> QED
        BY <2>1, <2>2
<1>9. \A v, w \in Workers : v # w => Apart(v, w)'
    BY <1>1, <1>8 DEF ContentIInv, Apart
<1> QED
    BY <1>5, <1>6, <1>7, <1>9 DEF ContentIInv

(* Steps that change neither the rows, the updates nor a worker.           *)
LEMMA OutsideContent ==
    ASSUME ContentIInv, IInv', Enqueue \/ RedisLost \/ UNCHANGED vars
    PROVE  ContentIInv'
<1>0. TypeOK
    BY DEF ContentIInv, IInv
<1>1. /\ UNCHANGED <<updates, confirmed, pc, offset, first, last, pos, messages, session,
                     drawn, writes, contended>>
      /\ cursor' = cursor \/ cursor' = 0
    BY DEF Enqueue, RedisLost, Lost, vars, taskVars, dbVars, budget
<1>2. Fresh(cursor)'
    <2>1. \A u \in Seen : ~(u < 0)
        BY <1>0, ContentTypes DEF Seen
    <2> QED
        BY <1>1, <2>1 DEF ContentIInv, Fresh, Seen
<1>3. Fresh(confirmed)' /\ RowsOK'
    BY <1>1 DEF ContentIInv, Fresh, RowsOK, Carries, Seen
<1>4. ASSUME NEW w \in Workers
      PROVE  ContentOK(w)'
    <2>1. WindowOK(w) => WindowOK(w)'
        BY <1>1 DEF WindowOK, WritesOK, DrawnOK, InWindow, Latest, Carries, Fresh, Seen,
           Own, Window, Carried, DB!Nothing
    <2>2. EmptyHanded(w) => EmptyHanded(w)'
        BY <1>1 DEF EmptyHanded, DB!Nothing
    <2>3. Fresh(offset[w]) => Fresh(offset[w])'
        BY <1>1 DEF Fresh, Seen
    <2>4. Fresh(last[w] + 1) => Fresh(last[w] + 1)'
        BY <1>1 DEF Fresh, Seen
    <2> QED
        BY <1>1, <2>1, <2>2, <2>3, <2>4 DEF ContentIInv, ContentOK
<1>5. \A v, w \in Workers : v # w => Apart(v, w)'
    BY <1>1 DEF ContentIInv, Apart, Window, Carried
<1> QED
    BY <1>2, <1>3, <1>4, <1>5 DEF ContentIInv

LEMMA InitContent == Init => ContentIInv
<1> SUFFICES ASSUME Init
             PROVE  ContentIInv
    OBVIOUS
<1>1. Seen = {}
    BY DEF Init, Seen
<1>2. Fresh(cursor) /\ Fresh(confirmed)
    BY <1>1 DEF Fresh
<1>3. RowsOK
    BY DEF Init, DB!Init, DB!NoWrites, RowsOK
<1>4. \A w \in Workers : ContentOK(w)
    BY DEF Init, DB!Init, DB!NoWrites, DB!Nothing, ContentOK, EmptyHanded
<1>5. \A v, w \in Workers : Apart(v, w)
    BY DEF Init, Apart
<1> QED
    BY <1>2, <1>3, <1>4, <1>5, InitIInv DEF ContentIInv

LEMMA NextContent == ContentIInv /\ [Next]_vars => ContentIInv'
<1> SUFFICES ASSUME ContentIInv, [Next]_vars
             PROVE  ContentIInv'
    OBVIOUS
<1>0. IInv'
    BY NextIInv DEF ContentIInv
<1>1. ASSUME NEW what \in Keys \cup {NoMessage}, Post(what)
      PROVE  ContentIInv'
    BY <1>0, <1>1, PostContent
<1>2. CASE Enqueue \/ RedisLost \/ UNCHANGED vars
    BY <1>0, <1>2, OutsideContent
<1>3. ASSUME NEW w \in Workers, Proceed(w)
      PROVE  ContentIInv'
    BY <1>0, <1>3, StartContent, GetUpdatesContent, LoopContent, CommitBatchContent, FanOutContent,
       FailureContent DEF Proceed
<1>4. ASSUME NEW w \in Workers, UpsertMessage(w)
      PROVE  ContentIInv'
    BY <1>0, <1>4, UpsertContent
<1>5. ASSUME NEW w \in Workers, Failure(w)
      PROVE  ContentIInv'
    BY <1>0, <1>5, FailureContent
<1> QED
    BY <1>1, <1>2, <1>3, <1>4, <1>5 DEF Next

(* Only a commit, at the end of a window, changes rows.                    *)
LEMMA RowsChange ==
    ASSUME [Next]_vars
    PROVE  \/ messages' = messages
           \/ \E w \in Workers : pc[w] = "writing" /\ pos[w] > last[w] /\ DB!Commit(w)
<1>1. CASE Enqueue \/ RedisLost \/ UNCHANGED vars
    BY <1>1 DEF Enqueue, RedisLost, vars, dbVars
<1>2. ASSUME NEW what \in Keys \cup {NoMessage}, Post(what)
      PROVE  messages' = messages
    BY <1>2 DEF Post, dbVars
<1>3. ASSUME NEW w \in Workers, CommitBatch(w) \/ CommitUnheard(w)
      PROVE  pc[w] = "writing" /\ pos[w] > last[w] /\ DB!Commit(w)
    BY <1>3 DEF CommitBatch, CommitUnheard
<1>4. ASSUME NEW w \in Workers, Proceed(w) \/ UpsertMessage(w), ~CommitBatch(w)
      PROVE  messages' = messages
    BY <1>4 DEF Proceed, Start, GetUpdates, DrawUpdate, SkipUpdate, UpsertMessage,
       SyncDeadlocks, AdvanceCursor, EnqueueFollowup, Finish, DB!Begin, DB!Draw,
       DB!Upsert, DB!DeadlockVictim, DB!Rollback, DB!Undone, dbVars
<1>5. ASSUME NEW w \in Workers, Failure(w), ~CommitUnheard(w)
      PROVE  messages' = messages
    BY <1>5 DEF Failure, GetUpdatesFails, SyncFails, AdvanceCursorFails,
       EnqueueFollowupFails, Crash, DB!Rollback, DB!Undone, dbVars
<1> QED
    BY <1>1, <1>2, <1>3, <1>4, <1>5 DEF Next

LEMMA ContentInvariance == Spec => []ContentIInv
<1>1. Init => ContentIInv
    BY InitContent
<1>2. ContentIInv /\ [Next]_vars => ContentIInv'
    BY NextContent
<1> QED
    BY <1>1, <1>2, PTL DEF Spec

(* An edit that Telegram no longer hands out is in its row, or a newer one *)
(* is, unless two syncs had its message in their windows at once: for any  *)
(* number of workers and overlapping syncs, whatever fails, crashes or is  *)
(* lost.                                                                   *)
THEOREM EditsSurviveOverlap == Spec => []EditsSurviveApart
<1>1. ContentIInv => EditsSurviveApart
    BY DEF ContentIInv, Fresh, EditsSurviveApart, Kept
<1> QED
    BY <1>1, ContentInvariance, PTL

(* No commit puts an older version of such a message over a newer one, not *)
(* even when it fetches again what another sync has stored.                *)
THEOREM ContentGrows == Spec => ContentNeverGoesBack
<1>1. ContentIInv /\ [Next]_vars
        => [\A k \in Keys \ contended : messages'[k] >= messages[k]]_messages
    <2> SUFFICES ASSUME ContentIInv, [Next]_vars, messages' # messages
                 PROVE  \A k \in Keys \ contended : messages'[k] >= messages[k]
        OBVIOUS
    <2>1. PICK w \in Workers : pc[w] = "writing" /\ pos[w] > last[w] /\ DB!Commit(w)
        BY RowsChange
    <2> QED
        BY <2>1, CommitContent DEF RowsGrow
<1> QED
    BY <1>1, ContentInvariance, PTL DEF Spec, ContentNeverGoesBack

-----------------------------------------------------------------------------
(* The message store inside the pipeline.                                  *)

(* The window lies within the updates, so what the loop draws is a message. *)
LEMMA DrawIsDraw ==
    ASSUME IInv, NEW w \in Workers, DrawUpdate(w)
    PROVE  \E msg \in DB!Message : DB!Draw(w, msg)
<1> DEFINE msg == [key |-> updates[pos[w]], version |-> pos[w]]
<1>1. TypeOK /\ pos[w] \in Nat /\ last[w] \in Nat /\ Len(updates) \in Nat
    BY ContentTypes DEF IInv
<1>2. 1 <= pos[w] /\ pos[w] <= last[w] /\ last[w] <= Len(updates)
    BY DEF IInv, WritingOK, DrawUpdate
<1>3. pos[w] \in Seen /\ pos[w] \in 1..MaxUpdates
    BY <1>1, <1>2 DEF Seen, TypeOK
<1>4. msg \in DB!Message
    BY <1>1, <1>3, MessageKey DEF DrawUpdate, DB!Message
<1> QED
    BY <1>4 DEF DrawUpdate

(* A step of the pipeline is a step of one transaction, or none.           *)
LEMMA DatabaseStep ==
    ASSUME IInv, [Next]_vars
    PROVE  [DB!Next]_(DB!vars)
<1>1. CASE UNCHANGED dbVars
    BY <1>1 DEF dbVars, DB!vars
<1>2. ASSUME NEW w \in Workers, DB!Step(w)
      PROVE  DB!Next
    BY <1>2 DEF DB!Next
<1>3. ASSUME NEW w \in Workers, Proceed(w) \/ UpsertMessage(w)
      PROVE  DB!Step(w) \/ UNCHANGED dbVars
    <2>1. CASE DrawUpdate(w)
        BY <2>1, DrawIsDraw DEF DB!Step
    <2> QED
        BY <1>3, <2>1 DEF Proceed, Start, GetUpdates, SkipUpdate, UpsertMessage,
           CommitBatch, SyncDeadlocks, AdvanceCursor, EnqueueFollowup, Finish, DB!Step
<1>4. ASSUME NEW w \in Workers, Failure(w)
      PROVE  DB!Step(w) \/ UNCHANGED dbVars
    BY <1>4 DEF Failure, GetUpdatesFails, CommitUnheard, SyncFails,
       AdvanceCursorFails, EnqueueFollowupFails, Crash, DB!Step
<1>5. CASE \/ \E what \in Keys \cup {NoMessage} : Post(what)
           \/ Enqueue \/ RedisLost \/ UNCHANGED vars
    BY <1>1, <1>5 DEF Post, Enqueue, RedisLost, vars
<1> QED
    BY <1>1, <1>2, <1>3, <1>4, <1>5 DEF Next

(* The syncs of the pipeline are transactions of the ingest service:       *)
(* TelegramSync implements Ingest.                                         *)
THEOREM ImplementsIngest == Spec => DB!Spec
<1>1. Init => DB!Init
    BY DEF Init
<1>2. IInv /\ [Next]_vars => [DB!Next]_(DB!vars)
    BY DatabaseStep
<1> QED
    BY <1>1, <1>2, Invariance, PTL DEF Spec, DB!Spec
=============================================================================
