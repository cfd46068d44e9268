--------------------------- MODULE EmailSyncProofs ---------------------------
(***************************************************************************)
(* Proofs about EmailSync, for any workers, mails, headers, object keys,   *)
(* limit and bounds.                                                       *)
(***************************************************************************)
EXTENDS EmailSync, FiniteSetTheorems, TLAPS

USE EmailAssumption DEF EmailAssumption, Mails, restarts

-----------------------------------------------------------------------------
(* Facts about the operators.                                              *)

(* The set of row keys is finite.                                          *)
LEMMA KeysFinite == IsFiniteSet(Keys)
<1> DEFINE Named == {<<i, 0, 0>> : i \in Ids \ {NoId}}
           Salted == {<<NoId, u, b>> : u \in Mails, b \in 0..MaxBoots}
           Pairs == Mails \X (0..MaxBoots)
           f == [i \in Ids \ {NoId} |-> <<i, 0, 0>>]
           g == [p \in Pairs |-> <<NoId, p[1], p[2]>>]
<1>1. IsFiniteSet(Named)
    <2>1. f \in Surjection(Ids \ {NoId}, Named)
        BY DEF Surjection
    <2>2. IsFiniteSet(Ids \ {NoId})
        BY FS_RemoveElement
    <2> QED
        BY <2>1, <2>2, FS_Surjection
<1>2. IsFiniteSet(Salted)
    <2>1. g \in Surjection(Pairs, Salted)
        <3>1. g \in [Pairs -> Salted]
            OBVIOUS
        <3>2. \A u \in Mails, b \in 0..MaxBoots :
                <<u, b>> \in Pairs /\ g[<<u, b>>] = <<NoId, u, b>>
            OBVIOUS
        <3> QED
            <4>1. ASSUME NEW t \in Salted
                  PROVE  \E p \in Pairs : g[p] = t
                <5>1. PICK u \in Mails, b \in 0..MaxBoots : t = <<NoId, u, b>>
                    OBVIOUS
                <5>2. <<u, b>> \in Pairs /\ g[<<u, b>>] = t
                    BY <5>1, <3>2
                <5> HIDE DEF g, Pairs
                <5> QED
                    BY <5>2
            <4> HIDE DEF g, Pairs, Salted
            <4> QED
                BY <3>1, <4>1 DEF Surjection
    <2>2. IsFiniteSet(Mails) /\ IsFiniteSet(0..MaxBoots)
        BY FS_Interval
    <2>3. IsFiniteSet(Pairs)
        BY <2>2, FS_Product
    <2> QED
        BY <2>1, <2>3, FS_Surjection
<1> HIDE DEF Named, Salted
<1>3. IsFiniteSet(Named \cup Salted)
    BY <1>1, <1>2, FS_Union
<1>4. Keys = Named \cup Salted
    BY DEF Keys, Named, Salted
<1> QED
    BY <1>3, <1>4

(* A mail's keys are keys, and the one that is written is among them.      *)
LEMMA MailKeys ==
    ASSUME NEW u \in Mails, boots \in 0..MaxBoots
    PROVE  KeysOf(u) \subseteq Keys /\ Key(u) \in KeysOf(u)
BY DEF Keys, KeysOf, Key

(* The commit of a batch: types, and the rows it leaves.                   *)
LEMMA SyncEffect ==
    ASSUME NEW b \in DB!Batch, messages \in DB!Batch, reported \in Nat,
           DB!Sync(b)
    PROVE  /\ messages' \in DB!Batch
           /\ reported' \in Nat
           /\ \A k \in Keys : messages[k] # DB!NoRow \/ b[k] # DB!NoRow
                                  => messages'[k] # DB!NoRow
<1>1. messages' = [k \in Keys |-> IF b[k] = DB!NoRow THEN messages[k] ELSE b[k]]
    BY DEF DB!Sync, DB!Overlay
<1>2. Cardinality(DB!NewKeys(messages, b)) \in Nat
    <2>1. DB!NewKeys(messages, b) \in SUBSET Keys
        BY DEF DB!NewKeys
    <2> QED
        BY <2>1, KeysFinite, FS_Subset, FS_CardinalityType
<1>3. reported' = reported + Cardinality(DB!NewKeys(messages, b))
    <2>1. reported' = reported + DB!Cardinality(DB!NewKeys(messages, b))
        BY DEF DB!Sync
    <2>2. \A S : DB!Cardinality(S) = Cardinality(S)
        BY DEF DB!Cardinality, Cardinality
    <2> QED
        BY <2>1, <2>2
<1>4. reported + Cardinality(DB!NewKeys(messages, b)) \in Nat
    BY <1>2
<1> QED
    BY <1>1, <1>3, <1>4 DEF DB!Batch

(* A stored mail stays stored for as long as rows stay.                    *)
LEMMA StoredStays ==
    ASSUME NEW u \in Mails, Stored(u),
           \A k \in Keys : messages[k] # DB!NoRow => messages'[k] # DB!NoRow
    PROVE  Stored(u)'
BY DEF Stored, KeysOf, Keys

-----------------------------------------------------------------------------
(* Types.                                                                  *)

LEMMA InitTypes == Init => TypeOK
BY DEF Init, TypeOK, NoBatch, DB!Init, DB!Batch, DB!NoRow

(* Reset leaves every worker well typed.                                   *)
LEMMA ResetTypes ==
    ASSUME TypeOK, NEW w \in Workers, Reset(w)
    PROVE  /\ pc' \in [Workers -> {"idle", "storing", "marking"}]
           /\ window' \in [Workers -> SUBSET Mails]
           /\ pending' \in [Workers -> SUBSET Mails]
           /\ batch' \in [Workers -> DB!Batch]
<1>1. NoBatch \in DB!Batch
    BY DEF NoBatch, DB!Batch
<1> QED
    BY <1>1 DEF TypeOK, Reset

(* An upload leaves the bucket well typed.                                 *)
LEMMA PutTypes ==
    ASSUME TypeOK, NEW u \in Mails, Put(u)
    PROVE  objects' \in [Objects -> Mails \cup {Nobody}]
<1>1. CASE Object[u] = NoObject
    BY <1>1 DEF TypeOK, Put
<1>2. CASE Object[u] # NoObject
    BY <1>2 DEF TypeOK, Put, Objects
<1> QED
    BY <1>1, <1>2

(* A mail written into a transaction leaves it well typed.                 *)
LEMMA WriteTypes ==
    ASSUME TypeOK, NEW w \in Workers, NEW u \in Mails
    PROVE  /\ [batch EXCEPT ![w][Key(u)] = u] \in [Workers -> DB!Batch]
           /\ [pending EXCEPT ![w] = @ \cup {u}] \in [Workers -> SUBSET Mails]
           /\ [window EXCEPT ![w] = @ \ {u}] \in [Workers -> SUBSET Mails]
<1>1. Key(u) \in Keys
    BY MailKeys DEF TypeOK
<1>2. batch \in [Workers -> DB!Batch]
    BY DEF TypeOK
<1>3. [batch[w] EXCEPT ![Key(u)] = u] \in DB!Batch
    BY <1>1, <1>2 DEF DB!Batch
<1>4. [batch EXCEPT ![w][Key(u)] = u] \in [Workers -> DB!Batch]
    BY <1>2, <1>3
<1>5. pending \in [Workers -> SUBSET Mails] /\ window \in [Workers -> SUBSET Mails]
    BY DEF TypeOK
<1> QED
    BY <1>4, <1>5

(* Every step of a sync that goes on keeps the types.                      *)
LEMMA ProceedTypes ==
    ASSUME TypeOK, NEW w \in Workers, Proceed(w)
    PROVE  TypeOK'
<1>1. ASSUME NEW refused \in SUBSET Oldest, Fetch(w, refused)
      PROVE  TypeOK'
    <2>1. Oldest \subseteq Mails
        BY DEF TypeOK, Oldest, Unseen
    <2>2. faults' \in 0..MaxFaults
        <3>1. IsFiniteSet(Mails)
            BY FS_Interval
        <3>2. Cardinality(refused) \in Nat
            BY <2>1, <3>1, FS_Subset, FS_CardinalityType
        <3>3. faults + Cardinality(refused) \in 0..MaxFaults
            BY <1>1, <3>2 DEF TypeOK, Fetch, Peeked
        <3> QED
            BY <1>1, <3>3 DEF Fetch, Peeked
    <2> QED
        BY <1>1, <2>1, <2>2 DEF TypeOK, Fetch, mailbox, dbVars, Peeked
<1>2. ASSUME NEW u \in Mails, Normalize(w, u)
      PROVE  TypeOK'
    BY <1>2, PutTypes, WriteTypes DEF TypeOK, Normalize, mailbox, dbVars, ToFlag
<1>3. ASSUME NEW u \in Mails, MarkSeen(w, u)
      PROVE  TypeOK'
    BY <1>3 DEF TypeOK, MarkSeen, dbVars, Flagged
<1>4. ASSUME NEW u \in Mails, MarkRefused(w, u)
      PROVE  TypeOK'
    <2>1. faults + 1 \in 0..MaxFaults
        BY <1>4 DEF TypeOK, MarkRefused
    <2> QED
        BY <1>4, <2>1 DEF TypeOK, MarkRefused, mailbox, dbVars
<1>5. CASE Commit(w)
    <2>1. batch[w] \in DB!Batch /\ NoBatch \in DB!Batch
        BY DEF TypeOK, NoBatch, DB!Batch
    <2>2. messages' \in DB!Batch /\ reported' \in Nat
        BY <1>5, <2>1, SyncEffect DEF TypeOK, Commit
    <2> QED
        BY <1>5, <2>1, <2>2 DEF TypeOK, Commit, mailbox
<1>6. CASE Finish(w)
    BY <1>6 DEF TypeOK, Finish, mailbox, dbVars
<1> QED
    BY <1>1, <1>2, <1>3, <1>4, <1>5, <1>6 DEF Proceed

(* So does every failure.                                                  *)
LEMMA FailureTypes ==
    ASSUME TypeOK, NEW w \in Workers, Failure(w)
    PROVE  TypeOK'
<1>1. faults < MaxFaults => faults + 1 \in 0..MaxFaults
    BY DEF TypeOK
<1>2. CASE Fail(w)
    BY <1>1, <1>2, ResetTypes DEF TypeOK, Fail, mailbox, dbVars
<1>3. ASSUME NEW u \in Mails, FailAfterPut(w, u)
      PROVE  TypeOK'
    BY <1>1, <1>3, ResetTypes, PutTypes DEF TypeOK, FailAfterPut, mailbox, dbVars
<1>4. CASE CommitUnheard(w)
    <2>1. batch[w] \in DB!Batch
        BY DEF TypeOK
    <2>2. messages' \in DB!Batch /\ reported' \in Nat
        BY <1>4, <2>1, SyncEffect DEF TypeOK, CommitUnheard
    <2> QED
        BY <1>1, <1>4, <2>2, ResetTypes DEF TypeOK, CommitUnheard, mailbox
<1>5. ASSUME NEW u \in Mails, Refuse(w, u)
      PROVE  TypeOK'
    BY <1>5, ResetTypes, PutTypes DEF TypeOK, Refuse, mailbox, dbVars
<1> QED
    BY <1>2, <1>3, <1>4, <1>5 DEF Failure

LEMMA NextTypes ==
    ASSUME TypeOK, [Next]_vars
    PROVE  TypeOK'
<1>1. CASE Arrive
    BY <1>1 DEF TypeOK, Arrive, syncVars, dbVars
<1>2. CASE Restart
    <2>1. boots' \in 0..MaxBoots
        BY <1>2 DEF TypeOK, Restart
    <2>2. unflagged' \subseteq Mails
        BY <1>2 DEF TypeOK, Restart
    <2> QED
        BY <1>2, <2>1, <2>2 DEF TypeOK, Restart, mailbox, syncVars, dbVars
<1>3. CASE UNCHANGED vars
    BY <1>3 DEF TypeOK, vars, mailbox, syncVars, dbVars
<1> QED
    BY <1>1, <1>2, <1>3, ProceedTypes, FailureTypes DEF Next

(* Every state of the Email pipeline is well typed: no step of overlapping *)
(* syncs leaves a mail, an object or a row out of its range.               *)
THEOREM TypeCorrect == Spec => []TypeOK
BY InitTypes, NextTypes, PTL DEF Spec
-----------------------------------------------------------------------------
(* At-least-once.                                                          *)

LEMMA InitInv == Init => IInv
BY InitTypes DEF Init, IInv, SeenMeansStored, Noted

(* A step of w that keeps every row, and flags only stored mails, keeps    *)
(* what the other workers noted: that is about their own variables.        *)
LEMMA OthersNoted ==
    ASSUME TypeOK, NEW w \in Workers, NEW o \in Workers, Noted(o),
           pc'[o] = pc[o], pending'[o] = pending[o], batch'[o] = batch[o],
           \A k \in Keys : messages[k] # DB!NoRow => messages'[k] # DB!NoRow
    PROVE  Noted(o)'
<1>1. pending[o] \in SUBSET Mails
    BY DEF TypeOK
<1>2. ASSUME NEW u \in Mails, Stored(u)
      PROVE  Stored(u)'
    BY <1>2, StoredStays
<1> QED
    BY <1>1, <1>2 DEF Noted

(* A worker that was reset has noted nothing.                              *)
LEMMA ResetNoted ==
    ASSUME TypeOK, NEW w \in Workers, Reset(w)
    PROVE  Noted(w)'
BY DEF TypeOK, Reset, Noted

(* What was flagged stays stored, for as long as rows stay.                *)
LEMMA SeenStays ==
    ASSUME TypeOK, SeenMeansStored, seen' = seen,
           \A k \in Keys : messages[k] # DB!NoRow => messages'[k] # DB!NoRow
    PROVE  SeenMeansStored'
<1>1. seen \subseteq Mails
    BY DEF TypeOK
<1> QED
    BY <1>1, StoredStays DEF SeenMeansStored

(* A commit keeps the rows there are and stores what the worker noted.     *)
LEMMA SyncStores ==
    ASSUME IInv, NEW w \in Workers, pc[w] = "storing", DB!Sync(batch[w])
    PROVE  /\ \A k \in Keys : messages[k] # DB!NoRow => messages'[k] # DB!NoRow
           /\ \A u \in pending[w] : Stored(u)'
<1>1. /\ batch[w] \in DB!Batch /\ messages \in DB!Batch /\ reported \in Nat
      /\ pending[w] \in SUBSET Mails
      /\ boots \in 0..MaxBoots
    BY DEF IInv, TypeOK
<1>2. \A k \in Keys : messages[k] # DB!NoRow \/ batch[w][k] # DB!NoRow
                          => messages'[k] # DB!NoRow
    BY <1>1, SyncEffect
<1>3. ASSUME NEW u \in pending[w]
      PROVE  Stored(u)'
    <2>1. PICK k \in KeysOf(u) : batch[w][k] # DB!NoRow
        BY DEF IInv, Noted
    <2>2. k \in Keys
        BY <1>1, MailKeys
    <2>3. messages'[k] # DB!NoRow
        BY <1>2, <2>1, <2>2
    <2> QED
        BY <2>3 DEF Stored, KeysOf
<1> QED
    BY <1>2, <1>3

(* The steps of a sync keep the invariant.                                 *)
LEMMA ProceedInv ==
    ASSUME IInv, NEW w \in Workers, Proceed(w)
    PROVE  IInv'
<1>1. TypeOK'
    BY ProceedTypes DEF IInv
<1>2. ASSUME NEW refused \in SUBSET Oldest, Fetch(w, refused)
      PROVE  SeenMeansStored' /\ \A o \in Workers : Noted(o)'
    <2>1. Noted(w)'
        BY <1>2 DEF IInv, TypeOK, Fetch, Noted, Peeked
    <2>2. ASSUME NEW o \in Workers, o # w
          PROVE  Noted(o)'
        BY <1>2, <2>2, OthersNoted DEF IInv, TypeOK, Fetch, dbVars, Peeked
    <2> QED
        BY <1>2, <2>1, <2>2, SeenStays DEF IInv, Fetch, mailbox, dbVars, Peeked
<1>3. ASSUME NEW u \in Mails, Normalize(w, u)
      PROVE  SeenMeansStored' /\ \A o \in Workers : Noted(o)'
    <2>1. Noted(w)'
        <3>1. Key(u) \in KeysOf(u) /\ KeysOf(u) \subseteq Keys
            BY MailKeys DEF IInv, TypeOK
        <3>2. /\ batch[w] \in [Keys -> Mails \cup {DB!NoRow}]
              /\ batch'[w] = [batch[w] EXCEPT ![Key(u)] = u]
              /\ pending'[w] = pending[w] \cup {u}
              /\ pc[w] = "storing" /\ pc'[w] = "storing"
            BY <1>3 DEF IInv, TypeOK, Normalize, DB!Batch, ToFlag
        <3>3. u # DB!NoRow
            BY DEF DB!NoRow
        <3>4. \A k \in Keys : batch[w][k] # DB!NoRow => batch'[w][k] # DB!NoRow
            BY <3>2, <3>3
        <3>5. batch'[w][Key(u)] # DB!NoRow
            BY <3>1, <3>2, <3>3
        <3>6. \A v \in pending[w] : \E k \in KeysOf(v) : batch[w][k] # DB!NoRow
            BY <3>2 DEF IInv, Noted
        <3>7. \A v \in pending[w] : KeysOf(v) \subseteq Keys
            BY MailKeys DEF IInv, TypeOK
        <3>8. \A v \in pending'[w] : \E k \in KeysOf(v) : batch'[w][k] # DB!NoRow
            BY <3>1, <3>2, <3>4, <3>5, <3>6, <3>7
        <3> QED
            BY <3>2, <3>8 DEF Noted, KeysOf
    <2>2. ASSUME NEW o \in Workers, o # w
          PROVE  Noted(o)'
        BY <1>3, <2>2, OthersNoted DEF IInv, TypeOK, Normalize, dbVars, ToFlag
    <2> QED
        BY <1>3, <2>1, <2>2, SeenStays DEF IInv, Normalize, mailbox, dbVars, ToFlag
<1>4. ASSUME NEW u \in Mails, MarkSeen(w, u)
      PROVE  SeenMeansStored' /\ \A o \in Workers : Noted(o)'
    <2>1. Stored(u) /\ \A v \in pending[w] : Stored(v)
        BY <1>4 DEF IInv, Noted, MarkSeen, First, Flagged
    <2>2. SeenMeansStored'
        BY <1>4, <2>1 DEF IInv, SeenMeansStored, MarkSeen, Stored, KeysOf, dbVars,
            Flagged
    <2>3. Noted(w)'
        BY <1>4, <2>1 DEF IInv, TypeOK, MarkSeen, Noted, Stored, KeysOf, dbVars, Flagged
    <2>4. ASSUME NEW o \in Workers, o # w
          PROVE  Noted(o)'
        BY <1>4, <2>4, OthersNoted DEF IInv, TypeOK, MarkSeen, dbVars, Flagged
    <2> QED
        BY <2>2, <2>3, <2>4
<1>5. ASSUME NEW u \in Mails, MarkRefused(w, u)
      PROVE  SeenMeansStored' /\ \A o \in Workers : Noted(o)'
    <2>1. \A v \in pending[w] : Stored(v)
        BY <1>5 DEF IInv, Noted, MarkRefused
    <2>2. Noted(w)'
        BY <1>5, <2>1 DEF IInv, TypeOK, MarkRefused, Noted, Stored, KeysOf, dbVars
    <2>3. ASSUME NEW o \in Workers, o # w
          PROVE  Noted(o)'
        BY <1>5, <2>3, OthersNoted DEF IInv, TypeOK, MarkRefused, dbVars
    <2> QED
        BY <1>5, <2>2, <2>3, SeenStays DEF IInv, MarkRefused, mailbox, dbVars
<1>6. CASE Commit(w)
    <2>1. /\ \A k \in Keys : messages[k] # DB!NoRow => messages'[k] # DB!NoRow
          /\ \A u \in pending[w] : Stored(u)'
        BY <1>6, SyncStores DEF Commit
    <2>2. Noted(w)'
        BY <1>6, <2>1 DEF IInv, TypeOK, Commit, Noted
    <2>3. ASSUME NEW o \in Workers, o # w
          PROVE  Noted(o)'
        BY <1>6, <2>1, <2>3, OthersNoted DEF IInv, TypeOK, Commit
    <2> QED
        BY <1>1, <1>6, <2>1, <2>2, <2>3, SeenStays DEF IInv, Commit, mailbox
<1>7. CASE Finish(w)
    <2>1. Noted(w)'
        BY <1>7 DEF IInv, TypeOK, Finish, Noted
    <2>2. ASSUME NEW o \in Workers, o # w
          PROVE  Noted(o)'
        BY <1>7, <2>2, OthersNoted DEF IInv, TypeOK, Finish, dbVars
    <2> QED
        BY <1>1, <1>7, <2>1, <2>2, SeenStays DEF IInv, Finish, mailbox, dbVars
<1> QED
    BY <1>1, <1>2, <1>3, <1>4, <1>5, <1>6, <1>7 DEF Proceed, IInv

(* So do its failures: they forget what was noted, and keep the rows.      *)
LEMMA FailureInv ==
    ASSUME IInv, NEW w \in Workers, Failure(w)
    PROVE  IInv'
<1>1. TypeOK'
    BY FailureTypes DEF IInv
<1>2. /\ Reset(w)
      /\ seen' = seen
      /\ \A k \in Keys : messages[k] # DB!NoRow => messages'[k] # DB!NoRow
    <2>1. CASE Fail(w)
        BY <2>1 DEF Fail, mailbox, dbVars
    <2>2. ASSUME NEW u \in Mails, FailAfterPut(w, u) \/ Refuse(w, u)
          PROVE  /\ Reset(w)
                 /\ seen' = seen
                 /\ \A k \in Keys :
                        messages[k] # DB!NoRow => messages'[k] # DB!NoRow
        BY <2>2 DEF FailAfterPut, Refuse, mailbox, dbVars
    <2>3. CASE CommitUnheard(w)
        BY <2>3, SyncStores DEF CommitUnheard, mailbox
    <2> QED
        BY <2>1, <2>2, <2>3 DEF Failure
<1>3. \A o \in Workers : Noted(o)'
    <2>1. ASSUME NEW o \in Workers, o # w
          PROVE  Noted(o)'
        BY <1>2, <2>1, OthersNoted DEF IInv, TypeOK, Reset
    <2> QED
        BY <1>2, <2>1, ResetNoted DEF IInv
<1>4. SeenMeansStored'
    BY <1>2, SeenStays DEF IInv
<1> QED
    BY <1>1, <1>3, <1>4 DEF IInv

(* The steps that touch no transaction.                                    *)
LEMMA NextInv ==
    ASSUME IInv, [Next]_vars
    PROVE  IInv'
<1>1. TypeOK'
    BY NextTypes DEF IInv
<1>2. ASSUME pc' = pc, pending' = pending, batch' = batch,
             messages' = messages, seen' = seen
      PROVE  IInv'
    BY <1>1, <1>2 DEF IInv, SeenMeansStored, Noted, Stored, KeysOf
<1>3. CASE Arrive
    BY <1>2, <1>3 DEF Arrive, syncVars, dbVars
<1>4. CASE Restart
    BY <1>2, <1>4 DEF Restart, mailbox, syncVars, dbVars
<1>5. CASE UNCHANGED vars
    BY <1>2, <1>5 DEF vars, mailbox, syncVars, dbVars
<1> QED
    BY <1>3, <1>4, <1>5, ProceedInv, FailureInv DEF Next

(* What a sync has noted for flagging is in its transaction or in the      *)
(* table, and flagged mails are stored: the inductive invariant.           *)
THEOREM Invariance == Spec => []IInv
BY InitInv, NextInv, PTL DEF Spec

(* A mail that is flagged \Seen, and so will never be fetched again, has   *)
(* its row, for any number of overlapping syncs, failures, crashes and     *)
(* restarts: on_sync_committed flags only what the committed transaction   *)
(* wrote.                                                                  *)
THEOREM PollingIsAtLeastOnce == Spec => []SeenMeansStored
<1>1. IInv => SeenMeansStored
    BY DEF IInv
<1> QED
    BY <1>1, Invariance, PTL

-----------------------------------------------------------------------------
(* Bytes before rows.                                                      *)

(* An upload leaves the objects of others alone, and its own has its       *)
(* bytes: rows keep theirs.                                                *)
LEMMA PutKeeps ==
    ASSUME TypeOK, NEW u \in Mails, Put(u)
    PROVE  /\ \A v \in Mails : OwnObject(v) /\ objects[Object[v]] = v
                                   => objects'[Object[v]] = v
           /\ OwnObject(u) => objects'[Object[u]] = u
<1>1. CASE Object[u] = NoObject
    BY <1>1 DEF Put, OwnObject
<1>2. CASE Object[u] # NoObject
    <2>1. /\ Object[u] \in Objects
          /\ objects' = [objects EXCEPT ![Object[u]] = u]
          /\ objects \in [Objects -> Mails \cup {Nobody}]
        BY <1>2 DEF Put, Objects, TypeOK
    <2>2. \A v \in Mails : OwnObject(v) => Object[v] \in Objects
        BY DEF OwnObject, Objects
    <2> QED
        BY <2>1, <2>2 DEF OwnObject
<1> QED
    BY <1>1, <1>2

(* If objects keep their bytes, rows that are left alone keep theirs.      *)
LEMMA UploadedStays ==
    ASSUME NEW b, Uploaded(b),
           \A v \in Mails : OwnObject(v) /\ objects[Object[v]] = v
                                => objects'[Object[v]] = v
    PROVE  \A k \in Keys : \A v \in Mails :
               b[k] = v /\ OwnObject(v) => objects'[Object[v]] = v
BY DEF Uploaded

LEMMA SyncUploads ==
    ASSUME TypeOK, BytesInv, NEW w \in Workers, DB!Sync(batch[w]),
           objects' = objects
    PROVE  RowsHaveBytes'
<1>1. messages' = [k \in Keys |-> IF batch[w][k] = DB!NoRow THEN messages[k]
                                                           ELSE batch[w][k]]
    BY DEF DB!Sync, DB!Overlay
<1> QED
    BY <1>1 DEF BytesInv, RowsHaveBytes, Uploaded, OwnObject

(* An empty transaction has no rows.                                       *)
LEMMA NothingUploaded ==
    ASSUME NEW w \in Workers, batch'[w] = NoBatch
    PROVE  Uploaded(batch[w])'
<1>1. \A k \in Keys : NoBatch[k] \notin Mails
    BY DEF NoBatch, DB!NoRow
<1> QED
    BY <1>1 DEF Uploaded

LEMMA BytesStep ==
    ASSUME TypeOK, BytesInv, [Next]_vars
    PROVE  BytesInv'
<1>1. ASSUME objects' = objects, messages' = messages, batch' = batch
      PROVE  BytesInv'
    BY <1>1 DEF BytesInv, RowsHaveBytes, Uploaded, OwnObject
<1>2. ASSUME NEW w \in Workers, NEW u \in Mails, Normalize(w, u)
      PROVE  BytesInv'
    <2>1. /\ Put(u)
          /\ messages' = messages
          /\ batch' = [batch EXCEPT ![w][Key(u)] = u]
          /\ batch \in [Workers -> DB!Batch]
        BY <1>2 DEF Normalize, dbVars, TypeOK, ToFlag
    <2>2. RowsHaveBytes'
        BY <2>1, PutKeeps, UploadedStays DEF BytesInv, RowsHaveBytes, Uploaded,
           OwnObject
    <2>3. ASSUME NEW o \in Workers, NEW k \in Keys, NEW v \in Mails,
                 batch'[o][k] = v, OwnObject(v)
          PROVE  objects'[Object[v]] = v
        <3>1. batch[o] \in [Keys -> Mails \cup {DB!NoRow}]
            BY <2>1 DEF DB!Batch
        <3>2. batch[o][k] = v \/ v = u
            BY <2>1, <2>3, <3>1
        <3>3. Uploaded(batch[o])
            BY DEF BytesInv
        <3>4. objects[Object[v]] = v \/ v = u
            BY <2>3, <3>2, <3>3 DEF Uploaded
        <3> QED
            BY <2>1, <2>3, <3>4, PutKeeps
    <2> QED
        BY <2>2, <2>3 DEF BytesInv, Uploaded, OwnObject
<1>3. ASSUME NEW w \in Workers, Commit(w) \/ CommitUnheard(w)
      PROVE  BytesInv'
    <2>1. /\ DB!Sync(batch[w]) /\ objects' = objects
          /\ batch' = [batch EXCEPT ![w] = NoBatch]
        BY <1>3 DEF Commit, CommitUnheard, Reset
    <2>2. RowsHaveBytes'
        BY <2>1, SyncUploads
    <2>3. ASSUME NEW o \in Workers
          PROVE  Uploaded(batch[o])'
        <3>1. CASE o = w
            BY <2>1, <3>1, NothingUploaded DEF TypeOK
        <3>2. CASE o # w
            BY <2>1, <3>2 DEF TypeOK, BytesInv, Uploaded, OwnObject
        <3> QED
            BY <3>1, <3>2
    <2> QED
        BY <2>2, <2>3 DEF BytesInv
<1>4. ASSUME NEW w \in Workers, Reset(w), messages' = messages,
             objects' = objects \/ \E u \in Mails : Put(u)
      PROVE  BytesInv'
    <2>1. \A v \in Mails : OwnObject(v) /\ objects[Object[v]] = v
                               => objects'[Object[v]] = v
        BY <1>4, PutKeeps
    <2>2. RowsHaveBytes'
        BY <1>4, <2>1, UploadedStays DEF BytesInv, RowsHaveBytes, Uploaded, OwnObject
    <2>3. ASSUME NEW o \in Workers
          PROVE  Uploaded(batch[o])'
        <3>1. CASE o = w
            BY <1>4, <3>1, NothingUploaded DEF TypeOK, Reset
        <3>2. CASE o # w
            <4>1. batch'[o] = batch[o] /\ Uploaded(batch[o])
                BY <1>4, <3>2 DEF TypeOK, Reset, BytesInv
            <4> QED
                BY <2>1, <4>1, UploadedStays DEF Uploaded, OwnObject
        <3> QED
            BY <3>1, <3>2
    <2> QED
        BY <2>2, <2>3 DEF BytesInv
<1>5. CASE Arrive \/ Restart \/ UNCHANGED vars
    BY <1>1, <1>5 DEF Arrive, Restart, vars, syncVars, dbVars
<1>6. ASSUME NEW w \in Workers, Proceed(w)
      PROVE  BytesInv'
    BY <1>1, <1>2, <1>3, <1>6
    DEF Proceed, Fetch, MarkSeen, MarkRefused, Finish, dbVars, Peeked, Flagged
<1>7. ASSUME NEW w \in Workers, Failure(w)
      PROVE  BytesInv'
    BY <1>3, <1>4, <1>7 DEF Failure, Fail, FailAfterPut, Refuse, dbVars
<1> QED
    BY <1>5, <1>6, <1>7 DEF Next

(* A row leads to the bytes of its mail's attachment, unless another mail  *)
(* shares the key: uploads come first, and put the same bytes again.       *)
THEOREM BytesBeforeRows == Spec => []RowsHaveBytes
<1>1. Init => BytesInv
    BY DEF Init, BytesInv, RowsHaveBytes, Uploaded, NoBatch, DB!Init, DB!NoRow
<1>2. TypeOK /\ BytesInv /\ [Next]_vars => BytesInv'
    BY BytesStep
<1>3. BytesInv => RowsHaveBytes
    BY DEF BytesInv
<1> QED
    BY <1>1, <1>2, <1>3, TypeCorrect, PTL DEF Spec

-----------------------------------------------------------------------------
(* The contract of a polling connector.                                    *)

LEMMA MailboxStep ==
    ASSUME TypeOK, MailboxInv, [Next]_vars
    PROVE  MailboxInv'
<1>0. arrived \in Nat /\ window \in [Workers -> SUBSET Mails]
      /\ pending \in [Workers -> SUBSET Mails]
    BY DEF TypeOK
<1>1. CASE Arrive
    <2>1. 1..arrived \subseteq 1..arrived'
        BY <1>0, <1>1 DEF Arrive
    <2> QED
        BY <1>1, <2>1 DEF Arrive, syncVars, MailboxInv
<1>2. CASE Restart \/ UNCHANGED vars
    BY <1>2 DEF Restart, vars, mailbox, syncVars, MailboxInv
<1>3. ASSUME NEW w \in Workers, NEW refused \in SUBSET Oldest, Fetch(w, refused)
      PROVE  MailboxInv'
    <2>1. Oldest \subseteq 1..arrived
        BY DEF Oldest, Unseen
    <2> QED
        BY <1>0, <1>3, <2>1 DEF Fetch, mailbox, MailboxInv, Peeked
<1>4. ASSUME NEW w \in Workers, NEW u \in Mails, Normalize(w, u)
      PROVE  MailboxInv'
    BY <1>0, <1>4 DEF Normalize, First, mailbox, MailboxInv, ToFlag
<1>5. ASSUME NEW w \in Workers, NEW u \in Mails, MarkSeen(w, u)
      PROVE  MailboxInv'
    BY <1>0, <1>5 DEF MarkSeen, First, MailboxInv, Flagged
<1>6. ASSUME NEW w \in Workers, NEW u \in Mails, MarkRefused(w, u)
      PROVE  MailboxInv'
    BY <1>0, <1>6 DEF MarkRefused, mailbox, MailboxInv
<1>7. ASSUME NEW w \in Workers, Commit(w) \/ Finish(w)
      PROVE  MailboxInv'
    BY <1>7 DEF Commit, Finish, mailbox, MailboxInv
<1>8. ASSUME NEW w \in Workers, Failure(w)
      PROVE  MailboxInv'
    <2>1. Reset(w) /\ UNCHANGED mailbox
        BY <1>8 DEF Failure, Fail, FailAfterPut, Refuse, CommitUnheard, mailbox
    <2> QED
        BY <1>0, <2>1 DEF Reset, mailbox, MailboxInv
<1> QED
    BY <1>1, <1>2, <1>3, <1>4, <1>5, <1>6, <1>7, <1>8 DEF Next, Proceed

(* A step keeps the rows, and if it flags a mail it changes nothing else.  *)
LEMMA StepShape ==
    ASSUME IInv, [Next]_vars
    PROVE  /\ \A k \in Keys : messages[k] # DB!NoRow => messages'[k] # DB!NoRow
           /\ \/ Arrive /\ messages' = messages
              \/ arrived' = arrived /\ seen' = seen
              \/ arrived' = arrived /\ messages' = messages /\ seen \subseteq seen'
<1>1. CASE Arrive \/ Restart \/ UNCHANGED vars
    BY <1>1 DEF Arrive, Restart, vars, mailbox, dbVars
<1>2. ASSUME NEW w \in Workers, Proceed(w), ~Commit(w)
      PROVE  /\ messages' = messages /\ arrived' = arrived
             /\ seen \subseteq seen'
    BY <1>2 DEF Proceed, Fetch, Normalize, MarkSeen, MarkRefused, Finish, mailbox,
                dbVars, Peeked, ToFlag, Flagged
<1>3. ASSUME NEW w \in Workers, Commit(w) \/ CommitUnheard(w)
      PROVE  /\ \A k \in Keys : messages[k] # DB!NoRow => messages'[k] # DB!NoRow
             /\ arrived' = arrived /\ seen' = seen
    BY <1>3, SyncStores DEF Commit, CommitUnheard, mailbox
<1>4. ASSUME NEW w \in Workers, Failure(w), ~CommitUnheard(w)
      PROVE  messages' = messages /\ arrived' = arrived /\ seen' = seen
    BY <1>4 DEF Failure, Fail, FailAfterPut, Refuse, mailbox, dbVars
<1> QED
    BY <1>1, <1>2, <1>3, <1>4 DEF Next

(* The connector implements the contract, for any number of workers,       *)
(* mails, failures and restarts.                                           *)
THEOREM ImplementsPolling == Spec => PollsAsPromised
<1>1. Init => Contract!Init /\ MailboxInv
    BY DEF Init, Contract!Init, MailboxInv
<1>2. TypeOK /\ MailboxInv /\ [Next]_vars => MailboxInv'
    BY MailboxStep
<1>3. IInv /\ IInv' /\ MailboxInv /\ MailboxInv' /\ [Next]_vars
        => [Contract!Next]_<<arrived, {u \in 1..arrived : Stored(u)}, seen>>
    <2> SUFFICES ASSUME IInv, IInv', MailboxInv, MailboxInv', [Next]_vars
                 PROVE  Contract!Arrive \/ Contract!Store \/ Contract!Release
        BY DEF Contract!Next
    <2>0. /\ arrived \in 0..MaxMails /\ arrived' \in 0..MaxMails
          /\ 1..arrived \subseteq Mails
        BY DEF IInv, TypeOK
    <2>1. CASE Arrive /\ messages' = messages
        <3>1. arrived' = arrived + 1 /\ seen' = seen
            BY <2>1 DEF Arrive
        <3>2. \A u : Stored(u)' = Stored(u)
            BY <2>1 DEF Stored, KeysOf
        <3>3. 1..arrived' = 1..arrived \cup {arrived'}
            BY <2>0, <3>1
        <3>4. {u \in 1..arrived : Stored(u)}' \in
                {{u \in 1..arrived : Stored(u)},
                 {u \in 1..arrived : Stored(u)} \cup {arrived'}}
            BY <3>2, <3>3
        <3> QED
            BY <3>1, <3>4 DEF Contract!Arrive
    <2>2. CASE arrived' = arrived /\ seen' = seen
        <3>1. \A u \in 1..arrived : Stored(u) => Stored(u)'
            BY <2>0, StepShape, StoredStays
        <3> QED
            BY <2>2, <3>1 DEF Contract!Store
    <2>3. CASE arrived' = arrived /\ messages' = messages /\ seen \subseteq seen'
        <3>1. \A u : Stored(u)' = Stored(u)
            BY <2>3 DEF Stored, KeysOf
        <3>2. seen' \subseteq {u \in 1..arrived : Stored(u)}'
            BY DEF IInv, SeenMeansStored, MailboxInv
        <3> QED
            BY <2>3, <3>1, <3>2 DEF Contract!Release
    <2> QED
        BY <2>1, <2>2, <2>3, StepShape
<1> QED
    BY <1>1, <1>2, <1>3, TypeCorrect, Invariance, PTL
    DEF Spec, PollsAsPromised, Contract!Spec

-----------------------------------------------------------------------------
(* One row per mail.  Only a mail without a Message-ID can have several    *)
(* keys: one for each start of the worker container.                       *)

Row(rows, u, b) == rows[<<NoId, u, b>>] # DB!NoRow

(* A mail with a row under a key that no worker gives it any more.         *)
Renamed(u) == \E b \in 0..MaxBoots : b # boots /\ Row(messages, u, b)

(* The mails whose key changes, but those that a restart found stored and  *)
(* not flagged.                                                            *)
Followed == {u \in Mails \ unflagged : MessageId[u] = NoId}

(* Those of them that are renamed are flagged: no sync fetches them again. *)
TableOK ==
    \A u \in Followed :
        /\ Renamed(u) => u \in seen
        /\ \A b, c \in 0..MaxBoots : Row(messages, u, b) /\ Row(messages, u, c) => b = c

(* A sync has in its window and its transaction no renamed mail, and a     *)
(* restart waits for it: its keys are the present ones.                    *)
SyncOK(w) ==
    /\ pc[w] # "storing" => window[w] = {} /\ batch[w] = NoBatch
    /\ \A u \in window[w] \cap Followed : ~Renamed(u)
    /\ \A u \in Mails, b \in 0..MaxBoots : Row(batch[w], u, b) =>
        /\ pc[w] = "storing"
        /\ b = boots
        /\ u \in Followed => ~Renamed(u)

KeysInv == TableOK /\ \A w \in Workers : SyncOK(w)

KeysIInv == IInv /\ KeysInv

LEMMA RowKeys ==
    ASSUME NEW u \in Mails, NEW b \in 0..MaxBoots
    PROVE  <<NoId, u, b>> \in Keys
BY DEF Keys

(* A step that changes neither the table nor the keys leaves the table and *)
(* the other workers as they were.                                         *)
LEMMA TableStays ==
    ASSUME TableOK, messages' = messages, UNCHANGED restarts, seen \subseteq seen'
    PROVE  TableOK'
BY DEF TableOK, Followed, Renamed, Row, DB!NoRow

LEMMA SyncStays ==
    ASSUME NEW o \in Workers, SyncOK(o), messages' = messages, UNCHANGED restarts,
           pc'[o] = pc[o], window'[o] = window[o], batch'[o] = batch[o]
    PROVE  SyncOK(o)'
BY DEF SyncOK, Followed, Renamed, Row, DB!NoRow, NoBatch

(* A worker that ends its task before the commit has nothing left.         *)
LEMMA ResetKeys ==
    ASSUME IInv, KeysInv, NEW w \in Workers, Reset(w), messages' = messages,
           UNCHANGED restarts, seen' = seen
    PROVE  KeysInv'
<1>1. /\ pc'[w] = "idle" /\ window'[w] = {} /\ batch'[w] = NoBatch
      /\ \A o \in Workers : o # w => /\ pc'[o] = pc[o] /\ window'[o] = window[o]
                                     /\ batch'[o] = batch[o]
    BY DEF IInv, TypeOK, Reset
<1>2. TableOK'
    BY TableStays DEF KeysInv
<1>3. SyncOK(w)'
    BY <1>1, RowKeys DEF SyncOK, Followed, Row, NoBatch, DB!NoRow
<1>4. ASSUME NEW o \in Workers, o # w
      PROVE  SyncOK(o)'
    BY <1>1, <1>4, SyncStays DEF KeysInv
<1> QED
    BY <1>2, <1>3, <1>4 DEF KeysInv

(* A sync asks for mails that are not flagged: none of them is renamed.    *)
LEMMA FetchKeys ==
    ASSUME IInv, KeysInv, NEW w \in Workers, NEW refused \in SUBSET Oldest,
           Fetch(w, refused)
    PROVE  KeysInv'
<1>1. /\ pc[w] = "idle" /\ pc'[w] = "storing" /\ window'[w] = Oldest \ refused
      /\ UNCHANGED <<messages, restarts, seen, batch>>
      /\ \A o \in Workers : o # w => pc'[o] = pc[o] /\ window'[o] = window[o]
    BY DEF IInv, TypeOK, Fetch, dbVars, Peeked
<1>2. TableOK'
    BY <1>1, TableStays DEF KeysInv
<1>3. \A u \in Oldest : u \in Mails /\ u \notin seen
    BY DEF IInv, TypeOK, Oldest, Unseen
<1>4. \A u \in window'[w] \cap Followed : ~Renamed(u)
    BY <1>1, <1>3 DEF KeysInv, TableOK
<1>5. \A u \in Mails, b \in 0..MaxBoots : ~Row(batch[w], u, b)
    BY <1>1, RowKeys DEF KeysInv, SyncOK, Row, NoBatch
<1>6. SyncOK(w)'
    BY <1>1, <1>4, <1>5 DEF SyncOK, Followed, Renamed, Row, DB!NoRow
<1>7. ASSUME NEW o \in Workers, o # w
      PROVE  SyncOK(o)'
    BY <1>1, <1>7, SyncStays DEF KeysInv
<1> QED
    BY <1>2, <1>6, <1>7 DEF KeysInv

(* The mail that is written goes from the window into the transaction,     *)
(* under its present key.                                                  *)
LEMMA NormalizeKeys ==
    ASSUME IInv, KeysInv, NEW w \in Workers, NEW u \in Mails, Normalize(w, u)
    PROVE  KeysInv'
<1>1. /\ pc[w] = "storing" /\ u \in window[w] /\ window'[w] = window[w] \ {u}
      /\ batch'[w] = [batch[w] EXCEPT ![Key(u)] = u]
      /\ UNCHANGED <<messages, restarts, seen, pc>>
      /\ \A o \in Workers : o # w => window'[o] = window[o] /\ batch'[o] = batch[o]
    BY DEF IInv, TypeOK, Normalize, First, mailbox, dbVars
<1>2. TableOK'
    BY <1>1, TableStays DEF KeysInv
<1>3. SyncOK(w)
    BY DEF KeysInv
<1>4. ASSUME NEW v \in Mails, NEW b \in 0..MaxBoots, Row(batch'[w], v, b)
      PROVE  b = boots /\ (v \in Followed => ~Renamed(v))
    <2>1. batch[w] \in [Keys -> Mails \cup {DB!NoRow}]
        BY DEF IInv, TypeOK, DB!Batch
    <2>2. CASE Row(batch[w], v, b)
        BY <1>3, <2>2 DEF SyncOK
    <2>3. CASE ~Row(batch[w], v, b)
        <3>1. <<NoId, v, b>> = Key(u)
            BY <1>1, <1>4, <2>1, <2>3, RowKeys DEF Row
        <3>2. v = u /\ b = boots
            BY <3>1 DEF Key
        <3> QED
            BY <1>1, <1>3, <3>2 DEF SyncOK
    <2> QED
        BY <2>2, <2>3
<1>5. SyncOK(w)'
    <2>1. \A v \in Mails : Renamed(v)' = Renamed(v)
        BY <1>1 DEF Renamed, Row, DB!NoRow
    <2>2. \A v \in window'[w] \cap Followed' : ~Renamed(v)'
        BY <1>1, <1>3 DEF SyncOK, Followed, Renamed, Row, DB!NoRow
    <2> QED
        BY <1>1, <1>4, <2>1, <2>2 DEF SyncOK, Followed, Row, DB!NoRow
<1>6. ASSUME NEW o \in Workers, o # w
      PROVE  SyncOK(o)'
    BY <1>1, <1>6, SyncStays DEF KeysInv
<1> QED
    BY <1>2, <1>5, <1>6 DEF KeysInv

(* A commit adds rows under present keys, of mails that had no other row   *)
(* unless they were not flagged; the task hears of it or not.              *)
LEMMA CommitKeys ==
    ASSUME IInv, KeysInv, NEW w \in Workers, Commit(w) \/ CommitUnheard(w)
    PROVE  KeysInv'
<1>1. /\ pc[w] = "storing" /\ pc'[w] # "storing" /\ batch'[w] = NoBatch
      /\ UNCHANGED <<restarts, seen>>
      /\ window'[w] = {}
      /\ \A o \in Workers : o # w => /\ pc'[o] = pc[o] /\ batch'[o] = batch[o]
                                     /\ window'[o] = window[o]
      /\ messages' = [k \in Keys |-> IF batch[w][k] = DB!NoRow THEN messages[k]
                                                               ELSE batch[w][k]]
    BY DEF IInv, TypeOK, Commit, CommitUnheard, Reset, mailbox, DB!Sync, DB!Overlay
<1>2. SyncOK(w) /\ TableOK /\ boots \in 0..MaxBoots
    BY DEF KeysInv, IInv, TypeOK
<1>3. \A u \in Mails, b \in 0..MaxBoots :
        Row(messages', u, b) <=> Row(messages, u, b) \/ Row(batch[w], u, b)
    BY <1>1, RowKeys DEF Row
<1>4. \A u \in Mails, b \in 0..MaxBoots : Row(batch[w], u, b) => b = boots
    BY <1>2 DEF SyncOK
<1>5. \A u \in Mails : Renamed(u)' <=> Renamed(u)
    <2> TAKE u \in Mails
    <2>1. \A b \in 0..MaxBoots : b # boots =>
            (Row(messages', u, b) <=> Row(messages, u, b))
        BY <1>3, <1>4
    <2> QED
        BY <1>1, <2>1 DEF Renamed, Row, DB!NoRow
<1>6. TableOK'
    <2> SUFFICES ASSUME NEW u \in Followed
                 PROVE  /\ Renamed(u)' => u \in seen
                        /\ \A b, c \in 0..MaxBoots :
                            Row(messages', u, b) /\ Row(messages', u, c) => b = c
        BY <1>1 DEF TableOK, Followed, Row, DB!NoRow
    <2>0. u \in Mails
        BY DEF Followed
    <2>1. Renamed(u)' => u \in seen
        BY <1>2, <1>5, <2>0 DEF TableOK
    <2>2. CASE Row(batch[w], u, boots)
        <3>1. ~Renamed(u)
            BY <1>2, <2>0, <2>2 DEF SyncOK
        <3>2. \A b \in 0..MaxBoots : Row(messages', u, b) => b = boots
            BY <1>3, <1>4, <2>0, <3>1 DEF Renamed
        <3> QED
            BY <2>1, <3>2
    <2>3. CASE ~Row(batch[w], u, boots)
        <3>1. \A b \in 0..MaxBoots : Row(messages', u, b) <=> Row(messages, u, b)
            BY <1>3, <1>4, <2>0, <2>3
        <3> QED
            BY <1>2, <2>1, <3>1 DEF TableOK
    <2> QED
        BY <2>2, <2>3
<1>7. SyncOK(w)'
    BY <1>1, RowKeys DEF SyncOK, Followed, Row, NoBatch, DB!NoRow
<1>8. ASSUME NEW o \in Workers, o # w
      PROVE  SyncOK(o)'
    <2>1. SyncOK(o) /\ window[o] \subseteq Mails
        BY DEF KeysInv, IInv, TypeOK
    <2>2. /\ \A u \in window[o] \cap Followed : ~Renamed(u)'
          /\ \A u \in Mails, b \in 0..MaxBoots :
                Row(batch[o], u, b) /\ u \in Followed => ~Renamed(u)'
        BY <1>5, <2>1 DEF SyncOK
    <2> QED
        BY <1>1, <1>8, <2>1, <2>2 DEF SyncOK, Followed, Row, DB!NoRow, NoBatch
<1> QED
    BY <1>6, <1>7, <1>8 DEF KeysInv

(* After the commit there is nothing in the window or the transaction.     *)
LEMMA MarkKeys ==
    ASSUME IInv, KeysInv, NEW w \in Workers,
           Finish(w) \/ \E u \in Mails : MarkSeen(w, u) \/ MarkRefused(w, u)
    PROVE  KeysInv'
<1>1. /\ pc[w] # "storing" /\ pc'[w] # "storing"
      /\ seen \subseteq seen'
      /\ UNCHANGED <<messages, restarts, window, batch>>
      /\ \A o \in Workers : o # w => pc'[o] = pc[o]
    BY DEF IInv, TypeOK, MarkSeen, MarkRefused, Finish, mailbox, dbVars, Flagged
<1>2. TableOK'
    BY <1>1, TableStays DEF KeysInv
<1>3. window[w] = {} /\ batch[w] = NoBatch
    BY <1>1 DEF KeysInv, SyncOK
<1>4. SyncOK(w)'
    BY <1>1, <1>3, RowKeys DEF SyncOK, Followed, Row, NoBatch, DB!NoRow
<1>5. ASSUME NEW o \in Workers, o # w
      PROVE  SyncOK(o)'
    BY <1>1, <1>5, SyncStays DEF KeysInv
<1> QED
    BY <1>2, <1>4, <1>5 DEF KeysInv

(* A restart waits for all syncs: what is stored is flagged by then, or    *)
(* remembered as not flagged.                                              *)
LEMMA RestartKeys ==
    ASSUME IInv, KeysInv, Restart
    PROVE  KeysInv'
<1>1. /\ \A w \in Workers : pc[w] = "idle"
      /\ UNCHANGED <<messages, seen, pc, window, batch>>
      /\ boots' \in 0..MaxBoots /\ boots \in 0..MaxBoots
      /\ unflagged \subseteq unflagged'
    BY DEF Restart, mailbox, syncVars, dbVars, IInv, TypeOK
<1>2. ASSUME NEW u \in Followed', NEW b \in 0..MaxBoots, Row(messages, u, b)
      PROVE  u \in seen
    <2>1. u \in Mails \ unflagged' /\ MessageId[u] = NoId
        BY <1>2 DEF Followed
    <2>2. Stored(u)
        BY <1>2, <2>1 DEF Stored, KeysOf, Row
    <2> QED
        BY <2>1, <2>2 DEF Restart
<1>3. TableOK'
    <2> SUFFICES ASSUME NEW u \in Followed'
                 PROVE  /\ Renamed(u)' => u \in seen
                        /\ \A b, c \in 0..MaxBoots :
                            Row(messages, u, b) /\ Row(messages, u, c) => b = c
        BY <1>1 DEF TableOK, Followed, Row, DB!NoRow
    <2>1. Renamed(u)' => u \in seen
        BY <1>1, <1>2 DEF Renamed, Row, DB!NoRow
    <2>2. u \in Followed
        BY <1>1 DEF Followed
    <2> QED
        BY <2>1, <2>2 DEF KeysInv, TableOK
<1>4. ASSUME NEW w \in Workers
      PROVE  SyncOK(w)'
    <2>1. window[w] = {} /\ batch[w] = NoBatch /\ pc[w] = "idle"
        BY <1>1 DEF KeysInv, SyncOK
    <2> QED
        BY <1>1, <2>1, RowKeys DEF SyncOK, Followed, Row, NoBatch, DB!NoRow
<1> QED
    BY <1>3, <1>4 DEF KeysInv

LEMMA InitKeys == Init => KeysInv
<1> SUFFICES ASSUME Init
             PROVE  KeysInv
    OBVIOUS
<1>1. /\ messages = NoBatch
      /\ \A w \in Workers : batch[w] = NoBatch /\ window[w] = {}
    BY DEF Init, NoBatch, DB!Init, DB!NoRow
<1>2. \A u \in Mails, b \in 0..MaxBoots : NoBatch[<<NoId, u, b>>] = DB!NoRow
    BY RowKeys DEF NoBatch
<1>3. TableOK
    BY <1>1, <1>2 DEF TableOK, Followed, Renamed, Row
<1>4. \A w \in Workers : SyncOK(w)
    BY <1>1, <1>2 DEF SyncOK, Row
<1> QED
    BY <1>3, <1>4 DEF KeysInv

LEMMA NextKeys ==
    ASSUME KeysIInv, [Next]_vars
    PROVE  KeysIInv'
<1>0. IInv /\ KeysInv /\ IInv'
    BY NextInv DEF KeysIInv
<1>1. CASE Arrive \/ UNCHANGED vars
    <2>1. UNCHANGED <<messages, restarts, seen, pc, window, batch>>
        BY <1>1 DEF Arrive, vars, mailbox, syncVars, dbVars
    <2>2. TableOK'
        BY <1>0, <2>1, TableStays DEF KeysInv
    <2> QED
        BY <1>0, <2>1, <2>2, SyncStays DEF KeysInv, KeysIInv
<1>2. CASE Restart
    BY <1>0, <1>2, RestartKeys DEF KeysIInv
<1>3. ASSUME NEW w \in Workers, Proceed(w)
      PROVE  KeysInv'
    <2>1. ASSUME NEW refused \in SUBSET Oldest, Fetch(w, refused)
          PROVE  KeysInv'
        BY <1>0, <2>1, FetchKeys
    <2>2. ASSUME NEW u \in Mails, Normalize(w, u)
          PROVE  KeysInv'
        BY <1>0, <2>2, NormalizeKeys
    <2>3. ASSUME NEW u \in Mails, MarkSeen(w, u) \/ MarkRefused(w, u)
          PROVE  KeysInv'
        BY <1>0, <2>3, MarkKeys
    <2>4. CASE Commit(w)
        BY <1>0, <2>4, CommitKeys
    <2>5. CASE Finish(w)
        BY <1>0, <2>5, MarkKeys
    <2> QED
        BY <1>3, <2>1, <2>2, <2>3, <2>4, <2>5 DEF Proceed
<1>4. ASSUME NEW w \in Workers, Failure(w)
      PROVE  KeysInv'
    <2>1. CASE CommitUnheard(w)
        BY <1>0, <2>1, CommitKeys
    <2>2. CASE ~CommitUnheard(w)
        <3>1. Reset(w) /\ UNCHANGED <<messages, restarts, seen>>
            BY <1>4, <2>2 DEF Failure, Fail, FailAfterPut, Refuse, mailbox, dbVars
        <3> QED
            BY <1>0, <3>1, ResetKeys
    <2> QED
        BY <2>1, <2>2
<1> QED
    BY <1>0, <1>1, <1>2, <1>3, <1>4 DEF Next, KeysIInv

-----------------------------------------------------------------------------
(* As long as nothing failed no mail is stored and not flagged when the    *)
(* worker restarts.                                                        *)

BeingFlagged(u) == \E w \in Workers : pc[w] = "marking" /\ u \in pending[w]

(* What is stored under a key that changes is flagged or about to be, and  *)
(* what is about to be stored is noted.                                    *)
FlagsInv ==
    /\ unflagged = {}
    /\ \A u \in Mails, b \in 0..MaxBoots :
        /\ Row(messages, u, b) => u \in seen \/ BeingFlagged(u)
        /\ \A w \in Workers : Row(batch[w], u, b) => pc[w] = "storing" /\ u \in pending[w]

FlagsIInv == IInv /\ (faults = 0 => FlagsInv)

(* A step that writes nothing keeps this if mails that are being flagged   *)
(* stay so or are flagged.                                                 *)
LEMMA FlagsStay ==
    ASSUME FlagsInv, messages' = messages, unflagged' = unflagged, seen \subseteq seen',
           \A u \in Mails : BeingFlagged(u) => u \in seen' \/ BeingFlagged(u)',
           NEW w \in Workers, batch'[w] = batch[w] \/ batch'[w] = NoBatch,
           pc[w] = "storing" => pc'[w] = "storing" /\ pending[w] \subseteq pending'[w],
           \A o \in Workers : o # w => /\ pc'[o] = pc[o] /\ pending'[o] = pending[o]
                                       /\ batch'[o] = batch[o]
    PROVE  FlagsInv'
<1>1. \A u \in Mails, b \in 0..MaxBoots :
        Row(messages, u, b)' => u \in seen' \/ BeingFlagged(u)'
    BY DEF FlagsInv, Row, DB!NoRow
<1>2. ASSUME NEW u \in Mails, NEW b \in 0..MaxBoots, NEW o \in Workers, Row(batch'[o], u, b)
      PROVE  pc'[o] = "storing" /\ u \in pending'[o]
    BY <1>2, RowKeys DEF FlagsInv, Row, NoBatch
<1> QED
    BY <1>1, <1>2 DEF FlagsInv, Row, DB!NoRow

(* Faults are only counted up.                                             *)
LEMMA FaultsGrow ==
    ASSUME TypeOK, [Next]_vars, faults' = 0
    PROVE  /\ faults = 0
           /\ \A w \in Workers :
                /\ ~Fail(w) /\ ~CommitUnheard(w)
                /\ \A u \in Mails : ~FailAfterPut(w, u) /\ ~MarkRefused(w, u)
<1>0. faults \in Nat
    BY DEF TypeOK
<1>1. ASSUME NEW w \in Workers
      PROVE  /\ ~Fail(w) /\ ~CommitUnheard(w)
             /\ \A u \in Mails : ~FailAfterPut(w, u) /\ ~MarkRefused(w, u)
    <2>1. ~(faults' = faults + 1)
        BY <1>0
    <2> QED
        BY <2>1 DEF Fail, FailAfterPut, CommitUnheard, MarkRefused
<1>2. CASE Arrive \/ Restart \/ UNCHANGED vars
    <2>1. faults' = faults
        BY <1>2 DEF Arrive, Restart, vars
    <2> QED
        BY <1>1, <2>1
<1>3. ASSUME NEW w \in Workers, NEW refused \in SUBSET Oldest, Fetch(w, refused)
      PROVE  faults = 0
    <2>1. Oldest \subseteq Mails
        BY DEF TypeOK, Oldest, Unseen
    <2>2. refused \subseteq Mails /\ IsFiniteSet(Mails)
        BY <2>1, FS_Interval
    <2>3. Cardinality(refused) \in Nat
        BY <2>2, FS_Subset, FS_CardinalityType
    <2>4. faults' = faults + Cardinality(refused)
        BY <1>3 DEF Fetch
    <2> QED
        BY <1>0, <2>3, <2>4
<1>4. ASSUME NEW w \in Workers, NEW u \in Mails,
             Normalize(w, u) \/ MarkSeen(w, u) \/ Refuse(w, u)
      PROVE  faults = 0
    BY <1>4 DEF Normalize, MarkSeen, Refuse
<1>5. ASSUME NEW w \in Workers, Commit(w) \/ Finish(w)
      PROVE  faults = 0
    BY <1>5 DEF Commit, Finish
<1>6. ASSUME NEW w \in Workers, Failure(w)
      PROVE  \E u \in Mails : Refuse(w, u)
    BY <1>1, <1>6 DEF Failure
<1> QED
    BY <1>1, <1>2, <1>3, <1>4, <1>5, <1>6 DEF Next, Proceed

LEMMA NormalizeFlags ==
    ASSUME IInv, FlagsInv, NEW w \in Workers, NEW u \in Mails, Normalize(w, u)
    PROVE  FlagsInv'
<1>1. /\ pc[w] = "storing" /\ pending'[w] = pending[w] \cup {u}
      /\ batch'[w] = [batch[w] EXCEPT ![Key(u)] = u]
      /\ UNCHANGED <<messages, restarts, seen, pc>>
      /\ \A o \in Workers : o # w => pending'[o] = pending[o] /\ batch'[o] = batch[o]
    BY DEF IInv, TypeOK, Normalize, mailbox, dbVars, ToFlag
<1>2. ASSUME NEW v \in Mails, NEW b \in 0..MaxBoots, Row(batch'[w], v, b)
      PROVE  v \in pending'[w]
    <2>1. batch[w] \in [Keys -> Mails \cup {DB!NoRow}]
        BY DEF IInv, TypeOK, DB!Batch
    <2>2. CASE Row(batch[w], v, b)
        BY <1>1, <2>2 DEF FlagsInv
    <2>3. CASE ~Row(batch[w], v, b)
        <3>1. <<NoId, v, b>> = Key(u)
            BY <1>1, <1>2, <2>1, <2>3, RowKeys DEF Row
        <3>2. v = u
            BY <3>1 DEF Key
        <3> QED
            BY <1>1, <3>2
    <2> QED
        BY <2>2, <2>3
<1>3. \A v \in Mails : BeingFlagged(v) => BeingFlagged(v)'
    BY <1>1 DEF BeingFlagged
<1>4. \A v \in Mails, b \in 0..MaxBoots :
        Row(messages, v, b)' => v \in seen' \/ BeingFlagged(v)'
    BY <1>1, <1>3 DEF FlagsInv, Row, DB!NoRow
<1>5. ASSUME NEW v \in Mails, NEW b \in 0..MaxBoots, NEW o \in Workers, Row(batch'[o], v, b)
      PROVE  pc'[o] = "storing" /\ v \in pending'[o]
    BY <1>1, <1>2, <1>5 DEF FlagsInv
<1> QED
    BY <1>1, <1>4, <1>5 DEF FlagsInv, Row, DB!NoRow

LEMMA CommitFlags ==
    ASSUME IInv, FlagsInv, NEW w \in Workers, Commit(w)
    PROVE  FlagsInv'
<1>1. /\ pc[w] = "storing" /\ pc'[w] = "marking" /\ batch'[w] = NoBatch
      /\ UNCHANGED <<restarts, seen, pending>>
      /\ \A o \in Workers : o # w => pc'[o] = pc[o] /\ batch'[o] = batch[o]
      /\ messages' = [k \in Keys |-> IF batch[w][k] = DB!NoRow THEN messages[k]
                                                               ELSE batch[w][k]]
    BY DEF IInv, TypeOK, Commit, mailbox, DB!Sync, DB!Overlay
<1>2. \A u \in Mails : BeingFlagged(u) => BeingFlagged(u)'
    BY <1>1 DEF BeingFlagged
<1>3. ASSUME NEW u \in Mails, NEW b \in 0..MaxBoots, Row(messages', u, b)
      PROVE  u \in seen' \/ BeingFlagged(u)'
    <2>1. CASE Row(messages, u, b)
        BY <1>1, <1>2, <2>1 DEF FlagsInv
    <2>2. CASE ~Row(messages, u, b)
        <3>1. Row(batch[w], u, b)
            BY <1>1, <1>3, <2>2, RowKeys DEF Row
        <3> QED
            BY <1>1, <3>1 DEF FlagsInv, BeingFlagged
    <2> QED
        BY <2>1, <2>2
<1>4. ASSUME NEW u \in Mails, NEW b \in 0..MaxBoots, NEW o \in Workers, Row(batch'[o], u, b)
      PROVE  pc'[o] = "storing" /\ u \in pending'[o]
    BY <1>1, <1>4, RowKeys DEF FlagsInv, Row, NoBatch
<1> QED
    BY <1>1, <1>3, <1>4 DEF FlagsInv, Row, DB!NoRow

LEMMA ProceedFlags ==
    ASSUME IInv, FlagsInv, NEW w \in Workers, Proceed(w), \A u \in Mails : ~MarkRefused(w, u)
    PROVE  FlagsInv'
<1>1. ASSUME NEW refused \in SUBSET Oldest, Fetch(w, refused)
      PROVE  FlagsInv'
    <2>1. /\ pc[w] = "idle" /\ UNCHANGED <<messages, restarts, seen, pending, batch>>
          /\ \A o \in Workers : o # w => pc'[o] = pc[o]
        BY <1>1 DEF IInv, TypeOK, Fetch, dbVars, Peeked
    <2>2. \A u \in Mails : BeingFlagged(u) => BeingFlagged(u)'
        BY <2>1 DEF BeingFlagged
    <2> QED
        BY <2>1, <2>2, FlagsStay
<1>2. ASSUME NEW u \in Mails, MarkSeen(w, u)
      PROVE  FlagsInv'
    <2>1. /\ pc[w] = "marking" /\ pending'[w] = pending[w] \ {u}
          /\ seen' = seen \cup {u}
          /\ UNCHANGED <<messages, restarts, pc, batch>>
          /\ \A o \in Workers : o # w => pending'[o] = pending[o]
        BY <1>2 DEF IInv, TypeOK, MarkSeen, dbVars, Flagged
    <2>2. ASSUME NEW v \in Mails, BeingFlagged(v)
          PROVE  v \in seen' \/ BeingFlagged(v)'
        <3>1. PICK o \in Workers : pc[o] = "marking" /\ v \in pending[o]
            BY <2>2 DEF BeingFlagged
        <3>2. v = u \/ v \in pending'[o]
            BY <2>1, <3>1
        <3> QED
            BY <2>1, <3>1, <3>2 DEF BeingFlagged
    <2> QED
        BY <2>1, <2>2, FlagsStay
<1>3. CASE Finish(w)
    <2>1. /\ pc[w] = "marking" /\ pending[w] = {}
          /\ UNCHANGED <<messages, restarts, seen, pending, batch>>
          /\ \A o \in Workers : o # w => pc'[o] = pc[o]
        BY <1>3 DEF IInv, TypeOK, Finish, mailbox, dbVars
    <2>2. \A u \in Mails : BeingFlagged(u) => BeingFlagged(u)'
        BY <2>1 DEF BeingFlagged
    <2> QED
        BY <2>1, <2>2, FlagsStay
<1> QED
    BY <1>1, <1>2, <1>3, NormalizeFlags, CommitFlags DEF Proceed

LEMMA NextFlags ==
    ASSUME FlagsIInv, [Next]_vars
    PROVE  FlagsIInv'
<1>0. IInv /\ TypeOK /\ IInv'
    BY NextInv DEF FlagsIInv, IInv
<1> SUFFICES ASSUME faults' = 0
             PROVE  FlagsInv'
    BY <1>0 DEF FlagsIInv
<1>1. FlagsInv
    BY <1>0, FaultsGrow DEF FlagsIInv
<1>2. CASE Arrive \/ UNCHANGED vars
    <2>1. UNCHANGED <<messages, restarts, seen, pc, pending, batch>>
        BY <1>2 DEF Arrive, vars, mailbox, syncVars, dbVars
    <2> QED
        BY <1>1, <2>1 DEF FlagsInv, BeingFlagged, Row, DB!NoRow
<1>3. CASE Restart
    <2>1. /\ UNCHANGED <<messages, seen, pc, pending, batch>>
          /\ \A w \in Workers : pc[w] = "idle"
        BY <1>3 DEF Restart, mailbox, syncVars, dbVars
    <2>2. ASSUME NEW u \in Mails \ seen, MessageId[u] = NoId, Stored(u)
          PROVE  FALSE
        <3>1. PICK b \in 0..MaxBoots : Row(messages, u, b)
            BY <2>2 DEF Stored, KeysOf, Row
        <3> QED
            BY <1>1, <2>1, <2>2, <3>1 DEF FlagsInv, BeingFlagged
    <2>3. unflagged' = {}
        BY <1>1, <1>3, <2>2 DEF FlagsInv, Restart
    <2> QED
        BY <1>1, <2>1, <2>3 DEF FlagsInv, BeingFlagged, Row, DB!NoRow
<1>4. ASSUME NEW w \in Workers, Proceed(w)
      PROVE  FlagsInv'
    BY <1>0, <1>1, <1>4, FaultsGrow, ProceedFlags
<1>5. ASSUME NEW w \in Workers, Failure(w)
      PROVE  FlagsInv'
    <2>1. PICK u \in Mails : Refuse(w, u)
        BY <1>0, <1>5, FaultsGrow DEF Failure
    <2>2. /\ pc[w] = "storing" /\ batch'[w] = NoBatch
          /\ UNCHANGED <<messages, restarts, seen>>
          /\ \A o \in Workers : o # w => /\ pc'[o] = pc[o] /\ pending'[o] = pending[o]
                                         /\ batch'[o] = batch[o]
        BY <1>0, <2>1 DEF TypeOK, Refuse, Reset, mailbox, dbVars
    <2>3. \A v \in Mails : BeingFlagged(v) => BeingFlagged(v)'
        BY <2>2 DEF BeingFlagged
    <2>4. ASSUME NEW v \in Mails, NEW b \in 0..MaxBoots, NEW o \in Workers,
                 Row(batch'[o], v, b)
          PROVE  pc'[o] = "storing" /\ v \in pending'[o]
        BY <1>1, <2>2, <2>4, RowKeys DEF FlagsInv, Row, NoBatch
    <2> QED
        BY <1>1, <2>2, <2>3, <2>4 DEF FlagsInv, Row, DB!NoRow
<1> QED
    BY <1>2, <1>3, <1>4, <1>5 DEF Next

LEMMA InitFlags == Init => FlagsInv
<1> SUFFICES ASSUME Init
             PROVE  FlagsInv
    OBVIOUS
<1>1. unflagged = {} /\ messages = NoBatch /\ \A w \in Workers : batch[w] = NoBatch
    BY DEF Init, NoBatch, DB!Init, DB!NoRow
<1>2. \A u \in Mails, b \in 0..MaxBoots : NoBatch[<<NoId, u, b>>] = DB!NoRow
    BY RowKeys DEF NoBatch
<1> QED
    BY <1>1, <1>2 DEF FlagsInv, Row

(* No two rows, no two keys.                                               *)
LEMMA AtMostOne ==
    ASSUME NEW S, \A x, y \in S : x = y
    PROVE  Cardinality(S) <= 1
<1>1. CASE S = {}
    BY <1>1, FS_EmptySet
<1>2. ASSUME NEW x \in S
      PROVE  Cardinality(S) <= 1
    <2>1. S = {x}
        BY <1>2
    <2>2. Cardinality({x}) = 1
        BY FS_Singleton
    <2> QED
        BY <2>1, <2>2
<1> QED
    BY <1>1, <1>2

(* A mail has one row at the most unless a restart found it stored and not *)
(* flagged, and it finds none as long as no call fails: for any mails,     *)
(* overlapping syncs, failures and restarts, and rows that Postgres        *)
(* refuses.                                                                *)
THEOREM RowsAreUnique == Spec => []OneRowPerMail
<1>1. Init => KeysIInv /\ FlagsIInv
    BY InitInv, InitKeys, InitFlags DEF KeysIInv, FlagsIInv
<1>2. KeysIInv /\ [Next]_vars => KeysIInv'
    BY NextKeys
<1>3. FlagsIInv /\ [Next]_vars => FlagsIInv'
    BY NextFlags
<1>4. KeysIInv /\ FlagsIInv => OneRowPerMail
    <2> SUFFICES ASSUME KeysIInv, FlagsIInv, NEW u \in Mails \ unflagged
                 PROVE  Cardinality(RowsOf(u)) <= 1
        BY DEF OneRowPerMail, FlagsIInv, FlagsInv
    <2>1. CASE MessageId[u] = NoId
        <3>1. u \in Followed
            BY <2>1 DEF Followed
        <3>2. \A b, c \in 0..MaxBoots : Row(messages, u, b) /\ Row(messages, u, c) => b = c
            BY <3>1 DEF KeysIInv, KeysInv, TableOK
        <3>3. \A x, y \in RowsOf(u) : x = y
            BY <2>1, <3>2 DEF RowsOf, KeysOf, Row
        <3> QED
            BY <3>3, AtMostOne
    <2>2. CASE MessageId[u] # NoId
        <3>1. \A x, y \in RowsOf(u) : x = y
            BY <2>2 DEF RowsOf, KeysOf
        <3> QED
            BY <3>1, AtMostOne
    <2> QED
        BY <2>1, <2>2
<1> QED
    BY <1>1, <1>2, <1>3, <1>4, PTL DEF Spec

(* The syncs of the pipeline are transactions of the ingest service: each  *)
(* writes all the mails of its window, or none.                            *)
THEOREM ImplementsIngest == Spec => DB!Spec
<1>1. Init => DB!Init
    BY DEF Init
<1>2. TypeOK /\ [Next]_vars => [DB!Next]_(DB!vars)
    <2> SUFFICES ASSUME TypeOK, [Next]_vars
                 PROVE  DB!Next \/ UNCHANGED <<messages, reported>>
        BY DEF DB!vars
    <2>1. ASSUME NEW w \in Workers, DB!Sync(batch[w])
          PROVE  DB!Next
        <3>1. batch[w] \in DB!Batch
            BY DEF TypeOK
        <3> QED
            BY <2>1, <3>1 DEF DB!Next
    <2>2. ASSUME NEW w \in Workers, Proceed(w)
          PROVE  DB!Sync(batch[w]) \/ UNCHANGED <<messages, reported>>
        BY <2>2 DEF Proceed, Fetch, Normalize, MarkSeen, MarkRefused, Commit, Finish, dbVars
    <2>3. ASSUME NEW w \in Workers, Failure(w)
          PROVE  DB!Sync(batch[w]) \/ UNCHANGED <<messages, reported>>
        BY <2>3 DEF Failure, Fail, FailAfterPut, Refuse, CommitUnheard, dbVars
    <2>4. CASE Arrive \/ Restart \/ UNCHANGED vars
        BY <2>4 DEF Arrive, Restart, vars, dbVars
    <2> QED
        BY <2>1, <2>2, <2>3, <2>4 DEF Next
<1> QED
    BY <1>1, <1>2, TypeCorrect, PTL DEF Spec, DB!Spec
=============================================================================
