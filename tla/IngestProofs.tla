---------------------------- MODULE IngestProofs ----------------------------
(***************************************************************************)
(* Proofs about Ingest, for any sets of sessions, keys and versions.       *)
(***************************************************************************)
EXTENDS Ingest, FiniteSetTheorems, TLAPS

USE IngestAssumption DEF IngestAssumption, NoRow

-----------------------------------------------------------------------------
(* What each kind of step does to the rows a transaction will create.      *)

(* The sets the counts are taken of are finite.                            *)
LEMMA RowSetsFinite ==
    ASSUME NEW t \in Txns
    PROVE  IsFiniteSet(NewRows(t))
<1>1. NewRows(t) \in SUBSET Keys
    BY DEF NewRows
<1> QED
    BY <1>1, FS_Subset

(* The columns of a message in hand.                                       *)
LEMMA DrawnMessage ==
    ASSUME TypeOK, NEW t \in Txns, drawn[t] # Nothing
    PROVE  drawn[t].key \in Keys /\ drawn[t].version \in Versions
BY DEF TypeOK, Message

(* Upsert takes its row from the other transactions only when none has it, *)
(* so no row gets a second writer.                                         *)
LEMMA UpsertExclusive ==
    ASSUME IInv, NEW t \in Txns, Upsert(t)
    PROVE  ExclusiveWriters'
<1> DEFINE k == drawn[t].key
<1>1. k \in Keys
    BY DrawnMessage DEF IInv, Upsert, Written, OneMore
<1>2. \A o \in Txns : o # t => ~Holds(o, k)
    BY DEF Upsert, Blocks, Written, OneMore
<1>3. writes \in [Txns -> [Keys -> Versions \cup {NoRow}]]
    BY DEF IInv, TypeOK
<1>4. \A o \in Txns, j \in Keys :
        Holds(o, j)' => Holds(o, j) \/ (o = t /\ j = k)
    BY <1>1, <1>3 DEF Upsert, Holds, Written, OneMore
<1> QED
    BY <1>1, <1>2, <1>4 DEF IInv, ExclusiveWriters

(* Upsert counts a row as inserted exactly when it adds one to the rows    *)
(* its transaction will create.                                            *)
LEMMA UpsertHonest ==
    ASSUME IInv, NEW t \in Txns, Upsert(t)
    PROVE  HonestCounts'
<1> DEFINE k == drawn[t].key
<1>1. /\ k \in Keys
      /\ drawn[t].version \in Versions
      /\ drawn[t].version # NoRow
    BY DrawnMessage DEF IInv, Upsert, Written, OneMore
<1>2. /\ writes \in [Txns -> [Keys -> Versions \cup {NoRow}]]
      /\ inserted \in [Txns -> Nat]
      /\ updated \in [Txns -> Nat]
    BY DEF IInv, TypeOK
<1>3. /\ writes' = [writes EXCEPT ![t][k] = drawn[t].version]
      /\ messages' = messages
    BY DEF Upsert, Written, OneMore
<1> SUFFICES ASSUME NEW o \in Txns
             PROVE  inserted'[o] = Cardinality(NewRows(o)')
    BY DEF HonestCounts
<1>4. inserted[o] = Cardinality(NewRows(o))
    BY DEF IInv, HonestCounts
<1>5. CASE o # t
    <2>1. NewRows(o)' = NewRows(o)
        BY <1>2, <1>3, <1>5 DEF NewRows, Holds
    <2>2. inserted'[o] = inserted[o]
        BY <1>2, <1>5 DEF Upsert, Written, OneMore
    <2> QED
        BY <1>4, <2>1, <2>2
<1>6. CASE o = t /\ Visible(t, k) = NoRow
    <2>1. NewRows(t)' = NewRows(t) \cup {k}
        BY <1>1, <1>2, <1>3, <1>6 DEF NewRows, Holds, Visible
    <2>2. k \notin NewRows(t)
        BY <1>6 DEF NewRows, Holds, Visible
    <2>3. inserted'[t] = inserted[t] + 1
        BY <1>2, <1>6 DEF Upsert, Written, OneMore
    <2>4. Cardinality(NewRows(t) \cup {k}) = Cardinality(NewRows(t)) + 1
        BY <2>2, RowSetsFinite, FS_AddElement
    <2> QED
        BY <1>4, <1>6, <2>1, <2>3, <2>4
<1>7. CASE o = t /\ Visible(t, k) # NoRow
    <2>1. Holds(t, k) \/ messages[k] # NoRow
        BY <1>7 DEF Visible
    <2>2. NewRows(t)' = NewRows(t)
        BY <1>1, <1>2, <1>3, <2>1 DEF NewRows, Holds
    <2>3. inserted'[t] = inserted[t]
        BY <1>2, <1>7 DEF Upsert, Written, OneMore
    <2> QED
        BY <1>4, <1>7, <2>2, <2>3
<1> QED
    BY <1>5, <1>6, <1>7

(* A commit turns its new rows into rows of the table and leaves the new   *)
(* rows of the other transactions alone: they write other keys.            *)
LEMMA CommitHonest ==
    ASSUME IInv, NEW t \in Txns, Commit(t)
    PROVE  HonestCounts' /\ ReportedMatchesRows'
<1> DEFINE Rows == {k \in Keys : messages[k] # NoRow}
<1>1. /\ messages \in [Keys -> Versions \cup {NoRow}]
      /\ writes \in [Txns -> [Keys -> Versions \cup {NoRow}]]
      /\ inserted \in [Txns -> Nat]
    BY DEF IInv, TypeOK
<1>2. /\ messages' = [k \in Keys |-> IF Holds(t, k) THEN writes[t][k]
                                                   ELSE messages[k]]
      /\ reported' = reported + inserted[t]
      /\ writes' = [writes EXCEPT ![t] = NoWrites]
      /\ inserted' = [inserted EXCEPT ![t] = 0]
    BY DEF Commit, Close, Merged, Released
<1>3. HonestCounts'
    <2> SUFFICES ASSUME NEW o \in Txns
                 PROVE  inserted'[o] = Cardinality(NewRows(o)')
        BY DEF HonestCounts
    <2>1. CASE o = t
        <3>1. NewRows(t)' = {}
            BY <1>1, <1>2 DEF NewRows, Holds, NoWrites
        <3> QED
            BY <1>1, <1>2, <2>1, <3>1, FS_EmptySet
    <2>2. CASE o # t
        <3>1. \A k \in Keys : Holds(o, k) => ~Holds(t, k)
            BY <2>2 DEF IInv, ExclusiveWriters
        <3>2. NewRows(o)' = NewRows(o)
            BY <1>1, <1>2, <2>2, <3>1 DEF NewRows, Holds
        <3> QED
            BY <1>1, <1>2, <2>2, <3>2 DEF IInv, HonestCounts
    <2> QED
        BY <2>1, <2>2
<1>4. ReportedMatchesRows'
    <2>1. {k \in Keys : messages'[k] # NoRow} = Rows \cup NewRows(t)
        BY <1>1, <1>2 DEF NewRows, Holds
    <2>2. Rows \cap NewRows(t) = {}
        BY DEF NewRows
    <2>3. IsFiniteSet(Rows) /\ IsFiniteSet(NewRows(t))
        BY RowSetsFinite, FS_Subset
    <2>4. Cardinality(Rows \cup NewRows(t))
            = Cardinality(Rows) + Cardinality(NewRows(t))
        <3>1. /\ Cardinality(Rows) \in Nat
              /\ Cardinality(NewRows(t)) \in Nat
            BY <2>3, FS_CardinalityType
        <3>2. Cardinality(Rows \cup NewRows(t))
                = Cardinality(Rows) + Cardinality(NewRows(t))
                    - Cardinality(Rows \cap NewRows(t))
            BY <2>3, FS_Union
        <3>3. Cardinality(Rows \cap NewRows(t)) = 0
            BY <2>2, FS_EmptySet
        <3> HIDE DEF Rows
        <3> QED
            BY <3>1, <3>2, <3>3
    <2> QED
        BY <1>2, <2>1, <2>4 DEF IInv, HonestCounts, ReportedMatchesRows
<1> QED
    BY <1>3, <1>4

(* A rollback takes back the rows its transaction would have created.      *)
LEMMA RollbackHonest ==
    ASSUME IInv, NEW t \in Txns, Rollback(t)
    PROVE  HonestCounts'
<1>1. /\ writes \in [Txns -> [Keys -> Versions \cup {NoRow}]]
      /\ inserted \in [Txns -> Nat]
    BY DEF IInv, TypeOK
<1>2. /\ messages' = messages
      /\ writes' = [writes EXCEPT ![t] = NoWrites]
      /\ inserted' = [inserted EXCEPT ![t] = 0]
    BY DEF Rollback, Close, Undone, Released
<1> SUFFICES ASSUME NEW o \in Txns
             PROVE  inserted'[o] = Cardinality(NewRows(o)')
    BY DEF HonestCounts
<1>3. CASE o = t
    <2>1. NewRows(t)' = {}
        BY <1>1, <1>2 DEF NewRows, Holds, NoWrites
    <2> QED
        BY <1>1, <1>2, <1>3, <2>1, FS_EmptySet
<1>4. CASE o # t
    <2>1. NewRows(o)' = NewRows(o)
        BY <1>1, <1>2, <1>4 DEF NewRows, Holds
    <2> QED
        BY <1>1, <1>2, <1>4, <2>1 DEF IInv, HonestCounts
<1> QED
    BY <1>3, <1>4

-----------------------------------------------------------------------------
(* The invariant.                                                          *)

(* Types are kept by every step, whatever else holds.                      *)
LEMMA TypeStep ==
    ASSUME TypeOK, [Next]_vars
    PROVE  TypeOK'
<1>1. CASE UNCHANGED vars
    BY <1>1 DEF TypeOK, vars
<1>2. ASSUME NEW t \in Txns, Begin(t)
      PROVE  TypeOK'
    BY <1>2 DEF TypeOK, Begin
<1>3. ASSUME NEW t \in Txns, NEW msg \in Message, Draw(t, msg)
      PROVE  TypeOK'
    BY <1>3 DEF TypeOK, Draw
<1>4. ASSUME NEW t \in Txns, Upsert(t)
      PROVE  TypeOK'
    <2>1. drawn[t].key \in Keys /\ drawn[t].version \in Versions
        BY <1>4, DrawnMessage DEF Upsert, Written, OneMore
    <2>2. writes' \in [Txns -> [Keys -> Versions \cup {NoRow}]]
        BY <1>4, <2>1 DEF TypeOK, Upsert, Written, OneMore
    <2>3. inserted' \in [Txns -> Nat] /\ updated' \in [Txns -> Nat]
        <3>1. CASE Visible(t, drawn[t].key) = NoRow
            BY <1>4, <3>1 DEF TypeOK, Upsert, Written, OneMore
        <3>2. CASE Visible(t, drawn[t].key) # NoRow
            BY <1>4, <3>2 DEF TypeOK, Upsert, Written, OneMore
        <3> QED
            BY <3>1, <3>2
    <2> QED
        BY <1>4, <2>2, <2>3 DEF TypeOK, Upsert, Written, OneMore
<1>5. ASSUME NEW t \in Txns, Close(t)
      PROVE  /\ session' \in [Txns -> {"closed", "open"}]
             /\ drawn' \in [Txns -> Message \cup {Nothing}]
             /\ writes' \in [Txns -> [Keys -> Versions \cup {NoRow}]]
             /\ inserted' \in [Txns -> Nat]
             /\ updated' \in [Txns -> Nat]
    BY <1>5 DEF TypeOK, Close, NoWrites, Released
<1>6. ASSUME NEW t \in Txns, Commit(t)
      PROVE  TypeOK'
    <2>1. messages' \in [Keys -> Versions \cup {NoRow}]
        BY <1>6 DEF TypeOK, Commit, Merged
    <2>2. reported' \in Nat
        BY <1>6 DEF TypeOK, Commit, Merged
    <2> QED
        BY <1>5, <1>6, <2>1, <2>2 DEF TypeOK, Commit, Merged
<1>7. ASSUME NEW t \in Txns, Rollback(t)
      PROVE  TypeOK'
    BY <1>5, <1>7 DEF TypeOK, Rollback, Undone
<1> QED
    BY <1>1, <1>2, <1>3, <1>4, <1>6, <1>7 DEF Next, Step, DeadlockVictim

LEMMA InitIInv == Init => IInv
<1> SUFFICES ASSUME Init
             PROVE  IInv
    OBVIOUS
<1>1. TypeOK
    BY DEF Init, TypeOK, NoWrites
<1>2. ExclusiveWriters
    BY DEF Init, ExclusiveWriters, Holds, NoWrites
<1>3. \A t \in Txns : NewRows(t) = {}
    BY DEF Init, NewRows, Holds, NoWrites
<1>4. HonestCounts
    BY <1>3, FS_EmptySet DEF Init, HonestCounts
<1>5. {k \in Keys : messages[k] # NoRow} = {}
    BY DEF Init, NoWrites
<1>6. ReportedMatchesRows
    BY <1>5, FS_EmptySet DEF Init, ReportedMatchesRows
<1> QED
    BY <1>1, <1>2, <1>4, <1>6 DEF IInv

LEMMA NextIInv == IInv /\ [Next]_vars => IInv'
<1> SUFFICES ASSUME IInv, [Next]_vars
             PROVE  IInv'
    OBVIOUS
<1>1. TypeOK'
    BY TypeStep DEF IInv
<1>2. ASSUME UNCHANGED <<messages, writes, inserted, reported>>
      PROVE  IInv'
    BY <1>1, <1>2 DEF IInv, ExclusiveWriters, HonestCounts,
                      ReportedMatchesRows, NewRows, Holds
<1>3. CASE UNCHANGED vars
    BY <1>2, <1>3 DEF vars
<1>4. ASSUME NEW t \in Txns, Begin(t)
      PROVE  IInv'
    BY <1>2, <1>4 DEF Begin
<1>5. ASSUME NEW t \in Txns, NEW msg \in Message, Draw(t, msg)
      PROVE  IInv'
    BY <1>2, <1>5 DEF Draw
<1>6. ASSUME NEW t \in Txns, Upsert(t)
      PROVE  IInv'
    <2>1. ReportedMatchesRows'
        BY <1>6 DEF IInv, ReportedMatchesRows, Upsert, Written, OneMore
    <2> QED
        BY <1>1, <1>6, <2>1, UpsertExclusive, UpsertHonest DEF IInv
<1>7. ASSUME NEW t \in Txns, Close(t)
      PROVE  ExclusiveWriters'
    <2>1. \A o \in Txns, k \in Keys : Holds(o, k)' => Holds(o, k)
        BY <1>7 DEF IInv, TypeOK, Close, Holds, NoWrites, Released
    <2> QED
        BY <2>1 DEF IInv, ExclusiveWriters
<1>8. ASSUME NEW t \in Txns, Commit(t)
      PROVE  IInv'
    BY <1>1, <1>7, <1>8, CommitHonest DEF IInv, Commit, Merged
<1>9. ASSUME NEW t \in Txns, Rollback(t)
      PROVE  IInv'
    <2>1. ReportedMatchesRows'
        BY <1>9 DEF IInv, ReportedMatchesRows, Rollback, Undone
    <2> QED
        BY <1>1, <1>7, <1>9, <2>1, RollbackHonest DEF IInv, Rollback, Undone
<1> QED
    BY <1>3, <1>4, <1>5, <1>6, <1>8, <1>9 DEF Next, Step, DeadlockVictim

(* IInv holds in every reachable state.                                    *)
THEOREM Invariance == Spec => []IInv
<1>1. Init => IInv
    BY InitIInv
<1>2. IInv /\ [Next]_vars => IInv'
    BY NextIInv
<1> QED
    BY <1>1, <1>2, PTL DEF Spec

(* Every variable keeps its type.                                          *)
THEOREM TypeCorrect == Spec => []TypeOK
<1>1. IInv => TypeOK
    BY DEF IInv
<1> QED
    BY <1>1, Invariance, PTL

(* UpsertResult.inserted of a running sync is the number of rows its       *)
(* commit will create, with any number of syncs running beside it.         *)
THEOREM CountsAreHonest == Spec => []HonestCounts
<1>1. IInv => HonestCounts
    BY DEF IInv
<1> QED
    BY <1>1, Invariance, PTL

(* The counts of inserted messages that committed syncs report add up to the   *)
(* number of rows in the table.                                            *)
THEOREM ReportsMatchTable == Spec => []ReportedMatchesRows
<1>1. IInv => ReportedMatchesRows
    BY DEF IInv
<1> QED
    BY <1>1, Invariance, PTL

-----------------------------------------------------------------------------
(* Refinement.                                                             *)

(* A commit is the abstract sync of the batch its transaction wrote.       *)
LEMMA CommitIsSync ==
    ASSUME IInv, NEW t \in Txns, Commit(t)
    PROVE  Atomic!Next
<1>1. writes[t] \in Atomic!Batch
    BY DEF IInv, TypeOK, Atomic!Batch, Atomic!NoRow
<1>2. messages' = Atomic!Overlay(messages, writes[t])
    BY DEF Commit, Holds, Atomic!Overlay, Atomic!NoRow, Merged
<1>3. Atomic!NewKeys(messages, writes[t]) = NewRows(t)
    BY DEF Atomic!NewKeys, Atomic!NoRow, NewRows, Holds
<1>4. reported' = reported + Cardinality(Atomic!NewKeys(messages, writes[t]))
    BY <1>3 DEF IInv, HonestCounts, Commit, Merged
<1>5. \A S : Atomic!Cardinality(S) = Cardinality(S)
    BY DEF Atomic!Cardinality, Cardinality
<1> QED
    BY <1>1, <1>2, <1>4, <1>5 DEF Atomic!Next, Atomic!Sync

(* Every step of the detailed specification is an abstract sync or changes *)
(* nothing that the abstract specification sees.                           *)
LEMMA StepRefines ==
    ASSUME IInv, [Next]_vars
    PROVE  [Atomic!Next]_(Atomic!vars)
<1>1. ASSUME NEW t \in Txns, Commit(t)
      PROVE  Atomic!Next
    BY <1>1, CommitIsSync
<1>2. CASE UNCHANGED <<messages, reported>>
    BY <1>2 DEF Atomic!vars
<1>3. ASSUME NEW t \in Txns, Step(t), ~Commit(t)
      PROVE  UNCHANGED <<messages, reported>>
    BY <1>3 DEF Step, Begin, Draw, Upsert, Rollback, DeadlockVictim, Written, OneMore,
        Undone
<1> QED
    BY <1>1, <1>2, <1>3 DEF Next, vars

(* Syncs that interleave statement by statement are atomic to a reader of  *)
(* the table and of the reported counts.                                   *)
THEOREM Refinement == Spec => IngestIsAtomic
<1>1. Init => Atomic!Init
    BY DEF Init, NoWrites, Atomic!Init, Atomic!NoRow
<1>2. IInv /\ [Next]_vars => [Atomic!Next]_(Atomic!vars)
    BY StepRefines
<1> QED
    BY <1>1, <1>2, Invariance, PTL DEF Spec, IngestIsAtomic, Atomic!Spec
=============================================================================
