------------------------ MODULE MessageListingProofs ------------------------
(***************************************************************************)
(* Proofs about MessageListing, for any finite set of messages, any times  *)
(* and changes of them, any limit and any commits during a walk.           *)
(***************************************************************************)
EXTENDS MessageListing, FiniteSetTheorems, TLAPS

USE ListingAssumption DEF ListingAssumption

-----------------------------------------------------------------------------
(* Cardinalities of sets of messages.                                      *)

LEMMA Sizes ==
    ASSUME NEW S \in SUBSET Ids
    PROVE  IsFiniteSet(S) /\ Cardinality(S) \in Nat
BY FS_Subset, FS_CardinalityType

LEMMA SubsetSize ==
    ASSUME NEW T \in SUBSET Ids, NEW S \in SUBSET T
    PROVE  /\ Cardinality(S) <= Cardinality(T)
           /\ Cardinality(S) = Cardinality(T) => S = T
BY FS_Subset, Sizes

LEMMA JoinedSize ==
    ASSUME NEW S \in SUBSET Ids, NEW T \in SUBSET Ids, S \cap T = {}
    PROVE  Cardinality(S \cup T) = Cardinality(S) + Cardinality(T)
<1>1. /\ IsFiniteSet(S) /\ IsFiniteSet(T)
      /\ Cardinality(S) \in Nat /\ Cardinality(T) \in Nat
    BY Sizes
<1>2. Cardinality(S \cup T) = Cardinality(S) + Cardinality(T) - Cardinality({})
    BY <1>1, FS_Union
<1> QED
    BY <1>1, <1>2, FS_EmptySet

-----------------------------------------------------------------------------
(* The order of a listing is strict and total.                             *)

LEMMA OrderStrict ==
    ASSUME created \in [Ids -> Times], NEW i \in Ids, NEW j \in Ids, NEW k \in Ids
    PROVE  /\ ~Before(i, i)
           /\ Before(i, j) /\ Before(j, k) => Before(i, k)
           /\ Before(i, j) \/ Before(j, i) \/ i = j
<1>1. /\ created[i] \in Nat /\ created[j] \in Nat /\ created[k] \in Nat
      /\ i \in Nat /\ j \in Nat /\ k \in Nat
    OBVIOUS
<1> QED
    BY <1>1 DEF Before

(* Of two beginnings of a listing, the smaller is part of the larger.      *)
LEMMA FirstsNest ==
    ASSUME matching \subseteq Ids, created \in [Ids -> Times], NEW S, NEW T,
           First(S), First(T),
           Cardinality(S) <= Cardinality(T)
    PROVE  S \subseteq T
<1>1. S \in SUBSET Ids /\ T \in SUBSET Ids
    BY DEF First
<1>2. S \subseteq T \/ T \subseteq S
    <2> SUFFICES ASSUME NEW x \in S \ T, NEW y \in T \ S PROVE FALSE
        OBVIOUS
    <2>1. x \in Ids /\ y \in Ids /\ x \in matching /\ y \in matching /\ x # y
        BY <1>1 DEF First
    <2>2. Before(x, y) \/ Before(y, x)
        BY <2>1, OrderStrict
    <2> QED
        BY <2>1, <2>2 DEF First
<1>3. CASE T \subseteq S
    <2>1. Cardinality(T) <= Cardinality(S)
        BY <1>1, <1>3, SubsetSize
    <2>2. Cardinality(T) = Cardinality(S)
        BY <1>1, <2>1, Sizes
    <2>3. T = S
        BY <1>1, <1>3, <2>2, SubsetSize
    <2> QED
        BY <2>3
<1> QED
    BY <1>2, <1>3

(* What a page shows: with what it skips, a beginning of the listing that  *)
(* reaches to the next offset, or to the end.                              *)
LEMMA PageReaches ==
    ASSUME TypeOK, NEW skipped \in SUBSET matching, NEW page \in SUBSET matching,
           IsPage(skipped, page)
    PROVE  /\ First(skipped) /\ First(skipped \cup page) /\ skipped \cap page = {}
           /\ Cardinality(skipped) \in Nat /\ Cardinality(page) \in Nat
           /\ Cardinality(skipped) <= offset
           /\ Cardinality(page) <= Limit
           /\ Cardinality(skipped \cup page) = Cardinality(skipped) + Cardinality(page)
           /\ \/ Cardinality(skipped \cup page) = offset + Limit
              \/ skipped \cup page = matching
           /\ Cardinality(page) < Limit \/ Cardinality(matching) <= offset + Limit
                => skipped \cup page = matching
           /\ Cardinality(skipped) < offset => page = {}
<1> DEFINE n == Cardinality(matching)
           s == Cardinality(skipped)
           p == Cardinality(page)
<1>1. /\ matching \in SUBSET Ids /\ skipped \in SUBSET Ids /\ page \in SUBSET Ids
      /\ n \in Nat /\ s \in Nat /\ p \in Nat /\ offset \in Nat /\ Limit \in Nat \ {0}
    BY Sizes DEF TypeOK
<1>2. /\ First(skipped) /\ First(skipped \cup page) /\ skipped \cap page = {}
      /\ s = (IF offset < n THEN offset ELSE n)
      /\ p = (IF Limit < n - s THEN Limit ELSE n - s)
    BY DEF IsPage, Window, Smaller
<1>3. Cardinality(skipped \cup page) = s + p
    BY <1>1, <1>2, JoinedSize
<1>4. s + p = n => skipped \cup page = matching
    BY <1>1, <1>3, SubsetSize
<1>5. p = 0 => page = {}
    BY <1>1, SubsetSize, FS_EmptySet
<1> HIDE DEF n, s, p
<1>6. s <= offset /\ p <= Limit
    BY <1>1, <1>2
<1>7. s + p = offset + Limit \/ s + p = n
    BY <1>1, <1>2
<1>8. p < Limit \/ n <= offset + Limit => s + p = n
    BY <1>1, <1>2
<1>9. s < offset => p = 0
    BY <1>1, <1>2
<1> QED
    BY <1>1, <1>2, <1>3, <1>4, <1>5, <1>6, <1>7, <1>8, <1>9 DEF n, s, p

-----------------------------------------------------------------------------
(* What a commit does to the listing.                                      *)

(* A row that a commit neither moves nor takes out was there before, at    *)
(* its time, or has come.                                                  *)
LEMMA CommitRows ==
    ASSUME TypeOK, NEW rows \in Batches, NEW match \in SUBSET rows,
           NEW times \in [rows -> Times], Commit(rows, match, times)
    PROVE  /\ rows \subseteq Ids
           /\ matching' \subseteq Ids
           /\ created' \in [Ids -> Times]
           /\ ~pushed' => /\ ~pushed /\ matching' \subseteq matching
                          /\ \A i \in matching' : created'[i] <= created[i]
           /\ ~pulled' => /\ ~pulled /\ matching \subseteq matching'
                          /\ \A i \in matching : created'[i] >= created[i]
           /\ \A i \in steady' : i \in steady /\ i \in matching'
                                /\ created'[i] = created[i]
           /\ UNCHANGED <<pc, byTotal, offset, total, got, repeated>>
<1>1. /\ rows \subseteq Ids
      /\ matching' = (matching \ rows) \cup match
      /\ created' = [i \in Ids |-> IF i \in rows THEN times[i] ELSE created[i]]
      /\ steady' = steady \ (Leaving(rows, match) \cup Rising(match, times)
                                                  \cup Sinking(match, times))
      /\ UNCHANGED <<pc, byTotal, offset, total, got, repeated>>
    BY DEF Commit, Batches, client
<1>2. matching' \subseteq Ids /\ created' \in [Ids -> Times]
    BY <1>1 DEF TypeOK
<1>3. ASSUME NEW i \in matching
      PROVE  /\ i \notin Leaving(rows, match) => i \in matching'
             /\ i \in Ids /\ created[i] \in Nat /\ created'[i] \in Nat
             /\ i \notin Rising(match, times) /\ i \in matching' => created'[i] <= created[i]
             /\ i \notin Sinking(match, times) /\ i \in matching' => created'[i] >= created[i]
    <2>1. i \in Ids /\ created[i] \in Nat /\ created'[i] \in Nat
        BY <1>2 DEF TypeOK
    <2>2. i \notin Leaving(rows, match) => i \in matching'
        BY <1>1 DEF Leaving
    <2>3. CASE i \in match
        <3>1. created'[i] = times[i] /\ times[i] \in Nat
            BY <1>1, <2>1, <2>3
        <3> QED
            BY <2>1, <2>2, <2>3, <3>1 DEF Rising, Sinking
    <2>4. CASE i \notin match
        <3>1. i \in matching' => created'[i] = created[i]
            BY <1>1, <2>1, <2>4
        <3> QED
            BY <2>1, <2>2, <3>1
    <2> QED
        BY <2>3, <2>4
<1>4. ASSUME ~pushed'
      PROVE  /\ ~pushed /\ matching' \subseteq matching
             /\ \A i \in matching' : created'[i] <= created[i]
    <2>1. ~pushed /\ Entering(match) = {} /\ Rising(match, times) = {}
        BY <1>4 DEF Commit
    <2>2. matching' \subseteq matching
        BY <1>1, <2>1 DEF Entering
    <2> QED
        BY <1>3, <2>1, <2>2
<1>5. ASSUME ~pulled'
      PROVE  /\ ~pulled /\ matching \subseteq matching'
             /\ \A i \in matching : created'[i] >= created[i]
    <2>1. ~pulled /\ Leaving(rows, match) = {} /\ Sinking(match, times) = {}
        BY <1>5 DEF Commit
    <2> QED
        BY <1>3, <2>1
<1>6. ASSUME NEW i \in steady'
      PROVE  i \in steady /\ i \in matching' /\ created'[i] = created[i]
    <2>1. /\ i \in steady /\ i \in matching /\ i \notin Leaving(rows, match)
          /\ i \notin Rising(match, times) /\ i \notin Sinking(match, times)
        BY <1>1, <1>6 DEF TypeOK
    <2> QED
        BY <1>3, <2>1
<1> QED
    BY <1>1, <1>2, <1>4, <1>5, <1>6

-----------------------------------------------------------------------------
(* Types.                                                                  *)

LEMMA NextTypes ==
    ASSUME TypeOK, Next
    PROVE  TypeOK'
<1>0. Cardinality(Ids) \in Nat /\ Cardinality(matching) \in 0..Cardinality(Ids)
    BY Sizes, SubsetSize DEF TypeOK
<1>1. ASSUME NEW rows \in Batches, NEW match \in SUBSET rows,
             NEW times \in [rows -> Times], Commit(rows, match, times)
      PROVE  TypeOK'
    <2>1. commits' \in 0..MaxCommits
        BY <1>1 DEF TypeOK, Commit
    <2>2. pushed' \in BOOLEAN /\ pulled' \in BOOLEAN /\ slipped' \in BOOLEAN
        BY <1>1, Zenon DEF TypeOK, Commit
    <2>3. /\ matching' \subseteq Ids /\ steady' \subseteq matching'
          /\ created' \in [Ids -> Times]
          /\ UNCHANGED <<pc, byTotal, offset, total, got, repeated>>
        BY <1>1, CommitRows
    <2> QED
        BY <2>1, <2>2, <2>3 DEF TypeOK
<1>2. CASE Begin
    <2>1. pushed' \in BOOLEAN /\ pulled' \in BOOLEAN /\ slipped' \in BOOLEAN
        BY <1>2, Zenon DEF Begin
    <2> QED
        BY <1>0, <1>2, <2>1 DEF TypeOK, Begin, table
<1>3. CASE Count
    BY <1>0, <1>3 DEF TypeOK, Count, Counted, table
<1>4. CASE Read
    BY <1>4 DEF TypeOK, Read, table, history
<1> QED
    BY <1>1, <1>2, <1>3, <1>4 DEF Next

-----------------------------------------------------------------------------
(* What was before the offset was seen.                                    *)

LEMMA SeenStep ==
    ASSUME TypeOK, SeenBefore, Next
    PROVE  SeenBefore'
<1> SUFFICES ASSUME pc' # "idle", ~pulled', NEW S \in SUBSET matching', First(S)',
                    Cardinality(S) <= offset'
             PROVE  S \cap steady' \subseteq got'
    BY DEF SeenBefore
<1>1. ASSUME NEW rows \in Batches, NEW match \in SUBSET rows,
             NEW times \in [rows -> Times], Commit(rows, match, times)
      PROVE  S \cap steady' \subseteq got'
    <2>1. /\ ~pulled /\ pc # "idle" /\ matching \subseteq matching'
          /\ \A i \in matching : created'[i] >= created[i]
          /\ UNCHANGED <<got, offset>>
        BY <1>1, CommitRows
    <2> SUFFICES ASSUME NEW j \in S \cap steady' PROVE j \in got
        BY <2>1
    <2>2. j \in steady /\ j \in matching /\ created'[j] = created[j]
        BY <1>1, CommitRows DEF TypeOK
    <2> DEFINE R == {i \in matching : i = j \/ Before(i, j)}
    <2>3. created \in [Ids -> Times] /\ R \in SUBSET Ids /\ j \in Ids
        BY <2>2 DEF TypeOK
    <2>4. First(R) /\ R \in SUBSET matching
        <3>1. ASSUME NEW k \in R, NEW i \in matching, Before(i, k)
              PROVE  i \in R
            <4>1. i \in Ids /\ k \in Ids /\ (k = j \/ Before(k, j))
                BY <2>3, <3>1 DEF TypeOK
            <4> QED
                BY <2>3, <3>1, <4>1, OrderStrict
        <3> QED
            BY <3>1 DEF First
    <2>5. R \subseteq S
        <3> SUFFICES ASSUME NEW i \in matching, Before(i, j) PROVE i \in S
            BY <2>2
        <3>1. created'[i] \in Nat /\ created[i] \in Nat /\ created[j] \in Nat
            BY <1>1, <2>2, CommitRows DEF TypeOK
        <3>2. Before(i, j)'
            BY <2>1, <2>2, <3>1 DEF Before
        <3> QED
            BY <2>1, <3>2 DEF First
    <2>6. Cardinality(R) <= offset
        <3>1. S \in SUBSET Ids
            BY <1>1, CommitRows
        <3>2. Cardinality(R) <= Cardinality(S)
            BY <2>5, <3>1, SubsetSize
        <3>3. Cardinality(R) \in Nat /\ Cardinality(S) \in Nat /\ offset \in Nat
            BY <2>3, <3>1, Sizes DEF TypeOK
        <3> HIDE DEF R
        <3> QED
            BY <2>1, <3>2, <3>3
    <2> QED
        BY <2>1, <2>2, <2>4, <2>6 DEF SeenBefore
<1>2. CASE Begin
    <2>1. S \in SUBSET Ids /\ Cardinality(S) <= 0
        BY <1>2 DEF TypeOK, Begin, table
    <2>2. S = {}
        BY <2>1, Sizes, FS_EmptySet
    <2> QED
        BY <2>2
<1>3. CASE Count
    BY <1>3 DEF Count, SeenBefore, First, Before, table
<1>4. CASE Read
    <2>1. PICK skipped \in SUBSET matching, page \in SUBSET matching :
             IsPage(skipped, page) /\ got' = got \cup page
        BY <1>4 DEF Read
    <2>2. /\ UNCHANGED <<matching, created, steady, pulled>> /\ offset' = offset + Limit
          /\ pc = "reading"
        BY <1>4 DEF Read, table, history
    <2>3. First(S)
        BY <2>2 DEF First, Before
    <2>4. S \subseteq skipped \cup page
        <3>1. CASE skipped \cup page = matching
            BY <2>2, <3>1
        <3>2. CASE Cardinality(skipped \cup page) = offset + Limit
            <4> DEFINE T == skipped \cup page
            <4>1. First(T)
                BY <2>1, PageReaches, Zenon
            <4>3. Cardinality(S) <= Cardinality(T)
                BY <2>2, <3>2
            <4> HIDE DEF T
            <4>2. S \subseteq T
                BY <2>3, <4>1, <4>3, FirstsNest DEF TypeOK
            <4> QED
                BY <4>2 DEF T
        <3> QED
            BY <2>1, <3>1, <3>2, PageReaches
    <2>5. skipped \cap steady \subseteq got
        BY <2>1, <2>2, PageReaches DEF SeenBefore
    <2> QED
        BY <2>1, <2>2, <2>4, <2>5
<1> QED
    BY <1>1, <1>2, <1>3, <1>4 DEF Next

LEMMA TotalStep ==
    ASSUME TypeOK, TotalHolds, Next
    PROVE  TotalHolds'
<1>1. ASSUME NEW rows \in Batches, NEW match \in SUBSET rows,
             NEW times \in [rows -> Times], Commit(rows, match, times)
      PROVE  TotalHolds'
    <2> SUFFICES ASSUME pc = "reading", ~slipped', ~pulled'
                 PROVE  total = Cardinality(matching')
        BY <1>1, CommitRows DEF TotalHolds
    <2>1. ~slipped /\ matching' \subseteq matching
        BY <1>1 DEF Commit, Entering
    <2>2. ~pulled /\ matching \subseteq matching'
        BY <1>1, CommitRows
    <2>3. matching' = matching
        BY <2>1, <2>2
    <2> QED
        BY <2>1, <2>2, <2>3 DEF TotalHolds
<1>2. CASE Begin \/ Count \/ Read
    BY <1>2 DEF TotalHolds, Begin, Count, Counted, Read, table, history
<1> QED
    BY <1>1, <1>2 DEF Next

LEMMA MissedStep ==
    ASSUME TypeOK, SeenBefore, TotalHolds, NothingMissed, Next
    PROVE  NothingMissed'
<1>1. ASSUME NEW rows \in Batches, NEW match \in SUBSET rows,
             NEW times \in [rows -> Times], Commit(rows, match, times)
      PROVE  NothingMissed'
    <2>1. UNCHANGED <<pc, byTotal, offset, got>> /\ steady' \subseteq steady
        BY <1>1, CommitRows
    <2>2. (~pulled' => ~pulled) /\ (~slipped' => ~slipped)
        BY <1>1 DEF Commit
    <2> QED
        BY <2>1, <2>2 DEF NothingMissed, Walked
<1>2. CASE Begin \/ Count
    BY <1>2 DEF Begin, Count, NothingMissed, Walked
<1>3. CASE Read
    <2> SUFFICES ASSUME pc' = "idle", ~pulled', byTotal' => ~slipped'
                 PROVE  steady' \subseteq got'
        BY DEF NothingMissed, Walked
    <2>1. PICK skipped \in SUBSET matching, page \in SUBSET matching :
             IsPage(skipped, page) /\ got' = got \cup page /\ IsLast(page)
        BY <1>3 DEF Read
    <2>2. /\ UNCHANGED <<matching, byTotal, steady, pulled, slipped>>
          /\ pc = "reading" /\ ~pulled
        BY <1>3 DEF Read, table, history
    <2>3. skipped \cup page = matching
        <3>1. CASE byTotal
            <4>1. total = Cardinality(matching)
                BY <2>2, <3>1 DEF TotalHolds
            <4> QED
                BY <2>1, <3>1, <4>1, PageReaches, Sizes DEF IsLast, TypeOK
        <3>2. CASE ~byTotal
            BY <2>1, <3>2, PageReaches DEF IsLast
        <3> QED
            BY <3>1, <3>2
    <2>4. skipped \cap steady \subseteq got
        BY <2>1, <2>2, PageReaches DEF SeenBefore
    <2> QED
        BY <2>1, <2>2, <2>3, <2>4 DEF TypeOK
<1> QED
    BY <1>1, <1>2, <1>3 DEF Next

-----------------------------------------------------------------------------
(* What was seen is before the offset.                                     *)

LEMMA GotStep ==
    ASSUME TypeOK, GotFirst, Next
    PROVE  GotFirst'
<1> SUFFICES ASSUME ~pushed', NEW S \in SUBSET matching', First(S)',
                    NEW g \in got' \cap steady', g \notin S
             PROVE  Cardinality(S) < offset'
    BY DEF GotFirst
<1>1. ASSUME NEW rows \in Batches, NEW match \in SUBSET rows,
             NEW times \in [rows -> Times], Commit(rows, match, times)
      PROVE  Cardinality(S) < offset'
    <2>1. /\ ~pushed /\ matching' \subseteq matching
          /\ \A i \in matching' : created'[i] <= created[i]
          /\ g \in steady /\ g \in matching' /\ created'[g] = created[g]
          /\ created' \in [Ids -> Times]
          /\ UNCHANGED <<got, offset>>
        BY <1>1, CommitRows
    <2> DEFINE P == {i \in matching : Before(i, g)}
    <2>2. /\ P \in SUBSET Ids /\ g \in matching /\ g \in Ids
          /\ created \in [Ids -> Times]
        BY <2>1 DEF TypeOK
    <2>3. First(P) /\ g \notin P
        <3>1. ASSUME NEW j \in P, NEW i \in matching, Before(i, j)
              PROVE  i \in P
            <4>1. i \in Ids /\ j \in Ids /\ Before(j, g)
                BY <2>2, <3>1 DEF TypeOK
            <4> QED
                BY <2>2, <3>1, <4>1, OrderStrict
        <3> QED
            BY <2>2, <3>1, OrderStrict DEF First
    <2>4. Cardinality(P) < offset
        BY <2>1, <2>2, <2>3 DEF GotFirst
    <2>5. S \subseteq P
        <3> SUFFICES ASSUME NEW x \in S PROVE Before(x, g)
            BY <2>1
        <3>1. /\ x \in Ids /\ x \in matching' /\ x # g /\ ~Before(g, x)'
              /\ g \in Nat /\ x \in Nat
            BY <2>1, <2>2 DEF First, TypeOK
        <3>2. /\ created[x] \in Nat /\ created[g] \in Nat /\ created'[x] \in Nat
              /\ created'[x] <= created[x]
            BY <2>1, <2>2, <3>1
        <3> QED
            BY <2>1, <3>1, <3>2 DEF Before
    <2>6. Cardinality(S) <= Cardinality(P)
        BY <2>2, <2>5, SubsetSize
    <2>7. S \in SUBSET Ids
        BY <2>2, <2>5
    <2>8. Cardinality(S) \in Nat /\ Cardinality(P) \in Nat /\ offset \in Nat
        BY <2>2, <2>7, Sizes DEF TypeOK
    <2> HIDE DEF P
    <2> QED
        BY <2>1, <2>4, <2>6, <2>8
<1>2. CASE Begin
    BY <1>2 DEF Begin
<1>3. CASE Count
    BY <1>3 DEF Count, GotFirst, First, Before, table
<1>4. CASE Read
    <2>1. PICK skipped \in SUBSET matching, page \in SUBSET matching :
             IsPage(skipped, page) /\ got' = got \cup page
        BY <1>4 DEF Read
    <2>2. UNCHANGED <<matching, created, steady, pushed>> /\ offset' = offset + Limit
        BY <1>4 DEF Read, table, history
    <2>3. First(S) /\ S \in SUBSET Ids /\ Cardinality(S) \in Nat /\ offset \in Nat
        BY <2>2, Sizes DEF First, Before, TypeOK
    <2>4. CASE g \in got
        <3>1. Cardinality(S) < offset
            BY <2>2, <2>3, <2>4 DEF GotFirst
        <3> QED
            BY <2>2, <2>3, <3>1
    <2>5. CASE g \in page
        <3>0. First(skipped \cup page)
            <4>1. IsPage(skipped, page)
                BY <2>1
            <4> QED
                BY <4>1 DEF IsPage
        <3> DEFINE T == skipped \cup page
        <3>1. /\ First(T) /\ T \in SUBSET Ids /\ Cardinality(T) \in Nat
              /\ Cardinality(T) <= offset + Limit
            <4>1. First(T)
                BY <3>0
            <4>2. T \in SUBSET Ids
                BY DEF TypeOK
            <4>3. Cardinality(T) = Cardinality(skipped) + Cardinality(page)
                BY <2>1, PageReaches, Zenon
            <4>4. Cardinality(skipped) \in Nat /\ Cardinality(page) \in Nat
                BY Sizes DEF TypeOK
            <4>5. Cardinality(skipped) <= offset
                BY <2>1, PageReaches, Zenon
            <4>6. Cardinality(page) <= Limit
                BY <2>1, PageReaches, Zenon
            <4> HIDE DEF T
            <4> QED
                BY <2>3, <4>1, <4>2, <4>3, <4>4, <4>5, <4>6, Sizes
        <3>2. ~(Cardinality(T) <= Cardinality(S))
            BY <2>3, <2>5, <3>1, FirstsNest DEF TypeOK
        <3> HIDE DEF T
        <3> QED
            BY <2>2, <2>3, <3>1, <3>2
    <2> QED
        BY <2>1, <2>4, <2>5
<1> QED
    BY <1>1, <1>2, <1>3, <1>4 DEF Next

LEMMA RepeatedStep ==
    ASSUME TypeOK, GotFirst, NothingRepeated, Next
    PROVE  NothingRepeated'
<1>1. ASSUME NEW rows \in Batches, NEW match \in SUBSET rows,
             NEW times \in [rows -> Times], Commit(rows, match, times)
      PROVE  NothingRepeated'
    <2>1. repeated' = repeated /\ steady' \subseteq steady /\ (~pushed' => ~pushed)
        BY <1>1, CommitRows
    <2> QED
        BY <2>1 DEF NothingRepeated
<1>2. CASE Begin \/ Count
    BY <1>2 DEF Begin, Count, NothingRepeated
<1>3. CASE Read
    <2> SUFFICES ASSUME ~pushed PROVE repeated' \cap steady = {}
        BY <1>3 DEF Read, NothingRepeated, history
    <2>1. PICK skipped \in SUBSET matching, page \in SUBSET matching :
             IsPage(skipped, page) /\ repeated' = repeated \cup (got \cap page)
        BY <1>3 DEF Read
    <2>2. repeated \cap steady = {}
        BY DEF NothingRepeated
    <2>3. ASSUME NEW g \in got \cap page \cap steady
          PROVE  FALSE
        <3>1. First(skipped) /\ g \notin skipped /\ g \in matching
            BY <2>1, <2>3, PageReaches
        <3>2. Cardinality(skipped) < offset
            BY <2>3, <3>1 DEF GotFirst
        <3> QED
            BY <2>1, <2>3, <3>2, PageReaches
    <2> QED
        BY <2>1, <2>2, <2>3
<1> QED
    BY <1>1, <1>2, <1>3 DEF Next

-----------------------------------------------------------------------------
(* The inductive invariant, and the theorems.                              *)

LEMMA InitIInv == Init => IInv
<1> SUFFICES ASSUME Init PROVE IInv
    OBVIOUS
<1>1. byTotal \in BOOLEAN /\ pushed \in BOOLEAN /\ pulled \in BOOLEAN /\ slipped \in BOOLEAN
    BY Zenon DEF Init
<1>2. total \in 0..Cardinality(Ids)
    BY Sizes DEF Init
<1>3. TypeOK
    BY <1>1, <1>2 DEF Init, TypeOK
<1>4. SeenBefore /\ GotFirst /\ TotalHolds /\ NothingMissed /\ NothingRepeated
    BY DEF Init, SeenBefore, GotFirst, TotalHolds, NothingMissed, NothingRepeated,
        Walked
<1> QED
    BY <1>3, <1>4 DEF IInv

LEMMA NextIInv == IInv /\ [Next]_vars => IInv'
<1> SUFFICES ASSUME IInv, [Next]_vars PROVE IInv'
    OBVIOUS
<1>1. CASE Next
    BY <1>1, NextTypes, SeenStep, GotStep, TotalStep, MissedStep, RepeatedStep DEF IInv
<1>2. CASE UNCHANGED vars
    BY <1>2 DEF IInv, TypeOK, SeenBefore, GotFirst, TotalHolds, NothingMissed,
                NothingRepeated, Walked, First, Before, vars, table, client, history
<1> QED
    BY <1>1, <1>2

(* The inductive invariant of MessageListing holds at every page of a walk *)
(* and at every commit in between.                                         *)
THEOREM Invariance == Spec => []IInv
BY InitIInv, NextIInv, PTL DEF Spec

(* The client and the two statements of a request keep to their types:     *)
(* the total never exceeds the rows there are (list_messages).             *)
THEOREM TypeCorrect == Spec => []TypeOK
<1>1. IInv => TypeOK
    BY DEF IInv
<1> QED
    BY <1>1, Invariance, PTL

(* A walk through GET /messages to the first short page has seen every row *)
(* that matched, with one time, from its beginning to its end, whatever    *)
(* rows appear or move to the front meanwhile, and for any limit           *)
(* (list_messages).                                                        *)
THEOREM WalksAreComplete == Spec => []NothingMissed
<1>1. IInv => NothingMissed
    BY DEF IInv
<1> QED
    BY <1>1, Invariance, PTL

(* While no row begins to match or moves to the front, a walk gets no row  *)
(* twice that keeps its time, though others may cease to match or move to  *)
(* the back (list_messages).                                               *)
THEOREM WalksDoNotRepeat == Spec => []NothingRepeated
<1>1. IInv => NothingRepeated
    BY DEF IInv
<1> QED
    BY <1>1, Invariance, PTL
=============================================================================
