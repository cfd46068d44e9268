--------------------------- MODULE GitHubSyncProofs ---------------------------
(***************************************************************************)
(* Proofs about GitHubSync, for any workers, repositories, page size, page *)
(* cap and bounds, whether issues change while syncs run or not.           *)
(***************************************************************************)
EXTENDS GitHubSync, FiniteSetTheorems, TLAPS

USE GitHubAssumption DEF GitHubAssumption, Numbers

-----------------------------------------------------------------------------
(* Ranks in a finite set L with a strict total order, given as the set of  *)
(* elements below each.                                                    *)

StrictOrder(L, Below) ==
    /\ Below \in [L -> SUBSET L]
    /\ \A x \in L : x \notin Below[x]
    /\ \A x, y \in L : x \in Below[y] => Below[x] \subseteq Below[y]
    /\ \A x, y \in L : x # y => x \in Below[y] \/ y \in Below[x]

(* An element has fewer elements below it than one above it, and fewer     *)
(* than the set has.                                                       *)
LEMMA RanksGrow ==
    ASSUME NEW L, IsFiniteSet(L), NEW Below, StrictOrder(L, Below), NEW x \in L
    PROVE  /\ Cardinality(Below[x]) \in 0..(Cardinality(L) - 1)
           /\ \A y \in L : x \in Below[y] =>
                  Cardinality(Below[x]) < Cardinality(Below[y])
<1>1. IsFiniteSet(Below[x]) /\ Cardinality(Below[x]) \in Nat
    BY FS_Subset, FS_CardinalityType DEF StrictOrder
<1>2. Cardinality(L) \in Nat
    BY FS_CardinalityType
<1>3. Cardinality(Below[x]) < Cardinality(L)
    <2>1. Below[x] \in SUBSET L /\ Below[x] # L
        BY DEF StrictOrder
    <2> QED
        BY <2>1, <1>1, <1>2, FS_Subset
<1>4. ASSUME NEW y \in L, x \in Below[y]
      PROVE  Cardinality(Below[x]) < Cardinality(Below[y])
    <2>1. IsFiniteSet(Below[y]) /\ Cardinality(Below[y]) \in Nat
        BY FS_Subset, FS_CardinalityType DEF StrictOrder
    <2>2. Below[x] \in SUBSET Below[y]
        BY <1>4 DEF StrictOrder
    <2>3. x \in Below[y] /\ x \notin Below[x]
        BY <1>4 DEF StrictOrder
    <2> QED
        BY <1>1, <2>1, <2>2, <2>3, FS_Subset
<1> QED
    BY <1>1, <1>2, <1>3, <1>4

(* Every rank below the size of the set is that of an element, and of one  *)
(* only.                                                                   *)
LEMMA Ranking ==
    ASSUME NEW L, IsFiniteSet(L), NEW Below, StrictOrder(L, Below)
    PROVE  /\ \A x, y \in L : Cardinality(Below[x]) = Cardinality(Below[y])
                                  => x = y
           /\ \A k \in 0..(Cardinality(L) - 1) :
                  \E x \in L : Cardinality(Below[x]) = k
<1> DEFINE n == Cardinality(L)
           f == [x \in L |-> Cardinality(Below[x])]
<1>1. n \in Nat
    BY FS_CardinalityType
<1>2. IsFiniteSet(0..(n - 1)) /\ Cardinality(0..(n - 1)) = n
    <2>1. 0 \in Int /\ n - 1 \in Int
        BY <1>1
    <2>2. /\ IsFiniteSet(0..(n - 1))
          /\ Cardinality(0..(n - 1)) = IF 0 > n - 1 THEN 0 ELSE (n - 1) - 0 + 1
        BY <2>1, FS_Interval
    <2> QED
        BY <1>1, <2>2
<1>3. f \in [L -> 0..(n - 1)]
    BY RanksGrow
<1>4. ASSUME NEW x \in L, NEW y \in L,
             Cardinality(Below[x]) = Cardinality(Below[y])
      PROVE  x = y
    <2>1. CASE x \in Below[y]
        BY <1>1, <1>4, <2>1, RanksGrow
    <2>2. CASE y \in Below[x]
        BY <1>1, <1>4, <2>2, RanksGrow
    <2> QED
        BY <2>1, <2>2 DEF StrictOrder
<1>5. f \in Injection(L, 0..(n - 1))
    BY <1>3, <1>4 DEF Injection, IsInjective
<1>6. f \in Surjection(L, 0..(n - 1))
    BY <1>2, <1>5, FS_Injection
<1>7. ASSUME NEW k \in 0..(n - 1)
      PROVE  \E x \in L : Cardinality(Below[x]) = k
    BY <1>6 DEF Surjection
<1> QED
    BY <1>4, <1>7

(* A full page: if there are elements from rank b on, then those of rank   *)
(* a to b - 1 are b - a.                                                   *)
LEMMA FullPage ==
    ASSUME NEW L, IsFiniteSet(L), NEW Below, StrictOrder(L, Below),
           NEW a \in Nat, NEW b \in Nat, a <= b,
           NEW z \in L, Cardinality(Below[z]) >= b,
           NEW P \in SUBSET L,
           \A x \in L : x \in P <=> /\ Cardinality(Below[x]) >= a
                                  /\ Cardinality(Below[x]) < b
    PROVE  Cardinality(P) = b - a
<1> DEFINE rank(x) == Cardinality(Below[x])
           f == [x \in P |-> rank(x)]
<1>1. \A x \in L : rank(x) \in 0..(Cardinality(L) - 1)
    BY RanksGrow
<1>2. Cardinality(L) \in Nat /\ b <= Cardinality(L) - 1
    BY <1>1, FS_CardinalityType
<1>3. \A x, y \in L : rank(x) = rank(y) => x = y
    BY Ranking
<1>4. \A k \in 0..(Cardinality(L) - 1) : \E x \in L : rank(x) = k
    BY Ranking
<1>. \A x \in L : x \in P <=> rank(x) >= a /\ rank(x) < b
    OBVIOUS
<1> HIDE DEF rank
<1>5. f \in Bijection(P, a..(b - 1))
    <2>1. f \in [P -> a..(b - 1)]
        BY <1>1
    <2>2. \A x, y \in P : f[x] = f[y] => x = y
        BY <1>3
    <2>3. ASSUME NEW k \in a..(b - 1)
          PROVE  \E x \in P : f[x] = k
        <3>1. k \in 0..(Cardinality(L) - 1)
            BY <1>2
        <3>2. PICK x \in L : rank(x) = k
            BY <1>4, <3>1
        <3>3. x \in P
            BY <3>2
        <3> QED
            BY <3>2, <3>3
    <2> QED
        BY <2>1, <2>2, <2>3 DEF Bijection, Injection, Surjection, IsInjective
<1>6. IsFiniteSet(P)
    BY FS_Subset
<1>7. Cardinality(a..(b - 1)) = b - a
    <2>1. a \in Int /\ b - 1 \in Int
        OBVIOUS
    <2>2. Cardinality(a..(b - 1)) = IF a > b - 1 THEN 0 ELSE (b - 1) - a + 1
        BY <2>1, FS_Interval
    <2> QED
        BY <2>2
<1>8. ExistsBijection(P, a..(b - 1))
    BY <1>5 DEF ExistsBijection
<1> QED
    BY <1>6, <1>7, <1>8, FS_Bijection

(* A finite set that is not empty has a last element.                      *)
LEMMA LastElement ==
    ASSUME NEW L, IsFiniteSet(L), L # {}, NEW Below, StrictOrder(L, Below)
    PROVE  \E x \in L : \A y \in L : y # x => y \in Below[x]
<1> DEFINE n == Cardinality(L)
<1>1. n \in Nat /\ n # 0
    BY FS_CardinalityType, FS_EmptySet
<1>2. PICK x \in L : Cardinality(Below[x]) = n - 1
    <2>1. \A k \in 0..(n - 1) : \E x \in L : Cardinality(Below[x]) = k
        BY Ranking
    <2>2. n - 1 \in 0..(n - 1)
        BY <1>1
    <2> QED
        BY <2>1, <2>2
<1>3. IsFiniteSet(L \ {x}) /\ Cardinality(L \ {x}) = n - 1
    BY FS_RemoveElement
<1>4. Below[x] \in SUBSET (L \ {x})
    BY DEF StrictOrder
<1>5. Below[x] = L \ {x}
    BY <1>2, <1>3, <1>4, FS_Subset
<1> QED
    BY <1>5

(* A finite set of numbers that is not empty has a maximum.                *)
LEMMA Maximum ==
    ASSUME NEW S, IsFiniteSet(S), S # {}, S \subseteq Nat
    PROVE  /\ Max(S) \in S
           /\ \A y \in S : y <= Max(S)
<1> DEFINE Below == [x \in S |-> {y \in S : y < x}]
<1>1. \A x, y \in S : y \in Below[x] <=> y < x
    OBVIOUS
<1>2. StrictOrder(S, Below)
    <2>1. Below \in [S -> SUBSET S]
        OBVIOUS
    <2> HIDE DEF Below
    <2>2. \A x, y \in S : x \in Below[y] => Below[x] \subseteq Below[y]
        <3>1. ASSUME NEW x \in S, NEW y \in S, NEW z \in S,
                     x \in Below[y], z \in Below[x]
              PROVE  z \in Below[y]
            <4>1. x < y /\ z < x
                BY <1>1, <3>1
            <4>2. z < y
                BY <4>1
            <4> QED
                BY <1>1, <4>2
        <3> QED
            BY <2>1, <3>1
    <2> QED
        BY <1>1, <2>1, <2>2 DEF StrictOrder
<1>3. \E x \in S : \A y \in S : y # x => y \in Below[x]
    <2> HIDE DEF Below
    <2> QED
        BY <1>2, LastElement
<1>4. \E x \in S : \A y \in S : x >= y
    BY <1>1, <1>3
<1>5. Max(S) \in S /\ \A y \in S : Max(S) >= y
    BY <1>4 DEF Max
<1> QED
    BY <1>5

-----------------------------------------------------------------------------
(* The listings of GitHub and their pages.                                 *)

(* How many are listed before issue i, and the first n pages.              *)
Rank(i, r, s) == Cardinality({j \in Listing(r, s) : Before(j, i, s)})
First(r, s, n) == {i \in Listing(r, s) : Rank(i, r, s) < n * PerPage}

(* Issues and their numbers.                                               *)
LEMMA IssueTypes ==
    ASSUME TypeOK
    PROVE  /\ DOMAIN issues = 1..Len(issues) /\ DOMAIN issues \subseteq Numbers
           /\ IsFiniteSet(DOMAIN issues)
           /\ \A i \in DOMAIN issues :
                  /\ issues[i] \in Issue
                  /\ issues[i].repo \in Repos
                  /\ issues[i].updated \in 1..MaxChanges
                  /\ issues[i].version \in 1..MaxChanges
<1>1. issues \in Seq(Issue) /\ Len(issues) \in Nat /\ Len(issues) <= MaxIssues
    BY DEF TypeOK
<1>2. DOMAIN issues = 1..Len(issues)
    BY <1>1
<1>3. IsFiniteSet(DOMAIN issues)
    BY <1>1, <1>2, FS_Interval
<1>4. \A i \in DOMAIN issues : issues[i] \in Issue
    BY <1>1, <1>2
<1> QED
    BY <1>1, <1>2, <1>3, <1>4 DEF Issue

(* GitHub lists the issues in a strict total order.                        *)
LEMMA ListingOrder ==
    ASSUME TypeOK, NEW r, NEW s \in Nat
    PROVE  /\ IsFiniteSet(Listing(r, s))
           /\ StrictOrder(Listing(r, s),
                  [i \in Listing(r, s) |-> {j \in Listing(r, s) : Before(j, i, s)}])
<1> DEFINE L == Listing(r, s)
           Below == [i \in L |-> {j \in L : Before(j, i, s)}]
<1>1. L \in SUBSET (DOMAIN issues)
    BY DEF Listing
<1>2. IsFiniteSet(L)
    BY <1>1, IssueTypes, FS_Subset
<1>3. \A i \in L : i \in Nat /\ issues[i].updated \in Nat
    BY <1>1, IssueTypes
<1>4. \A i, j \in L : j \in Below[i] <=> Before(j, i, s)
    OBVIOUS
<1>5. Below \in [L -> SUBSET L]
    OBVIOUS
<1> HIDE DEF L, Below
<1>6. \A i \in L : i \notin Below[i]
    BY <1>3, <1>4 DEF Before
<1>7. ASSUME NEW i \in L, NEW j \in L, NEW k \in L, Before(i, j, s), Before(k, i, s)
      PROVE  Before(k, j, s)
    BY <1>3, <1>7 DEF Before
<1>8. \A i, j \in L : i \in Below[j] => Below[i] \subseteq Below[j]
    BY <1>4, <1>5, <1>7
<1>9. \A i, j \in L : i # j => Before(i, j, s) \/ Before(j, i, s)
    BY <1>3 DEF Before
<1>10. StrictOrder(L, Below)
    BY <1>4, <1>5, <1>6, <1>8, <1>9 DEF StrictOrder
<1> QED
    BY <1>2, <1>10 DEF L, Below

(* Ranks are numbers, and grow along the listing.                          *)
LEMMA RankTypes ==
    ASSUME TypeOK, NEW r, NEW s \in Nat, NEW i \in Listing(r, s)
    PROVE  /\ Rank(i, r, s) \in Nat
           /\ \A j \in Listing(r, s) :
                  Before(j, i, s) => Rank(j, r, s) < Rank(i, r, s)
<1> DEFINE L == Listing(r, s)
           Below == [k \in L |-> {j \in L : Before(j, k, s)}]
<1>1. IsFiniteSet(L) /\ StrictOrder(L, Below)
    BY ListingOrder
<1>2. \A k \in L : Rank(k, r, s) = Cardinality(Below[k])
    BY DEF Rank
<1>3. \A k \in L : Before(k, i, s) => k \in Below[i]
    OBVIOUS
<1>4. IsFiniteSet(Below[i])
    BY <1>1, FS_Subset DEF StrictOrder
<1> HIDE DEF L, Below
<1>5. i \in L
    BY DEF L
<1>6. \A k \in L : k \in Below[i] => Cardinality(Below[k]) < Cardinality(Below[i])
    BY <1>1, <1>5, RanksGrow
<1>7. Cardinality(Below[i]) \in Nat
    BY <1>4, FS_CardinalityType
<1> QED
    BY <1>2, <1>3, <1>5, <1>6, <1>7 DEF L

(* Arithmetic of pages.                                                    *)
LEMMA Pages ==
    ASSUME NEW p \in Nat \ {0}
    PROVE  /\ p * PerPage \in Nat /\ (p - 1) * PerPage \in Nat
           /\ p * PerPage = (p - 1) * PerPage + PerPage
           /\ \A k \in Nat : k \div PerPage = p - 1 <=>
                  (p - 1) * PerPage <= k /\ k < p * PerPage
           /\ \A n \in Nat : p <= n => p * PerPage <= n * PerPage
<1>1. PerPage \in Nat \ {0}
    OBVIOUS
<1>2. p * PerPage \in Nat /\ (p - 1) * PerPage \in Nat
    BY <1>1
<1>3. p * PerPage = (p - 1) * PerPage + PerPage
    BY <1>1
<1>4. ASSUME NEW k \in Nat
      PROVE  k \div PerPage = p - 1 <=> (p - 1) * PerPage <= k /\ k < p * PerPage
    <2>1. \A q \in Nat : k \div PerPage = q <=> q * PerPage <= k /\ k < (q + 1) * PerPage
        BY <1>1
    <2>2. p - 1 \in Nat /\ (p - 1) + 1 = p
        OBVIOUS
    <2> QED
        BY <2>1, <2>2
<1>5. ASSUME NEW n \in Nat, p <= n
      PROVE  p * PerPage <= n * PerPage
    BY <1>1, <1>5
<1> QED
    BY <1>2, <1>3, <1>4, <1>5

(* A page adds to the pages before it.                                     *)
LEMMA PageAdds ==
    ASSUME TypeOK, NEW r, NEW s \in Nat, NEW p \in Nat \ {0}
    PROVE  /\ Page(r, s, p) \subseteq Listing(r, s)
           /\ First(r, s, p) = First(r, s, p - 1) \cup Page(r, s, p)
<1> DEFINE a == (p - 1) * PerPage
           b == p * PerPage
<1>1. a \in Nat /\ b \in Nat /\ a <= b
    BY Pages
<1>2. \A i \in Listing(r, s) : Rank(i, r, s) \in Nat
    BY RankTypes
<1>3. \A k \in Nat : k \div PerPage = p - 1 <=> a <= k /\ k < b
    BY Pages
<1>4. Page(r, s, p) = {i \in Listing(r, s) : Rank(i, r, s) \div PerPage = p - 1}
    BY DEF Page, Rank
<1> HIDE DEF a, b
<1>5. Page(r, s, p) = {i \in Listing(r, s) : a <= Rank(i, r, s) /\ Rank(i, r, s) < b}
    BY <1>2, <1>3, <1>4
<1>6. \A i \in Listing(r, s) :
        Rank(i, r, s) < b <=> Rank(i, r, s) < a \/ i \in Page(r, s, p)
    BY <1>1, <1>2, <1>5
<1>7. First(r, s, p) = {i \in Listing(r, s) : Rank(i, r, s) < b}
    BY DEF First, b
<1>8. First(r, s, p - 1) = {i \in Listing(r, s) : Rank(i, r, s) < a}
    BY DEF First, a
<1> QED
    BY <1>4, <1>6, <1>7, <1>8

(* No page comes before the first.                                         *)
LEMMA NoPages ==
    ASSUME TypeOK, NEW r, NEW s \in Nat
    PROVE  First(r, s, 0) = {}
<1>1. 0 * PerPage = 0
    OBVIOUS
<1>2. \A i \in Listing(r, s) : ~(Rank(i, r, s) < 0)
    BY RankTypes
<1> QED
    BY <1>1, <1>2 DEF First

(* A page that is not full is the last one.                                *)
LEMMA ShortPageIsLast ==
    ASSUME TypeOK, NEW r, NEW s \in Nat, NEW p \in Nat \ {0}, NEW n \in Nat, p <= n,
           Cardinality(Page(r, s, p)) # PerPage
    PROVE  First(r, s, n) = First(r, s, p)
<1> DEFINE a == (p - 1) * PerPage
           b == p * PerPage
           L == Listing(r, s)
           Below == [i \in L |-> {j \in L : Before(j, i, s)}]
<1>1. a \in Nat /\ b \in Nat /\ a <= b /\ b - a = PerPage
    BY Pages
<1>2. \A k \in Nat : k \div PerPage = p - 1 <=> a <= k /\ k < b
    BY Pages
<1>3. IsFiniteSet(L) /\ StrictOrder(L, Below)
    BY ListingOrder
<1>4. \A i \in L : Rank(i, r, s) = Cardinality(Below[i]) /\ Rank(i, r, s) \in Nat
    BY RankTypes DEF Rank
<1>5. Page(r, s, p) = {i \in L : Rank(i, r, s) \div PerPage = p - 1}
    BY DEF Page, Rank
<1> HIDE DEF a, b, L, Below
<1>6. Page(r, s, p) = {i \in L : Cardinality(Below[i]) >= a /\ Cardinality(Below[i]) < b}
    BY <1>1, <1>2, <1>4, <1>5
<1>7. ASSUME NEW z \in L, Cardinality(Below[z]) >= b
      PROVE  FALSE
    <2>1. Cardinality(Page(r, s, p)) = b - a
        BY <1>1, <1>3, <1>6, <1>7, FullPage
    <2> QED
        BY <1>1, <1>6, <2>1
<1>8. \A i \in L : Rank(i, r, s) < b
    BY <1>1, <1>4, <1>7
<1>9. b <= n * PerPage /\ n * PerPage \in Nat
    BY Pages DEF b
<1>10. \A i \in L : Rank(i, r, s) < n * PerPage
    BY <1>1, <1>4, <1>8, <1>9
<1>11. First(r, s, n) = L /\ First(r, s, p) = L
    BY <1>8, <1>10 DEF First, b, L
<1> QED
    BY <1>11

(* With since, whatever was updated before an issue of the first n pages   *)
(* is on them too: the pages leave no gap behind them.                     *)
LEMMA OldestFirst ==
    ASSUME TypeOK, NEW r, NEW s \in Nat \ {0}, NEW n \in Nat,
           NEW i \in First(r, s, n), NEW j \in Listing(r, s),
           issues[j].updated < issues[i].updated
    PROVE  j \in First(r, s, n)
<1>1. i \in Listing(r, s)
    BY DEF First
<1>2. Before(j, i, s)
    BY DEF Before
<1>3. /\ Rank(i, r, s) \in Nat /\ Rank(j, r, s) \in Nat
      /\ Rank(j, r, s) < Rank(i, r, s)
    BY <1>1, <1>2, RankTypes
<1>4. n * PerPage \in Nat
    BY PerPage \in Nat
<1> QED
    BY <1>3, <1>4 DEF First

(* What an earlier since lists on its first n pages, a later since that    *)
(* lists it has on its first n pages too.                                  *)
LEMMA LaterSinceFirst ==
    ASSUME TypeOK, NEW r, NEW s \in Nat \ {0}, NEW t \in Nat \ {0}, s <= t, NEW n \in Nat,
           NEW i \in First(r, s, n), issues[i].updated >= t
    PROVE  i \in First(r, t, n)
<1> DEFINE A == {j \in Listing(r, s) : Before(j, i, s)}
           B == {j \in Listing(r, t) : Before(j, i, t)}
<1>1. Listing(r, t) \subseteq Listing(r, s)
    BY IssueTypes DEF Listing
<1>2. i \in Listing(r, s) /\ i \in Listing(r, t)
    BY DEF First, Listing
<1>3. B \in SUBSET A
    BY <1>1 DEF Before
<1>4. IsFiniteSet(A) /\ Cardinality(A) \in Nat
    <2>1. A \in SUBSET Listing(r, s)
        OBVIOUS
    <2> QED
        BY <2>1, ListingOrder, FS_Subset, FS_CardinalityType
<1>5. Cardinality(B) <= Cardinality(A) /\ Cardinality(B) \in Nat
    BY <1>3, <1>4, FS_Subset, FS_CardinalityType
<1>6. Rank(i, r, t) <= Rank(i, r, s) /\ Rank(i, r, t) \in Nat /\ Rank(i, r, s) \in Nat
    BY <1>4, <1>5 DEF Rank
<1>7. n * PerPage \in Nat
    BY PerPage \in Nat
<1> QED
    BY <1>2, <1>6, <1>7 DEF First

(* The repository a worker is at, and the page it gets.                    *)
LEMMA AtTypes ==
    ASSUME TypeOK, NEW w \in Workers
    PROVE  /\ at[w] \in DOMAIN RepoList /\ DOMAIN RepoList = 1..Len(RepoList)
           /\ Len(RepoList) \in Nat \ {0}
           /\ Repo(w) \in Repos
           /\ page[w] \in Nat \ {0} /\ page[w] <= MaxPages
           /\ since[w] \in Nat
           /\ Shown(w) \subseteq Listing(Repo(w), since[w])
           /\ Shown(w) \subseteq DOMAIN issues
<1>1. RepoList \in Seq(Repos) /\ RepoList # <<>>
    OBVIOUS
<1>2. at[w] \in DOMAIN RepoList /\ page[w] \in 1..MaxPages /\ since[w] \in 0..MaxChanges
    BY DEF TypeOK
<1>3. DOMAIN RepoList = 1..Len(RepoList) /\ Len(RepoList) \in Nat \ {0}
    BY <1>1
<1>4. Repo(w) \in Repos
    BY <1>1, <1>2 DEF Repo
<1>5. page[w] \in Nat \ {0} /\ page[w] <= MaxPages /\ since[w] \in Nat
    BY <1>2
<1>6. Shown(w) \subseteq Listing(Repo(w), since[w])
    BY <1>5, PageAdds DEF Shown
<1>7. Listing(Repo(w), since[w]) \subseteq DOMAIN issues
    BY DEF Listing
<1> QED
    BY <1>2, <1>3, <1>4, <1>5, <1>6, <1>7

(* What the worker is shown comes after the pages before.                  *)
LEMMA ShownAdds ==
    ASSUME TypeOK, NEW w \in Workers
    PROVE  \A r, s, n : r = Repo(w) /\ s = since[w] /\ n = page[w] =>
               First(r, s, n) = First(r, s, n - 1) \cup Shown(w)
<1>1. page[w] \in Nat \ {0} /\ since[w] \in Nat
    BY AtTypes
<1> QED
    BY <1>1, PageAdds DEF Shown

(* max_updated after a page: no less than before it or than any time on    *)
(* it, and one of these.                                                   *)
LEMMA NewestSeen ==
    ASSUME TypeOK, NEW w \in Workers
    PROVE  /\ Newest(w) \in 0..MaxChanges
           /\ newest[w] <= Newest(w)
           /\ \A i \in Shown(w) : issues[i].updated <= Newest(w)
           /\ \/ Newest(w) = newest[w]
              \/ \E i \in Shown(w) : Newest(w) = issues[i].updated
<1> DEFINE S == {newest[w]} \cup {issues[i].updated : i \in Shown(w)}
<1>1. newest[w] \in 0..MaxChanges
    BY DEF TypeOK
<1>2. \A i \in Shown(w) : issues[i].updated \in 0..MaxChanges
    BY AtTypes, IssueTypes
<1>3. S \in SUBSET (0..MaxChanges)
    BY <1>1, <1>2
<1>4. IsFiniteSet(0..MaxChanges)
    BY FS_Interval
<1>5. newest[w] \in S /\ \A i \in Shown(w) : issues[i].updated \in S
    OBVIOUS
<1>6. \A m \in S : m = newest[w] \/ \E i \in Shown(w) : m = issues[i].updated
    OBVIOUS
<1>7. Newest(w) = Max(S)
    BY DEF Newest
<1> HIDE DEF S
<1>8. IsFiniteSet(S) /\ S # {} /\ S \subseteq Nat
    <2>1. S \subseteq Nat /\ S # {}
        BY <1>3, <1>5
    <2> QED
        BY <1>3, <1>4, <2>1, FS_Subset
<1>9. Max(S) \in S /\ \A m \in S : m <= Max(S)
    BY <1>8, Maximum
<1> QED
    BY <1>3, <1>5, <1>6, <1>7, <1>9

-----------------------------------------------------------------------------
(* Types.                                                                  *)

(* No time lies ahead of the clock, and the clock and the versions of the  *)
(* issues do not run ahead of the changes.                                 *)
ClockInv ==
    /\ clock <= changes
    /\ \A i \in DOMAIN issues : issues[i].updated <= clock /\ issues[i].version <= changes
    /\ \A r \in Repos : cursor[r] <= clock
    /\ \A w \in Workers :
           newest[w] <= clock /\ \A r \in Repos : next_since[w][r] <= clock

LEMMA InitTypes == Init => TypeOK /\ ClockInv
<1> SUFFICES ASSUME Init PROVE TypeOK /\ ClockInv
    OBVIOUS
<1>1. 1 \in DOMAIN RepoList
    <2>1. RepoList \in Seq(Repos) /\ RepoList # <<>>
        OBVIOUS
    <2> QED
        BY <2>1
<1>2. issues \in Seq(Issue) /\ Len(issues) = 0 /\ DOMAIN issues = {}
    BY DEF Init
<1>3. NoSince \in [Repos -> 0..MaxChanges] /\ NoBatch \in DB!Batch
    BY DEF NoSince, NoBatch, DB!Batch, DB!NoRow
<1>4. TypeOK
    BY <1>1, <1>2, <1>3 DEF Init, TypeOK, DB!Init, DB!Batch, DB!NoRow
<1>5. ClockInv
    BY <1>2 DEF Init, ClockInv, NoSince
<1> QED
    BY <1>4, <1>5

(* What a change does to the clock.                                        *)
LEMMA ChangedClock ==
    ASSUME TypeOK, ClockInv, NEW r, Changed(r)
    PROVE  /\ changes \in Nat /\ changes' = changes + 1 /\ changes' \in 0..MaxChanges
           /\ clock' \in 1..MaxChanges /\ clock <= clock' /\ clock' <= changes'
<1>1. changes \in Nat /\ changes' = changes + 1 /\ changes' \in 0..MaxChanges
    BY DEF TypeOK, Changed
<1>2. clock \in Nat /\ clock <= changes /\ ((clock' = clock /\ clock > 0) \/ clock' = clock + 1)
    BY DEF TypeOK, ClockInv, Changed
<1> QED
    BY <1>1, <1>2

(* The issues after a change: types, and what a change leaves alone.       *)
LEMMA IssuesChange ==
    ASSUME TypeOK, ClockInv, NEW r \in Repos,
           \/ Create(r)
           \/ \E i \in Numbers : Update(i) /\ r = issues[i].repo
    PROVE  /\ issues' \in Seq(Issue) /\ Len(issues') <= MaxIssues
           /\ DOMAIN issues \subseteq DOMAIN issues'
           /\ \A i \in DOMAIN issues :
                  issues'[i].repo = issues[i].repo
                  /\ (issues[i].repo # r => issues'[i] = issues[i])
           /\ \A i \in DOMAIN issues' :
                  \/ i \in DOMAIN issues /\ issues'[i] = issues[i]
                  \/ /\ issues'[i].repo = r
                     /\ issues'[i].updated = clock'
                     /\ issues'[i].version <= changes'
           /\ Changed(r)
<1>1. issues \in Seq(Issue) /\ Len(issues) \in Nat
    BY DEF TypeOK
<1>2. CASE Create(r)
    <2> DEFINE new == [repo |-> r, updated |-> clock', version |-> 1]
    <2>1. Changed(r) /\ Len(issues) < MaxIssues /\ issues' = Append(issues, new)
        BY <1>2 DEF Create
    <2>2. new \in Issue
        BY <2>1, ChangedClock DEF Issue
    <2>3. 1 <= changes'
        BY <2>1, ChangedClock
    <2>4. new.repo = r /\ new.updated = clock' /\ new.version = 1
        OBVIOUS
    <2> HIDE DEF new
    <2>5. /\ issues' \in Seq(Issue) /\ Len(issues') = Len(issues) + 1
          /\ DOMAIN issues = 1..Len(issues) /\ DOMAIN issues' = 1..(Len(issues) + 1)
          /\ issues'[Len(issues) + 1] = new
          /\ \A i \in DOMAIN issues : issues'[i] = issues[i]
        BY <1>1, <2>1, <2>2
    <2>6. \A i \in DOMAIN issues' : i \in DOMAIN issues \/ i = Len(issues) + 1
        BY <1>1, <2>5
    <2> QED
        BY <1>1, <2>1, <2>3, <2>4, <2>5, <2>6
<1>3. CASE \E i \in Numbers : Update(i) /\ r = issues[i].repo
    <2>1. PICK i \in Numbers : Update(i) /\ r = issues[i].repo
        BY <1>3
    <2> DEFINE new == [issues[i] EXCEPT !.updated = clock', !.version = issues[i].version + 1]
    <2>2. i \in DOMAIN issues /\ Changed(r)
        BY <2>1 DEF Update
    <2>3. issues[i] \in Issue /\ issues[i].version \in Nat \ {0} /\ issues[i].version <= changes
        BY <2>2, IssueTypes DEF ClockInv
    <2>4. issues' = [issues EXCEPT ![i] = new]
        BY <1>1, <2>1, <2>2 DEF Update
    <2>5. issues[i].version + 1 \in 1..MaxChanges /\ issues[i].version + 1 <= changes'
        BY <2>2, <2>3, ChangedClock
    <2>6. new \in Issue /\ new.repo = issues[i].repo /\ new.updated = clock'
             /\ new.version = issues[i].version + 1
        BY <2>2, <2>3, <2>5, ChangedClock DEF Issue
    <2>7. new.repo = r /\ new.updated = clock' /\ new.version <= changes'
        BY <2>1, <2>5, <2>6
    <2> HIDE DEF new
    <2>8. /\ issues' \in Seq(Issue) /\ Len(issues') = Len(issues)
          /\ DOMAIN issues' = DOMAIN issues
          /\ issues'[i] = new
          /\ \A j \in DOMAIN issues : j # i => issues'[j] = issues[j]
        BY <1>1, <2>2, <2>4, <2>6
    <2>9. Len(issues') <= MaxIssues
        BY <2>8 DEF TypeOK
    <2> QED
        BY <2>1, <2>2, <2>7, <2>8, <2>9
<1> QED
    BY <1>2, <1>3

(* A change keeps the types.                                               *)
LEMMA ChangeTypes ==
    ASSUME TypeOK, ClockInv, NEW r \in Repos,
           \/ Create(r)
           \/ \E i \in Numbers : Update(i) /\ r = issues[i].repo
    PROVE  TypeOK' /\ ClockInv'
<1>1. Changed(r)
    BY IssuesChange
<1>2. /\ issues' \in Seq(Issue) /\ Len(issues') <= MaxIssues
      /\ \A i \in DOMAIN issues' :
             \/ i \in DOMAIN issues /\ issues'[i] = issues[i]
             \/ /\ issues'[i].updated = clock'
                /\ issues'[i].version <= changes'
    BY IssuesChange
<1>3. /\ changes \in Nat /\ changes' = changes + 1 /\ changes' \in 0..MaxChanges
      /\ clock' \in 1..MaxChanges /\ clock <= clock' /\ clock' <= changes'
    BY <1>1, ChangedClock
<1>4. UNCHANGED <<cursor, baseline, pc, at, page, since, newest, next_since, batch,
                  faults, messages, reported>>
    BY <1>1 DEF Changed, walk, dbVars
<1>5. moved' \subseteq Repos
    BY <1>1 DEF Changed, TypeOK
<1>6. TypeOK'
    BY <1>2, <1>3, <1>4, <1>5 DEF TypeOK
<1>7. clock \in Nat
    BY DEF TypeOK
<1>8. \A i \in DOMAIN issues' : issues'[i].updated <= clock' /\ issues'[i].version <= changes'
    <2>1. \A i \in DOMAIN issues : issues[i].updated \in Nat /\ issues[i].version \in Nat
        BY IssueTypes
    <2> QED
        BY <1>2, <1>3, <1>7, <2>1 DEF ClockInv
<1>9. \A r1 \in Repos : cursor[r1] \in Nat
    BY DEF TypeOK
<1>10. \A w \in Workers : newest[w] \in Nat /\ \A r1 \in Repos : next_since[w][r1] \in Nat
    BY DEF TypeOK
<1>11. \A r1 \in Repos : cursor'[r1] <= clock'
    BY <1>3, <1>4, <1>7, <1>9 DEF ClockInv
<1>12. \A w \in Workers :
           newest'[w] <= clock' /\ \A r1 \in Repos : next_since'[w][r1] <= clock'
    BY <1>3, <1>4, <1>7, <1>10 DEF ClockInv
<1> QED
    BY <1>3, <1>6, <1>8, <1>11, <1>12 DEF ClockInv

(* Reset leaves every worker well typed.                                   *)
LEMMA ResetTypes ==
    ASSUME TypeOK, ClockInv, NEW w \in Workers, Reset(w)
    PROVE  /\ pc' \in [Workers -> {"idle", "asking", "waiting", "committing", "committed"}]
           /\ at' \in [Workers -> DOMAIN RepoList]
           /\ page' \in [Workers -> 1..MaxPages]
           /\ since' \in [Workers -> 0..MaxChanges]
           /\ newest' \in [Workers -> 0..MaxChanges]
           /\ next_since' \in [Workers -> [Repos -> 0..MaxChanges]]
           /\ batch' \in [Workers -> DB!Batch]
           /\ \A o \in Workers :
                  newest'[o] <= clock /\ \A r \in Repos : next_since'[o][r] <= clock
<1>1. 1 \in DOMAIN RepoList
    BY AtTypes
<1>2. NoSince \in [Repos -> 0..MaxChanges] /\ \A r \in Repos : NoSince[r] = 0
    BY DEF NoSince
<1>3. NoBatch \in DB!Batch
    BY DEF NoBatch, DB!Batch, DB!NoRow
<1>4. /\ pc' \in [Workers -> {"idle", "asking", "waiting", "committing", "committed"}]
      /\ at' \in [Workers -> DOMAIN RepoList]
      /\ page' \in [Workers -> 1..MaxPages]
      /\ since' \in [Workers -> 0..MaxChanges]
      /\ newest' \in [Workers -> 0..MaxChanges]
      /\ next_since' \in [Workers -> [Repos -> 0..MaxChanges]]
      /\ batch' \in [Workers -> DB!Batch]
    <2>1. /\ pc' \in [Workers -> {"idle", "asking", "waiting", "committing", "committed"}]
          /\ at' \in [Workers -> DOMAIN RepoList]
        BY <1>1 DEF TypeOK, Reset
    <2>2. 1 \in 1..MaxPages /\ 0 \in 0..MaxChanges
        OBVIOUS
    <2>3. /\ page' \in [Workers -> 1..MaxPages]
          /\ since' \in [Workers -> 0..MaxChanges]
          /\ newest' \in [Workers -> 0..MaxChanges]
        BY <2>2 DEF TypeOK, Reset
    <2>4. /\ next_since' \in [Workers -> [Repos -> 0..MaxChanges]]
          /\ batch' \in [Workers -> DB!Batch]
        BY <1>2, <1>3 DEF TypeOK, Reset
    <2> QED
        BY <2>1, <2>3, <2>4
<1>5. clock \in Nat
    BY DEF TypeOK
<1>6. ASSUME NEW o \in Workers
      PROVE  newest'[o] <= clock /\ \A r \in Repos : next_since'[o][r] <= clock
    <2>1. CASE o = w
        BY <1>2, <1>5, <2>1 DEF Reset, TypeOK
    <2>2. CASE o # w
        BY <2>2 DEF Reset, TypeOK, ClockInv
    <2> QED
        BY <2>1, <2>2
<1> QED
    BY <1>4, <1>6

(* The commit of a batch: types, and the rows it writes.                   *)
LEMMA SyncEffect ==
    ASSUME NEW b \in DB!Batch, messages \in DB!Batch, reported \in Nat,
           DB!Sync(b)
    PROVE  /\ messages' \in DB!Batch
           /\ reported' \in Nat
           /\ \A i \in Numbers : messages'[i] = IF b[i] = 0 THEN messages[i] ELSE b[i]
<1>1. messages' = [i \in Numbers |-> IF b[i] = DB!NoRow THEN messages[i] ELSE b[i]]
    BY DEF DB!Sync, DB!Overlay
<1>2. Cardinality(DB!NewKeys(messages, b)) \in Nat
    <2>1. DB!NewKeys(messages, b) \in SUBSET Numbers
        BY DEF DB!NewKeys
    <2>2. IsFiniteSet(Numbers)
        BY FS_Interval
    <2> QED
        BY <2>1, <2>2, FS_Subset, FS_CardinalityType
<1>3. reported' = reported + Cardinality(DB!NewKeys(messages, b))
    <2>1. reported' = reported + DB!Cardinality(DB!NewKeys(messages, b))
        BY DEF DB!Sync
    <2>2. \A S : DB!Cardinality(S) = Cardinality(S)
        BY DEF DB!Cardinality, Cardinality
    <2> QED
        BY <2>1, <2>2
<1>4. reported + Cardinality(DB!NewKeys(messages, b)) \in Nat
    BY <1>2
<1> QED
    BY <1>1, <1>3, <1>4 DEF DB!Batch, DB!NoRow

(* A page leaves the transaction and max_updated well typed.               *)
LEMMA ReceiveTypes ==
    ASSUME TypeOK, ClockInv, NEW w \in Workers, Receive(w)
    PROVE  /\ batch' \in [Workers -> DB!Batch]
           /\ \A i \in Numbers : batch'[w][i] =
                  IF i \in Shown(w) \ Pulls THEN issues[i].version ELSE batch[w][i]
           /\ \A o \in Workers : o # w => batch'[o] = batch[o]
           /\ Newest(w) \in 0..MaxChanges /\ Newest(w) <= clock
<1> DEFINE b == [i \in Numbers |->
                    IF i \in Shown(w) \ Pulls THEN issues[i].version ELSE batch[w][i]]
<1>1. batch \in [Workers -> DB!Batch]
    BY DEF TypeOK
<1>2. batch' = [batch EXCEPT ![w] = b]
    BY <1>1 DEF Receive
<1>3. b \in DB!Batch
    <2>1. \A i \in Shown(w) : issues[i].version \in 1..MaxChanges
        BY AtTypes, IssueTypes
    <2>2. batch[w] \in DB!Batch
        BY <1>1
    <2> QED
        BY <2>1, <2>2 DEF DB!Batch, DB!NoRow
<1>4. \A i \in Numbers : b[i] =
          IF i \in Shown(w) \ Pulls THEN issues[i].version ELSE batch[w][i]
    OBVIOUS
<1>5. Newest(w) \in 0..MaxChanges /\ Newest(w) <= clock
    <2>1. \A i \in Shown(w) : issues[i].updated <= clock
        BY AtTypes DEF ClockInv
    <2> QED
        BY <2>1, NewestSeen DEF ClockInv
<1> HIDE DEF b
<1> QED
    BY <1>1, <1>2, <1>3, <1>4, <1>5

(* Every step of a sync that goes on keeps the types.                      *)
LEMMA ProceedTypes ==
    ASSUME TypeOK, ClockInv, NEW w \in Workers, Proceed(w)
    PROVE  TypeOK' /\ ClockInv'
<1> USE DEF github, walk, dbVars
<1>1. CASE Start(w)
    <2>1. TypeOK'
        BY <1>1 DEF TypeOK, Start
    <2> QED
        BY <1>1, <2>1 DEF ClockInv, Start
<1>2. CASE Ask(w)
    <2>1. Repo(w) \in Repos
        BY AtTypes
    <2>2. TypeOK'
        BY <1>2, <2>1 DEF TypeOK, Ask
    <2> QED
        BY <1>2, <2>2 DEF ClockInv, Ask
<1>3. CASE NextPage(w)
    <2>1. Receive(w) /\ MorePages(w)
        BY <1>3 DEF NextPage
    <2>2. batch' \in [Workers -> DB!Batch] /\ Newest(w) \in 0..MaxChanges /\ Newest(w) <= clock
        BY <2>1, ReceiveTypes
    <2>3. UNCHANGED <<issues, changes, clock, cursor, baseline, moved, faults, messages, reported>>
        BY <2>1 DEF Receive
    <2>4. page[w] + 1 \in 1..MaxPages
        BY <2>1, AtTypes DEF MorePages
    <2>5. /\ page' = [page EXCEPT ![w] = @ + 1]
          /\ newest' = [newest EXCEPT ![w] = Newest(w)]
          /\ pc' = [pc EXCEPT ![w] = "asking"]
          /\ UNCHANGED <<at, since, next_since>>
        BY <1>3 DEF NextPage
    <2>6. TypeOK'
        <3>1. page' \in [Workers -> 1..MaxPages]
            BY <2>4, <2>5 DEF TypeOK
        <3>2. newest' \in [Workers -> 0..MaxChanges]
            BY <2>2, <2>5 DEF TypeOK
        <3> QED
            BY <2>2, <2>3, <2>5, <3>1, <3>2 DEF TypeOK
    <2>7. \A o \in Workers : newest'[o] <= clock'
        BY <2>2, <2>3, <2>5 DEF TypeOK, ClockInv
    <2> QED
        BY <2>3, <2>5, <2>6, <2>7 DEF ClockInv
<1>4. CASE LastPage(w)
    <2>1. Receive(w)
        BY <1>4 DEF LastPage
    <2>2. batch' \in [Workers -> DB!Batch] /\ Newest(w) \in 0..MaxChanges /\ Newest(w) <= clock
        BY <2>1, ReceiveTypes
    <2>3. UNCHANGED <<issues, changes, clock, cursor, baseline, moved, faults, messages, reported>>
        BY <2>1 DEF Receive
    <2>4. next_since' \in [Workers -> [Repos -> 0..MaxChanges]]
        BY <1>4, <2>2, AtTypes DEF TypeOK, LastPage
    <2>5. newest' \in [Workers -> 0..MaxChanges] /\ since' \in [Workers -> 0..MaxChanges]
          /\ page' \in [Workers -> 1..MaxPages]
        <3>1. 1 \in 1..MaxPages /\ 0 \in 0..MaxChanges
            OBVIOUS
        <3>2. /\ newest' = [newest EXCEPT ![w] = 0]
              /\ since' = [since EXCEPT ![w] = 0]
              /\ page' = [page EXCEPT ![w] = 1]
            BY <1>4 DEF LastPage
        <3> QED
            BY <3>1, <3>2 DEF TypeOK
    <2>6. at' \in [Workers -> DOMAIN RepoList]
        <3>1. CASE at[w] < Len(RepoList)
            <4>1. at[w] + 1 \in DOMAIN RepoList
                BY <3>1, AtTypes
            <4>2. at' = [at EXCEPT ![w] = @ + 1]
                BY <1>4, <3>1 DEF LastPage
            <4> QED
                BY <4>1, <4>2 DEF TypeOK
        <3>2. CASE ~(at[w] < Len(RepoList))
            BY <1>4, <3>2 DEF TypeOK, LastPage
        <3> QED
            BY <3>1, <3>2
    <2>7. pc' \in [Workers -> {"idle", "asking", "waiting", "committing", "committed"}]
        BY <1>4 DEF TypeOK, LastPage
    <2>8. TypeOK'
        BY <2>2, <2>3, <2>4, <2>5, <2>6, <2>7 DEF TypeOK
    <2>9. \A o \in Workers : newest'[o] <= clock'
        <3>1. 0 <= clock
            BY DEF TypeOK
        <3> QED
            BY <1>4, <2>3, <3>1 DEF TypeOK, ClockInv, LastPage
    <2>10. \A o \in Workers : \A r \in Repos : next_since'[o][r] <= clock'
        BY <1>4, <2>2, <2>3, AtTypes DEF TypeOK, ClockInv, LastPage
    <2> QED
        BY <2>3, <2>8, <2>9, <2>10 DEF ClockInv
<1>5. CASE Commit(w)
    <2>1. batch[w] \in DB!Batch
        BY DEF TypeOK
    <2>2. messages' \in DB!Batch /\ reported' \in Nat
        BY <1>5, <2>1, SyncEffect DEF TypeOK, Commit
    <2>3. TypeOK'
        BY <1>5, <2>2 DEF TypeOK, Commit
    <2> QED
        BY <1>5, <2>3 DEF ClockInv, Commit
<1>6. CASE AdvanceCursor(w)
    <2>1. PICK n \in DOMAIN RepoList : Staged(w, n) /\ SetCursor(w, RepoList[n])
        BY <1>6 DEF AdvanceCursor
    <2>2. RepoList[n] \in Repos
        OBVIOUS
    <2>3. UNCHANGED <<issues, changes, clock, moved, pc, at, page, since, newest, batch,
                      faults, messages, reported>>
        BY <1>6 DEF AdvanceCursor
    <2>4. cursor' \in [Repos -> 0..MaxChanges] /\ baseline' \in [Repos -> 0..MaxChanges]
        <3>1. next_since[w][RepoList[n]] \in 0..MaxChanges
            BY <2>2 DEF TypeOK
        <3>2. cursor' = [cursor EXCEPT ![RepoList[n]] = next_since[w][RepoList[n]]]
            BY <2>1 DEF SetCursor
        <3>3. \/ baseline' = [baseline EXCEPT ![RepoList[n]] = next_since[w][RepoList[n]]]
              \/ baseline' = baseline
            BY <2>1 DEF SetCursor
        <3> QED
            BY <2>2, <3>1, <3>2, <3>3 DEF TypeOK
    <2>5. next_since' \in [Workers -> [Repos -> 0..MaxChanges]]
        <3>1. next_since' = [next_since EXCEPT ![w][RepoList[n]] = 0]
            BY <2>1 DEF SetCursor
        <3>2. 0 \in 0..MaxChanges
            OBVIOUS
        <3> QED
            BY <2>2, <3>1, <3>2 DEF TypeOK
    <2>6. TypeOK'
        BY <2>3, <2>4, <2>5 DEF TypeOK
    <2>7. \A r \in Repos : cursor'[r] <= clock
        BY <2>1, <2>2 DEF TypeOK, ClockInv, SetCursor
    <2>8. \A o \in Workers, r \in Repos : next_since'[o][r] <= clock
        <3>1. 0 <= clock
            BY DEF TypeOK
        <3> QED
            BY <2>1, <2>2, <3>1 DEF TypeOK, ClockInv, SetCursor
    <2> QED
        BY <2>3, <2>6, <2>7, <2>8 DEF ClockInv
<1>7. CASE Finish(w)
    <2>1. Reset(w) /\ UNCHANGED <<github, cursor, baseline, moved, faults, dbVars>>
        BY <1>7 DEF Finish
    <2>2. TypeOK'
        BY <2>1, ResetTypes DEF TypeOK
    <2> QED
        BY <2>1, <2>2, ResetTypes DEF ClockInv
<1> QED
    BY <1>1, <1>2, <1>3, <1>4, <1>5, <1>6, <1>7 DEF Proceed

(* So does every failure.                                                  *)
LEMMA FailureTypes ==
    ASSUME TypeOK, ClockInv, NEW w \in Workers, Fail(w) \/ CommitUnheard(w)
    PROVE  TypeOK' /\ ClockInv'
<1> USE DEF github, dbVars
<1>1. Reset(w) /\ UNCHANGED <<issues, changes, clock, cursor, baseline, moved>>
    BY DEF Fail, CommitUnheard
<1>2. faults' \in 0..MaxFaults
    <2>1. faults < MaxFaults /\ faults' = faults + 1
        BY DEF Fail, CommitUnheard
    <2> QED
        BY <2>1 DEF TypeOK
<1>3. messages' \in DB!Batch /\ reported' \in Nat
    <2>1. CASE Fail(w)
        BY <2>1 DEF TypeOK, Fail
    <2>2. CASE CommitUnheard(w)
        <3>1. batch[w] \in DB!Batch
            BY DEF TypeOK
        <3> QED
            BY <2>2, <3>1, SyncEffect DEF TypeOK, CommitUnheard
    <2> QED
        BY <2>1, <2>2
<1>4. TypeOK'
    BY <1>1, <1>2, <1>3, ResetTypes DEF TypeOK
<1> QED
    BY <1>1, <1>4, ResetTypes DEF ClockInv

LEMMA NextTypes ==
    ASSUME TypeOK, ClockInv, [Next]_vars
    PROVE  TypeOK' /\ ClockInv'
<1>1. ASSUME NEW r \in Repos, Create(r)
      PROVE  TypeOK' /\ ClockInv'
    BY <1>1, ChangeTypes
<1>2. ASSUME NEW i \in Numbers, Update(i)
      PROVE  TypeOK' /\ ClockInv'
    <2>1. issues[i].repo \in Repos
        BY <1>2, IssueTypes DEF Update
    <2> QED
        BY <1>2, <2>1, ChangeTypes
<1>3. CASE UNCHANGED vars
    <2>1. TypeOK'
        BY <1>3 DEF TypeOK, vars, github, walk, dbVars
    <2> QED
        BY <1>3, <2>1 DEF ClockInv, vars, github, walk, dbVars
<1> QED
    BY <1>1, <1>2, <1>3, ProceedTypes, FailureTypes DEF Next

(* Every state of the GitHub pipeline is well typed: the cap on pages, the *)
(* cursors and max_updated stay in their ranges, and a transaction holds   *)
(* only versions that issues have had.                                     *)
THEOREM TypeCorrect == Spec => []TypeOK
<1>1. Init => TypeOK /\ ClockInv
    BY InitTypes
<1>2. TypeOK /\ ClockInv /\ [Next]_vars => TypeOK' /\ ClockInv'
    BY NextTypes
<1> QED
    BY <1>1, <1>2, PTL DEF Spec

-----------------------------------------------------------------------------
(* Nothing slips.                                                          *)

(* No later sync has to list the issue, or, for Safe, none has to once the *)
(* transaction of w is committed.                                          *)
Held(i) == i \in Pulls \/ LeftOut(i) \/ Current(i)
Safe(w, i) == Held(i) \/ batch[w][i] # 0

Paging(w) == pc[w] \in {"asking", "waiting"}

(* n is the newest time on all pages that a backfill of the repository     *)
(* asks for.                                                               *)
Reaches(r, n) ==
    /\ \A i \in First(r, 0, MaxPages) : issues[i].updated <= n
    /\ \E i \in First(r, 0, MaxPages) : issues[i].updated = n

(* What is behind the cursor of a repository whose listing never moved     *)
(* under a sync is held.                                                   *)
SlipInv ==
    /\ \A r \in Repos : cursor[r] = 0 <=> baseline[r] = 0
    /\ \A i \in DOMAIN issues :
           issues[i].repo \notin moved /\ issues[i].updated < cursor[issues[i].repo]
               => Held(i)

(* Where a sync starts, and which repositories it has staged cursors for.  *)
SyncInv(w) ==
    /\ pc[w] = "idle" => page[w] = 1
    /\ pc[w] \in {"idle", "asking"} /\ page[w] = 1 => since[w] = 0
    /\ page[w] = 1 => newest[w] = 0
    /\ \A r \in Repos : next_since[w][r] # 0 => Engaged(w, r)

(* The issues in a transaction are as they are at GitHub, and are stored   *)
(* like that once it is committed.                                         *)
BatchInv(w) ==
    \A i \in Numbers : batch[w][i] # 0 =>
        /\ i \in DOMAIN issues
        /\ \A r \in Repos : r = issues[i].repo => Engaged(w, r)
        /\ issues[i].repo \notin moved =>
               /\ batch[w][i] = issues[i].version
               /\ pc[w] = "committed" => Current(i)

(* A sync that lists updates since s and has seen n pages: what is older   *)
(* than s is held, what is on the pages or older than anything on them is  *)
(* safe.                                                                   *)
CatchingUp(w, r, s, n) ==
    /\ cursor[r] > 0
    /\ \A i \in DOMAIN issues : issues[i].repo = r =>
           /\ issues[i].updated < s => Held(i)
           /\ i \in First(r, s, n) => Safe(w, i)
           /\ issues[i].updated < newest[w] => Safe(w, i)

(* A sync that backfills and has seen n pages: max_updated is the newest   *)
(* time on them.  If another backfill was first to set the cursor, it has  *)
(* seen the same pages.                                                    *)
BackFilling(w, r, n) ==
    /\ \A i \in First(r, 0, n) : issues[i].updated <= newest[w]
    /\ newest[w] # 0 => \E i \in First(r, 0, n) : issues[i].updated = newest[w]
    /\ \A b \in Nat : pc[w] = "waiting" /\ b = baseline[r] /\ b # 0 => Reaches(r, b)

WalkInv(w) ==
    \A r \in Repos, s \in Nat, n \in Nat :
        Paging(w) /\ r \notin moved /\ r = Repo(w) /\ s = since[w] /\ n = page[w] - 1
            => IF s = 0 THEN BackFilling(w, r, n) ELSE CatchingUp(w, r, s, n)

(* A staged cursor is where a backfill ends, or everything behind it is    *)
(* safe.                                                                   *)
StagedInv(w) ==
    \A r \in Repos, m \in Nat :
        r \notin moved /\ m = next_since[w][r] /\ m # 0 =>
            IF baseline[r] = 0 THEN Reaches(r, m)
            ELSE \A i \in DOMAIN issues :
                     issues[i].repo = r /\ issues[i].updated < m => Safe(w, i)

WorkerInv(w) == SyncInv(w) /\ BatchInv(w) /\ WalkInv(w) /\ StagedInv(w)

(* The inductive invariant.                                                *)
IInv ==
    /\ TypeOK /\ ClockInv
    /\ SlipInv
    /\ \A w \in Workers : WorkerInv(w)

(* The pages depend on nothing but the issues.                             *)
LEMMA SamePages ==
    ASSUME issues' = issues, NEW r, NEW s, NEW n
    PROVE  First(r, s, n)' = First(r, s, n)
<1>1. Listing(r, s)' = Listing(r, s)
    BY DEF Listing
<1>2. \A i, j : Before(i, j, s)' <=> Before(i, j, s)
    BY DEF Before
<1>3. \A i : Rank(i, r, s)' = Rank(i, r, s)
    BY <1>1, <1>2 DEF Rank
<1> QED
    BY <1>1, <1>3 DEF First

LEMMA SameReach ==
    ASSUME issues' = issues, NEW r, NEW n
    PROVE  Reaches(r, n)' <=> Reaches(r, n)
<1>1. First(r, 0, MaxPages)' = First(r, 0, MaxPages)
    BY SamePages
<1> QED
    BY <1>1 DEF Reaches

(* The pages a backfill asks for reach one time only.                      *)
LEMMA ReachesOne ==
    ASSUME TypeOK, NEW r, NEW m \in Nat, NEW n \in Nat, Reaches(r, m), Reaches(r, n)
    PROVE  m = n
BY DEF Reaches

(* What is held stays held as long as rows stay current and baselines are  *)
(* set once.                                                               *)
LEMMA HeldStays ==
    ASSUME TypeOK, issues' = issues, NEW i \in DOMAIN issues, Held(i),
           Current(i) => Current(i)',
           LET r == issues[i].repo IN baseline'[r] = baseline[r] \/ baseline[r] = 0
    PROVE  Held(i)'
<1>1. issues[i].updated >= 1 /\ issues[i].updated \in Nat
    BY IssueTypes
<1>2. CASE LeftOut(i)
    <2>1. baseline[issues[i].repo] # 0
        BY <1>1, <1>2 DEF LeftOut
    <2>2. LeftOut(i)'
        BY <1>2, <2>1 DEF LeftOut
    <2> QED
        BY <2>2 DEF Held
<1> QED
    BY <1>2 DEF Held

(* Whatever is at or before the first cursor of its repository is held.    *)
LEMMA BaselineHeld ==
    ASSUME NEW i \in DOMAIN issues, issues[i].updated <= baseline[issues[i].repo],
           TypeOK
    PROVE  Held(i)
<1>1. issues[i].updated \in Nat /\ issues[i].repo \in Repos
    BY IssueTypes
<1>2. baseline[issues[i].repo] \in Nat
    BY <1>1 DEF TypeOK
<1> QED
    BY <1>1, <1>2 DEF Held, LeftOut

(* A sync is engaged with the repository it is at.                         *)
LEMMA AtEngaged ==
    ASSUME TypeOK, NEW w \in Workers, pc[w] # "idle"
    PROVE  Engaged(w, Repo(w))
<1>1. at[w] \in 1..at[w]
    BY AtTypes
<1> QED
    BY <1>1 DEF Engaged, Repo

(* A worker that was reset is where every sync starts.                     *)
LEMMA ResetInv ==
    ASSUME TypeOK, NEW w \in Workers, Reset(w)
    PROVE  WorkerInv(w)'
<1>1. /\ pc'[w] = "idle" /\ page'[w] = 1 /\ since'[w] = 0 /\ newest'[w] = 0
      /\ next_since'[w] = NoSince /\ batch'[w] = NoBatch
    BY DEF TypeOK, Reset
<1>2. (\A r \in Repos : next_since'[w][r] = 0) /\ (\A i \in Numbers : batch'[w][i] = 0)
    BY <1>1 DEF NoSince, NoBatch, DB!NoRow
<1>3. SyncInv(w)' /\ BatchInv(w)'
    BY <1>1, <1>2 DEF SyncInv, BatchInv
<1>4. WalkInv(w)' /\ StagedInv(w)'
    BY <1>1, <1>2 DEF WalkInv, StagedInv, Paging
<1> QED
    BY <1>3, <1>4 DEF WorkerInv

LEMMA InitInv == Init => IInv
<1> SUFFICES ASSUME Init PROVE IInv
    OBVIOUS
<1>1. TypeOK /\ ClockInv
    BY InitTypes
<1>2. DOMAIN issues = {} /\ \A r \in Repos : cursor[r] = 0 /\ baseline[r] = 0
    BY DEF Init, NoSince
<1>3. SlipInv
    BY <1>2 DEF SlipInv
<1>4. ASSUME NEW w \in Workers
      PROVE  WorkerInv(w)
    <2>1. pc[w] = "idle" /\ page[w] = 1 /\ since[w] = 0 /\ newest[w] = 0
        BY DEF Init
    <2>2. \A r \in Repos : next_since[w][r] = 0
        BY DEF Init, NoSince
    <2>3. \A i \in Numbers : batch[w][i] = 0
        BY DEF Init, NoBatch, DB!NoRow
    <2> QED
        BY <2>1, <2>2, <2>3 DEF WorkerInv, SyncInv, BatchInv, WalkInv, StagedInv, Paging
<1> QED
    BY <1>1, <1>3, <1>4 DEF IInv

(* A step that leaves the issues and a worker's own variables alone keeps  *)
(* what is known of that worker, if it keeps rows and cursors, and sets a  *)
(* first cursor only to where backfills end.                               *)
LEMMA OthersStay ==
    ASSUME IInv, NEW o \in Workers, issues' = issues, moved \subseteq moved',
           /\ pc'[o] = pc[o] /\ at'[o] = at[o] /\ page'[o] = page[o]
           /\ since'[o] = since[o] /\ newest'[o] = newest[o]
           /\ next_since'[o] = next_since[o] /\ batch'[o] = batch[o],
           \A i \in DOMAIN issues :
               issues[i].repo \notin moved' /\ Current(i) => Current(i)',
           \A r \in Repos :
               /\ cursor[r] > 0 => cursor'[r] > 0
               /\ \/ baseline'[r] = baseline[r]
                  \/ /\ baseline[r] = 0 /\ baseline'[r] \in Nat
                     /\ r \notin moved' => \A n \in Nat : n = baseline'[r] => Reaches(r, n)
    PROVE  WorkerInv(o)'
<1>1. TypeOK /\ WorkerInv(o)
    BY DEF IInv
<1>2. \A i \in DOMAIN issues :
          /\ issues[i].repo \in Repos
          /\ issues[i].repo \notin moved' /\ Held(i) => Held(i)'
          /\ issues[i].repo \notin moved' /\ Safe(o, i) => Safe(o, i)'
    <2>1. ASSUME NEW i \in DOMAIN issues, issues[i].repo \notin moved', Held(i)
          PROVE  Held(i)'
        <3>1. issues[i].repo \in Repos
            BY <1>1, IssueTypes
        <3>2. Current(i) => Current(i)'
            BY <2>1
        <3>3. baseline'[issues[i].repo] = baseline[issues[i].repo] \/ baseline[issues[i].repo] = 0
            BY <3>1
        <3> QED
            BY <1>1, <2>1, <3>2, <3>3, HeldStays
    <2> QED
        BY <1>1, <2>1, IssueTypes DEF Safe
<1>3. \A r \in Repos, n \in Nat : Reaches(r, n)' <=> Reaches(r, n)
    BY SameReach
<1>4. \A r \in Repos, s \in Nat, n \in Nat : First(r, s, n)' = First(r, s, n)
    BY SamePages
<1>5. \A r \in Repos : Engaged(o, r)' <=> Engaged(o, r)
    BY DEF Engaged
<1>6. SyncInv(o)'
    BY <1>1, <1>5 DEF WorkerInv, SyncInv
<1>7. BatchInv(o)'
    BY <1>1, <1>5 DEF WorkerInv, BatchInv
<1>8. WalkInv(o)'
    <2>1. ASSUME NEW r \in Repos, NEW s \in Nat, NEW n \in Nat,
                 Paging(o)', r \notin moved', r = Repo(o)', s = since'[o], n = page'[o] - 1
          PROVE  (IF s = 0 THEN BackFilling(o, r, n) ELSE CatchingUp(o, r, s, n))'
        <3>1. IF s = 0 THEN BackFilling(o, r, n) ELSE CatchingUp(o, r, s, n)
            BY <1>1, <2>1 DEF WorkerInv, WalkInv, Paging, Repo
        <3>2. CASE s = 0
            <4>1. BackFilling(o, r, n)
                BY <3>1, <3>2
            <4>2. ASSUME NEW b \in Nat, pc'[o] = "waiting", b = baseline'[r], b # 0
                  PROVE  Reaches(r, b)'
                BY <1>3, <2>1, <4>1, <4>2 DEF BackFilling
            <4>3. First(r, 0, n)' = First(r, 0, n)
                BY <1>4
            <4>4. BackFilling(o, r, n)'
                BY <4>1, <4>2, <4>3 DEF BackFilling
            <4> QED
                BY <3>2, <4>4
        <3>3. CASE s # 0
            <4>1. CatchingUp(o, r, s, n)
                BY <3>1, <3>3
            <4>2. First(r, s, n)' = First(r, s, n)
                BY <1>4
            <4>3. CatchingUp(o, r, s, n)'
                BY <1>2, <2>1, <4>1, <4>2 DEF CatchingUp
            <4> QED
                BY <3>3, <4>3
        <3> QED
            BY <3>2, <3>3
    <2> QED
        BY <2>1 DEF WalkInv
<1>9. StagedInv(o)'
    <2>1. ASSUME NEW r \in Repos, NEW m \in Nat,
                 r \notin moved', m = next_since'[o][r], m # 0
          PROVE  IF baseline'[r] = 0 THEN Reaches(r, m)'
                 ELSE \A i \in DOMAIN issues :
                          issues[i].repo = r /\ issues[i].updated < m => Safe(o, i)'
        <3>1. IF baseline[r] = 0 THEN Reaches(r, m)
              ELSE \A i \in DOMAIN issues :
                       issues[i].repo = r /\ issues[i].updated < m => Safe(o, i)
            BY <1>1, <2>1 DEF WorkerInv, StagedInv
        <3>2. CASE baseline'[r] = baseline[r]
            BY <1>2, <1>3, <2>1, <3>1, <3>2
        <3>3. CASE baseline[r] = 0 /\ baseline'[r] \in Nat /\ baseline'[r] # 0
            <4>1. Reaches(r, m) /\ \A n \in Nat : n = baseline'[r] => Reaches(r, n)
                BY <2>1, <3>1, <3>3
            <4>2. m = baseline'[r]
                BY <1>1, <3>3, <4>1, ReachesOne
            <4>3. ASSUME NEW i \in DOMAIN issues, issues[i].repo = r, issues[i].updated < m
                  PROVE  Held(i)'
                <5>1. issues[i].updated \in Nat
                    BY <1>1, IssueTypes
                <5> QED
                    BY <3>3, <4>2, <4>3, <5>1 DEF Held, LeftOut
            <4> QED
                BY <3>3, <4>3 DEF Safe
        <3> QED
            BY <1>3, <2>1, <3>1, <3>2, <3>3
    <2> QED
        BY <2>1 DEF StagedInv
<1> QED
    BY <1>6, <1>7, <1>8, <1>9 DEF WorkerInv

-----------------------------------------------------------------------------
(* Each action keeps the invariant.                                        *)

(* Only worker w takes the step.                                           *)
Alone(w) ==
    \A o \in Workers : o # w =>
        /\ pc'[o] = pc[o] /\ at'[o] = at[o] /\ page'[o] = page[o]
        /\ since'[o] = since[o] /\ newest'[o] = newest[o]
        /\ next_since'[o] = next_since[o] /\ batch'[o] = batch[o]

(* A step of w within its own variables leaves the others as they are.     *)
LEMMA QuietStep ==
    ASSUME IInv, NEW w \in Workers, Alone(w), issues' = issues, cursor' = cursor,
           baseline' = baseline, messages' = messages, moved \subseteq moved'
    PROVE  /\ SlipInv'
           /\ \A o \in Workers : o # w => WorkerInv(o)'
           /\ \A i \in DOMAIN issues : Held(i)' <=> Held(i)
           /\ \A r \in Repos, n \in Nat : Reaches(r, n)' <=> Reaches(r, n)
           /\ \A r \in Repos, s \in Nat, n \in Nat : First(r, s, n)' = First(r, s, n)
<1>1. \A i \in DOMAIN issues : Held(i)' <=> Held(i)
    BY DEF Held, LeftOut, Current
<1>2. SlipInv'
    BY <1>1 DEF IInv, SlipInv
<1>3. ASSUME NEW o \in Workers, o # w
      PROVE  WorkerInv(o)'
    <2>1. \A i \in DOMAIN issues : Current(i) => Current(i)'
        BY DEF Current
    <2> QED
        BY <1>3, <2>1, OthersStay DEF Alone
<1> QED
    BY <1>1, <1>2, <1>3, SameReach, SamePages

LEMMA StartInv ==
    ASSUME IInv, NEW w \in Workers, Start(w)
    PROVE  SlipInv' /\ \A o \in Workers : WorkerInv(o)'
<1>1. TypeOK /\ WorkerInv(w)
    BY DEF IInv
<1>2. UNCHANGED <<issues, cursor, baseline, moved, at, page, since, newest, next_since,
                  batch, messages>>
    BY DEF Start, github, walk, dbVars
<1>3. pc[w] = "idle" /\ pc'[w] = "asking" /\ \A o \in Workers : o # w => pc'[o] = pc[o]
    BY <1>1 DEF Start, TypeOK
<1>4. Alone(w)
    BY <1>2, <1>3 DEF Alone
<1>5. page[w] = 1 /\ since[w] = 0 /\ newest[w] = 0
    BY <1>1, <1>3 DEF WorkerInv, SyncInv
<1>6. (\A r \in Repos : next_since[w][r] = 0) /\ (\A i \in Numbers : batch[w][i] = 0)
    <2>1. \A r \in Repos : ~Engaged(w, r)
        BY <1>3 DEF Engaged
    <2>2. \A r \in Repos : next_since[w][r] = 0
        BY <1>1, <2>1 DEF WorkerInv, SyncInv
    <2>3. ASSUME NEW i \in Numbers, batch[w][i] # 0
          PROVE  FALSE
        <3>1. i \in DOMAIN issues /\ \A r \in Repos : r = issues[i].repo => Engaged(w, r)
            BY <1>1, <2>3 DEF WorkerInv, BatchInv
        <3> QED
            BY <1>1, <2>1, <3>1, IssueTypes
    <2> QED
        BY <2>2, <2>3
<1>7. SyncInv(w)' /\ BatchInv(w)' /\ StagedInv(w)'
    BY <1>2, <1>3, <1>5, <1>6 DEF SyncInv, BatchInv, StagedInv
<1>8. WalkInv(w)'
    <2>1. ASSUME NEW r \in Repos
          PROVE  BackFilling(w, r, 0)'
        <3>1. First(r, 0, 0)' = {}
            BY <1>1, <1>2, NoPages, SamePages
        <3> QED
            BY <1>2, <1>3, <1>5, <3>1 DEF BackFilling
    <2>2. since'[w] = 0 /\ page'[w] - 1 = 0
        BY <1>2, <1>5
    <2> QED
        BY <2>1, <2>2 DEF WalkInv
<1>9. WorkerInv(w)'
    BY <1>7, <1>8 DEF WorkerInv
<1> QED
    BY <1>2, <1>4, <1>9, QuietStep

LEMMA AskInv ==
    ASSUME IInv, NEW w \in Workers, Ask(w)
    PROVE  SlipInv' /\ \A o \in Workers : WorkerInv(o)'
<1>0. TypeOK /\ SlipInv /\ WorkerInv(w)
    BY DEF IInv
<1>1. PICK r \in Repos, s \in Nat, n \in Nat :
          r = Repo(w) /\ s = cursor[r] /\ n = page[w] - 1
    <2>1. Repo(w) \in Repos /\ page[w] \in Nat \ {0}
        BY <1>0, AtTypes
    <2>2. cursor[Repo(w)] \in 0..MaxChanges
        BY <1>0, <2>1 DEF TypeOK
    <2> QED
        BY <2>1, <2>2
<1>2. UNCHANGED <<issues, cursor, baseline, at, page, newest, next_since, batch, messages>>
    BY DEF Ask, github, dbVars
<1>3. /\ pc[w] = "asking" /\ pc'[w] = "waiting" /\ since'[w] = s
      /\ \A o \in Workers : o # w => pc'[o] = pc[o] /\ since'[o] = since[o]
    BY <1>0, <1>1 DEF Ask, TypeOK
<1>4. moved \subseteq moved' /\ (r \notin moved' => ~(page[w] > 1 /\ s > since[w]))
    BY <1>1 DEF Ask
<1>5. page[w] \in Nat \ {0} /\ since[w] \in Nat
    BY <1>0, AtTypes
<1>6. Alone(w)
    BY <1>2, <1>3 DEF Alone
<1>7. /\ SlipInv'
      /\ \A o \in Workers : o # w => WorkerInv(o)'
      /\ \A i \in DOMAIN issues : Held(i)' <=> Held(i)
      /\ \A q \in Repos, m \in Nat : Reaches(q, m)' <=> Reaches(q, m)
      /\ \A q \in Repos, t \in Nat, m \in Nat : First(q, t, m)' = First(q, t, m)
    BY <1>2, <1>4, <1>6, QuietStep
<1>8. \A q \in Repos : Engaged(w, q)' <=> Engaged(w, q)
    BY <1>2, <1>3 DEF Engaged
<1>9. \A i \in DOMAIN issues : Safe(w, i)' <=> Safe(w, i)
    BY <1>2, <1>7 DEF Safe
<1>10. SyncInv(w)'
    BY <1>0, <1>2, <1>3, <1>8 DEF WorkerInv, SyncInv
<1>11. BatchInv(w)'
    BY <1>0, <1>2, <1>3, <1>4, <1>8 DEF WorkerInv, BatchInv
<1>12. StagedInv(w)'
    BY <1>0, <1>2, <1>4, <1>7, <1>9 DEF WorkerInv, StagedInv
<1>13. /\ newest[w] \in Nat
       /\ \A i \in DOMAIN issues : issues[i].updated \in Nat /\ issues[i].repo \in Repos
    <2>1. newest[w] \in Nat
        BY <1>0 DEF TypeOK
    <2>2. \A i \in DOMAIN issues : issues[i].updated \in Nat /\ issues[i].repo \in Repos
        BY <1>0, IssueTypes
    <2> QED
        BY <2>1, <2>2
<1>14. page[w] = 1 => First(r, s, n) = {} /\ newest[w] = 0
    BY <1>0, <1>1, NoPages DEF WorkerInv, SyncInv
<1>15. r \notin moved => IF since[w] = 0 THEN BackFilling(w, r, n)
                         ELSE CatchingUp(w, r, since[w], n)
    <2>1. Paging(w)
        BY <1>3 DEF Paging
    <2> QED
        BY <1>0, <1>1, <1>5, <2>1 DEF WorkerInv, WalkInv
<1>16. ASSUME r \notin moved', s = 0
       PROVE  BackFilling(w, r, n)'
    <2>1. baseline[r] = 0
        BY <1>0, <1>1, <1>16 DEF SlipInv
    <2>2. /\ \A i \in First(r, 0, n) : issues[i].updated <= newest[w]
          /\ newest[w] # 0 => \E i \in First(r, 0, n) : issues[i].updated = newest[w]
        <3>1. CASE page[w] = 1
            BY <1>14, <1>16, <3>1
        <3>2. CASE page[w] # 1
            <4>1. r \notin moved
                BY <1>4, <1>16
            <4>2. since[w] = 0
                BY <1>1, <1>5, <1>15, <1>16, <4>1 DEF CatchingUp
            <4> QED
                BY <1>15, <4>1, <4>2 DEF BackFilling
        <3> QED
            BY <3>1, <3>2
    <2>3. First(r, 0, n)' = First(r, 0, n)
        BY <1>5, <1>7
    <2> QED
        BY <1>2, <2>1, <2>2, <2>3 DEF BackFilling
<1>17. ASSUME r \notin moved', s # 0
       PROVE  CatchingUp(w, r, s, n)'
    <2>1. \A i \in DOMAIN issues : issues[i].repo = r =>
              /\ issues[i].updated < s => Held(i)
              /\ i \in First(r, s, n) => Safe(w, i)
              /\ issues[i].updated < newest[w] => Safe(w, i)
        <3>1. CASE page[w] = 1
            <4>1. \A i \in DOMAIN issues :
                      issues[i].repo = r /\ issues[i].updated < s => Held(i)
                BY <1>0, <1>1, <1>4, <1>17 DEF SlipInv
            <4> QED
                BY <1>13, <1>14, <3>1, <4>1
        <3>2. CASE page[w] # 1
            <4>1. r \notin moved /\ s <= since[w] /\ since[w] # 0
                BY <1>4, <1>5, <1>17, <3>2
            <4>2. CatchingUp(w, r, since[w], n)
                BY <1>15, <4>1
            <4>3. ASSUME NEW i \in DOMAIN issues, issues[i].repo = r, issues[i].updated < s
                  PROVE  Held(i)
                <5>1. issues[i].updated < since[w]
                    BY <1>5, <1>13, <4>1, <4>3
                <5> QED
                    BY <4>2, <4>3, <5>1 DEF CatchingUp
            <4>4. ASSUME NEW i \in DOMAIN issues, issues[i].repo = r, i \in First(r, s, n)
                  PROVE  Safe(w, i)
                <5>1. CASE issues[i].updated < since[w]
                    BY <4>2, <4>4, <5>1 DEF CatchingUp, Safe
                <5>2. CASE issues[i].updated >= since[w]
                    <6>1. i \in First(r, since[w], n)
                        BY <1>0, <1>5, <1>17, <4>1, <4>4, <5>2, LaterSinceFirst
                    <6> QED
                        BY <4>2, <4>4, <6>1 DEF CatchingUp
                <5> QED
                    BY <1>5, <1>13, <5>1, <5>2
            <4>5. \A i \in DOMAIN issues :
                      issues[i].repo = r /\ issues[i].updated < newest[w] => Safe(w, i)
                BY <4>2 DEF CatchingUp
            <4> QED
                BY <4>3, <4>4, <4>5
        <3> QED
            BY <3>1, <3>2
    <2>2. First(r, s, n)' = First(r, s, n) /\ s > 0
        BY <1>5, <1>7, <1>17
    <2>3. cursor'[r] > 0
        BY <1>1, <1>2, <2>2
    <2> QED
        BY <1>2, <1>7, <1>9, <2>1, <2>2, <2>3 DEF CatchingUp
<1>18. WalkInv(w)'
    <2>1. Repo(w)' = r /\ since'[w] = s /\ page'[w] - 1 = n
        BY <1>1, <1>2, <1>3 DEF Repo
    <2> QED
        BY <1>16, <1>17, <2>1 DEF WalkInv
<1> QED
    BY <1>7, <1>10, <1>11, <1>12, <1>18 DEF WorkerInv

(* What a page brings: issues as they are at GitHub, of the repository.    *)
LEMMA PageBatch ==
    ASSUME IInv, NEW w \in Workers, Receive(w), Alone(w),
           pc'[w] # "idle", at'[w] \in Nat, at[w] <= at'[w]
    PROVE  /\ \A r \in Repos : Engaged(w, r) => Engaged(w, r)'
           /\ \A i \in Numbers : batch[w][i] # 0 => batch'[w][i] # 0
           /\ \A i \in Shown(w) : i \in Pulls \/ batch'[w][i] # 0
           /\ pc'[w] # "committed" => BatchInv(w)'
<1>1. TypeOK /\ ClockInv /\ BatchInv(w)
    BY DEF IInv, WorkerInv
<1>2. issues' = issues /\ moved' = moved /\ pc[w] = "waiting"
    BY DEF Receive, github
<1>3. \A r \in Repos : Engaged(w, r) => Engaged(w, r)'
    <2>1. at[w] \in Nat
        BY <1>1, AtTypes
    <2>2. 1..at[w] \subseteq 1..at'[w]
        BY <2>1
    <2> QED
        BY <2>2 DEF Engaged
<1>4. \A i \in Numbers : batch'[w][i] =
          IF i \in Shown(w) \ Pulls THEN issues[i].version ELSE batch[w][i]
    BY <1>1, ReceiveTypes
<1>5. Shown(w) \subseteq DOMAIN issues /\ Shown(w) \subseteq Listing(Repo(w), since[w])
          /\ Repo(w) \in Repos
    BY <1>1, AtTypes
<1>6. \A i \in DOMAIN issues : i \in Numbers /\ issues[i].version # 0
    BY <1>1, IssueTypes
<1>7. \A i \in Numbers : batch[w][i] # 0 => batch'[w][i] # 0
    BY <1>4, <1>5, <1>6
<1>8. \A i \in Shown(w) : i \in Pulls \/ batch'[w][i] # 0
    BY <1>4, <1>5, <1>6
<1>9. ASSUME pc'[w] # "committed"
      PROVE  BatchInv(w)'
    <2>1. ASSUME NEW i \in Numbers, batch'[w][i] # 0
          PROVE  /\ i \in DOMAIN issues
                 /\ \A r \in Repos : r = issues[i].repo => Engaged(w, r)
                 /\ issues[i].repo \notin moved => batch'[w][i] = issues[i].version
        <3>1. CASE i \in Shown(w) \ Pulls
            <4>1. issues[i].repo = Repo(w)
                BY <1>5, <3>1 DEF Listing
            <4>2. Engaged(w, Repo(w))
                BY <1>1, <1>2, AtEngaged
            <4> QED
                BY <1>4, <1>5, <2>1, <3>1, <4>1, <4>2
        <3>2. CASE ~(i \in Shown(w) \ Pulls)
            BY <1>1, <1>4, <2>1, <3>2 DEF BatchInv
        <3> QED
            BY <3>1, <3>2
    <2> QED
        BY <1>2, <1>3, <1>9, <2>1 DEF BatchInv
<1> QED
    BY <1>3, <1>7, <1>8, <1>9

(* After a page of a listing with since: what the sync has passed is safe. *)
LEMMA PageCatchesUp ==
    ASSUME IInv, NEW w \in Workers, Receive(w), Alone(w),
           pc'[w] # "idle", at'[w] \in Nat, at[w] <= at'[w],
           NEW r \in Repos, NEW s \in Nat, NEW n \in Nat, NEW m \in Nat,
           r = Repo(w), s = since[w], n = page[w], m = Newest(w), r \notin moved, s # 0
    PROVE  /\ cursor[r] > 0
           /\ \A i \in DOMAIN issues : issues[i].repo = r =>
                  /\ issues[i].updated < s => Held(i)
                  /\ i \in First(r, s, n) => Safe(w, i)'
                  /\ issues[i].updated < m => Safe(w, i)'
<1>1. TypeOK /\ WalkInv(w)
    BY DEF IInv, WorkerInv
<1>2. UNCHANGED <<issues, cursor, baseline, moved, messages>> /\ pc[w] = "waiting"
    BY DEF Receive, github, dbVars
<1>3. n \in Nat \ {0} /\ n - 1 \in Nat
    BY <1>1, AtTypes
<1>4. CatchingUp(w, r, s, n - 1)
    <2>1. Paging(w)
        BY <1>2 DEF Paging
    <2> QED
        BY <1>1, <1>3, <2>1 DEF WalkInv
<1>5. \A i \in DOMAIN issues : i \in Numbers /\ issues[i].updated \in Nat
    BY <1>1, IssueTypes
<1>6. \A i \in DOMAIN issues : Held(i)' <=> Held(i)
    BY <1>2, QuietStep
<1>7. \A i \in DOMAIN issues : Safe(w, i) => Safe(w, i)'
    BY <1>5, <1>6, PageBatch DEF Safe
<1>8. \A i \in Shown(w) : Safe(w, i)'
    <2>1. \A i \in Shown(w) : i \in Pulls \/ batch'[w][i] # 0
        BY PageBatch
    <2> QED
        BY <2>1 DEF Safe, Held
<1>9. First(r, s, n) = First(r, s, n - 1) \cup Shown(w)
    BY <1>1, ShownAdds
<1>10. \A i \in DOMAIN issues : issues[i].repo = r /\ i \in First(r, s, n) => Safe(w, i)'
    BY <1>4, <1>7, <1>8, <1>9 DEF CatchingUp
<1>11. ASSUME NEW i \in DOMAIN issues, issues[i].repo = r, issues[i].updated < m
       PROVE  Safe(w, i)'
    <2>1. CASE issues[i].updated < s
        BY <1>4, <1>6, <1>11, <2>1 DEF CatchingUp, Safe
    <2>2. CASE m = newest[w]
        BY <1>4, <1>7, <1>11, <2>2 DEF CatchingUp
    <2>3. CASE issues[i].updated >= s /\ \E j \in Shown(w) : m = issues[j].updated
        <3>1. PICK j \in Shown(w) : m = issues[j].updated
            BY <2>3
        <3>2. i \in Listing(r, s) /\ j \in First(r, s, n)
            BY <1>9, <1>11, <2>3 DEF Listing
        <3>3. i \in First(r, s, n)
            BY <1>1, <1>11, <3>1, <3>2, OldestFirst
        <3> QED
            BY <1>10, <1>11, <3>3
    <2>4. m = newest[w] \/ \E j \in Shown(w) : m = issues[j].updated
        BY <1>1, NewestSeen
    <2> QED
        BY <1>5, <2>1, <2>2, <2>3, <2>4
<1> QED
    BY <1>4, <1>10, <1>11 DEF CatchingUp

(* After a page of a backfill: max_updated is the newest time seen.        *)
LEMMA PageBackfills ==
    ASSUME IInv, NEW w \in Workers, Receive(w),
           NEW r \in Repos, NEW n \in Nat, NEW m \in Nat,
           r = Repo(w), since[w] = 0, n = page[w], m = Newest(w), r \notin moved
    PROVE  /\ \A i \in First(r, 0, n) : issues[i].updated <= m
           /\ m # 0 => \E i \in First(r, 0, n) : issues[i].updated = m
           /\ \A b \in Nat : b = baseline[r] /\ b # 0 => Reaches(r, b)
<1>1. TypeOK /\ WalkInv(w)
    BY DEF IInv, WorkerInv
<1>2. pc[w] = "waiting"
    BY DEF Receive
<1>3. n \in Nat \ {0} /\ n - 1 \in Nat
    BY <1>1, AtTypes
<1>4. BackFilling(w, r, n - 1)
    <2>1. Paging(w)
        BY <1>2 DEF Paging
    <2> QED
        BY <1>1, <1>3, <2>1 DEF WalkInv
<1>5. First(r, 0, n) = First(r, 0, n - 1) \cup Shown(w)
    BY <1>1, ShownAdds
<1>6. /\ newest[w] <= m
      /\ \A i \in Shown(w) : issues[i].updated <= m
      /\ m = newest[w] \/ \E i \in Shown(w) : m = issues[i].updated
    BY <1>1, NewestSeen
<1>7. newest[w] \in 0..MaxChanges
    BY <1>1 DEF TypeOK
<1>8. \A i \in First(r, 0, n) : issues[i].updated <= m
    <2>1. ASSUME NEW i \in First(r, 0, n - 1)
          PROVE  issues[i].updated <= m
        <3>1. issues[i].updated \in Nat
            BY <1>1, IssueTypes DEF First, Listing
        <3>2. issues[i].updated <= newest[w]
            BY <1>4 DEF BackFilling
        <3> QED
            BY <1>6, <1>7, <3>1, <3>2
    <2> QED
        BY <1>5, <1>6, <2>1
<1>9. m # 0 => \E i \in First(r, 0, n) : issues[i].updated = m
    BY <1>4, <1>5, <1>6 DEF BackFilling
<1> QED
    BY <1>2, <1>4, <1>8, <1>9 DEF BackFilling

LEMMA NextPageInv ==
    ASSUME IInv, NEW w \in Workers, NextPage(w)
    PROVE  SlipInv' /\ \A o \in Workers : WorkerInv(o)'
<1>1. TypeOK /\ ClockInv /\ WorkerInv(w) /\ Receive(w)
    BY DEF IInv, NextPage
<1>2. /\ UNCHANGED <<issues, cursor, baseline, moved, messages, at, since, next_since>>
      /\ pc[w] = "waiting"
    BY <1>1 DEF NextPage, Receive, github, dbVars
<1>3. /\ pc'[w] = "asking" /\ page'[w] = page[w] + 1 /\ newest'[w] = Newest(w)
      /\ \A o \in Workers : o # w =>
             pc'[o] = pc[o] /\ page'[o] = page[o] /\ newest'[o] = newest[o]
    BY <1>1 DEF NextPage, TypeOK
<1>4. Alone(w)
    <2>1. \A o \in Workers : o # w => batch'[o] = batch[o]
        BY <1>1, ReceiveTypes
    <2> QED
        BY <1>2, <1>3, <2>1 DEF Alone
<1>5. at'[w] \in Nat /\ at[w] <= at'[w] /\ page[w] \in Nat \ {0}
    BY <1>1, <1>2, AtTypes
<1>6. /\ SlipInv'
      /\ \A o \in Workers : o # w => WorkerInv(o)'
      /\ \A i \in DOMAIN issues : Held(i)' <=> Held(i)
      /\ \A r \in Repos, m \in Nat : Reaches(r, m)' <=> Reaches(r, m)
      /\ \A r \in Repos, s \in Nat, n \in Nat : First(r, s, n)' = First(r, s, n)
    BY <1>2, <1>4, QuietStep
<1>7. /\ \A r \in Repos : Engaged(w, r) => Engaged(w, r)'
      /\ \A i \in Numbers : batch[w][i] # 0 => batch'[w][i] # 0
      /\ BatchInv(w)'
    BY <1>1, <1>3, <1>4, <1>5, PageBatch
<1>8. \A i \in DOMAIN issues : Safe(w, i) => Safe(w, i)'
    <2>1. DOMAIN issues \subseteq Numbers
        BY <1>1, IssueTypes
    <2> QED
        BY <1>6, <1>7, <2>1 DEF Safe
<1>9. SyncInv(w)'
    BY <1>1, <1>2, <1>3, <1>5, <1>7 DEF WorkerInv, SyncInv
<1>10. StagedInv(w)'
    BY <1>1, <1>2, <1>6, <1>8 DEF WorkerInv, StagedInv
<1>11. WalkInv(w)'
    <2>1. ASSUME NEW r \in Repos, NEW s \in Nat, NEW n \in Nat,
                 r \notin moved, r = Repo(w), s = since[w], n = page[w]
          PROVE  (IF s = 0 THEN BackFilling(w, r, n) ELSE CatchingUp(w, r, s, n))'
        <3>1. PICK m \in Nat : m = Newest(w)
            BY <1>1, NewestSeen
        <3>2. CASE s = 0
            <4>1. /\ \A i \in First(r, 0, n) : issues[i].updated <= m
                  /\ m # 0 => \E i \in First(r, 0, n) : issues[i].updated = m
                <5>1. since[w] = 0 /\ Receive(w)
                    BY <1>1, <2>1, <3>2
                <5> QED
                    BY <2>1, <3>1, <5>1, PageBackfills
            <4>2. BackFilling(w, r, n)'
                <5>1. First(r, 0, n)' = First(r, 0, n)
                    BY <1>6
                <5> QED
                    BY <1>2, <1>3, <3>1, <4>1, <5>1 DEF BackFilling
            <4> QED
                BY <3>2, <4>2
        <3>3. CASE s # 0
            <4>1. /\ cursor[r] > 0
                  /\ \A i \in DOMAIN issues : issues[i].repo = r =>
                         /\ issues[i].updated < s => Held(i)
                         /\ i \in First(r, s, n) => Safe(w, i)'
                         /\ issues[i].updated < m => Safe(w, i)'
                BY <1>1, <1>3, <1>4, <1>5, <2>1, <3>1, <3>3, PageCatchesUp
            <4>2. CatchingUp(w, r, s, n)'
                <5>1. First(r, s, n)' = First(r, s, n)
                    BY <1>6
                <5> QED
                    BY <1>2, <1>3, <1>6, <3>1, <4>1, <5>1 DEF CatchingUp
            <4> QED
                BY <3>3, <4>2
        <3> QED
            BY <3>2, <3>3
    <2>2. Repo(w)' = Repo(w) /\ since'[w] = since[w] /\ page'[w] - 1 = page[w]
        BY <1>2, <1>3, <1>5 DEF Repo
    <2> QED
        BY <1>2, <2>1, <2>2 DEF WalkInv
<1> QED
    BY <1>6, <1>7, <1>9, <1>10, <1>11 DEF WorkerInv

LEMMA LastPageInv ==
    ASSUME IInv, NEW w \in Workers, LastPage(w)
    PROVE  SlipInv' /\ \A o \in Workers : WorkerInv(o)'
<1>1. TypeOK /\ ClockInv /\ SlipInv /\ WorkerInv(w) /\ Receive(w)
    BY DEF IInv, LastPage
<1>2. UNCHANGED <<issues, cursor, baseline, moved, messages>> /\ pc[w] = "waiting"
    BY <1>1 DEF Receive, github, dbVars
<1>3. /\ page'[w] = 1 /\ newest'[w] = 0 /\ since'[w] = 0
      /\ \A o \in Workers : o # w =>
             page'[o] = page[o] /\ newest'[o] = newest[o] /\ since'[o] = since[o]
    BY <1>1 DEF LastPage, TypeOK
<1>4. /\ pc'[w] \in {"asking", "committing"}
      /\ at'[w] \in Nat /\ at[w] <= at'[w]
      /\ \A o \in Workers : o # w => pc'[o] = pc[o] /\ at'[o] = at[o]
    <2>1. at[w] \in Nat
        BY <1>1, AtTypes
    <2>2. CASE at[w] < Len(RepoList)
        <3>1. at' = [at EXCEPT ![w] = @ + 1] /\ pc' = [pc EXCEPT ![w] = "asking"]
            BY <2>2 DEF LastPage
        <3>2. /\ at'[w] = at[w] + 1 /\ pc'[w] = "asking"
              /\ \A o \in Workers : o # w => pc'[o] = pc[o] /\ at'[o] = at[o]
            BY <1>1, <3>1 DEF TypeOK
        <3> QED
            BY <2>1, <3>2
    <2>3. CASE ~(at[w] < Len(RepoList))
        <3>1. at' = at /\ pc' = [pc EXCEPT ![w] = "committing"]
            BY <2>3 DEF LastPage
        <3> QED
            BY <1>1, <2>1, <3>1 DEF TypeOK
    <2> QED
        BY <2>2, <2>3
<1>5. PICK r \in Repos, s \in Nat, n \in Nat, m \in Nat :
          r = Repo(w) /\ s = since[w] /\ n = page[w] /\ m = Newest(w)
    BY <1>1, AtTypes, NewestSeen
<1>6. /\ \A q \in Repos : q # r \/ m = 0 => next_since'[w][q] = next_since[w][q]
      /\ m # 0 => next_since'[w][r] = m
      /\ \A o \in Workers : o # w => next_since'[o] = next_since[o]
    <2>1. CASE m = 0
        <3>1. next_since' = next_since
            BY <1>5, <2>1 DEF LastPage
        <3> QED
            BY <2>1, <3>1
    <2>2. CASE m # 0
        <3>1. next_since' = [next_since EXCEPT ![w][r] = m]
            BY <1>5, <2>2 DEF LastPage
        <3> QED
            BY <1>1, <2>2, <3>1 DEF TypeOK
    <2> QED
        BY <2>1, <2>2
<1>7. Alone(w)
    <2>1. \A o \in Workers : o # w => batch'[o] = batch[o]
        BY <1>1, ReceiveTypes
    <2> QED
        BY <1>3, <1>4, <1>6, <2>1 DEF Alone
<1>8. /\ SlipInv'
      /\ \A o \in Workers : o # w => WorkerInv(o)'
      /\ \A i \in DOMAIN issues : Held(i)' <=> Held(i)
      /\ \A q \in Repos, k \in Nat : Reaches(q, k)' <=> Reaches(q, k)
      /\ \A q \in Repos, t \in Nat, k \in Nat : First(q, t, k)' = First(q, t, k)
    BY <1>2, <1>7, QuietStep
<1>9. /\ \A q \in Repos : Engaged(w, q) => Engaged(w, q)'
      /\ \A i \in Numbers : batch[w][i] # 0 => batch'[w][i] # 0
      /\ BatchInv(w)'
    BY <1>1, <1>4, <1>7, PageBatch
<1>10. \A i \in DOMAIN issues : Safe(w, i) => Safe(w, i)'
    <2>1. DOMAIN issues \subseteq Numbers
        BY <1>1, IssueTypes
    <2> QED
        BY <1>8, <1>9, <2>1 DEF Safe
<1>11. SyncInv(w)'
    <2>1. Engaged(w, r)
        BY <1>1, <1>2, <1>5, AtEngaged
    <2>2. \A q \in Repos : next_since'[w][q] # 0 => Engaged(w, q)'
        BY <1>1, <1>6, <1>9, <2>1 DEF WorkerInv, SyncInv
    <2> QED
        BY <1>3, <1>4, <2>2 DEF SyncInv
<1>12. WalkInv(w)'
    <2>1. ASSUME NEW q \in Repos, pc'[w] # "waiting"
          PROVE  BackFilling(w, q, 0)'
        <3>1. First(q, 0, 0)' = {}
            BY <1>1, <1>2, NoPages, SamePages
        <3> QED
            BY <1>3, <2>1, <3>1 DEF BackFilling
    <2>2. since'[w] = 0 /\ page'[w] - 1 = 0 /\ pc'[w] # "waiting"
        BY <1>3, <1>4
    <2> QED
        BY <2>1, <2>2 DEF WalkInv
(* What it stages for a repository whose listing did not move.             *)
<1>13. ASSUME r \notin moved, m # 0
       PROVE  IF baseline[r] = 0 THEN Reaches(r, m)
              ELSE \A i \in DOMAIN issues :
                       issues[i].repo = r /\ issues[i].updated < m => Safe(w, i)'
    <2>1. CASE s = 0
        <3>1. /\ \A i \in First(r, 0, n) : issues[i].updated <= m
              /\ m # 0 => \E i \in First(r, 0, n) : issues[i].updated = m
              /\ \A b \in Nat : b = baseline[r] /\ b # 0 => Reaches(r, b)
            <4>1. since[w] = 0 /\ Receive(w)
                BY <1>1, <1>5, <2>1
            <4> QED
                BY <1>5, <1>13, <4>1, PageBackfills
        <3>2. First(r, 0, MaxPages) = First(r, 0, n)
            <4>1. n \in Nat \ {0} /\ n <= MaxPages
                BY <1>1, <1>5, AtTypes
            <4>2. CASE n = MaxPages
                BY <4>2
            <4>3. CASE n # MaxPages
                <5>1. Cardinality(Page(r, 0, n)) # PerPage
                    <6>1. Shown(w) = Page(r, 0, n)
                        BY <1>5, <2>1 DEF Shown
                    <6>2. page[w] < MaxPages
                        BY <1>5, <4>1, <4>3
                    <6> QED
                        BY <6>1, <6>2 DEF LastPage, MorePages
                <5>2. MaxPages \in Nat
                    OBVIOUS
                <5> QED
                    BY <1>1, <4>1, <5>1, <5>2, ShortPageIsLast
            <4> QED
                BY <4>2, <4>3
        <3>3. Reaches(r, m)
            BY <1>13, <3>1, <3>2 DEF Reaches
        <3>4. ASSUME NEW b \in Nat, b = baseline[r], b # 0
              PROVE  \A i \in DOMAIN issues :
                         issues[i].repo = r /\ issues[i].updated < m => Safe(w, i)'
            <4>1. b = m
                BY <1>1, <3>1, <3>3, <3>4, ReachesOne
            <4>2. \A i \in DOMAIN issues :
                      issues[i].repo = r /\ issues[i].updated < m => Held(i)
                <5>1. \A i \in DOMAIN issues : issues[i].updated \in Nat
                    BY <1>1, IssueTypes
                <5>2. ASSUME NEW i \in DOMAIN issues,
                             issues[i].repo = r, issues[i].updated < m
                      PROVE  Held(i)
                    <6>1. baseline[issues[i].repo] = m
                        BY <3>4, <4>1, <5>2
                    <6>2. issues[i].updated <= m
                        BY <5>1, <5>2
                    <6> QED
                        BY <1>1, <6>1, <6>2, BaselineHeld
                <5> QED
                    BY <5>2
            <4> QED
                BY <1>8, <4>2 DEF Safe
        <3>5. baseline[r] \in 0..MaxChanges
            BY <1>1 DEF TypeOK
        <3> QED
            BY <3>3, <3>4, <3>5
    <2>2. CASE s # 0
        <3>1. /\ cursor[r] > 0
              /\ \A i \in DOMAIN issues :
                     issues[i].repo = r /\ issues[i].updated < m => Safe(w, i)'
            BY <1>1, <1>4, <1>5, <1>7, <1>13, <2>2, PageCatchesUp
        <3>2. baseline[r] # 0
            <4>1. cursor[r] \in 0..MaxChanges /\ cursor[r] # 0
                BY <1>1, <3>1 DEF TypeOK
            <4> QED
                BY <1>1, <4>1 DEF SlipInv
        <3> QED
            BY <3>1, <3>2
    <2> QED
        BY <2>1, <2>2
<1>14. StagedInv(w)'
    <2>1. ASSUME NEW q \in Repos, NEW k \in Nat,
                 q \notin moved, k = next_since'[w][q], k # 0
          PROVE  IF baseline[q] = 0 THEN Reaches(q, k)
                 ELSE \A i \in DOMAIN issues :
                          issues[i].repo = q /\ issues[i].updated < k => Safe(w, i)'
        <3>1. CASE q = r /\ m # 0
            <4>1. k = m
                BY <1>6, <2>1, <3>1
            <4> QED
                BY <1>13, <2>1, <3>1, <4>1
        <3>2. CASE q # r \/ m = 0
            <4>1. k = next_since[w][q]
                BY <1>6, <2>1, <3>2
            <4>2. IF baseline[q] = 0 THEN Reaches(q, k)
                  ELSE \A i \in DOMAIN issues :
                           issues[i].repo = q /\ issues[i].updated < k => Safe(w, i)
                BY <1>1, <2>1, <4>1 DEF WorkerInv, StagedInv
            <4> QED
                BY <1>10, <4>2
        <3> QED
            BY <3>1, <3>2
    <2> QED
        BY <1>2, <1>8, <2>1 DEF StagedInv
<1> QED
    BY <1>8, <1>9, <1>11, <1>12, <1>14 DEF WorkerInv

(* The commit of a transaction keeps every current row that counts, and    *)
(* makes those it writes current.                                          *)
LEMMA CommitRows ==
    ASSUME IInv, NEW w \in Workers, DB!Sync(batch[w]), Alone(w), issues' = issues,
           cursor' = cursor, baseline' = baseline, moved' = moved
    PROVE  /\ SlipInv'
           /\ \A o \in Workers : o # w => WorkerInv(o)'
           /\ \A i \in DOMAIN issues : issues[i].repo \notin moved =>
                  /\ Held(i) => Held(i)'
                  /\ batch[w][i] # 0 => Current(i)'
<1>1. TypeOK /\ SlipInv /\ BatchInv(w)
    BY DEF IInv, WorkerInv
<1>2. DOMAIN issues \subseteq Numbers
    BY <1>1, IssueTypes
<1>3. \A i \in Numbers :
          messages'[i] = IF batch[w][i] = 0 THEN messages[i] ELSE batch[w][i]
    <2>1. batch[w] \in DB!Batch /\ messages \in DB!Batch /\ reported \in Nat
        BY <1>1 DEF TypeOK
    <2> QED
        BY <2>1, SyncEffect
<1>4. ASSUME NEW i \in DOMAIN issues, issues[i].repo \notin moved
      PROVE  /\ Current(i) => Current(i)'
             /\ batch[w][i] # 0 => Current(i)'
    <2>1. batch[w][i] # 0 => batch[w][i] = issues[i].version
        BY <1>1, <1>2, <1>4 DEF BatchInv
    <2> QED
        BY <1>2, <1>3, <2>1 DEF Current
<1>5. ASSUME NEW i \in DOMAIN issues, issues[i].repo \notin moved, Held(i)
      PROVE  Held(i)'
    BY <1>4, <1>5 DEF Held, LeftOut
<1>6. SlipInv'
    BY <1>1, <1>5 DEF SlipInv
<1>7. ASSUME NEW o \in Workers, o # w
      PROVE  WorkerInv(o)'
    BY <1>4, <1>7, OthersStay DEF Alone
<1> QED
    BY <1>4, <1>5, <1>6, <1>7

LEMMA CommitInv ==
    ASSUME IInv, NEW w \in Workers, Commit(w)
    PROVE  SlipInv' /\ \A o \in Workers : WorkerInv(o)'
<1>1. TypeOK /\ WorkerInv(w)
    BY DEF IInv
<1>2. UNCHANGED <<issues, cursor, baseline, moved, at, page, since, newest, next_since, batch>>
    BY DEF Commit, github, walk
<1>3. /\ pc[w] = "committing" /\ pc'[w] = "committed" /\ DB!Sync(batch[w])
      /\ \A o \in Workers : o # w => pc'[o] = pc[o]
    BY <1>1 DEF Commit, TypeOK
<1>4. Alone(w)
    BY <1>2, <1>3 DEF Alone
<1>5. /\ SlipInv'
      /\ \A o \in Workers : o # w => WorkerInv(o)'
      /\ \A i \in DOMAIN issues : issues[i].repo \notin moved =>
             /\ Held(i) => Held(i)'
             /\ batch[w][i] # 0 => Current(i)'
    BY <1>2, <1>3, <1>4, CommitRows
<1>6. \A r \in Repos : Engaged(w, r)' <=> Engaged(w, r)
    BY <1>2, <1>3 DEF Engaged
<1>7. SyncInv(w)'
    BY <1>1, <1>2, <1>3, <1>6 DEF WorkerInv, SyncInv
<1>8. BatchInv(w)'
    BY <1>1, <1>2, <1>5, <1>6 DEF WorkerInv, BatchInv
<1>9. WalkInv(w)'
    BY <1>3 DEF WalkInv, Paging
<1>10. StagedInv(w)'
    <2>1. \A r \in Repos, n \in Nat : Reaches(r, n)' <=> Reaches(r, n)
        BY <1>2, SameReach
    <2>2. \A i \in DOMAIN issues : issues[i].repo \notin moved /\ Safe(w, i) => Safe(w, i)'
        BY <1>2, <1>5 DEF Safe
    <2> QED
        BY <1>1, <1>2, <2>1, <2>2 DEF WorkerInv, StagedInv
<1> QED
    BY <1>5, <1>7, <1>8, <1>9, <1>10 DEF WorkerInv

(* What ends a sync, or loses it, leaves its worker where every sync       *)
(* starts.                                                                 *)
LEMMA EndInv ==
    ASSUME IInv, NEW w \in Workers, Finish(w) \/ Fail(w) \/ CommitUnheard(w)
    PROVE  SlipInv' /\ \A o \in Workers : WorkerInv(o)'
<1>1. TypeOK
    BY DEF IInv
<1>2. Reset(w) /\ UNCHANGED <<issues, cursor, baseline, moved>>
    BY DEF Finish, Fail, CommitUnheard, github
<1>3. Alone(w)
    BY <1>1, <1>2 DEF Alone, Reset, TypeOK
<1>4. WorkerInv(w)'
    BY <1>1, <1>2, ResetInv
<1>5. CASE Finish(w) \/ Fail(w)
    <2>1. messages' = messages
        BY <1>5 DEF Finish, Fail, dbVars
    <2> QED
        BY <1>2, <1>3, <1>4, <2>1, QuietStep
<1>6. CASE CommitUnheard(w)
    <2>1. DB!Sync(batch[w])
        BY <1>6 DEF CommitUnheard
    <2> QED
        BY <1>2, <1>3, <1>4, <2>1, CommitRows
<1> QED
    BY <1>5, <1>6

LEMMA AdvanceCursorInv ==
    ASSUME IInv, NEW w \in Workers, AdvanceCursor(w)
    PROVE  SlipInv' /\ \A o \in Workers : WorkerInv(o)'
<1>1. TypeOK /\ SlipInv /\ WorkerInv(w)
    BY DEF IInv
<1>2. UNCHANGED <<issues, moved, pc, at, page, since, newest, batch, messages>>
    BY DEF AdvanceCursor, github, walk, dbVars
<1>3. PICK r \in Repos, m \in Nat :
          m = next_since[w][r] /\ m # 0 /\ SetCursor(w, r)
    <2>1. PICK n \in DOMAIN RepoList : Staged(w, n) /\ SetCursor(w, RepoList[n])
        BY DEF AdvanceCursor
    <2>2. RepoList[n] \in Repos
        OBVIOUS
    <2>3. next_since[w][RepoList[n]] \in 0..MaxChanges
        BY <1>1, <2>2 DEF TypeOK
    <2>4. next_since[w][RepoList[n]] # 0
        BY <2>1 DEF Staged
    <2> QED
        BY <2>1, <2>2, <2>3, <2>4
<1>4. /\ cursor'[r] = m
      /\ baseline'[r] = IF baseline[r] = 0 THEN m ELSE baseline[r]
      /\ next_since'[w][r] = 0
      /\ \A q \in Repos : q # r =>
             /\ cursor'[q] = cursor[q] /\ baseline'[q] = baseline[q]
             /\ next_since'[w][q] = next_since[w][q]
      /\ \A o \in Workers : o # w => next_since'[o] = next_since[o]
    BY <1>1, <1>3 DEF SetCursor, TypeOK
<1>5. pc[w] = "committed"
    BY DEF AdvanceCursor, MayAdvance
<1>6. Alone(w)
    BY <1>2, <1>4 DEF Alone
<1>7. \A i \in DOMAIN issues : i \in Numbers /\ issues[i].updated \in Nat /\ issues[i].repo \in Repos
    BY <1>1, IssueTypes
(* Every issue the new cursor passes over is held.                         *)
<1>8. r \notin moved => IF baseline[r] = 0 THEN Reaches(r, m)
                        ELSE \A i \in DOMAIN issues :
                                 issues[i].repo = r /\ issues[i].updated < m => Safe(w, i)
    BY <1>1, <1>3 DEF WorkerInv, StagedInv
<1>9. \A i \in DOMAIN issues : Current(i) => Current(i)'
    BY <1>2 DEF Current
<1>10. ASSUME NEW i \in DOMAIN issues, Held(i)
       PROVE  Held(i)'
    <2>1. baseline'[issues[i].repo] = baseline[issues[i].repo] \/ baseline[issues[i].repo] = 0
        BY <1>4, <1>7
    <2> QED
        BY <1>1, <1>2, <1>9, <1>10, <2>1, HeldStays
<1>11. ASSUME NEW i \in DOMAIN issues, issues[i].repo = r, r \notin moved, issues[i].updated < m
       PROVE  Held(i)'
    <2>1. CASE baseline[r] = 0
        <3>1. baseline'[issues[i].repo] = m
            BY <1>4, <1>11, <2>1
        <3>2. baseline'[issues[i].repo] >= issues[i].updated
            BY <1>7, <1>11, <3>1
        <3> QED
            BY <1>2, <3>2 DEF Held, LeftOut
    <2>2. CASE baseline[r] # 0
        <3>1. Safe(w, i)
            BY <1>8, <1>11, <2>2
        <3>2. batch[w][i] # 0 => Current(i)
            BY <1>1, <1>5, <1>7, <1>11 DEF WorkerInv, BatchInv
        <3>3. Held(i)
            BY <3>1, <3>2 DEF Safe, Held
        <3> QED
            BY <1>10, <3>3
    <2> QED
        BY <2>1, <2>2
<1>12. SlipInv'
    <2>1. ASSUME NEW q \in Repos
          PROVE  cursor'[q] = 0 <=> baseline'[q] = 0
        <3>1. cursor[q] = 0 <=> baseline[q] = 0
            BY <1>1 DEF SlipInv
        <3> QED
            BY <1>3, <1>4, <3>1
    <2>2. ASSUME NEW i \in DOMAIN issues, issues[i].repo \notin moved,
                 issues[i].updated < cursor'[issues[i].repo]
          PROVE  Held(i)'
        <3>1. CASE issues[i].repo = r
            BY <1>4, <1>11, <2>2, <3>1
        <3>2. CASE issues[i].repo # r
            BY <1>1, <1>4, <1>7, <1>10, <2>2, <3>2 DEF SlipInv
        <3> QED
            BY <3>1, <3>2
    <2> QED
        BY <1>2, <2>1, <2>2 DEF SlipInv
<1>13. ASSUME NEW o \in Workers, o # w
       PROVE  WorkerInv(o)'
    <2>1. ASSUME NEW q \in Repos
          PROVE  /\ cursor[q] > 0 => cursor'[q] > 0
                 /\ \/ baseline'[q] = baseline[q]
                    \/ /\ baseline[q] = 0 /\ baseline'[q] \in Nat
                       /\ q \notin moved' =>
                              \A n \in Nat : n = baseline'[q] => Reaches(q, n)
        BY <1>2, <1>3, <1>4, <1>8
    <2> QED
        BY <1>2, <1>6, <1>9, <1>13, <2>1, OthersStay DEF Alone
<1>14. SyncInv(w)' /\ BatchInv(w)'
    <2>1. \A q \in Repos : Engaged(w, q)' <=> Engaged(w, q)
        BY <1>2 DEF Engaged
    <2>2. \A q \in Repos : next_since'[w][q] # 0 => next_since[w][q] # 0
        BY <1>3, <1>4
    <2>3. SyncInv(w)'
        BY <1>1, <1>2, <2>1, <2>2 DEF WorkerInv, SyncInv
    <2> QED
        BY <1>1, <1>2, <1>9, <2>1, <2>3 DEF WorkerInv, BatchInv
<1>15. WalkInv(w)'
    BY <1>2, <1>5 DEF WalkInv, Paging
<1>16. StagedInv(w)'
    <2>1. \A q \in Repos, n \in Nat : Reaches(q, n)' <=> Reaches(q, n)
        BY <1>2, SameReach
    <2>2. \A i \in DOMAIN issues : Safe(w, i) => Safe(w, i)'
        BY <1>2, <1>10 DEF Safe
    <2>3. ASSUME NEW q \in Repos, NEW k \in Nat,
                 q \notin moved, k = next_since'[w][q], k # 0
          PROVE  IF baseline'[q] = 0 THEN Reaches(q, k)
                 ELSE \A i \in DOMAIN issues :
                          issues[i].repo = q /\ issues[i].updated < k => Safe(w, i)'
        <3>1. q # r /\ baseline'[q] = baseline[q] /\ k = next_since[w][q]
            BY <1>4, <2>3
        <3>2. IF baseline[q] = 0 THEN Reaches(q, k)
              ELSE \A i \in DOMAIN issues :
                       issues[i].repo = q /\ issues[i].updated < k => Safe(w, i)
            BY <1>1, <2>3, <3>1 DEF WorkerInv, StagedInv
        <3> QED
            BY <2>2, <3>1, <3>2
    <2> QED
        BY <1>2, <2>1, <2>3 DEF StagedInv
<1> QED
    BY <1>12, <1>13, <1>14, <1>15, <1>16 DEF WorkerInv

(* A change leaves the listings of the other repositories as they are.     *)
LEMMA OtherPages ==
    ASSUME TypeOK, NEW q,
           \A i : i \in DOMAIN issues' /\ issues'[i].repo = q
                      <=> i \in DOMAIN issues /\ issues[i].repo = q,
           \A i \in DOMAIN issues : issues[i].repo = q => issues'[i] = issues[i]
    PROVE  /\ \A s, n : First(q, s, n)' = First(q, s, n)
           /\ \A n : Reaches(q, n)' <=> Reaches(q, n)
<1>1. ASSUME NEW s
      PROVE  Listing(q, s)' = Listing(q, s)
    <2>1. \A i : i \in Listing(q, s)' <=> i \in Listing(q, s)
        BY DEF Listing
    <2> QED
        BY <2>1
<1>2. \A s : \A i, j \in Listing(q, s) : Before(i, j, s)' <=> Before(i, j, s)
    BY DEF Listing, Before
<1>3. ASSUME NEW s, NEW n
      PROVE  First(q, s, n)' = First(q, s, n)
    <2>1. \A i \in Listing(q, s) :
              {j \in Listing(q, s) : Before(j, i, s)}'
                  = {j \in Listing(q, s) : Before(j, i, s)}
        BY <1>1, <1>2
    <2>2. \A i \in Listing(q, s) : Rank(i, q, s)' = Rank(i, q, s)
        BY <2>1 DEF Rank
    <2> QED
        BY <1>1, <2>2 DEF First
<1>4. \A i \in First(q, 0, MaxPages) : issues'[i] = issues[i]
    BY DEF First, Listing
<1>5. \A n : Reaches(q, n)' <=> Reaches(q, n)
    BY <1>3, <1>4 DEF Reaches
<1> QED
    BY <1>3, <1>5

LEMMA ChangeInv ==
    ASSUME IInv, NEW r \in Repos,
           \/ Create(r)
           \/ \E i \in Numbers : Update(i) /\ r = issues[i].repo
    PROVE  SlipInv' /\ \A o \in Workers : WorkerInv(o)'
<1>1. TypeOK /\ ClockInv /\ SlipInv /\ \A o \in Workers : WorkerInv(o)
    BY DEF IInv
<1>2. /\ DOMAIN issues \subseteq DOMAIN issues'
      /\ \A i \in DOMAIN issues :
             issues'[i].repo = issues[i].repo
             /\ (issues[i].repo # r => issues'[i] = issues[i])
      /\ \A i \in DOMAIN issues' :
             \/ i \in DOMAIN issues /\ issues'[i] = issues[i]
             \/ issues'[i].repo = r /\ issues'[i].updated = clock'
      /\ Changed(r)
    BY <1>1, IssuesChange
<1>3. UNCHANGED <<cursor, baseline, pc, at, page, since, newest, next_since, batch, messages>>
    BY <1>2 DEF Changed, walk, dbVars
<1>4. moved \subseteq moved' /\ \A o \in Workers : Engaged(o, r) => r \in moved'
    BY <1>2 DEF Changed
<1>5. \A i \in DOMAIN issues : issues'[i] = issues[i] => (Held(i)' <=> Held(i))
    BY <1>3 DEF Held, LeftOut, Current
<1>6. SlipInv'
    <2>1. ASSUME NEW i \in DOMAIN issues', issues'[i].repo \notin moved',
                 issues'[i].updated < cursor'[issues'[i].repo]
          PROVE  Held(i)'
        <3>1. CASE i \in DOMAIN issues /\ issues'[i] = issues[i]
            <4>1. Held(i)
                BY <1>1, <1>3, <1>4, <2>1, <3>1 DEF SlipInv
            <4> QED
                BY <1>5, <3>1, <4>1
        <3>2. CASE issues'[i].repo = r /\ issues'[i].updated = clock'
            <4>1. clock <= clock' /\ clock' \in Nat /\ clock \in Nat
                <5>1. clock <= clock' /\ clock' \in 1..MaxChanges
                    BY <1>1, <1>2, ChangedClock
                <5>2. clock \in 0..MaxChanges
                    BY <1>1 DEF TypeOK
                <5> QED
                    BY <5>1, <5>2
            <4>2. cursor[r] <= clock /\ cursor[r] \in 0..MaxChanges
                BY <1>1 DEF ClockInv, TypeOK
            <4>3. clock' < cursor[r]
                BY <1>3, <2>1, <3>2
            <4> QED
                BY <4>1, <4>2, <4>3
        <3> QED
            BY <1>2, <3>1, <3>2
    <2>2. \A q \in Repos : cursor'[q] = 0 <=> baseline'[q] = 0
        BY <1>1, <1>3 DEF SlipInv
    <2> QED
        BY <2>1, <2>2 DEF SlipInv
<1>7. ASSUME NEW o \in Workers
      PROVE  WorkerInv(o)'
    <2>1. \A q \in Repos : Engaged(o, q)' <=> Engaged(o, q)
        BY <1>3 DEF Engaged
    (* A repository it is at, and that did not move, is another one.       *)
    <2>2. \A q \in Repos : Engaged(o, q) /\ q \notin moved' => q # r
        BY <1>4
    <2>3. ASSUME NEW q \in Repos, q # r
          PROVE  /\ \A i \in DOMAIN issues' : issues'[i].repo = q =>
                        /\ i \in DOMAIN issues /\ issues'[i] = issues[i]
                        /\ issues[i].repo = q
                        /\ Held(i)' <=> Held(i)
                        /\ Safe(o, i)' <=> Safe(o, i)
                 /\ \A s, n : First(q, s, n)' = First(q, s, n)
                 /\ \A n : Reaches(q, n)' <=> Reaches(q, n)
        <3>1. \A i \in DOMAIN issues' : issues'[i].repo = q =>
                  i \in DOMAIN issues /\ issues'[i] = issues[i] /\ issues[i].repo = q
            BY <1>2, <2>3
        <3>2. \A i \in DOMAIN issues : issues[i].repo = q =>
                  i \in DOMAIN issues' /\ issues'[i] = issues[i] /\ issues'[i].repo = q
            BY <1>2, <2>3
        <3>3. /\ \A s, n : First(q, s, n)' = First(q, s, n)
              /\ \A n : Reaches(q, n)' <=> Reaches(q, n)
            BY <1>1, <3>1, <3>2, OtherPages
        <3>4. \A i \in DOMAIN issues' : issues'[i].repo = q =>
                  (Held(i)' <=> Held(i)) /\ (Safe(o, i)' <=> Safe(o, i))
            BY <1>3, <1>5, <3>1 DEF Safe
        <3> QED
            BY <3>1, <3>3, <3>4
    <2>4. SyncInv(o)'
        BY <1>1, <1>3, <2>1 DEF WorkerInv, SyncInv
    <2>5. BatchInv(o)'
        <3>1. ASSUME NEW i \in Numbers, batch[o][i] # 0
              PROVE  /\ i \in DOMAIN issues'
                     /\ \A q \in Repos : q = issues'[i].repo => Engaged(o, q)'
                     /\ issues'[i].repo \notin moved' =>
                            /\ batch[o][i] = issues'[i].version
                            /\ pc[o] = "committed" => Current(i)'
            <4>1. /\ i \in DOMAIN issues
                  /\ \A q \in Repos : q = issues[i].repo => Engaged(o, q)
                  /\ issues[i].repo \notin moved =>
                         /\ batch[o][i] = issues[i].version
                         /\ pc[o] = "committed" => Current(i)
                BY <1>1, <3>1 DEF WorkerInv, BatchInv
            <4>2. issues[i].repo \in Repos /\ issues'[i].repo = issues[i].repo
                BY <1>1, <1>2, <4>1, IssueTypes
            <4>3. issues[i].repo \notin moved' => issues'[i] = issues[i]
                BY <1>2, <2>2, <4>1, <4>2
            <4> QED
                BY <1>2, <1>3, <1>4, <2>1, <4>1, <4>2, <4>3 DEF Current
        <3> QED
            BY <1>3, <3>1 DEF BatchInv
    <2>6. WalkInv(o)'
        <3>1. ASSUME NEW q \in Repos, NEW s \in Nat, NEW n \in Nat,
                     Paging(o), q \notin moved', q = Repo(o), s = since[o], n = page[o] - 1
              PROVE  (IF s = 0 THEN BackFilling(o, q, n) ELSE CatchingUp(o, q, s, n))'
            <4>1. q # r
                <5>1. pc[o] # "idle"
                    BY <3>1 DEF Paging
                <5> QED
                    BY <1>1, <2>2, <3>1, <5>1, AtEngaged
            <4>2. IF s = 0 THEN BackFilling(o, q, n) ELSE CatchingUp(o, q, s, n)
                BY <1>1, <1>4, <3>1 DEF WorkerInv, WalkInv
            <4>3. CASE s = 0
                <5>1. \A i \in First(q, 0, n) : issues'[i] = issues[i]
                    BY <1>2, <4>1 DEF First, Listing
                <5>2. BackFilling(o, q, n)'
                    BY <1>3, <2>3, <4>1, <4>2, <4>3, <5>1 DEF BackFilling
                <5> QED
                    BY <4>3, <5>2
            <4>4. CASE s # 0
                <5>1. CatchingUp(o, q, s, n)'
                    BY <1>3, <2>3, <4>1, <4>2, <4>4 DEF CatchingUp
                <5> QED
                    BY <4>4, <5>1
            <4> QED
                BY <4>3, <4>4
        <3> QED
            BY <1>3, <3>1 DEF WalkInv, Paging, Repo
    <2>7. StagedInv(o)'
        <3>1. ASSUME NEW q \in Repos, NEW m \in Nat,
                     q \notin moved', m = next_since[o][q], m # 0
              PROVE  IF baseline[q] = 0 THEN Reaches(q, m)'
                     ELSE \A i \in DOMAIN issues' :
                              issues'[i].repo = q /\ issues'[i].updated < m => Safe(o, i)'
            <4>1. q # r
                BY <1>1, <2>2, <3>1 DEF WorkerInv, SyncInv
            <4>2. IF baseline[q] = 0 THEN Reaches(q, m)
                  ELSE \A i \in DOMAIN issues :
                           issues[i].repo = q /\ issues[i].updated < m => Safe(o, i)
                BY <1>1, <1>4, <3>1 DEF WorkerInv, StagedInv
            <4> QED
                BY <2>3, <4>1, <4>2
        <3> QED
            BY <1>3, <3>1 DEF StagedInv
    <2> QED
        BY <2>4, <2>5, <2>6, <2>7 DEF WorkerInv
<1> QED
    BY <1>6, <1>7

LEMMA NextInv == IInv /\ [Next]_vars => IInv'
<1> SUFFICES ASSUME IInv, [Next]_vars
             PROVE  SlipInv' /\ \A o \in Workers : WorkerInv(o)'
    <2>1. ASSUME IInv, [Next]_vars
          PROVE  TypeOK' /\ ClockInv'
        BY <2>1, NextTypes DEF IInv
    <2> QED
        BY <2>1 DEF IInv
<1>1. ASSUME NEW r \in Repos, Create(r)
      PROVE  SlipInv' /\ \A o \in Workers : WorkerInv(o)'
    BY <1>1, ChangeInv
<1>2. ASSUME NEW i \in Numbers, Update(i)
      PROVE  SlipInv' /\ \A o \in Workers : WorkerInv(o)'
    <2>1. issues[i].repo \in Repos
        BY <1>2, IssueTypes DEF IInv, Update
    <2> QED
        BY <1>2, <2>1, ChangeInv
<1>3. ASSUME NEW w \in Workers, Proceed(w)
      PROVE  SlipInv' /\ \A o \in Workers : WorkerInv(o)'
    BY <1>3, StartInv, AskInv, NextPageInv, LastPageInv, CommitInv, AdvanceCursorInv, EndInv
       DEF Proceed
<1>4. ASSUME NEW w \in Workers, Fail(w) \/ CommitUnheard(w)
      PROVE  SlipInv' /\ \A o \in Workers : WorkerInv(o)'
    BY <1>4, EndInv
<1>5. CASE UNCHANGED vars
    <2>1. UNCHANGED <<issues, cursor, baseline, moved, pc, at, page, since, newest,
                      next_since, batch, messages>>
        BY <1>5 DEF vars, github, walk, dbVars
    <2>2. \A i \in DOMAIN issues : Held(i)' <=> Held(i)
        BY <2>1 DEF Held, LeftOut, Current
    <2>3. SlipInv'
        BY <2>1, <2>2 DEF IInv, SlipInv
    <2>4. \A i \in DOMAIN issues : Current(i) => Current(i)'
        BY <2>1 DEF Current
    <2>5. ASSUME NEW o \in Workers
          PROVE  WorkerInv(o)'
        BY <2>1, <2>4, OthersStay
    <2> QED
        BY <2>3, <2>5
<1> QED
    BY <1>1, <1>2, <1>3, <1>4, <1>5 DEF Next

(* The inductive invariant holds in every state: what syncs have in hand,  *)
(* the pages they have seen and the cursors they stage agree with GitHub   *)
(* wherever its listing stood still.                                       *)
THEOREM Invariance == Spec => []IInv
BY InitInv, NextInv, PTL DEF Spec

(* In a repository that did not change while a sync was at it, and whose   *)
(* cursor no other sync moved on between two pages, an issue that no later *)
(* sync will list is stored as it is: the cursors that _pump and           *)
(* on_sync_committed compute and write never pass over it, whatever the    *)
(* page size and the page cap, with failures, lost workers and any number  *)
(* of syncs at the same time.                                              *)
THEOREM NothingSlipsBetweenSyncs == Spec => []NothingSlipsIfStill
<1>1. IInv => NothingSlipsIfStill
    <2> SUFFICES ASSUME IInv, NEW i \in DOMAIN issues, issues[i].repo \notin moved, ~Ahead(i)
                 PROVE  Held(i)
        BY DEF NothingSlipsIfStill, Held
    <2>1. /\ issues[i].updated \in Nat
          /\ cursor[issues[i].repo] \in 0..MaxChanges
        <3>1. issues[i].repo \in Repos /\ issues[i].updated \in Nat
            BY IssueTypes DEF IInv
        <3> QED
            BY <3>1 DEF IInv, TypeOK
    <2>2. ~(issues[i].updated >= cursor[issues[i].repo])
        BY DEF Ahead, Listing
    <2>3. issues[i].updated < cursor[issues[i].repo]
        BY <2>1, <2>2
    <2> QED
        BY <2>3 DEF IInv, SlipInv
<1> QED
    BY <1>1, Invariance, PTL

(* The syncs of the pipeline are transactions of the ingest service: each  *)
(* writes all that its repositories yielded, or nothing.                   *)
THEOREM ImplementsIngest == Spec => DB!Spec
<1>1. Init => DB!Init
    BY DEF Init
<1>2. TypeOK /\ [Next]_vars => [DB!Next]_(DB!vars)
    <2> SUFFICES ASSUME TypeOK, [Next]_vars
                 PROVE  DB!Next \/ UNCHANGED <<messages, reported>>
        BY DEF DB!vars
    <2>1. ASSUME NEW w \in Workers, DB!Sync(batch[w])
          PROVE  DB!Next
        <3>1. batch[w] \in DB!Batch
            BY DEF TypeOK
        <3> QED
            BY <2>1, <3>1 DEF DB!Next
    <2>2. ASSUME NEW w \in Workers, Proceed(w) \/ Fail(w) \/ CommitUnheard(w)
          PROVE  DB!Sync(batch[w]) \/ UNCHANGED <<messages, reported>>
        BY <2>2 DEF Proceed, Start, Ask, NextPage, LastPage, Receive, Commit, AdvanceCursor,
                    Finish, Fail, CommitUnheard, dbVars
    <2>3. ASSUME NEW r, Changed(r)
          PROVE  UNCHANGED <<messages, reported>>
        BY <2>3 DEF Changed, dbVars
    <2>4. CASE UNCHANGED vars
        BY <2>4 DEF vars, dbVars
    <2> QED
        BY <2>1, <2>2, <2>3, <2>4 DEF Next, Create, Update
<1> QED
    BY <1>1, <1>2, TypeCorrect, PTL DEF Spec, DB!Spec

=============================================================================
