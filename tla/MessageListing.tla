--------------------------- MODULE MessageListing ---------------------------
(***************************************************************************)
(* A client of GET /messages (app/api/v1/messages.py) walks through all    *)
(* pages of a listing while syncs and download tasks commit rows.  A       *)
(* request counts the rows that match its filters with one statement and   *)
(* reads its page with another; under READ COMMITTED each of the two sees  *)
(* the rows that are committed by then.                                    *)
(*                                                                         *)
(* The order is by source_created_at, which a sync may change: it is one   *)
(* of the columns an upsert writes anew (app/services/ingest.py), and two  *)
(* mails of one Message-ID need not have one Date.                         *)
(*                                                                         *)
(* The client is not part of the repository: it goes from page to page     *)
(* until it gets a short one, or until it has seen as many rows as the     *)
(* total of the last response says.                                        *)
(***************************************************************************)
EXTENDS Naturals, FiniteSets

CONSTANTS
    Ids,        \* ids of messages
    Times,      \* what source_created_at may be, 0 for NULL
    Limit,      \* the limit the client asks with
    MaxRows,    \* bound: rows that a commit writes
    MaxCommits  \* bound: commits during a walk

ASSUME ListingAssumption ==
    /\ Ids \subseteq Nat /\ IsFiniteSet(Ids)
    /\ Times \subseteq Nat
    /\ Limit \in Nat \ {0}
    /\ MaxRows \in Nat
    /\ MaxCommits \in Nat

VARIABLES
    matching,  \* rows that match the filters of the walk
    created,   \* source_created_at of each row
    pc,        \* is the client idle, or at one of the statements of a request
    byTotal,   \* does it stop by the total, or at a short page
    offset,    \* the offset of its request
    total,     \* the total as counted for it
    got,       \* rows it got so far
    repeated,  \* rows it got twice
    steady,    \* history: rows that have matched since the walk began, with
               \* the time they had then
    pushed,    \* history: did rows begin to match, or move to the front
    pulled,    \* history: did rows cease to match, or move to the back
    slipped,   \* history: did one begin to match since the last count
    commits

client == <<pc, byTotal, offset, total, got, repeated>>
table == <<matching, created>>
history == <<steady, pushed, pulled, slipped, commits>>
vars == <<table, client, history>>

TypeOK ==
    /\ matching \subseteq Ids
    /\ created \in [Ids -> Times]
    /\ pc \in {"idle", "counting", "reading"}
    /\ byTotal \in BOOLEAN
    /\ offset \in Nat
    /\ total \in 0..Cardinality(Ids)
    /\ got \subseteq Ids
    /\ repeated \subseteq got
    /\ steady \subseteq matching
    /\ pushed \in BOOLEAN /\ pulled \in BOOLEAN /\ slipped \in BOOLEAN
    /\ commits \in 0..MaxCommits

Init ==
    /\ matching \in SUBSET Ids
    /\ created \in [Ids -> Times]
    /\ pc = "idle"
    /\ byTotal = FALSE
    /\ offset = 0
    /\ total = 0
    /\ got = {}
    /\ repeated = {}
    /\ steady = {}
    /\ pushed = FALSE /\ pulled = FALSE /\ slipped = FALSE
    /\ commits = 0

-----------------------------------------------------------------------------
(* What one commit can write.                                              *)
Batches == {rows \in SUBSET Ids : Cardinality(rows) <= MaxRows}

(* The rows a commit writes, those that match afterwards, and their times: *)
(* which rows begin or cease to match, and which move within the listing.  *)
Entering(match) == match \ matching
Leaving(rows, match) == (matching \cap rows) \ match
Rising(match, times) == {i \in matching \cap match : times[i] > created[i]}
Sinking(match, times) == {i \in matching \cap match : times[i] < created[i]}

(* A commit of a sync or of a download task: rows appear, or get another   *)
(* text, status or time.  Ids are drawn before the commit, so that rows    *)
(* appear in any order.                                                    *)
Commit(rows, match, times) ==
    /\ commits < MaxCommits
    /\ commits' = commits + 1
    /\ matching' = (matching \ rows) \cup match
    /\ created' = [i \in Ids |-> IF i \in rows THEN times[i] ELSE created[i]]
    /\ steady' = steady \ (Leaving(rows, match) \cup Rising(match, times)
                                                \cup Sinking(match, times))
    /\ pushed' = (pushed \/ Entering(match) \cup Rising(match, times) # {})
    /\ pulled' = (pulled \/ Leaving(rows, match) \cup Sinking(match, times) # {})
    /\ slipped' = (slipped \/ Entering(match) # {})
    /\ UNCHANGED client

(* The client asks for the first page.                                     *)
Begin ==
    /\ pc = "idle"
    /\ pc' = "counting"
    /\ byTotal' \in BOOLEAN
    /\ offset' = 0
    /\ total' = 0
    /\ got' = {}
    /\ repeated' = {}
    /\ steady' = matching
    /\ pushed' = FALSE /\ pulled' = FALSE /\ slipped' = FALSE
    /\ commits' = 0
    /\ UNCHANGED table

(* Mutant of Counted: the attachments are joined, two to a message.        *)
CountedJoined == 2 * Cardinality(matching)

(* SELECT count, with the filters.                                         *)
Counted == Cardinality(matching)

Count ==
    /\ pc = "counting"
    /\ total' = Counted
    /\ slipped' = FALSE
    /\ pc' = "reading"
    /\ UNCHANGED <<table, byTotal, offset, got, repeated, steady, pushed, pulled,
                   commits>>

(* Mutant of Before: no second column to order by.                         *)
BeforeTied(i, j) == created[i] > created[j]

(* ORDER BY source_created_at DESC NULLS LAST, id DESC: row i comes before *)
(* row j.                                                                  *)
Before(i, j) ==
    \/ created[i] > created[j]
    \/ created[i] = created[j] /\ i > j

(* S are the first rows of what matches, in that order.                    *)
First(S) ==
    /\ S \subseteq matching
    /\ \A j \in S : \A i \in matching : Before(i, j) => i \in S

Smaller(a, b) == IF a < b THEN a ELSE b

(* Mutant of Window: one row more is read, to see whether there is another *)
(* page.                                                                   *)
WindowProbing(skipped, page) ==
    /\ Cardinality(skipped) = Smaller(offset, Cardinality(matching))
    /\ Cardinality(page) =
           Smaller(Limit + 1, Cardinality(matching) - Cardinality(skipped))

(* OFFSET and LIMIT.                                                       *)
Window(skipped, page) ==
    /\ Cardinality(skipped) = Smaller(offset, Cardinality(matching))
    /\ Cardinality(page) = Smaller(Limit, Cardinality(matching) - Cardinality(skipped))

IsPage(skipped, page) ==
    /\ Window(skipped, page)
    /\ skipped \cap page = {}
    /\ First(skipped)
    /\ First(skipped \cup page)

(* What makes the client stop after this page.                             *)
IsLast(page) == IF byTotal THEN offset + Limit >= total ELSE Cardinality(page) < Limit

(* SELECT of the page, which is the response.                              *)
Read ==
    /\ pc = "reading"
    /\ \E skipped \in SUBSET matching : \E page \in SUBSET matching :
        /\ IsPage(skipped, page)
        /\ got' = got \cup page
        /\ repeated' = repeated \cup (got \cap page)
        /\ pc' = IF IsLast(page) THEN "idle" ELSE "counting"
    /\ offset' = offset + Limit
    /\ UNCHANGED <<table, byTotal, total, history>>

Next ==
    \/ \E rows \in Batches :
          \E match \in SUBSET rows, times \in [rows -> Times] : Commit(rows, match, times)
    \/ Begin
    \/ Count
    \/ Read

Spec == Init /\ [][Next]_vars

-----------------------------------------------------------------------------
(* Properties.                                                             *)

(* A walk that is over, one page having been its last.                     *)
Walked == pc = "idle" /\ offset > 0

(* A walk to the first short page passes over no row that keeps matching   *)
(* and keeps its time, however many rows appear meanwhile or move to the   *)
(* front: they shift the others to later pages (list_messages, whose order *)
(* has no ties).  Only rows that cease to match, or move to the back, make *)
(* others slip.  A walk that trusts the total may also stop too early, if  *)
(* a row appears between the two statements of its last request.           *)
NothingMissed ==
    Walked /\ ~pulled /\ (byTotal => ~slipped) => steady \subseteq got

(* Nor is such a row on two pages, unless another one began to match or    *)
(* moved to the front: what leaves, or moves to the back, repeats none.    *)
NothingRepeated == repeated \cap steady # {} => pushed

(* The inductive invariant behind them.  What is before the offset by now  *)
(* was seen, but for rows that came there later; and if none came, no row  *)
(* behind the offset was.                                                  *)
SeenBefore ==
    pc # "idle" /\ ~pulled =>
        \A S \in SUBSET matching :
            First(S) /\ Cardinality(S) <= offset => S \cap steady \subseteq got

GotFirst ==
    ~pushed =>
        \A S \in SUBSET matching :
            First(S) /\ ~(got \cap steady \subseteq S) => Cardinality(S) < offset

(* The total is that of the page, if nothing happened between them.        *)
TotalHolds == pc = "reading" /\ ~slipped /\ ~pulled => total = Cardinality(matching)

IInv ==
    /\ TypeOK
    /\ SeenBefore
    /\ GotFirst
    /\ TotalHolds
    /\ NothingMissed
    /\ NothingRepeated
=============================================================================
