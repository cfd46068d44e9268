----------------------------- MODULE GitHubSync -----------------------------
(***************************************************************************)
(* sync_connector("github"): the incremental connector that pages through  *)
(* the issues of each repository (app/connectors/github.py), one cursor    *)
(* per repository (app/services/cursor.py), and the ingest transaction in  *)
(* the abstract form that Ingest implements (AtomicIngest).                *)
(*                                                                         *)
(* Pages are numbered over a listing that GitHub computes anew for every   *)
(* request, with the cursor as it is then.  A sync may start at any time:  *)
(* by beat, by the API, as a retry or as a redelivery (TelegramSync has    *)
(* the queue); what fails is undone and comes back as a later start.       *)
(***************************************************************************)
EXTENDS Naturals, Sequences, FiniteSetsExt

CONSTANTS
    Workers,     \* Celery worker processes
    Repos,       \* repositories
    RepoList,    \* settings.github_repo_list
    PerPage,     \* PER_PAGE
    MaxPages,    \* MAX_PAGES, the cap of pages a sync asks for
    Drift,       \* may issues change while a sync is running?
    Bulk,        \* may several changes fall into one second?
    Pulls,       \* numbers that are pull requests, the others are issues
    MaxIssues,   \* bound: issues and pull requests
    MaxChanges,  \* bound: creations and updates
    MaxFaults    \* bound: calls that fail and worker processes lost

ASSUME GitHubAssumption ==
    /\ RepoList \in Seq(Repos) /\ RepoList # <<>>
    /\ PerPage \in Nat \ {0}
    /\ MaxPages \in Nat \ {0}
    /\ Drift \in BOOLEAN /\ Bulk \in BOOLEAN
    /\ Pulls \subseteq Nat
    /\ MaxIssues \in Nat /\ MaxChanges \in Nat
    /\ MaxFaults \in Nat

VARIABLES
    issues,      \* at GitHub, by number: the order in which they were created
    changes,     \* changes there were
    clock,       \* the second of the last change
    cursor,      \* in Redis: connector:github:{repo}:since, 0 when not set
    baseline,    \* history: the first cursor of each repository
    moved,       \* history: repositories whose listing moved under a sync
    pc,          \* where in sync_connector each worker is
    at,          \* which of its repositories it is at
    page,        \* the page it asks for
    since,       \* the cursor as read for the last page asked for
    newest,      \* max_updated of the repository, 0 for None
    next_since,  \* _next_since, 0 where it has no entry
    batch,       \* its transaction: the version it wrote for each issue
    faults       \* calls that failed and processes lost so far

VARIABLES messages, reported

github == <<issues, changes, clock>>
walk == <<at, page, since, newest>>
dbVars == <<messages, reported>>
vars == <<github, cursor, baseline, moved, pc, walk, next_since, batch, faults, dbVars>>

Numbers == 1..MaxIssues

DB == INSTANCE AtomicIngest WITH Keys <- Numbers, Versions <- 1..MaxChanges

Issue == [repo : Repos, updated : 1..MaxChanges, version : 1..MaxChanges]

NoSince == [r \in Repos |-> 0]
NoBatch == [i \in Numbers |-> DB!NoRow]

TypeOK ==
    /\ issues \in Seq(Issue) /\ Len(issues) <= MaxIssues
    /\ changes \in 0..MaxChanges
    /\ clock \in 0..MaxChanges
    /\ cursor \in [Repos -> 0..MaxChanges]
    /\ baseline \in [Repos -> 0..MaxChanges]
    /\ moved \subseteq Repos
    /\ pc \in [Workers -> {"idle", "asking", "waiting", "committing", "committed"}]
    /\ at \in [Workers -> DOMAIN RepoList]
    /\ page \in [Workers -> 1..MaxPages]
    /\ since \in [Workers -> 0..MaxChanges]
    /\ newest \in [Workers -> 0..MaxChanges]
    /\ next_since \in [Workers -> [Repos -> 0..MaxChanges]]
    /\ batch \in [Workers -> DB!Batch]
    /\ faults \in 0..MaxFaults
    /\ messages \in DB!Batch
    /\ reported \in Nat

Init ==
    /\ issues = <<>>
    /\ changes = 0
    /\ clock = 0
    /\ cursor = NoSince
    /\ baseline = NoSince
    /\ moved = {}
    /\ pc = [w \in Workers |-> "idle"]
    /\ at = [w \in Workers |-> 1]
    /\ page = [w \in Workers |-> 1]
    /\ since = [w \in Workers |-> 0]
    /\ newest = [w \in Workers |-> 0]
    /\ next_since = [w \in Workers |-> NoSince]
    /\ batch = [w \in Workers |-> NoBatch]
    /\ faults = 0
    /\ DB!Init

-----------------------------------------------------------------------------
(* GitHub.                                                                 *)

(* A sync has come to the repository, and has not ended.                   *)
Engaged(w, r) == pc[w] # "idle" /\ \E n \in 1..at[w] : RepoList[n] = r

(* A change of the repository, in a later second or in that of the last    *)
(* change.                                                                 *)
Changed(r) ==
    /\ changes < MaxChanges
    /\ changes' = changes + 1
    /\ clock' \in IF Bulk /\ clock > 0 THEN {clock, clock + 1} ELSE {clock + 1}
    /\ Drift \/ \A w \in Workers : pc[w] = "idle"
    /\ moved' = IF \E w \in Workers : Engaged(w, r) THEN moved \cup {r} ELSE moved
    /\ UNCHANGED <<cursor, baseline, pc, walk, next_since, batch, faults, dbVars>>

Create(r) ==
    /\ Len(issues) < MaxIssues
    /\ Changed(r)
    /\ issues' = Append(issues, [repo |-> r, updated |-> clock', version |-> 1])

Update(i) ==
    /\ i \in DOMAIN issues
    /\ Changed(issues[i].repo)
    /\ issues' = [issues EXCEPT ![i].updated = clock', ![i].version = @ + 1]

(* Mutant of Listing: since is the second after the cursor.                *)
ListingAfter(r, s) ==
    {i \in DOMAIN issues : issues[i].repo = r /\ issues[i].updated > s}

(* What a request lists: without since the newest issues first, with since *)
(* those updated at that time or later, oldest update first.               *)
Listing(r, s) == {i \in DOMAIN issues : issues[i].repo = r /\ issues[i].updated >= s}

(* Issue i is listed before issue j.                                       *)
Before(i, j, s) ==
    IF s = 0 THEN i > j
    ELSE \/ issues[i].updated < issues[j].updated
         \/ issues[i].updated = issues[j].updated /\ i < j

Page(r, s, p) ==
    {i \in Listing(r, s) :
        Cardinality({j \in Listing(r, s) : Before(j, i, s)}) \div PerPage = p - 1}

-----------------------------------------------------------------------------
(* sync_connector and GitHubConnector.fetch.                               *)

Repo(w) == RepoList[at[w]]
Shown(w) == Page(Repo(w), since[w], page[w])

(* The newest updated_at among what the worker saw, pull requests too.     *)
Newest(w) == Max({newest[w]} \cup {issues[i].updated : i \in Shown(w)})

Reset(w) ==
    /\ pc' = [pc EXCEPT ![w] = "idle"]
    /\ at' = [at EXCEPT ![w] = 1]
    /\ page' = [page EXCEPT ![w] = 1]
    /\ since' = [since EXCEPT ![w] = 0]
    /\ newest' = [newest EXCEPT ![w] = 0]
    /\ next_since' = [next_since EXCEPT ![w] = NoSince]
    /\ batch' = [batch EXCEPT ![w] = NoBatch]

Start(w) ==
    /\ pc[w] = "idle"
    /\ pc' = [pc EXCEPT ![w] = "asking"]
    /\ UNCHANGED <<github, cursor, baseline, moved, walk, next_since, batch, faults, dbVars>>

(* _params: the cursor is read for each page.  One that moved on since the *)
(* page before numbers the pages over another listing.                     *)
Ask(w) ==
    /\ pc[w] = "asking"
    /\ since' = [since EXCEPT ![w] = cursor[Repo(w)]]
    /\ moved' = IF page[w] > 1 /\ cursor[Repo(w)] > since[w]
                THEN moved \cup {Repo(w)} ELSE moved
    /\ pc' = [pc EXCEPT ![w] = "waiting"]
    /\ UNCHANGED <<github, cursor, baseline, at, page, newest, next_since, batch,
                   faults, dbVars>>

(* A page arrives and its issues are upserted; pull requests are passed    *)
(* over.                                                                   *)
Receive(w) ==
    /\ pc[w] = "waiting"
    /\ batch' = [batch EXCEPT ![w] = [i \in Numbers |->
                    IF i \in Shown(w) \ Pulls THEN issues[i].version ELSE @[i]]]
    /\ UNCHANGED <<github, cursor, baseline, moved, faults, dbVars>>

(* Mutant of MorePages: no cap of pages.                                   *)
MorePagesUncapped(w) == Cardinality(Shown(w)) = PerPage

(* The page is full and below the cap.                                     *)
MorePages(w) == Cardinality(Shown(w)) = PerPage /\ page[w] < MaxPages

(* The next page is asked for.                                             *)
NextPage(w) ==
    /\ Receive(w)
    /\ MorePages(w)
    /\ page' = [page EXCEPT ![w] = @ + 1]
    /\ newest' = [newest EXCEPT ![w] = Newest(w)]
    /\ pc' = [pc EXCEPT ![w] = "asking"]
    /\ UNCHANGED <<at, since, next_since>>

(* The last page of a repository stages its cursor; the next repository    *)
(* follows, or the commit.                                                 *)
LastPage(w) ==
    /\ Receive(w)
    /\ ~MorePages(w)
    /\ next_since' = IF Newest(w) > 0
                     THEN [next_since EXCEPT ![w][Repo(w)] = Newest(w)]
                     ELSE next_since
    /\ newest' = [newest EXCEPT ![w] = 0]
    /\ since' = [since EXCEPT ![w] = 0]
    /\ page' = [page EXCEPT ![w] = 1]
    /\ IF at[w] < Len(RepoList)
       THEN /\ at' = [at EXCEPT ![w] = @ + 1]
            /\ pc' = [pc EXCEPT ![w] = "asking"]
       ELSE /\ pc' = [pc EXCEPT ![w] = "committing"]
            /\ UNCHANGED at

(* session_scope commits what all repositories yielded.                    *)
Commit(w) ==
    /\ pc[w] = "committing"
    /\ DB!Sync(batch[w])
    /\ pc' = [pc EXCEPT ![w] = "committed"]
    /\ UNCHANGED <<github, cursor, baseline, moved, walk, next_since, batch, faults>>

(* The n-th repository is the first of those whose cursor                  *)
(* on_sync_committed has still to write, in the order fetch() staged them. *)
Staged(w, n) ==
    /\ next_since[w][RepoList[n]] # 0
    /\ \A m \in 1..(n - 1) : next_since[w][RepoList[m]] = 0

SetCursor(w, r) ==
    /\ cursor' = [cursor EXCEPT ![r] = next_since[w][r]]
    /\ baseline' = IF baseline[r] = 0
                   THEN [baseline EXCEPT ![r] = next_since[w][r]] ELSE baseline
    /\ next_since' = [next_since EXCEPT ![w][r] = 0]

(* Mutant of MayAdvance: it does not wait for the commit.                  *)
MayAdvanceEarly(w) == pc[w] \in {"committing", "committed"}

(* on_sync_committed is called after session_scope.                        *)
MayAdvance(w) == pc[w] = "committed"

(* on_sync_committed writes the next cursor.                               *)
AdvanceCursor(w) ==
    /\ MayAdvance(w)
    /\ \E n \in DOMAIN RepoList : Staged(w, n) /\ SetCursor(w, RepoList[n])
    /\ UNCHANGED <<github, moved, pc, walk, batch, faults, dbVars>>

(* All cursors are written; sync_connector ends.                           *)
Finish(w) ==
    /\ pc[w] = "committed"
    /\ next_since[w] = NoSince
    /\ Reset(w)
    /\ UNCHANGED <<github, cursor, baseline, moved, faults, dbVars>>

(* An exception before the commit rolls everything back; one of Redis      *)
(* after it is swallowed, and the cursors left are not written.  The death *)
(* of the worker process does the same.                                    *)
Fail(w) ==
    /\ pc[w] # "idle"
    /\ faults < MaxFaults
    /\ faults' = faults + 1
    /\ Reset(w)
    /\ UNCHANGED <<github, cursor, baseline, moved, dbVars>>

(* Postgres commits, but the task does not hear of it.                     *)
CommitUnheard(w) ==
    /\ pc[w] = "committing"
    /\ faults < MaxFaults
    /\ faults' = faults + 1
    /\ DB!Sync(batch[w])
    /\ Reset(w)
    /\ UNCHANGED <<github, cursor, baseline, moved>>

-----------------------------------------------------------------------------
Proceed(w) ==
    \/ Start(w)
    \/ Ask(w)
    \/ NextPage(w)
    \/ LastPage(w)
    \/ Commit(w)
    \/ AdvanceCursor(w)
    \/ Finish(w)

Next ==
    \/ \E r \in Repos : Create(r)
    \/ \E i \in Numbers : Update(i)
    \/ \E w \in Workers : Proceed(w) \/ Fail(w) \/ CommitUnheard(w)

Spec == Init /\ [][Next]_vars

(* Beat starts syncs for ever; a running one goes on unless it fails, and  *)
(* GitHub, Redis and Postgres fail a bounded number of times.              *)
FairSpec == Spec /\ \A w \in Workers : WF_vars(Proceed(w))

-----------------------------------------------------------------------------
(* Properties.                                                             *)

Current(i) == messages[i] = issues[i].version

(* The backfill, capped, is not meant to reach every old issue.            *)
LeftOut(i) == baseline[issues[i].repo] >= issues[i].updated

(* A later sync will list i: the cursor of its repository is not past it.  *)
Ahead(i) == i \in Listing(issues[i].repo, cursor[issues[i].repo])

(* A changed issue that no later sync will list is stored as it is: "every *)
(* later sync ... walks updates oldest-first, so only changed issues are   *)
(* fetched" (docstring of app/connectors/github.py).                       *)
NothingSlips ==
    \A i \in DOMAIN issues : Ahead(i) \/ i \in Pulls \/ LeftOut(i) \/ Current(i)

(* So it is in every repository that did not change while a sync was at    *)
(* it, and whose cursor no other sync moved on between two pages: page     *)
(* cap, ties, failures and overlapping syncs alone leave nothing behind.   *)
NothingSlipsIfStill ==
    \A i \in DOMAIN issues :
        \/ issues[i].repo \in moved
        \/ Ahead(i) \/ i \in Pulls \/ LeftOut(i) \/ Current(i)

(* So many changes of one second that a capped sync sees no later one.     *)
Crowded(r) ==
    \E t \in 1..clock :
        Cardinality({i \in Listing(r, t) : issues[i].updated = t}) >= PerPage * MaxPages

(* Every change is stored, however many there are: "the MAX_PAGES cap      *)
(* still makes forward progress every run" (comment in _params).  The      *)
(* exceptions are a second that the cap does not reach past, and a listing *)
(* that moved.                                                             *)
EveryChangeStored ==
    []<>(\A i \in DOMAIN issues :
            \/ issues[i].repo \in moved
            \/ i \in Pulls \/ LeftOut(i) \/ Current(i) \/ Crowded(issues[i].repo))
=============================================================================
