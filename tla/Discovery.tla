----------------------------- MODULE Discovery ------------------------------
(***************************************************************************)
(* The discovered_jobs and applications tables, and what fills them:       *)
(* discovery runs (app/scrapers/pipeline.py), captures from the browser    *)
(* extension (app/api/captures.py), on-demand scoring                      *)
(* (app/api/job_actions.py) and delete (app/api/discovery.py).  All of     *)
(* them check first, wait, and write later; a unique constraint on         *)
(* (source, external_id) is all that holds them apart.                     *)
(***************************************************************************)
EXTENDS Naturals, Sequences, FiniteSets, Functions, RowStore

CONSTANTS
    Runs,         \* concurrent POST /api/discover requests
    Requests,     \* concurrent score, delete and capture requests
    Postings,     \* (source, external_id) pairs the job boards return
    CapturedPages,\* (source, external_id) pairs of captured pages
    MaxRows       \* bound: rows inserted in one behaviour

ASSUME MaxRowsAssumption == MaxRows \in Nat
ASSUME KeysAssumption == Postings \cap CapturedPages = {}
ASSUME PostingsAssumption == IsFiniteSet(Postings)

Keys == Postings \cup CapturedPages
Ids == 1..MaxRows

NoApp == 0

Triages == {"pending", "scored", "promoted", "filtered", "error"}

\* The columns of a row that change after its insertion and that the inbox, or
\* a handler here, goes by; the fit and the decision written with them are the
\* verdict of the step that writes them.
Rows == [triage : Triages, app : Nat]

NewRow == [triage |-> "pending", app |-> NoApp]

\* The fit against APPLY_BAND_THRESHOLD; any decision but "apply" is "other".
Verdicts == [fit : {"below", "apply"}, decision : {"apply", "other"}]

VARIABLES
    key,      \* the (source, external_id) of each row ever inserted, by id
    row,      \* its columns (those of NewRow once it is deleted)
    live,     \* the ids in discovered_jobs
    used,     \* ids given out so far
    apps,     \* applications: the row each was created for
    rpc,      \* where each discovery run is
    todo,     \* its postings that are still to be looked up
    fresh,    \* its postings that were not in the table
    queue,    \* the ids it inserted and has not scored
    pc,       \* where each request is
    target,   \* the row it has loaded, its copy, or the page it captures
    skipped,  \* history: ids left unscored because a commit of their run failed
    cut,      \* history: ids left unscored by a crash
    chased    \* history: ids promoted while a delete that had passed its check ran

tables == <<key, row, live, used, apps>>
runs == <<rpc, todo, fresh, queue>>
history == <<skipped, cut, chased>>
vars == <<tables, runs, pc, target, history>>

Targets == [id : 0..MaxRows, copy : Rows, page : SUBSET CapturedPages]
NoTarget == [id |-> 0, copy |-> NewRow, page |-> {}]

TypeOK ==
    /\ used \in 0..MaxRows
    /\ key \in [1..used -> Keys]
    /\ row \in [1..used -> Rows]
    /\ live \subseteq 1..used
    /\ apps \in Seq(Ids)
    /\ rpc \in [Runs -> {"idle", "looking", "inserting", "scoring"}]
    /\ todo \in [Runs -> SUBSET Postings]
    /\ fresh \in [Runs -> SUBSET Postings]
    /\ queue \in [Runs -> SUBSET Ids]
    /\ pc \in [Requests -> {"idle", "scoring", "deleting", "inserting"}]
    /\ target \in [Requests -> Targets]
    /\ skipped \subseteq Ids
    /\ cut \subseteq Ids
    /\ chased \subseteq Ids

Init ==
    /\ key = <<>>
    /\ row = <<>>
    /\ live = {}
    /\ used = 0
    /\ apps = <<>>
    /\ rpc = [r \in Runs |-> "idle"]
    /\ todo = [r \in Runs |-> {}]
    /\ fresh = [r \in Runs |-> {}]
    /\ queue = [r \in Runs |-> {}]
    /\ pc = [q \in Requests |-> "idle"]
    /\ target = [q \in Requests |-> NoTarget]
    /\ skipped = {}
    /\ cut = {}
    /\ chased = {}

-----------------------------------------------------------------------------
(* The tables *)

Present(k) == \E i \in live : key[i] = k

\* Mutant: the table has no unique constraint.
ConflictUnconstrained(ks) == FALSE

\* An INSERT of these keys violates uq_discovered_source_external_id.
Conflict(ks) == \E k \in ks : Present(k)

\* The rows of keys ks are inserted with the next ids, in the order f.
Insert(ks, f) ==
    /\ key' = key \o f
    /\ row' = row \o [n \in DOMAIN f |-> NewRow]
    /\ live' = live \cup (used + 1)..(used + Cardinality(ks))
    /\ used' = used + Cardinality(ks)
    /\ UNCHANGED apps

\* The orders in which a set of keys can be inserted.
Orders(ks) == Bijection(1..Cardinality(ks), ks)

\* The row with the columns a handler changed since it loaded copy l.
Updated(i, l, n) ==
    [triage |-> Flushed(row[i].triage, l.triage, n.triage),
     app    |-> Flushed(row[i].app, l.app, n.app)]

-----------------------------------------------------------------------------
(* POST /api/discover *)

EndRun(r) ==
    /\ rpc' = [rpc EXCEPT ![r] = "idle"]
    /\ todo' = [todo EXCEPT ![r] = {}]
    /\ fresh' = [fresh EXCEPT ![r] = {}]
    /\ queue' = [queue EXCEPT ![r] = {}]

\* The scrapers answer with some postings; a scraper that fails contributes
\* none, and a posting met twice counts as a duplicate.
Fetch(r, batch) ==
    /\ rpc[r] = "idle"
    /\ rpc' = [rpc EXCEPT ![r] = "looking"]
    /\ todo' = [todo EXCEPT ![r] = batch]
    /\ UNCHANGED <<tables, fresh, queue, pc, target, history>>

\* One SELECT of _upsert.
LookUp(r, k) ==
    /\ rpc[r] = "looking"
    /\ k \in todo[r]
    /\ todo' = [todo EXCEPT ![r] = @ \ {k}]
    /\ fresh' = [fresh EXCEPT ![r] = IF Present(k) THEN @ ELSE @ \cup {k}]
    /\ UNCHANGED <<tables, rpc, queue, pc, target, history>>

\* The commit of the new rows, one transaction: another run that inserted one
\* of the keys since the SELECT makes it fail as a whole, and the run with it.
\* Autoflush sends an INSERT with the next SELECT already; one that meets a key
\* of an open transaction waits for it, so the outcome shows at a commit.
InsertFresh(r) ==
    /\ rpc[r] = "looking"
    /\ todo[r] = {}
    /\ IF Conflict(fresh[r])
       THEN EndRun(r) /\ UNCHANGED tables
       ELSE /\ used + Cardinality(fresh[r]) <= MaxRows
            /\ \E f \in Orders(fresh[r]) : Insert(fresh[r], f)
            /\ queue' = [queue EXCEPT ![r] =
                            (used + 1)..(used + Cardinality(fresh[r]))]
            /\ rpc' = [rpc EXCEPT ![r] = "scoring"]
            /\ fresh' = [fresh EXCEPT ![r] = {}]
            /\ UNCHANGED <<todo>>
    /\ UNCHANGED <<pc, target, history>>

\* A SELECT, or the INSERT for another reason than its key, fails (a value that a
\* column does not take, the database out of reach): nothing is inserted.
UpsertFails(r) ==
    /\ rpc[r] = "looking"
    /\ EndRun(r)
    /\ UNCHANGED <<tables, pc, target, history>>

\* decision == "apply" and fit >= APPLY_BAND_THRESHOLD.
Promotes(v) == v.decision = "apply" /\ v.fit = "apply"

\* A delete of row i has passed its check and is not committed.
Deleting(i) == \E q \in Requests : pc[q] = "deleting" /\ target[q].id = i

\* What the run assigns to the row; a is the row's new application or NoApp.
Scored(n, a) ==
    [n EXCEPT !.triage = IF a = NoApp THEN "filtered" ELSE "promoted", !.app = a]

\* One iteration of the scoring loop, up to its commit.  The workflow finds
\* verdict v, where a missing fit counts as 0, a missing decision as "skip", and
\* the decision is the model's own and need not agree with the fit.  The copy of
\* the row is the one inserted: the session never loads it again.
ScoreRow(r, i, v) ==
    /\ rpc[r] = "scoring"
    /\ i \in queue[r]
    /\ i \in live
    /\ LET a == IF Promotes(v) THEN Len(apps) + 1 ELSE NoApp
       IN  /\ row' = [row EXCEPT ![i] = Updated(i, NewRow, Scored(NewRow, a))]
           /\ apps' = IF a = NoApp THEN apps ELSE Append(apps, i)
           /\ chased' = IF a # NoApp /\ Deleting(i) THEN chased \cup {i} ELSE chased
    /\ queue' = [queue EXCEPT ![r] = @ \ {i}]
    /\ UNCHANGED <<key, live, used, rpc, todo, fresh, pc, target, skipped, cut>>

\* Mutants: the exception handler only logs; it marks the row with a word
\* triage_status does not know.
FailedUnmarked(n) == n
FailedOffVocabulary(n) == [n EXCEPT !.triage = "failed"]

Failed(n) == [n EXCEPT !.triage = "error"]

\* The workflow raises: the row is marked and the loop goes on.
FailRow(r, i) ==
    /\ rpc[r] = "scoring"
    /\ i \in queue[r]
    /\ i \in live
    /\ row' = [row EXCEPT ![i] = Updated(i, NewRow, Failed(NewRow))]
    /\ queue' = [queue EXCEPT ![r] = @ \ {i}]
    /\ UNCHANGED <<key, live, used, apps, rpc, todo, fresh, pc, target, history>>

\* The commit of a row, which no handler guards, raises: the row was deleted while
\* it was being scored and its UPDATE matches nothing (StaleDataError), or the
\* database refuses it (a decision longer than the column, a fit out of its range)
\* or is out of reach.  Row and application are rolled back, the request ends with
\* 500, and this row stays as unscored as the rest of the queue.
CommitFails(r) ==
    /\ rpc[r] = "scoring"
    /\ queue[r] # {}
    /\ skipped' = skipped \cup (queue[r] \cap live)
    /\ EndRun(r)
    /\ UNCHANGED <<tables, pc, target, cut, chased>>

FinishRun(r) ==
    /\ rpc[r] = "scoring"
    /\ queue[r] = {}
    /\ EndRun(r)
    /\ UNCHANGED <<tables, pc, target, history>>

-----------------------------------------------------------------------------
(* Requests on one row, and captures *)

LeaveRequest(q) ==
    /\ pc' = [pc EXCEPT ![q] = "idle"]
    /\ target' = [target EXCEPT ![q] = NoTarget]

\* The request serves row i and keeps copy l of it.
LoadRow(q, i, p, l) ==
    /\ pc[q] = "idle"
    /\ i \in live
    /\ pc' = [pc EXCEPT ![q] = p]
    /\ target' = [target EXCEPT ![q] = [NoTarget EXCEPT !.id = i, !.copy = l]]

StartScore(q, i) ==
    /\ LoadRow(q, i, "scoring", row[i])
    /\ UNCHANGED <<tables, runs, history>>

\* What the workflow makes of the row: a fit, or a quarantined description.
Bands == {"below", "apply", "quarantined"}

\* Mutant: triage is decided without looking at the link.
RescoredByFit(l, b) ==
    [l EXCEPT !.triage = CASE b = "quarantined" -> "error"
                           [] b = "apply" -> "promoted"
                           [] OTHER -> "scored"]

\* The triage score_job assigns to the copy l it loaded.
Rescored(l, b) ==
    [l EXCEPT !.triage = CASE b = "quarantined" -> "error"
                           [] b = "apply" /\ l.app # NoApp -> "promoted"
                           [] OTHER -> "scored"]

EndScore(q, b) ==
    /\ pc[q] = "scoring"
    /\ LET i == target[q].id
           l == target[q].copy
       IN  row' = IF i \in live
                  THEN [row EXCEPT ![i] = Updated(i, l, Rescored(l, b))] ELSE row
    /\ LeaveRequest(q)
    /\ UNCHANGED <<key, live, used, apps, runs, history>>

\* Mutant: any row may be deleted.
MayDeleteAny(i) == TRUE

\* A row linked to an application is refused with 409.
MayDelete(i) == row[i].app = NoApp

StartDelete(q, i) ==
    /\ LoadRow(q, i, "deleting", NewRow)
    /\ MayDelete(i)
    /\ UNCHANGED <<tables, runs, history>>

EndDelete(q) ==
    /\ pc[q] = "deleting"
    /\ live' = live \ {target[q].id}
    /\ row' = [row EXCEPT ![target[q].id] = NewRow]
    /\ skipped' = skipped \ {target[q].id}
    /\ cut' = cut \ {target[q].id}
    /\ LeaveRequest(q)
    /\ UNCHANGED <<key, used, apps, runs, chased>>

\* A page that is already known only has its text refreshed (description,
\* title, company, location), which triage does not read.
StartCapture(q, k) ==
    /\ pc[q] = "idle"
    /\ ~Present(k)
    /\ pc' = [pc EXCEPT ![q] = "inserting"]
    /\ target' = [target EXCEPT ![q] = [NoTarget EXCEPT !.page = {k}]]
    /\ UNCHANGED <<tables, runs, history>>

\* The INSERT, or its unique violation when the page was captured meanwhile.
EndCapture(q) ==
    /\ pc[q] = "inserting"
    /\ IF Conflict(target[q].page)
       THEN UNCHANGED tables
       ELSE /\ used < MaxRows
            /\ \E f \in Orders(target[q].page) : Insert(target[q].page, f)
    /\ LeaveRequest(q)
    /\ UNCHANGED <<runs, history>>

\* A request fails, or its client goes away, before its commit.
FailRequest(q) ==
    /\ pc[q] # "idle"
    /\ LeaveRequest(q)
    /\ UNCHANGED <<tables, runs, history>>

-----------------------------------------------------------------------------
\* The process stops.  Nothing scores the rows of a run that was under way.
Crash ==
    /\ \/ \E r \in Runs : rpc[r] # "idle"
       \/ \E q \in Requests : pc[q] # "idle"
    /\ cut' = cut \cup UNION {queue[r] : r \in Runs}
    /\ rpc' = [r \in Runs |-> "idle"]
    /\ todo' = [r \in Runs |-> {}]
    /\ fresh' = [r \in Runs |-> {}]
    /\ queue' = [r \in Runs |-> {}]
    /\ pc' = [q \in Requests |-> "idle"]
    /\ target' = [q \in Requests |-> NoTarget]
    /\ UNCHANGED <<tables, skipped, chased>>

RunStep(r) ==
    \/ \E k \in Postings : LookUp(r, k)
    \/ InsertFresh(r)
    \/ UpsertFails(r)
    \/ \E i \in Ids : \/ \E v \in Verdicts : ScoreRow(r, i, v)
                      \/ FailRow(r, i)
    \/ CommitFails(r)
    \/ FinishRun(r)

RequestStep(q) ==
    \/ \E b \in Bands : EndScore(q, b)
    \/ EndDelete(q)
    \/ EndCapture(q)
    \/ FailRequest(q)

Next ==
    \/ \E r \in Runs : \/ \E batch \in SUBSET Postings : Fetch(r, batch)
                       \/ RunStep(r)
    \/ \E q \in Requests :
          \/ \E i \in Ids : StartScore(q, i) \/ StartDelete(q, i)
          \/ \E k \in CapturedPages : StartCapture(q, k)
          \/ RequestStep(q)
    \/ Crash

Spec == Init /\ [][Next]_vars

-----------------------------------------------------------------------------
(* Properties *)

\* However discovery runs and captures overlap, a posting has one row
\* (models.py:141-143, pipeline.py:140-148, captures.py:57-95).
OneRowPerPosting ==
    \A i, j \in live : key[i] = key[j] => i = j

\* The two tables tell the same story.  A row has at most one application and is
\* linked to it, and a row shown as promoted has one: neither a late score_job
\* nor a failed commit separates them.  An application outlives its row only
\* when the row was promoted after its delete had already looked for a link
\* (pipeline.py:81-89, 209-225, job_actions.py:77-88, discovery.py:134-140).
LinkedBothWays ==
    /\ \A a \in DOMAIN apps :
          IF apps[a] \in live THEN row[apps[a]].app = a ELSE apps[a] \in chased
    /\ IsInjective(apps)
    /\ \A i \in live : row[i].triage = "promoted" => row[i].app \in DOMAIN apps

\* No job is forgotten in silence: a discovered row that is still pending is in
\* the queue of a run, or its run was broken off, by a crash or by a commit of its
\* loop that failed, its own or that of a row before it.  A workflow that raises
\* marks its row, and a duplicate or a capture takes no row from a run
\* (pipeline.py:71-89).
PendingIsQueued ==
    \A i \in live :
        row[i].triage = "pending" /\ key[i] \in Postings =>
            \/ \E r \in Runs : i \in queue[r]
            \/ i \in skipped \cup cut
=============================================================================
