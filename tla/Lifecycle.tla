----------------------------- MODULE Lifecycle ------------------------------
(***************************************************************************)
(* The application status of one discovered_jobs row, the status endpoint  *)
(* of app/api/lifecycle.py and its dashboard.  Each status request loads   *)
(* the row, appends an entry to the copy of the history it loaded, and     *)
(* commits; two requests that overlap work on the same copy.  The          *)
(* dashboard makes one query after the other, and sees what has been       *)
(* committed by the time of each.                                          *)
(***************************************************************************)
EXTENDS Naturals, Sequences, Functions, RowStore

CONSTANTS
    Requests,   \* concurrent status requests
    Requested,  \* the statuses users ask for
    MaxChanges  \* bound: status requests in one behaviour

ALLOWED_STATUSES == {"bookmarked", "applied", "screening", "interview", "offer",
                     "accepted", "rejected", "ghosted", "withdrawn",
                     "not_applying"}

APPLIED_STATUSES == {"applied", "screening", "interview", "offer", "accepted",
                     "rejected", "ghosted"}

ASSUME RequestedAssumption == Requested \subseteq ALLOWED_STATUSES
ASSUME MaxChangesAssumption == MaxChanges \in Nat

Untriaged == "untriaged"   \* application_status IS NULL
NoDate == 0                \* a date column that IS NULL

Entries == [at : Nat, status : ALLOWED_STATUSES]

Rows == [status : ALLOWED_STATUSES \cup {Untriaged}, applied_at : Nat,
         updated_at : Nat, history : Seq(Entries)]

FreshRow == [status |-> Untriaged, applied_at |-> NoDate, updated_at |-> NoDate,
             history |-> <<>>]

VARIABLES
    exists,  \* the row is in the table
    row,     \* its columns
    now,     \* the clock; each request reads a time of its own
    pc,      \* where each request is
    loaded,  \* the row as the request's session loaded it
    new,     \* the same object with the attributes it assigned
    view,    \* what a dashboard request has read of the row so far
    acked,   \* history: the entries a client was told are in the history
    stale,   \* history: requests whose row another has committed since their load
    excused  \* history: entries that a stale request has removed

account == <<acked, stale, excused>>
vars == <<exists, row, now, pc, loaded, new, view, account>>

\* full: other jobs have applications in as many weeks later than this job's as
\* the chart shows.  shown: the job is one of those the chart counts.
Views == [step : {"none", "counted", "charted"},
          status : ALLOWED_STATUSES \cup {Untriaged}, full : BOOLEAN, shown : BOOLEAN]

NoView == [step |-> "none", status |-> Untriaged, full |-> FALSE, shown |-> FALSE]

TypeOK ==
    /\ exists \in BOOLEAN
    /\ row \in Rows
    /\ now \in 0..MaxChanges
    /\ pc \in [Requests -> {"idle", "loading", "writing"}]
    /\ loaded \in [Requests -> Rows]
    /\ new \in [Requests -> Rows]
    /\ view \in Views
    /\ acked \subseteq Entries
    /\ stale \subseteq Requests
    /\ excused \subseteq Entries

Init ==
    /\ exists = TRUE
    /\ row = FreshRow
    /\ now = 0
    /\ pc = [q \in Requests |-> "idle"]
    /\ loaded = [q \in Requests |-> FreshRow]
    /\ new = [q \in Requests |-> FreshRow]
    /\ view = NoView
    /\ acked = {}
    /\ stale = {}
    /\ excused = {}

Leave(q) ==
    /\ pc' = [pc EXCEPT ![q] = "idle"]
    /\ loaded' = [loaded EXCEPT ![q] = FreshRow]
    /\ new' = [new EXCEPT ![q] = FreshRow]

-----------------------------------------------------------------------------
(* POST /api/jobs/{id}/status *)

\* Mutant: the date is filled in for "applied" alone.
AppliedAtNarrow(r, s, given, t) ==
    IF given # NoDate THEN given
    ELSE IF s = "applied" /\ r.applied_at = NoDate THEN t
    ELSE r.applied_at

\* applied_at for status s asked for at time t, with a date given or not: set
\* the first time the job enters an applied-shaped status.
AppliedAt(r, s, given, t) ==
    IF given # NoDate THEN given
    ELSE IF s \in APPLIED_STATUSES /\ r.applied_at = NoDate THEN t
    ELSE r.applied_at

\* Mutants: the newest entry goes to the front; the list is started afresh; the
\* date column is not written; a status outside the vocabulary is stored.
ChangedAtFront(r, s, given, t) ==
    [status |-> s, applied_at |-> AppliedAt(r, s, given, t), updated_at |-> t,
     history |-> <<[at |-> t, status |-> s]>> \o r.history]
ChangedAfresh(r, s, given, t) ==
    [status |-> s, applied_at |-> AppliedAt(r, s, given, t), updated_at |-> t,
     history |-> <<[at |-> t, status |-> s]>>]
ChangedUndated(r, s, given, t) ==
    [status |-> s, applied_at |-> AppliedAt(r, s, given, t),
     updated_at |-> r.updated_at,
     history |-> Append(r.history, [at |-> t, status |-> s])]
ChangedUnchecked(r, s, given, t) ==
    [status |-> IF s = "bookmarked" THEN "saved" ELSE s,
     applied_at |-> AppliedAt(r, s, given, t), updated_at |-> t,
     history |-> Append(r.history, [at |-> t, status |-> s])]

\* The attributes update_status assigns to the copy r it loaded.
Changed(r, s, given, t) ==
    [status |-> s, applied_at |-> AppliedAt(r, s, given, t), updated_at |-> t,
     history |-> Append(r.history, [at |-> t, status |-> s])]

\* session.get.  A row that is not there is a 404: no step.
Load(q) ==
    /\ pc[q] = "idle"
    /\ exists
    /\ pc' = [pc EXCEPT ![q] = "loading"]
    /\ loaded' = [loaded EXCEPT ![q] = row]
    /\ UNCHANGED <<exists, row, now, new, view, account>>

\* The clock is read once the copy has arrived, when other requests may have
\* been and gone.
UpdateStatus(q, s, given) ==
    /\ pc[q] = "loading"
    /\ now < MaxChanges
    /\ now' = now + 1
    /\ pc' = [pc EXCEPT ![q] = "writing"]
    /\ new' = [new EXCEPT ![q] = Changed(loaded[q], s, given, now + 1)]
    /\ UNCHANGED <<exists, row, loaded, view, account>>

\* What the UPDATE of request q leaves in the table.
FlushedRow(q) ==
    LET l == loaded[q]
        n == new[q]
    IN  [status     |-> Flushed(row.status, l.status, n.status),
         applied_at |-> Flushed(row.applied_at, l.applied_at, n.applied_at),
         updated_at |-> Flushed(row.updated_at, l.updated_at, n.updated_at),
         history    |-> Flushed(row.history, l.history, n.history)]

\* The answer lists the history of the copy.  A request that another has
\* overtaken is excused for the entries its list does not have.
Settle(q) ==
    /\ acked' = acked \cup Range(new[q].history)
    /\ stale' = {k \in Requests \ {q} : pc[k] # "idle"}
    /\ excused' = IF q \in stale
                  THEN excused \cup (Range(row.history) \ Range(new[q].history))
                  ELSE excused

\* The UPDATE of a row deleted meanwhile matches nothing, and the request fails.
Commit(q) ==
    /\ pc[q] = "writing"
    /\ IF exists
       THEN row' = FlushedRow(q) /\ Settle(q)
       ELSE stale' = stale \ {q} /\ UNCHANGED <<row, acked, excused>>
    /\ Leave(q)
    /\ UNCHANGED <<exists, now, view>>

\* The request, or the whole process, stops before its commit.
Fail(q) ==
    /\ pc[q] # "idle"
    /\ stale' = stale \ {q}
    /\ Leave(q)
    /\ UNCHANGED <<exists, row, now, view, acked, excused>>

\* The row is deleted by DELETE /api/jobs/{id}.
Delete ==
    /\ exists
    /\ exists' = FALSE
    /\ row' = FreshRow
    /\ UNCHANGED <<now, pc, loaded, new, view, account>>

-----------------------------------------------------------------------------
(* GET /api/stats/dashboard *)

\* The counts by status, and with them the totals of open and applied jobs.
CountStatuses ==
    /\ view.step = "none"
    /\ view' = [NoView EXCEPT !.step = "counted",
                              !.status = IF exists THEN row.status ELSE Untriaged]
    /\ UNCHANGED <<exists, row, now, pc, loaded, new, account>>

\* The applications per week, by applied_at: of the weeks that have any, in this
\* job or in others, the latest 12.
ChartWeeks ==
    /\ view.step = "counted"
    /\ \E full \in BOOLEAN :
          view' = [view EXCEPT
                     !.step = "charted", !.full = full,
                     !.shown = exists /\ row.applied_at # NoDate /\ ~full]
    /\ UNCHANGED <<exists, row, now, pc, loaded, new, account>>

\* The answer, or the end of a request that got no further.
Respond ==
    /\ view.step # "none"
    /\ view' = NoView
    /\ UNCHANGED <<exists, row, now, pc, loaded, new, account>>

Dashboard == CountStatuses \/ ChartWeeks \/ Respond

Next ==
    \/ \E q \in Requests :
          \/ Load(q)
          \/ \E s \in Requested, given \in 0..now : UpdateStatus(q, s, given)
          \/ Commit(q)
          \/ Fail(q)
    \/ Delete
    \/ Dashboard

Spec == Init /\ [][Next]_vars

-----------------------------------------------------------------------------
(* Properties *)

\* A job in an applied-shaped status has a date of application: the status of one
\* request never lands without the date, whichever columns overlapping requests
\* leave unwritten (lifecycle.py:99-107).
AppliedHasDate == row.status \in APPLIED_STATUSES => row.applied_at # NoDate

\* A job that a dashboard counts among the applied ones is in the weekly chart of
\* the same dashboard, which a later query makes, unless twelve later weeks fill
\* the chart: it is never missing for want of a date.  Between the two queries no
\* status request takes the date away, and none lands the status before the date
\* (lifecycle.py:99-107, 140-178).
ChartCoversApplied ==
    view.step = "charted" /\ view.status \in APPLIED_STATUSES /\ exists =>
        view.full \/ view.shown

\* status_updated_at is the time of the last entry: the two columns, and the
\* stale-followups query that reads one of them, cannot disagree about when the
\* job was last touched (lifecycle.py:98-117, 195-207).
UpdatedWithHistory ==
    row.history # <<>> => row.updated_at = row.history[Len(row.history)].at

\* The history reads in the order the requests arrived and repeats none, even
\* where it has lost some (lifecycle.py:109-117).
HistoryInOrder ==
    \A i, j \in DOMAIN row.history :
        i < j => row.history[i].at < row.history[j].at

\* However requests overlap, the history tells a true story: in order, without
\* repetition, and up to date with the column beside it.
HistoryTrue == HistoryInOrder /\ UpdatedWithHistory

\* The history is append-only (CareerOS_AI_Product_Spec_v2.md:825), except that of
\* requests that overlap the one that commits last removes the entries it did not
\* load, though their clients were shown them: nothing else ever removes an entry
\* (lifecycle.py:109-119).
EntriesKept == exists => acked \ excused \subseteq Range(row.history)
=============================================================================
