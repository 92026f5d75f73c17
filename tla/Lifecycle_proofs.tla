-------------------------- MODULE Lifecycle_proofs --------------------------
(***************************************************************************)
(* Theorems about Lifecycle: for any number of status requests that        *)
(* overlap, the status has its date, the dashboard agrees with itself, the *)
(* dates agree with the history, and the history loses nothing but what a  *)
(* request that was overtaken had not loaded.                              *)
(***************************************************************************)
EXTENDS Lifecycle, TLAPS

-----------------------------------------------------------------------------
(* Types *)

LEMMA FreshRowType == FreshRow \in Rows
BY DEF FreshRow, Rows, Untriaged, NoDate

\* What a request makes of a typed copy is typed.
LEMMA ChangedType ==
    ASSUME NEW r \in Rows, NEW s \in Requested, NEW given \in Nat, NEW t \in Nat
    PROVE  Changed(r, s, given, t) \in Rows
<1>1. s \in ALLOWED_STATUSES /\ r.applied_at \in Nat /\ r.history \in Seq(Entries)
  BY RequestedAssumption DEF Rows
<1>2. [at |-> t, status |-> s] \in Entries
  BY <1>1 DEF Entries
<1>3. Append(r.history, [at |-> t, status |-> s]) \in Seq(Entries)
  BY <1>1, <1>2
<1>4. AppliedAt(r, s, given, t) \in Nat
  BY <1>1 DEF AppliedAt
<1> QED
  BY <1>1, <1>3, <1>4 DEF Changed, Rows

\* So is what an UPDATE leaves.
LEMMA FlushedRowType ==
    ASSUME TypeOK, NEW q \in Requests
    PROVE  FlushedRow(q) \in Rows
<1>1. row \in Rows /\ loaded[q] \in Rows /\ new[q] \in Rows
  BY DEF TypeOK
<1> QED
  BY <1>1 DEF FlushedRow, Flushed, Rows

\* The histories of two typed rows hold entries.
LEMMA EntriesOf ==
    ASSUME NEW r \in Rows
    PROVE  Range(r.history) \subseteq Entries
BY DEF Rows, Range

LEMMA LeaveType ==
    ASSUME TypeOK, NEW q \in Requests, Leave(q)
    PROVE  /\ pc' \in [Requests -> {"idle", "loading", "writing"}]
           /\ loaded' \in [Requests -> Rows]
           /\ new' \in [Requests -> Rows]
BY FreshRowType DEF TypeOK, Leave

\* Every state of every behaviour is typed.
THEOREM TypeCorrect == Spec => []TypeOK
<1>1. Init => TypeOK
  BY FreshRowType, MaxChangesAssumption DEF Init, TypeOK, NoView, Views
<1>2. TypeOK /\ [Next]_vars => TypeOK'
  <2> SUFFICES ASSUME TypeOK, [Next]_vars PROVE TypeOK'
    OBVIOUS
  <2>1. CASE UNCHANGED vars
    BY <2>1 DEF TypeOK, vars, account
  <2>2. ASSUME NEW q \in Requests, Load(q) PROVE TypeOK'
    BY <2>2 DEF Load, TypeOK, account
  <2>3. ASSUME NEW q \in Requests, NEW s \in Requested, NEW given \in 0..now,
               UpdateStatus(q, s, given)
        PROVE  TypeOK'
    <3>1. Changed(loaded[q], s, given, now + 1) \in Rows
      BY ChangedType, MaxChangesAssumption DEF TypeOK
    <3>2. now' \in 0..MaxChanges
      BY <2>3, MaxChangesAssumption DEF UpdateStatus, TypeOK
    <3> QED
      BY <2>3, <3>1, <3>2 DEF UpdateStatus, TypeOK, account
  <2>4. ASSUME NEW q \in Requests, Commit(q) PROVE TypeOK'
    <3>1. row' \in Rows
      BY <2>4, FlushedRowType DEF Commit, TypeOK
    <3>2. acked' \subseteq Entries /\ stale' \subseteq Requests /\ excused' \subseteq Entries
      BY <2>4, EntriesOf DEF Commit, Settle, TypeOK
    <3> QED
      BY <2>4, <3>1, <3>2, LeaveType DEF Commit, TypeOK
  <2>5. ASSUME NEW q \in Requests, Fail(q) PROVE TypeOK'
    BY <2>5, LeaveType DEF Fail, TypeOK
  <2>6. CASE Delete
    BY <2>6, FreshRowType DEF Delete, TypeOK, account
  <2>7. CASE Dashboard
    <3>1. row.status \in ALLOWED_STATUSES \cup {Untriaged}
      BY DEF TypeOK, Rows
    <3>2. CASE CountStatuses
      BY <3>1, <3>2 DEF CountStatuses, TypeOK, account, NoView, Views
    <3>3. CASE ChartWeeks
      <4> DEFINE d(f) == exists /\ row.applied_at # NoDate /\ ~f
      <4>1. PICK f \in BOOLEAN :
               view' = [view EXCEPT !.step = "charted", !.full = f, !.shown = d(f)]
        BY <3>3 DEF ChartWeeks
      <4>2. d(f) \in BOOLEAN
        BY DEF TypeOK
      <4> HIDE DEF d
      <4>3. view' \in Views
        BY <4>1, <4>2 DEF TypeOK, Views
      <4> QED
        BY <3>3, <4>3 DEF ChartWeeks, TypeOK, account
    <3>4. CASE Respond
      BY <3>4 DEF Respond, NoView, Views, TypeOK, account
    <3> QED
      BY <2>7, <3>2, <3>3, <3>4 DEF Dashboard
  <2> QED
    BY <2>1, <2>2, <2>3, <2>4, <2>5, <2>6, <2>7 DEF Next
<1> QED
  BY <1>1, <1>2, PTL DEF Spec

-----------------------------------------------------------------------------
(* The date of application *)

Dated(r) == r.status \in APPLIED_STATUSES => r.applied_at # NoDate

\* A date that r has is not taken away in s.
KeepsDate(r, s) == r.applied_at # NoDate => s.applied_at # NoDate

\* The strengthening: a request commits a dated copy that keeps the date it
\* loaded, and so has the table since.
DateInv ==
    /\ Dated(row)
    /\ \A q \in Requests :
          /\ pc[q] # "idle" /\ exists => KeepsDate(loaded[q], row)
          /\ pc[q] = "writing" => Dated(new[q]) /\ KeepsDate(loaded[q], new[q])

\* A dashboard that has counted an applied job finds its date still there.
ViewInv ==
    view.status \in APPLIED_STATUSES /\ exists =>
        /\ view.step = "counted" => row.applied_at # NoDate
        /\ view.step = "charted" => view.full \/ view.shown

\* Whichever of the two columns is left unwritten, a date is there for it.
LEMMA FlushDated ==
    ASSUME TypeOK, NEW q \in Requests, Dated(row), KeepsDate(loaded[q], row),
           Dated(new[q]), KeepsDate(loaded[q], new[q])
    PROVE  Dated(FlushedRow(q)) /\ KeepsDate(row, FlushedRow(q))
BY DEF FlushedRow, Flushed, Dated, KeepsDate

\* A request that leaves, while the table keeps its date, disturbs nothing.
LEMMA LeaveDated ==
    ASSUME TypeOK, DateInv, NEW q \in Requests, Leave(q), Dated(row'),
           exists' => exists /\ KeepsDate(row, row')
    PROVE  DateInv'
<1>1. ASSUME NEW k \in Requests
      PROVE  /\ pc'[k] # "idle" /\ exists' => KeepsDate(loaded'[k], row')
             /\ pc'[k] = "writing" => Dated(new'[k]) /\ KeepsDate(loaded'[k], new'[k])
  <2>1. CASE k = q
    BY <2>1 DEF Leave, TypeOK
  <2>2. CASE k # q
    BY <2>2 DEF Leave, TypeOK, DateInv, KeepsDate
  <2> QED
    BY <2>1, <2>2
<1> QED
  BY <1>1 DEF DateInv, Dated, KeepsDate

LEMMA DateStep ==
    ASSUME TypeOK, DateInv, [Next]_vars
    PROVE  DateInv'
<1>1. CASE UNCHANGED vars
  BY <1>1 DEF vars, DateInv, Dated, KeepsDate
<1>2. ASSUME NEW q \in Requests, Load(q) PROVE DateInv'
  BY <1>2 DEF Load, TypeOK, DateInv, Dated, KeepsDate
<1>3. ASSUME NEW q \in Requests, NEW s \in Requested, NEW given \in 0..now,
             UpdateStatus(q, s, given)
      PROVE  DateInv'
  <2> DEFINE n == Changed(loaded[q], s, given, now + 1)
  <2>1. now + 1 # NoDate
    BY DEF TypeOK, NoDate
  <2>2. Dated(n) /\ KeepsDate(loaded[q], n)
    BY <2>1 DEF Dated, KeepsDate, Changed, AppliedAt
  <2>3. new' = [new EXCEPT ![q] = n] /\ pc' = [pc EXCEPT ![q] = "writing"]
        /\ pc[q] # "idle" /\ UNCHANGED <<exists, row, loaded>>
    BY <1>3 DEF UpdateStatus
  <2> HIDE DEF n
  <2> QED
    BY <2>2, <2>3 DEF TypeOK, DateInv, Dated, KeepsDate
<1>4. ASSUME NEW q \in Requests, Commit(q) PROVE DateInv'
  <2>1. exists => Dated(FlushedRow(q)) /\ KeepsDate(row, FlushedRow(q))
    BY <1>4, FlushDated DEF Commit, DateInv
  <2>2. Dated(row') /\ (exists' => exists /\ KeepsDate(row, row'))
    BY <1>4, <2>1 DEF Commit, DateInv
  <2> QED
    BY <1>4, <2>2, LeaveDated DEF Commit
<1>5. ASSUME NEW q \in Requests, Fail(q) PROVE DateInv'
  BY <1>5, LeaveDated DEF Fail, DateInv, Dated, KeepsDate
<1>6. CASE Delete
  BY <1>6 DEF Delete, DateInv, Dated, KeepsDate, FreshRow, Untriaged,
         APPLIED_STATUSES
<1>7. CASE Dashboard
  <2>1. UNCHANGED <<exists, row, pc, loaded, new>>
    BY <1>7 DEF Dashboard, CountStatuses, ChartWeeks, Respond
  <2> QED
    BY <2>1 DEF DateInv, Dated, KeepsDate
<1> QED
  BY <1>1, <1>2, <1>3, <1>4, <1>5, <1>6, <1>7 DEF Next

LEMMA ViewStep ==
    ASSUME TypeOK, DateInv, ViewInv, [Next]_vars
    PROVE  ViewInv'
<1>1. ASSUME UNCHANGED view, exists' => exists /\ KeepsDate(row, row')
      PROVE  ViewInv'
  BY <1>1 DEF ViewInv, KeepsDate
<1>2. CASE UNCHANGED vars
  BY <1>1, <1>2 DEF vars, KeepsDate
<1>3. ASSUME NEW q \in Requests, Load(q) PROVE ViewInv'
  BY <1>1, <1>3 DEF Load, KeepsDate
<1>4. ASSUME NEW q \in Requests, NEW s \in Requested, NEW given \in 0..now,
             UpdateStatus(q, s, given)
      PROVE  ViewInv'
  BY <1>1, <1>4 DEF UpdateStatus, KeepsDate
<1>5. ASSUME NEW q \in Requests, Commit(q) PROVE ViewInv'
  <2>1. exists => KeepsDate(row, FlushedRow(q))
    BY <1>5, FlushDated DEF Commit, DateInv
  <2> QED
    BY <1>1, <1>5, <2>1 DEF Commit, KeepsDate
<1>6. ASSUME NEW q \in Requests, Fail(q) PROVE ViewInv'
  BY <1>1, <1>6 DEF Fail, KeepsDate
<1>7. CASE Delete
  BY <1>1, <1>7 DEF Delete
<1>8. CASE CountStatuses
  BY <1>8 DEF CountStatuses, NoView, ViewInv, DateInv, Dated
<1>9. CASE ChartWeeks
  <2>1. PICK f \in BOOLEAN :
           view' = [view EXCEPT !.step = "charted", !.full = f,
                                !.shown = exists /\ row.applied_at # NoDate /\ ~f]
    BY <1>9 DEF ChartWeeks
  <2>2. /\ view.step = "counted" /\ view'.step = "charted" /\ view'.status = view.status
        /\ view'.full = f /\ view'.shown = (exists /\ row.applied_at # NoDate /\ ~f)
    BY <1>9, <2>1 DEF ChartWeeks, TypeOK, Views
  <2>3. exists' = exists /\ row' = row
    BY <1>9 DEF ChartWeeks
  <2> QED
    BY <2>2, <2>3 DEF ViewInv
<1>10. CASE Respond
  BY <1>10 DEF Respond, ViewInv, NoView
<1> QED
  BY <1>2, <1>3, <1>4, <1>5, <1>6, <1>7, <1>8, <1>9, <1>10 DEF Next, Dashboard

\* A job in an applied-shaped status has its date of application, however many
\* requests overlap (AppliedHasDate).
THEOREM ApplicationDated == Spec => []AppliedHasDate
<1>1. Init => DateInv
  BY DEF Init, DateInv, Dated, FreshRow, Untriaged, APPLIED_STATUSES
<1>2. DateInv => AppliedHasDate
  BY DEF DateInv, Dated, AppliedHasDate
<1> QED
  BY <1>1, <1>2, TypeCorrect, DateStep, PTL DEF Spec

\* The weekly chart of a dashboard shows a job that it has counted as applied for,
\* or has its twelve weeks filled by later ones (ChartCoversApplied).
THEOREM DashboardAgrees == Spec => []ChartCoversApplied
<1>1. Init => DateInv /\ ViewInv
  BY DEF Init, DateInv, ViewInv, Dated, FreshRow, Untriaged, NoView, APPLIED_STATUSES
<1>2. ViewInv => ChartCoversApplied
  BY DEF ViewInv, ChartCoversApplied
<1> QED
  BY <1>1, <1>2, TypeCorrect, DateStep, ViewStep, PTL DEF Spec

-----------------------------------------------------------------------------
(* The times of the history *)

\* The entries of r are in order and none is later than t; the column with the
\* date of the last change is that of the last entry.
Timely(r, t) ==
    /\ r.updated_at <= t
    /\ \A i \in DOMAIN r.history : r.history[i].at <= t
    /\ \A i, j \in DOMAIN r.history :
          i < j => r.history[i].at < r.history[j].at
    /\ r.history # <<>> => r.updated_at = r.history[Len(r.history)].at

\* The strengthening: every copy is timely, and a request about to commit has
\* changed both of the columns, so that neither is left unwritten.
TimeInv ==
    /\ Timely(row, now)
    /\ \A q \in Requests :
          /\ Timely(loaded[q], now)
          /\ pc[q] = "writing" => /\ Timely(new[q], now)
                                  /\ new[q].updated_at # loaded[q].updated_at
                                  /\ new[q].history # loaded[q].history

LEMMA FreshTimely == ASSUME NEW t \in Nat PROVE Timely(FreshRow, t)
BY DEF Timely, FreshRow, NoDate

\* Every entry carries a time.
LEMMA EntryTime ==
    ASSUME NEW r \in Rows, NEW i \in DOMAIN r.history
    PROVE  r.history[i].at \in Nat
<1> DEFINE h == r.history
<1>1. h \in Seq(Entries)
  BY DEF Rows
<1>2. h[i] \in Entries
  <2> HIDE DEF h
  <2>1. i \in DOMAIN h
    BY DEF h
  <2> QED
    BY <1>1, <2>1
<1> QED
  BY <1>2 DEF Entries

\* Time passes.
LEMMA TimelyLater ==
    ASSUME NEW r \in Rows, NEW t \in Nat, Timely(r, t)
    PROVE  Timely(r, t + 1)
<1>1. r.updated_at \in Nat /\ r.history \in Seq(Entries)
  BY DEF Rows
<1>2. \A i \in DOMAIN r.history : r.history[i].at \in Nat
  BY EntryTime
<1>3. r.updated_at <= t + 1
  BY <1>1 DEF Timely
<1>4. \A i \in DOMAIN r.history : r.history[i].at <= t + 1
  <2> TAKE i \in DOMAIN r.history
  <2>1. r.history[i].at \in Nat /\ r.history[i].at <= t
    BY <1>2 DEF Timely
  <2> QED
    BY <2>1
<1> QED
  BY <1>3, <1>4 DEF Timely

\* An entry made at t + 1 on a copy that knows nothing later than t.
LEMMA ChangedTimely ==
    ASSUME NEW r \in Rows, NEW s \in Requested, NEW given \in Nat,
           NEW t \in Nat, Timely(r, t)
    PROVE  LET n == Changed(r, s, given, t + 1)
           IN  /\ Timely(n, t + 1)
               /\ n.updated_at # r.updated_at
               /\ n.history # r.history
<1> DEFINE e == [at |-> t + 1, status |-> s]
           n == Changed(r, s, given, t + 1)
<1>1. r.history \in Seq(Entries) /\ r.updated_at \in Nat
  BY DEF Rows
<1>2. e \in Entries
  BY RequestedAssumption DEF Entries
<1>3. n.history = Append(r.history, e) /\ n.updated_at = t + 1
  BY DEF Changed
<1>4. /\ Len(n.history) = Len(r.history) + 1
      /\ DOMAIN n.history = 1..Len(r.history) + 1
      /\ DOMAIN r.history = 1..Len(r.history)
      /\ n.history[Len(r.history) + 1] = e
      /\ \A i \in 1..Len(r.history) : n.history[i] = r.history[i]
      /\ Len(r.history) \in Nat
  <2> DEFINE h == r.history
  <2>1. h \in Seq(Entries) /\ n.history = Append(h, e)
    BY <1>1, <1>3
  <2> HIDE DEF h, e, n
  <2>2. /\ Len(Append(h, e)) = Len(h) + 1
        /\ DOMAIN Append(h, e) = 1..Len(h) + 1
        /\ DOMAIN h = 1..Len(h)
        /\ Len(h) \in Nat
    BY <1>2, <2>1
  <2>3. /\ Append(h, e)[Len(h) + 1] = e
        /\ \A i \in 1..Len(h) : Append(h, e)[i] = h[i]
    BY <1>2, <2>1, <2>2
  <2> QED
    BY <2>1, <2>2, <2>3 DEF h
<1>5. \A i \in 1..Len(r.history) : r.history[i].at \in Nat /\ r.history[i].at <= t
  BY <1>4, EntryTime DEF Timely
<1>6. e.at = t + 1
  OBVIOUS
<1>7. n.updated_at # r.updated_at /\ n.history # r.history
  BY <1>1, <1>3, <1>4 DEF Timely
<1>8. Timely(n, t + 1)
  <2> HIDE DEF e, n
  <2>1. \A i \in DOMAIN n.history : n.history[i].at <= t + 1
    BY <1>4, <1>5, <1>6
  <2>2. ASSUME NEW i \in DOMAIN n.history, NEW j \in DOMAIN n.history, i < j
        PROVE  n.history[i].at < n.history[j].at
    <3>1. i \in 1..Len(r.history)
      BY <2>2, <1>4
    <3>2. CASE j = Len(r.history) + 1
      BY <3>1, <3>2, <1>4, <1>5, <1>6
    <3>3. CASE j \in 1..Len(r.history)
      BY <3>1, <3>3, <2>2, <1>4 DEF Timely
    <3> QED
      BY <3>2, <3>3, <1>4
  <2> QED
    BY <2>1, <2>2, <1>3, <1>4, <1>6 DEF Timely
<1> QED
  BY <1>7, <1>8

\* A commit writes both columns, or the row is gone.
LEMMA FlushTimely ==
    ASSUME TypeOK, TimeInv, NEW q \in Requests, pc[q] = "writing"
    PROVE  Timely(FlushedRow(q), now)
<1>1. FlushedRow(q).history = new[q].history
      /\ FlushedRow(q).updated_at = new[q].updated_at
  BY DEF TimeInv, FlushedRow, Flushed
<1> QED
  BY <1>1 DEF TimeInv, Timely

LEMMA LeaveTimely ==
    ASSUME TypeOK, TimeInv, NEW q \in Requests, Leave(q), Timely(row', now),
           UNCHANGED now
    PROVE  TimeInv'
<1>1. Timely(FreshRow, now)
  BY FreshTimely DEF TypeOK
<1>2. ASSUME NEW k \in Requests
      PROVE  /\ Timely(loaded'[k], now)
             /\ pc'[k] = "writing" => /\ Timely(new'[k], now)
                                      /\ new'[k].updated_at # loaded'[k].updated_at
                                      /\ new'[k].history # loaded'[k].history
  <2>1. CASE k = q
    BY <2>1, <1>1 DEF Leave, TypeOK
  <2>2. CASE k # q
    BY <2>2 DEF Leave, TypeOK, TimeInv
  <2> QED
    BY <2>1, <2>2
<1> QED
  BY <1>2 DEF TimeInv, Timely

LEMMA TimeStep ==
    ASSUME TypeOK, TimeInv, [Next]_vars
    PROVE  TimeInv'
<1>0. now \in Nat
  BY DEF TypeOK
<1>1. CASE UNCHANGED vars
  BY <1>1 DEF vars, TimeInv, Timely
<1>2. ASSUME NEW q \in Requests, Load(q) PROVE TimeInv'
  <2>1. ASSUME NEW k \in Requests
        PROVE  /\ Timely(loaded'[k], now)
               /\ pc'[k] = "writing" => /\ Timely(new'[k], now)
                                        /\ new'[k].updated_at # loaded'[k].updated_at
                                        /\ new'[k].history # loaded'[k].history
    BY <1>2 DEF Load, TypeOK, TimeInv
  <2> QED
    BY <1>2, <2>1 DEF Load, TimeInv, Timely
<1>3. ASSUME NEW q \in Requests, NEW s \in Requested, NEW given \in 0..now,
             UpdateStatus(q, s, given)
      PROVE  TimeInv'
  <2> DEFINE n == Changed(loaded[q], s, given, now + 1)
  <2>1. loaded[q] \in Rows /\ Timely(loaded[q], now) /\ given \in Nat
    BY <1>0 DEF TypeOK, TimeInv
  <2>2. Timely(n, now + 1) /\ n.updated_at # loaded[q].updated_at
        /\ n.history # loaded[q].history
    BY <1>0, <2>1, ChangedTimely
  <2>3. new' = [new EXCEPT ![q] = n] /\ pc' = [pc EXCEPT ![q] = "writing"]
        /\ now' = now + 1 /\ UNCHANGED <<row, loaded>>
    BY <1>3 DEF UpdateStatus
  <2> HIDE DEF n
  <2>4. Timely(row', now + 1)
    BY <2>3, <1>0, TimelyLater DEF TypeOK, TimeInv
  <2>5. ASSUME NEW k \in Requests
        PROVE  /\ Timely(loaded'[k], now + 1)
               /\ pc'[k] = "writing" => /\ Timely(new'[k], now + 1)
                                        /\ new'[k].updated_at # loaded'[k].updated_at
                                        /\ new'[k].history # loaded'[k].history
    <3>1. Timely(loaded'[k], now + 1)
      BY <2>3, <1>0, TimelyLater DEF TypeOK, TimeInv
    <3>2. CASE k = q
      BY <3>1, <3>2, <2>2, <2>3 DEF TypeOK
    <3>3. CASE k # q
      BY <3>1, <3>3, <2>3, <1>0, TimelyLater DEF TypeOK, TimeInv
    <3> QED
      BY <3>2, <3>3
  <2> QED
    BY <2>3, <2>4, <2>5 DEF TimeInv
<1>4. ASSUME NEW q \in Requests, Commit(q) PROVE TimeInv'
  <2>1. Timely(row', now)
    BY <1>4, FlushTimely DEF Commit, TimeInv
  <2> QED
    BY <1>4, <2>1, LeaveTimely DEF Commit
<1>5. ASSUME NEW q \in Requests, Fail(q) PROVE TimeInv'
  BY <1>5, LeaveTimely DEF Fail, TimeInv
<1>6. CASE Delete
  BY <1>0, <1>6, FreshTimely DEF Delete, TimeInv, Timely
<1>7. CASE Dashboard
  BY <1>7 DEF Dashboard, CountStatuses, ChartWeeks, Respond, TimeInv, Timely
<1> QED
  BY <1>1, <1>2, <1>3, <1>4, <1>5, <1>6, <1>7 DEF Next

LEMMA TimeAlways == Spec => []TimeInv
<1>1. Init => TimeInv
  BY FreshTimely DEF Init, TimeInv
<1> QED
  BY <1>1, TypeCorrect, TimeStep, PTL DEF Spec

\* The history reads in the order of its requests, whatever it has lost, and the
\* date of the last change is that of its last entry (HistoryTrue).
THEOREM HistoryOrdered == Spec => []HistoryTrue
<1>1. TimeInv => HistoryTrue
  BY DEF TimeInv, Timely, HistoryTrue, HistoryInOrder, UpdatedWithHistory
<1> QED
  BY <1>1, TimeAlways, PTL

-----------------------------------------------------------------------------
(* What the history keeps *)

\* The strengthening: the copy of a request that nobody has overtaken holds the
\* history as it is, and what it assigns holds that history and an entry more.
KeptInv ==
    /\ exists => acked \ excused \subseteq Range(row.history)
    /\ \A q \in Requests :
          exists /\ pc[q] # "idle" /\ q \notin stale =>
              /\ loaded[q].history = row.history
              /\ pc[q] = "writing" => Range(row.history) \subseteq Range(new[q].history)

\* A request that stops takes nothing with it.
LEMMA FailKept ==
    ASSUME TypeOK, KeptInv, NEW q \in Requests, Leave(q), stale' = stale \ {q},
           UNCHANGED <<exists, row, acked, excused>>
    PROVE  KeptInv'
<1>1. ASSUME NEW k \in Requests, exists', pc'[k] # "idle", k \notin stale'
      PROVE  /\ loaded'[k].history = row'.history
             /\ pc'[k] = "writing" => Range(row'.history) \subseteq Range(new'[k].history)
  <2>1. k # q
    BY <1>1 DEF Leave, TypeOK
  <2> QED
    BY <1>1, <2>1 DEF Leave, TypeOK, KeptInv
<1> QED
  BY <1>1 DEF KeptInv

LEMMA KeptStep ==
    ASSUME TypeOK, TimeInv, KeptInv, [Next]_vars
    PROVE  KeptInv'
<1>1. CASE UNCHANGED vars
  BY <1>1 DEF vars, account, KeptInv
<1>2. ASSUME NEW q \in Requests, Load(q) PROVE KeptInv'
  BY <1>2 DEF Load, account, TypeOK, KeptInv
<1>3. ASSUME NEW q \in Requests, NEW s \in Requested, NEW given \in 0..now,
             UpdateStatus(q, s, given)
      PROVE  KeptInv'
  <2> DEFINE n == Changed(loaded[q], s, given, now + 1)
  <2>1. Range(loaded[q].history) \subseteq Range(n.history)
    <3> DEFINE h == loaded[q].history
               e == [at |-> now + 1, status |-> s]
    <3>1. h \in Seq(Entries) /\ n.history = Append(h, e)
      BY DEF TypeOK, Rows, Changed
    <3>2. e \in Entries
      BY RequestedAssumption DEF Entries, TypeOK
    <3> HIDE DEF h, e, n
    <3>3. /\ DOMAIN h \subseteq DOMAIN Append(h, e)
          /\ \A i \in DOMAIN h : Append(h, e)[i] = h[i]
      BY <3>1, <3>2
    <3>4. Range(h) \subseteq Range(n.history)
      BY <3>1, <3>3 DEF Range
    <3> QED
      BY <3>4 DEF h
  <2>2. new' = [new EXCEPT ![q] = n] /\ pc' = [pc EXCEPT ![q] = "writing"]
        /\ pc[q] # "idle" /\ UNCHANGED <<exists, row, loaded, acked, stale, excused>>
    BY <1>3 DEF UpdateStatus, account
  <2> HIDE DEF n
  <2> QED
    BY <2>1, <2>2 DEF TypeOK, KeptInv
<1>4. ASSUME NEW q \in Requests, Commit(q) PROVE KeptInv'
  <2>1. CASE exists
    <3>1. row'.history = new[q].history
      <4>1. FlushedRow(q).history = new[q].history
        BY <1>4 DEF Commit, TimeInv, FlushedRow, Flushed
      <4> QED
        BY <1>4, <2>1, <4>1 DEF Commit
    <3>2. acked' \ excused' \subseteq Range(row'.history)
      <4>1. CASE q \in stale
        BY <1>4, <2>1, <3>1, <4>1 DEF Commit, Settle, KeptInv
      <4>2. CASE q \notin stale
        BY <1>4, <2>1, <3>1, <4>2 DEF Commit, Settle, KeptInv
      <4> QED
        BY <4>1, <4>2
    <3>3. \A k \in Requests : pc'[k] = "idle" \/ k \in stale'
      BY <1>4, <2>1 DEF Commit, Settle, Leave, TypeOK
    <3> QED
      BY <3>2, <3>3 DEF KeptInv
  <2>2. CASE ~exists
    BY <1>4, <2>2 DEF Commit, KeptInv
  <2> QED
    BY <2>1, <2>2
<1>5. ASSUME NEW q \in Requests, Fail(q) PROVE KeptInv'
  BY <1>5, FailKept DEF Fail
<1>6. CASE Delete
  BY <1>6 DEF Delete, KeptInv
<1>7. CASE Dashboard
  <2>1. UNCHANGED <<exists, row, pc, loaded, new, account>>
    BY <1>7 DEF Dashboard, CountStatuses, ChartWeeks, Respond
  <2> QED
    BY <2>1 DEF account, KeptInv
<1> QED
  BY <1>1, <1>2, <1>3, <1>4, <1>5, <1>6, <1>7 DEF Next

\* An entry a client was shown stays in the history unless a request that was
\* overtaken removes it (EntriesKept).
THEOREM HistoryKept == Spec => []EntriesKept
<1>1. Init => KeptInv
  BY DEF Init, KeptInv
<1>2. KeptInv => EntriesKept
  BY DEF KeptInv, EntriesKept
<1> QED
  BY <1>1, <1>2, TypeCorrect, TimeAlways, KeptStep, PTL DEF Spec
=============================================================================
