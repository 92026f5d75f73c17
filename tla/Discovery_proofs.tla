-------------------------- MODULE Discovery_proofs --------------------------
(***************************************************************************)
(* Theorems about Discovery: for any number of runs, captures and          *)
(* requests, a posting has one row, the two tables refer to each other,    *)
(* and no discovered row is forgotten.                                     *)
(*                                                                         *)
(* Then theorems about Scraping, which makes the batch of the action Fetch *)
(* of Discovery: for any profile and any changes of the boards, a search   *)
(* that saw the end of its list has missed nothing.                        *)
(***************************************************************************)
EXTENDS Discovery, Scraping, FiniteSetTheorems, SequenceTheorems, TLAPS

-----------------------------------------------------------------------------
(* Types *)

\* A capture is of one page.
PageInv ==
    \A q \in Requests : target[q].page = {} \/ \E k \in CapturedPages : target[q].page = {k}

\* What an INSERT leaves: the rows there were, and new ones, one for each key.
LEMMA InsertFacts ==
    ASSUME TypeOK, NEW ks \in SUBSET Keys, IsFiniteSet(ks),
           NEW f \in Orders(ks), Insert(ks, f)
    PROVE  /\ Cardinality(ks) \in Nat
           /\ used' = used + Cardinality(ks)
           /\ key' \in [1..used' -> Keys]
           /\ row' \in [1..used' -> Rows]
           /\ \A i \in 1..used : key'[i] = key[i] /\ row'[i] = row[i]
           /\ \A i \in (used + 1)..used' : key'[i] \in ks /\ row'[i] = NewRow
           /\ \A i, j \in (used + 1)..used' : key'[i] = key'[j] => i = j
<1> DEFINE n == Cardinality(ks)
           g == [m \in DOMAIN f |-> NewRow]
<1>1. n \in Nat /\ used \in Nat
  BY FS_CardinalityType, MaxRowsAssumption DEF TypeOK
<1>2. /\ f \in [1..n -> ks] /\ DOMAIN f = 1..n
      /\ \A i, j \in 1..n : f[i] = f[j] => i = j
  BY DEF Orders, Bijection, Injection, IsInjective
<1>3. NewRow \in Rows
  BY DEF NewRow, Rows, Triages, NoApp
<1> HIDE DEF n
<1>4. f \in Seq(Keys) /\ Len(f) = n
  BY <1>1, <1>2
<1>5. key \in Seq(Keys) /\ Len(key) = used
  BY <1>1 DEF TypeOK
<1>6. g \in Seq(Rows) /\ Len(g) = n /\ \A m \in 1..n : g[m] = NewRow
  <2>1. g \in [1..n -> Rows]
    BY <1>2, <1>3
  <2> QED
    BY <1>1, <1>2, <2>1
<1>7. row \in Seq(Rows) /\ Len(row) = used
  BY <1>1 DEF TypeOK
<1>8. key' = key \o f /\ row' = row \o g /\ used' = used + n
  BY DEF Insert, n
<1> HIDE DEF g
<1>9. /\ key' \in Seq(Keys) /\ Len(key') = used'
      /\ \A i \in 1..used' : key'[i] = IF i <= used THEN key[i] ELSE f[i - used]
  BY <1>4, <1>5, <1>8, ConcatProperties
<1>10. /\ row' \in Seq(Rows) /\ Len(row') = used'
       /\ \A i \in 1..used' : row'[i] = IF i <= used THEN row[i] ELSE g[i - used]
  BY <1>6, <1>7, <1>8, ConcatProperties
<1>11. key' \in [1..used' -> Keys] /\ row' \in [1..used' -> Rows]
  BY <1>9, <1>10, LenProperties
<1>12. \A i \in 1..used : key'[i] = key[i] /\ row'[i] = row[i]
  BY <1>1, <1>8, <1>9, <1>10
<1>13. \A i \in (used + 1)..used' : /\ i - used \in 1..n /\ key'[i] = f[i - used]
                                    /\ row'[i] = g[i - used]
  BY <1>1, <1>8, <1>9, <1>10
<1>14. \A i \in (used + 1)..used' : key'[i] \in ks /\ row'[i] = NewRow
  BY <1>2, <1>6, <1>13
<1>15. \A i, j \in (used + 1)..used' : key'[i] = key'[j] => i = j
  <2> SUFFICES ASSUME NEW i \in (used + 1)..used', NEW j \in (used + 1)..used',
                      key'[i] = key'[j]
               PROVE  i = j
    OBVIOUS
  <2>1. i - used = j - used
    BY <1>2, <1>13
  <2> QED
    BY <1>1, <1>8, <2>1
<1> QED
  BY <1>1, <1>8, <1>11, <1>12, <1>14, <1>15 DEF n

LEMMA RowTypes ==
    /\ NewRow \in Rows /\ NoTarget \in Targets
    /\ \A l, n \in Rows, i \in 1..used : row[i] \in Rows => Updated(i, l, n) \in Rows
BY MaxRowsAssumption
DEF NewRow, NoTarget, Targets, Rows, Triages, NoApp, Updated, Flushed

\* The steps of a run that move no row.
LEMMA RunType ==
    ASSUME TypeOK, PageInv, NEW r \in Runs,
           \/ \E results \in SUBSET Postings : Fetch(r, results)
           \/ \E k \in Postings : LookUp(r, k)
           \/ UpsertFails(r) \/ CommitFails(r)
           \/ FinishRun(r)
    PROVE  TypeOK' /\ PageInv'
<1> USE DEF tables, history
<1>1. CASE \E results \in SUBSET Postings : Fetch(r, results)
  BY <1>1 DEF Fetch, TypeOK, PageInv
<1>2. CASE \E k \in Postings : LookUp(r, k)
  BY <1>2 DEF LookUp, TypeOK, PageInv
<1>3. CASE UpsertFails(r) \/ CommitFails(r)
  <2>1. /\ EndRun(r) /\ skipped' \subseteq skipped \cup queue[r]
        /\ UNCHANGED <<key, row, live, used, apps, pc, target, cut, chased>>
    BY <1>3 DEF UpsertFails, CommitFails
  <2>2. skipped' \subseteq Ids
    BY <2>1 DEF TypeOK
  <2> QED
    BY <2>1, <2>2 DEF EndRun, TypeOK, PageInv
<1>4. CASE FinishRun(r)
  BY <1>4 DEF FinishRun, EndRun, TypeOK, PageInv
<1> QED
  BY <1>1, <1>2, <1>3, <1>4

LEMMA InsertType ==
    ASSUME TypeOK, PageInv, NEW ks \in SUBSET Keys, IsFiniteSet(ks),
           NEW f \in Orders(ks), Insert(ks, f), used + Cardinality(ks) <= MaxRows
    PROVE  /\ used' \in 0..MaxRows
           /\ key' \in [1..used' -> Keys]
           /\ row' \in [1..used' -> Rows]
           /\ live' \subseteq 1..used'
           /\ apps' = apps
<1> DEFINE n == Cardinality(ks)
<1>1. n \in Nat /\ used' = used + n /\ used \in Nat /\ used' <= MaxRows
  BY InsertFacts, MaxRowsAssumption DEF TypeOK
<1>2. live \subseteq 1..used /\ live' = live \cup (used + 1)..(used + n) /\ apps' = apps
  BY DEF TypeOK, Insert
<1> HIDE DEF n
<1>3. live' \subseteq 1..used'
  BY <1>1, <1>2
<1>4. used' \in 0..MaxRows
  BY <1>1, MaxRowsAssumption
<1> QED
  BY <1>2, <1>3, <1>4, InsertFacts

LEMMA InsertFreshType ==
    ASSUME TypeOK, PageInv, NEW r \in Runs, InsertFresh(r)
    PROVE  TypeOK' /\ PageInv'
<1> USE DEF tables, history
<1>1. CASE Conflict(fresh[r])
  BY <1>1 DEF InsertFresh, EndRun, TypeOK, PageInv
<1>2. CASE ~Conflict(fresh[r])
  <2> DEFINE ks == fresh[r]
  <2>1. ks \in SUBSET Keys /\ IsFiniteSet(ks)
    BY PostingsAssumption, FS_Subset DEF TypeOK, Keys
  <2>2. /\ used + Cardinality(ks) <= MaxRows
        /\ queue' = [queue EXCEPT ![r] = (used + 1)..(used + Cardinality(ks))]
        /\ rpc' = [rpc EXCEPT ![r] = "scoring"] /\ fresh' = [fresh EXCEPT ![r] = {}]
        /\ todo' = todo /\ pc' = pc /\ target' = target
        /\ skipped' = skipped /\ cut' = cut /\ chased' = chased
    BY <1>2 DEF InsertFresh
  <2>3. PICK f \in Orders(ks) : Insert(ks, f)
    BY <1>2 DEF InsertFresh
  <2> HIDE DEF ks
  <2>4. /\ used' \in 0..MaxRows /\ key' \in [1..used' -> Keys]
        /\ row' \in [1..used' -> Rows] /\ live' \subseteq 1..used' /\ apps' = apps
    BY <2>1, <2>2, <2>3, InsertType
  <2>5. Cardinality(ks) \in Nat /\ used \in Nat
    BY <2>1, <2>3, InsertFacts, MaxRowsAssumption DEF TypeOK
  <2>6. (used + 1)..(used + Cardinality(ks)) \subseteq Ids
    BY <2>2, <2>5, MaxRowsAssumption DEF Ids
  <2> QED
    BY <2>2, <2>4, <2>6 DEF TypeOK, PageInv
<1> QED
  BY <1>1, <1>2

\* A request that leaves, and what that is worth to the types.
LEMMA LeaveType ==
    ASSUME TypeOK, PageInv, NEW q \in Requests, LeaveRequest(q)
    PROVE  /\ pc' \in [Requests -> {"idle", "scoring", "deleting", "inserting"}]
           /\ target' \in [Requests -> Targets]
           /\ PageInv'
<1>1. NoTarget \in Targets /\ NoTarget.page = {}
  BY RowTypes DEF NoTarget
<1> QED
  BY <1>1 DEF LeaveRequest, TypeOK, PageInv

LEMMA EndCaptureType ==
    ASSUME TypeOK, PageInv, NEW q \in Requests, EndCapture(q)
    PROVE  TypeOK' /\ PageInv'
<1> USE DEF tables, runs, history
<1>1. /\ pc' \in [Requests -> {"idle", "scoring", "deleting", "inserting"}]
      /\ target' \in [Requests -> Targets] /\ PageInv'
  BY LeaveType DEF EndCapture
<1>2. CASE Conflict(target[q].page)
  BY <1>1, <1>2 DEF EndCapture, TypeOK
<1>3. CASE ~Conflict(target[q].page)
  <2> DEFINE ks == target[q].page
  <2>1. ks \in SUBSET Keys /\ IsFiniteSet(ks) /\ Cardinality(ks) \in 0..1
    <3>1. ks = {} \/ \E k \in CapturedPages : ks = {k}
      BY DEF PageInv
    <3> HIDE DEF ks
    <3>2. CASE ks = {}
      <4>1. IsFiniteSet({}) /\ Cardinality({}) = 0
        BY FS_EmptySet
      <4> QED
        BY <3>2, <4>1
    <3>3. ASSUME NEW k \in CapturedPages, ks = {k}
          PROVE  ks \in SUBSET Keys /\ IsFiniteSet(ks) /\ Cardinality(ks) \in 0..1
      <4>1. IsFiniteSet({k}) /\ Cardinality({k}) = 1
        BY FS_Singleton
      <4> QED
        BY <3>3, <4>1 DEF Keys
    <3> QED
      BY <3>1, <3>2, <3>3
  <2>2. used < MaxRows /\ used \in Nat
    BY <1>3, MaxRowsAssumption DEF EndCapture, TypeOK
  <2>3. PICK f \in Orders(ks) : Insert(ks, f)
    BY <1>3 DEF EndCapture
  <2>4. rpc' = rpc /\ todo' = todo /\ fresh' = fresh /\ queue' = queue
        /\ skipped' = skipped /\ cut' = cut /\ chased' = chased
    BY DEF EndCapture
  <2> HIDE DEF ks
  <2>5. used + Cardinality(ks) <= MaxRows
    BY <2>1, <2>2, MaxRowsAssumption
  <2>6. /\ used' \in 0..MaxRows /\ key' \in [1..used' -> Keys]
        /\ row' \in [1..used' -> Rows] /\ live' \subseteq 1..used' /\ apps' = apps
    BY <2>1, <2>3, <2>5, InsertType
  <2> QED
    BY <1>1, <2>4, <2>6 DEF TypeOK
<1> QED
  BY <1>2, <1>3

LEMMA ScoreType ==
    ASSUME TypeOK, PageInv, NEW r \in Runs, NEW i \in Ids,
           (\E v \in Verdicts : ScoreRow(r, i, v)) \/ FailRow(r, i)
    PROVE  TypeOK' /\ PageInv'
<1> USE DEF history
<1>1. i \in 1..used /\ NewRow \in Rows /\ row[i] \in Rows
  BY RowTypes DEF ScoreRow, FailRow, TypeOK
<1>2. ASSUME NEW v \in Verdicts, ScoreRow(r, i, v) PROVE TypeOK' /\ PageInv'
  <2> DEFINE a == IF Promotes(v) THEN Len(apps) + 1 ELSE NoApp
  <2>1. a \in Nat /\ apps \in Seq(Ids)
    BY DEF TypeOK, NoApp
  <2>2. /\ row' = [row EXCEPT ![i] = Updated(i, NewRow, Scored(NewRow, a))]
        /\ apps' = IF a = NoApp THEN apps ELSE Append(apps, i)
        /\ chased' \in {chased, chased \cup {i}}
    BY <1>2 DEF ScoreRow
  <2> HIDE DEF a
  <2>3. Scored(NewRow, a) \in Rows
    BY <1>1, <2>1 DEF Scored, Rows, Triages
  <2>4. Updated(i, NewRow, Scored(NewRow, a)) \in Rows
    BY <1>1, <2>3, RowTypes
  <2>6. apps' \in Seq(Ids)
    BY <2>1, <2>2
  <2>7. row' \in [1..used -> Rows]
    BY <1>1, <2>2, <2>4 DEF TypeOK
  <2>8. chased' \subseteq Ids
    BY <2>2 DEF TypeOK
  <2>5. apps' \in Seq(Ids) /\ row' \in [1..used -> Rows] /\ chased' \subseteq Ids
    BY <2>6, <2>7, <2>8
  <2> QED
    BY <1>2, <2>5 DEF ScoreRow, TypeOK, PageInv
<1>3. CASE FailRow(r, i)
  <2>1. Failed(NewRow) \in Rows
    BY <1>1 DEF Failed, Rows, Triages
  <2>2. Updated(i, NewRow, Failed(NewRow)) \in Rows
    BY <1>1, <2>1, RowTypes
  <2>3. row' \in [1..used -> Rows]
    BY <1>3, <2>2 DEF FailRow, TypeOK
  <2> QED
    BY <1>3, <2>3 DEF FailRow, TypeOK, PageInv
<1> QED
  BY <1>2, <1>3

\* The copy a score request has is a row, and so is what it makes of it.
LEMMA RescoredType ==
    ASSUME NEW l \in Rows, NEW b \in Bands
    PROVE  Rescored(l, b) \in Rows
BY DEF Rescored, Rows, Triages, Bands

\* A request that serves a row knows its id.
ServesInv ==
    \A q \in Requests : pc[q] \in {"scoring", "deleting"} => target[q].id \in 1..used

LEMMA RequestType ==
    ASSUME TypeOK, PageInv, ServesInv, NEW q \in Requests,
           \/ \E i \in Ids : StartScore(q, i) \/ StartDelete(q, i)
           \/ \E k \in CapturedPages : StartCapture(q, k)
           \/ \E b \in Bands : EndScore(q, b)
           \/ EndDelete(q)
           \/ FailRequest(q)
    PROVE  TypeOK' /\ PageInv'
<1> USE DEF tables, runs, history
<1>1. ASSUME NEW i \in Ids, StartScore(q, i) \/ StartDelete(q, i)
      PROVE  TypeOK' /\ PageInv'
  <2>1. i \in 1..used /\ row[i] \in Rows /\ NewRow \in Rows /\ i \in 0..MaxRows
    <3>1. i \in live
      BY <1>1 DEF StartScore, StartDelete, LoadRow
    <3>2. i \in 1..used /\ row[i] \in Rows
      BY <3>1 DEF TypeOK
    <3> QED
      BY <3>2, RowTypes, MaxRowsAssumption DEF Ids
  <2>2. PICK l \in {row[i], NewRow} :
           target' = [target EXCEPT ![q] = [NoTarget EXCEPT !.id = i, !.copy = l]]
    BY <1>1 DEF StartScore, StartDelete, LoadRow
  <2>3. /\ [NoTarget EXCEPT !.id = i, !.copy = l] \in Targets
        /\ [NoTarget EXCEPT !.id = i, !.copy = l].page = {}
    BY <2>1 DEF NoTarget, Targets
  <2>4. target' \in [Requests -> Targets] /\ PageInv'
    BY <2>2, <2>3 DEF TypeOK, PageInv
  <2> QED
    BY <1>1, <2>4 DEF StartScore, StartDelete, LoadRow, TypeOK
<1>2. ASSUME NEW k \in CapturedPages, StartCapture(q, k) PROVE TypeOK' /\ PageInv'
  <2>1. /\ [NoTarget EXCEPT !.page = {k}] \in Targets
        /\ [NoTarget EXCEPT !.page = {k}].page = {k}
    BY RowTypes DEF NoTarget, Targets
  <2>2. target' \in [Requests -> Targets] /\ PageInv'
    BY <1>2, <2>1 DEF StartCapture, TypeOK, PageInv
  <2> QED
    BY <1>2, <2>2 DEF StartCapture, TypeOK
<1>3. ASSUME LeaveRequest(q)
      PROVE  /\ pc' \in [Requests -> {"idle", "scoring", "deleting", "inserting"}]
             /\ target' \in [Requests -> Targets] /\ PageInv'
  BY <1>3, LeaveType
<1>4. ASSUME NEW b \in Bands, EndScore(q, b) PROVE TypeOK' /\ PageInv'
  <2> DEFINE i == target[q].id
             l == target[q].copy
  <2>1. i \in 1..used /\ l \in Rows /\ row[i] \in Rows
    BY <1>4 DEF EndScore, ServesInv, TypeOK, Targets
  <2>2. Updated(i, l, Rescored(l, b)) \in Rows
    BY <2>1, RescoredType, RowTypes
  <2>3. row' \in [1..used -> Rows]
    BY <1>4, <2>1, <2>2 DEF EndScore, TypeOK
  <2> QED
    BY <1>3, <1>4, <2>3 DEF EndScore, TypeOK
<1>5. CASE EndDelete(q)
  <2>1. row' \in [1..used -> Rows]
    BY <1>5, RowTypes DEF EndDelete, TypeOK
  <2> QED
    BY <1>3, <1>5, <2>1 DEF EndDelete, TypeOK
<1>6. CASE FailRequest(q)
  BY <1>3, <1>6 DEF FailRequest, TypeOK
<1> QED
  BY <1>1, <1>2, <1>4, <1>5, <1>6

LEMMA CrashType ==
    ASSUME TypeOK, PageInv, Crash
    PROVE  TypeOK' /\ PageInv'
<1>1. NoTarget \in Targets /\ NoTarget.page = {}
  BY RowTypes DEF NoTarget
<1>2. cut' \subseteq Ids
  BY DEF Crash, TypeOK
<1> QED
  BY <1>1, <1>2 DEF Crash, TypeOK, PageInv, tables

LEMMA InitType == Init => TypeOK /\ PageInv
<1> SUFFICES ASSUME Init PROVE TypeOK /\ PageInv
  OBVIOUS
<1>1. NoTarget \in Targets /\ NoTarget.page = {}
  BY RowTypes DEF NoTarget
<1>2. used = 0 /\ 0 \in 0..MaxRows /\ 1..0 = {}
  BY MaxRowsAssumption DEF Init
<1>3. key \in [1..used -> Keys] /\ row \in [1..used -> Rows] /\ apps \in Seq(Ids)
  BY <1>2 DEF Init
<1> QED
  BY <1>1, <1>2, <1>3 DEF Init, TypeOK, PageInv
-----------------------------------------------------------------------------
(* The rows, the queues and the copies *)

\* An application belongs to a row that was inserted, and a row that is linked to
\* the application that was created for it.
LinkInv ==
    /\ LinkedBothWays
    /\ \A a \in DOMAIN apps : apps[a] \in 1..used
    /\ \A i \in live :
          row[i].app # NoApp => row[i].app \in DOMAIN apps /\ apps[row[i].app] = i

\* What is in a queue was inserted and has no application yet.
QueueInv ==
    \A r \in Runs : \A i \in queue[r] :
        i \in 1..used /\ \A a \in DOMAIN apps : apps[a] # i

\* No row is in two queues: nothing will be scored twice.
ApartInv == \A r, s \in Runs : r # s => queue[r] \cap queue[s] = {}

\* A run that is not scoring has nothing to score.
IdleInv == \A r \in Runs : rpc[r] # "scoring" => queue[r] = {}

\* A link seen by a score request is still there, unless the row is gone; one not
\* seen by a delete was made behind its back.
CopyInv ==
    \A q \in Requests :
        LET i == target[q].id
            l == target[q].copy
        IN  /\ pc[q] = "scoring" /\ i \in live /\ l.app # NoApp => row[i].app = l.app
            /\ pc[q] = "deleting" => \A a \in DOMAIN apps : apps[a] = i => i \in chased

IInv ==
    /\ TypeOK /\ PageInv /\ ServesInv
    /\ OneRowPerPosting /\ PendingIsQueued
    /\ LinkInv /\ QueueInv /\ ApartInv /\ CopyInv

\* What of it goes by the tables and the queues alone.
TableInv ==
    OneRowPerPosting /\ PendingIsQueued /\ LinkInv /\ QueueInv /\ ApartInv

LEMMA AppsType ==
    ASSUME TypeOK
    PROVE  /\ NoApp \notin DOMAIN apps /\ DOMAIN apps = 1..Len(apps) /\ Len(apps) \in Nat
           /\ \A i \in live : i \in 1..used /\ row[i] \in Rows
BY DEF TypeOK, NoApp

\* A step that touches neither the tables nor a queue nor the history.
LEMMA QuietStep ==
    ASSUME TypeOK, TableInv, UNCHANGED tables, UNCHANGED queue, UNCHANGED history
    PROVE  TableInv'
BY DEF TableInv, OneRowPerPosting, PendingIsQueued, LinkInv, LinkedBothWays, QueueInv,
       ApartInv, tables, history

\* So is one that takes only the queue of a run away, when the rows left in it are
\* accounted for.
LEMMA DropStep ==
    ASSUME TypeOK, TableInv, NEW r \in Runs, UNCHANGED <<tables, cut, chased>>,
           queue' = [queue EXCEPT ![r] = {}], skipped \subseteq skipped',
           \A i \in queue[r] : i \in live => i \in skipped'
    PROVE  TableInv'
<1>1. \A s \in Runs : queue'[s] = IF s = r THEN {} ELSE queue[s]
  BY DEF TypeOK
<1>2. LinkInv' /\ OneRowPerPosting'
  BY DEF TableInv, LinkInv, LinkedBothWays, OneRowPerPosting, tables
<1>3. QueueInv' /\ ApartInv'
  BY <1>1 DEF TableInv, QueueInv, ApartInv, tables
<1>4. PendingIsQueued'
  BY <1>1 DEF TableInv, PendingIsQueued, tables
<1> QED
  BY <1>2, <1>3, <1>4 DEF TableInv

\* An INSERT of keys no row has: the rows are new, and nothing refers to them yet.
LEMMA InsertTables ==
    ASSUME TypeOK, TableInv, NEW ks \in SUBSET Keys, IsFiniteSet(ks), ~Conflict(ks),
           NEW f \in Orders(ks), Insert(ks, f), UNCHANGED history
    PROVE  /\ OneRowPerPosting' /\ LinkInv'
           /\ used' \in Nat /\ used \in Nat /\ used <= used'
           /\ (used + 1)..used' = (used + 1)..(used + Cardinality(ks))
           /\ \A i \in live' : i \in live \/ (i \in (used + 1)..used' /\ key'[i] \in ks)
           /\ \A i \in live : key'[i] = key[i] /\ row'[i] = row[i]
<1> DEFINE n == Cardinality(ks)
<1>1. /\ n \in Nat /\ used' = used + n /\ used \in Nat
      /\ \A i \in 1..used : key'[i] = key[i] /\ row'[i] = row[i]
      /\ \A i \in (used + 1)..used' : key'[i] \in ks /\ row'[i] = NewRow
      /\ \A i, j \in (used + 1)..used' : key'[i] = key'[j] => i = j
  BY InsertFacts, MaxRowsAssumption DEF TypeOK
<1>2. live' = live \cup (used + 1)..(used + n) /\ apps' = apps /\ live \subseteq 1..used
  BY DEF Insert, TypeOK
<1> HIDE DEF n
<1>3. \A i \in live' : i \in live \/ i \in (used + 1)..used'
  BY <1>1, <1>2
<1>4. \A i \in live : key'[i] = key[i] /\ row'[i] = row[i] /\ i \in live'
  BY <1>1, <1>2
<1>5. \A i \in live : key[i] \notin ks
  BY DEF Conflict, Present
<1>6. OneRowPerPosting'
  <2> SUFFICES ASSUME NEW i \in live', NEW j \in live', key'[i] = key'[j] PROVE i = j
    BY DEF OneRowPerPosting
  <2>1. CASE i \in live /\ j \in live
    BY <1>4, <2>1 DEF TableInv, OneRowPerPosting
  <2>2. CASE i \in live /\ j \notin live
    BY <1>1, <1>3, <1>4, <1>5, <2>2
  <2>3. CASE i \notin live /\ j \in live
    BY <1>1, <1>3, <1>4, <1>5, <2>3
  <2>4. CASE i \notin live /\ j \notin live
    BY <1>1, <1>3, <2>4
  <2> QED
    BY <2>1, <2>2, <2>3, <2>4
<1>7. \A i \in live' \ live : row'[i] = NewRow /\ i \notin 1..used
  BY <1>1, <1>2, <1>3
<1>8. NewRow.app = NoApp /\ NewRow.triage = "pending"
  BY DEF NewRow
<1>9. LinkInv'
  <2>1. \A a \in DOMAIN apps : apps[a] \in 1..used /\ apps[a] \in 1..used'
    BY <1>1 DEF TableInv, LinkInv
  <2>2. \A a \in DOMAIN apps : IF apps[a] \in live' THEN row'[apps[a]].app = a
                               ELSE apps[a] \in chased
    BY <1>4, <1>7, <2>1 DEF TableInv, LinkInv, LinkedBothWays
  <2>3. \A i \in live' : row'[i].triage = "promoted" => row'[i].app \in DOMAIN apps
    BY <1>4, <1>7, <1>8 DEF TableInv, LinkInv, LinkedBothWays
  <2>4. \A i \in live' :
           row'[i].app # NoApp => row'[i].app \in DOMAIN apps /\ apps[row'[i].app] = i
    BY <1>4, <1>7, <1>8 DEF TableInv, LinkInv
  <2> QED
    BY <1>2, <2>1, <2>2, <2>3, <2>4 DEF TableInv, LinkInv, LinkedBothWays, history
<1>10. \A i \in live' : i \in live \/ (i \in (used + 1)..used' /\ key'[i] \in ks)
  BY <1>1, <1>3
<1>11. used' \in Nat /\ used \in Nat /\ used <= used' /\ used' = used + n
  BY <1>1
<1> QED
  BY <1>4, <1>6, <1>9, <1>10, <1>11 DEF n

\* The triage of one row changes, and its link does not.
LEMMA TriageStep ==
    ASSUME TypeOK, TableInv, NEW i, UNCHANGED <<key, live, used, apps, chased>>,
           \A j \in live : j # i => row'[j] = row[j],
           i \in live => /\ row'[i].app = row[i].app
                         /\ row'[i].triage = "promoted" =>
                               row[i].triage = "promoted" \/ row[i].app # NoApp
    PROVE  OneRowPerPosting' /\ LinkInv'
<1>1. OneRowPerPosting'
  BY DEF TableInv, OneRowPerPosting
<1>2. \A j \in live : row'[j].app = row[j].app
  OBVIOUS
<1>3. ASSUME NEW j \in live, row'[j].triage = "promoted" PROVE row'[j].app \in DOMAIN apps
  <2>1. row[j].triage = "promoted" \/ row[j].app # NoApp
    BY <1>3
  <2> QED
    BY <1>2, <2>1 DEF TableInv, LinkInv, LinkedBothWays
<1> QED
  BY <1>1, <1>2, <1>3 DEF TableInv, LinkInv, LinkedBothWays
-----------------------------------------------------------------------------
(* The steps *)

\* The copies hold through a step that leaves every request and every link alone.
LEMMA CopyKept ==
    ASSUME TypeOK, ServesInv, CopyInv, UNCHANGED <<pc, target, apps>>,
           used' \in Nat, used <= used', chased \subseteq chased',
           \A i \in 1..used : i \in live' => i \in live /\ row'[i].app = row[i].app
    PROVE  ServesInv' /\ CopyInv'
<1>1. used \in Nat
  BY MaxRowsAssumption DEF TypeOK
<1>2. ServesInv'
  BY <1>1 DEF ServesInv
<1>3. CopyInv'
  BY DEF CopyInv, ServesInv
<1> QED
  BY <1>2, <1>3

LEMMA QuietRun ==
    ASSUME IInv, IdleInv, NEW r \in Runs,
           \/ \E results \in SUBSET Postings : Fetch(r, results)
           \/ \E k \in Postings : LookUp(r, k)
           \/ UpsertFails(r) \/ CommitFails(r)
           \/ FinishRun(r)
    PROVE  IInv'
<1>1. TypeOK /\ TableInv /\ PageInv /\ ServesInv /\ CopyInv
  BY DEF IInv, TableInv
<1>2. TypeOK' /\ PageInv'
  BY <1>1, RunType
<1>3. UNCHANGED tables /\ UNCHANGED <<pc, target, cut, chased>>
  BY DEF Fetch, LookUp, UpsertFails, CommitFails, FinishRun, history
<1>4. ServesInv' /\ CopyInv'
  BY <1>1, <1>3 DEF ServesInv, CopyInv, tables
<1>5. CASE (\E results \in SUBSET Postings : Fetch(r, results)) \/ (\E k \in Postings : LookUp(r, k))
  <2>1. UNCHANGED queue /\ UNCHANGED history
    BY <1>5 DEF Fetch, LookUp
  <2> QED
    BY <1>1, <1>2, <1>3, <1>4, <2>1, QuietStep DEF IInv, TableInv
<1>6. CASE CommitFails(r)
  <2>1. /\ queue' = [queue EXCEPT ![r] = {}] /\ skipped \subseteq skipped'
        /\ \A j \in queue[r] : j \in live => j \in skipped'
    BY <1>6 DEF CommitFails, EndRun
  <2> QED
    BY <1>1, <1>2, <1>3, <1>4, <2>1, DropStep DEF IInv, TableInv
<1>7. CASE FinishRun(r)
  <2>1. /\ queue' = [queue EXCEPT ![r] = {}] /\ skipped \subseteq skipped'
        /\ \A j \in queue[r] : j \in live => j \in skipped'
    BY <1>7 DEF FinishRun, EndRun, history
  <2> QED
    BY <1>1, <1>2, <1>3, <1>4, <2>1, DropStep DEF IInv, TableInv
<1>8. CASE UpsertFails(r)
  <2>1. queue[r] = {}
    BY <1>8 DEF UpsertFails, IdleInv
  <2>2. /\ queue' = [queue EXCEPT ![r] = {}] /\ skipped \subseteq skipped'
        /\ \A j \in queue[r] : j \in live => j \in skipped'
    BY <1>8, <2>1 DEF UpsertFails, EndRun, history
  <2> QED
    BY <1>1, <1>2, <1>3, <1>4, <2>2, DropStep DEF IInv, TableInv
<1> QED
  BY <1>5, <1>6, <1>7, <1>8

LEMMA InsertFreshInv ==
    ASSUME IInv, IdleInv, NEW r \in Runs, InsertFresh(r)
    PROVE  IInv'
<1>1. TypeOK /\ TableInv /\ PageInv /\ ServesInv /\ CopyInv
  BY DEF IInv, TableInv
<1>2. TypeOK' /\ PageInv'
  BY <1>1, InsertFreshType
<1>3. UNCHANGED <<pc, target>> /\ UNCHANGED history
  BY DEF InsertFresh
<1>4. CASE Conflict(fresh[r])
  <2>1. /\ UNCHANGED tables /\ queue' = [queue EXCEPT ![r] = {}]
        /\ skipped \subseteq skipped' /\ rpc[r] = "looking"
    BY <1>3, <1>4 DEF InsertFresh, EndRun, history
  <2>2. ServesInv' /\ CopyInv'
    BY <1>1, <1>3, <2>1 DEF ServesInv, CopyInv, tables, history
  <2>3. \A j \in queue[r] : j \in live => j \in skipped'
    BY <2>1 DEF IdleInv
  <2> QED
    BY <1>1, <1>2, <1>3, <2>1, <2>2, <2>3, DropStep DEF IInv, TableInv, history
<1>5. CASE ~Conflict(fresh[r])
  <2> DEFINE ks == fresh[r]
  <2>1. ks \in SUBSET Keys /\ IsFiniteSet(ks) /\ ~Conflict(ks)
    BY <1>1, <1>5, PostingsAssumption, FS_Subset DEF TypeOK, Keys
  <2>2. queue' = [queue EXCEPT ![r] = (used + 1)..(used + Cardinality(ks))]
    BY <1>5 DEF InsertFresh
  <2>3. PICK f \in Orders(ks) : Insert(ks, f)
    BY <1>5 DEF InsertFresh
  <2>4. apps' = apps
    BY <2>3 DEF Insert
  <2> HIDE DEF ks
  <2>5. /\ OneRowPerPosting' /\ LinkInv'
        /\ used' \in Nat /\ used \in Nat /\ used <= used'
        /\ (used + 1)..used' = (used + 1)..(used + Cardinality(ks))
        /\ \A i \in live' : i \in live \/ (i \in (used + 1)..used' /\ key'[i] \in ks)
        /\ \A i \in live : key'[i] = key[i] /\ row'[i] = row[i]
    BY <1>1, <1>3, <2>1, <2>3, InsertTables
  <2>6. \A s \in Runs : queue'[s] = IF s = r THEN (used + 1)..used' ELSE queue[s]
    BY <1>1, <2>2, <2>5 DEF TypeOK
  <2>7. QueueInv' /\ ApartInv'
    <3>1. \A a \in DOMAIN apps : apps[a] \in 1..used
      BY <1>1 DEF TableInv, LinkInv
    <3>2. \A s \in Runs : \A i \in queue[s] : i \in 1..used
      BY <1>1 DEF TableInv, QueueInv
    <3>3. \A i \in (used + 1)..used' : i \notin 1..used /\ i \in 1..used'
      BY <2>5
    <3>4. \A i \in 1..used : i \in 1..used'
      BY <2>5
    <3>5. QueueInv'
      BY <1>1, <2>4, <2>6, <3>1, <3>2, <3>3, <3>4 DEF TableInv, QueueInv
    <3>6. ApartInv'
      BY <1>1, <2>6, <3>2, <3>3 DEF TableInv, ApartInv
    <3> QED
      BY <3>5, <3>6
  <2>8. PendingIsQueued'
    <3> SUFFICES ASSUME NEW i \in live', row'[i].triage = "pending", key'[i] \in Postings
                 PROVE  (\E s \in Runs : i \in queue'[s]) \/ i \in skipped' \cup cut'
      BY DEF PendingIsQueued
    <3>1. CASE i \in (used + 1)..used'
      BY <2>6, <3>1
    <3>2. CASE i \in live
      <4>1. row[i].triage = "pending" /\ key[i] \in Postings /\ i \in 1..used
        BY <1>1, <2>5, <3>2, AppsType
      <4>2. (\E s \in Runs : i \in queue[s]) \/ i \in skipped \cup cut
        BY <1>1, <3>2, <4>1 DEF TableInv, PendingIsQueued
      <4>3. queue[r] = {}
        BY DEF InsertFresh, IdleInv
      <4> QED
        BY <1>3, <2>6, <4>2, <4>3 DEF history
    <3> QED
      BY <2>5, <3>1, <3>2
  <2>9. ServesInv' /\ CopyInv'
    BY <1>1, <1>3, <2>4, <2>5, CopyKept DEF history
  <2> QED
    BY <1>2, <2>5, <2>7, <2>8, <2>9 DEF IInv
<1> QED
  BY <1>4, <1>5

LEMMA ScoreRowInv ==
    ASSUME IInv, NEW r \in Runs, NEW i \in Ids, NEW v \in Verdicts, ScoreRow(r, i, v)
    PROVE  IInv'
<1> DEFINE a == IF Promotes(v) THEN Len(apps) + 1 ELSE NoApp
<1>1. TypeOK /\ TableInv /\ PageInv /\ ServesInv /\ CopyInv
  BY DEF IInv, TableInv
<1>2. TypeOK' /\ PageInv'
  BY <1>1, ScoreType
<1>3. /\ i \in queue[r] /\ i \in live
      /\ row' = [row EXCEPT ![i] = Updated(i, NewRow, Scored(NewRow, a))]
      /\ apps' = IF a = NoApp THEN apps ELSE Append(apps, i)
      /\ chased' = IF a # NoApp /\ Deleting(i) THEN chased \cup {i} ELSE chased
      /\ queue' = [queue EXCEPT ![r] = @ \ {i}]
      /\ UNCHANGED <<key, live, used, pc, target, skipped, cut>>
  BY DEF ScoreRow
<1>4. /\ a # NoApp <=> a = Len(apps) + 1
      /\ a = NoApp \/ a = Len(apps) + 1
  BY <1>1, AppsType DEF NoApp
<1> HIDE DEF a
<1>5. /\ i \in 1..used /\ row[i] \in Rows /\ row[i].app = NoApp
      /\ \A b \in DOMAIN apps : apps[b] # i
  BY <1>1, <1>3, AppsType DEF TableInv, QueueInv, LinkInv
<1>6. /\ row'[i].app = a
      /\ row'[i].triage = IF a = NoApp THEN "filtered" ELSE "promoted"
      /\ \A j \in 1..used : j # i => row'[j] = row[j]
  <2>1. /\ Scored(NewRow, a).app = a
        /\ Scored(NewRow, a).triage = IF a = NoApp THEN "filtered" ELSE "promoted"
        /\ NewRow.app = NoApp /\ NewRow.triage = "pending"
    BY DEF Scored, NewRow
  <2>2. row'[i] = Updated(i, NewRow, Scored(NewRow, a)) /\ \A j \in 1..used : j # i => row'[j] = row[j]
    BY <1>1, <1>3, <1>5 DEF TypeOK
  <2> QED
    BY <1>5, <2>1, <2>2 DEF Updated, Flushed
<1>7. \A s \in Runs : queue'[s] \subseteq queue[s] /\ i \notin queue'[s]
  BY <1>1, <1>3 DEF TypeOK, TableInv, ApartInv
<1>8. /\ DOMAIN apps \subseteq DOMAIN apps'
      /\ \A b \in DOMAIN apps' : b \in DOMAIN apps \/ b = a
      /\ \A b \in DOMAIN apps : apps'[b] = apps[b] /\ b # a
      /\ a # NoApp => a \in DOMAIN apps' /\ apps'[a] = i
      /\ NoApp \notin DOMAIN apps'
  <2>1. apps \in Seq(Ids)
    BY <1>1 DEF TypeOK
  <2> QED
    BY <1>3, <1>4, <2>1 DEF NoApp
<1>9. OneRowPerPosting' /\ PendingIsQueued'
  <2>1. OneRowPerPosting'
    BY <1>1, <1>3 DEF TableInv, OneRowPerPosting
  <2>2. ASSUME NEW j \in live', row'[j].triage = "pending", key'[j] \in Postings
        PROVE  (\E s \in Runs : j \in queue'[s]) \/ j \in skipped' \cup cut'
    <3>1. j # i /\ j \in live /\ row'[j] = row[j]
      BY <1>1, <1>3, <1>6, <2>2, AppsType
    <3>2. \A s \in Runs : j \in queue[s] => j \in queue'[s]
      BY <1>1, <1>3, <3>1 DEF TypeOK
    <3> QED
      BY <1>1, <1>3, <2>2, <3>1, <3>2 DEF TableInv, PendingIsQueued
  <2> QED
    BY <2>1, <2>2 DEF PendingIsQueued
<1>10. LinkInv'
  <2>1. \A j \in live : j # i => row'[j] = row[j]
    BY <1>1, <1>6, AppsType
  <2>2. ASSUME NEW b \in DOMAIN apps'
        PROVE  /\ IF apps'[b] \in live' THEN row'[apps'[b]].app = b ELSE apps'[b] \in chased'
               /\ apps'[b] \in 1..used'
    BY <1>1, <1>3, <1>5, <1>6, <1>8, <2>1 DEF TableInv, LinkInv, LinkedBothWays
  <2>3. ASSUME NEW b \in DOMAIN apps', NEW c \in DOMAIN apps', apps'[b] = apps'[c]
        PROVE  b = c
    BY <1>1, <1>5, <1>8, <2>3 DEF TableInv, LinkInv, LinkedBothWays, IsInjective
  <2>4. ASSUME NEW j \in live'
        PROVE  /\ row'[j].triage = "promoted" => row'[j].app \in DOMAIN apps'
               /\ row'[j].app # NoApp =>
                     row'[j].app \in DOMAIN apps' /\ apps'[row'[j].app] = j
    BY <1>1, <1>3, <1>6, <1>8, <2>1 DEF TableInv, LinkInv, LinkedBothWays
  <2> QED
    BY <2>2, <2>3, <2>4 DEF LinkInv, LinkedBothWays, IsInjective
<1>11. QueueInv' /\ ApartInv'
  BY <1>1, <1>3, <1>7, <1>8 DEF TableInv, QueueInv, ApartInv
<1>12. ServesInv' /\ CopyInv'
  <2>1. ServesInv'
    BY <1>1, <1>3 DEF ServesInv
  <2>2. ASSUME NEW q \in Requests, pc[q] = "scoring", target[q].id \in live,
               target[q].copy.app # NoApp
        PROVE  row'[target[q].id].app = target[q].copy.app
    BY <1>1, <1>5, <1>6, <2>2 DEF ServesInv, CopyInv
  <2>3. ASSUME NEW q \in Requests, pc[q] = "deleting",
               NEW b \in DOMAIN apps', apps'[b] = target[q].id
        PROVE  target[q].id \in chased'
    <3>1. CASE b \in DOMAIN apps
      BY <1>1, <1>3, <1>8, <2>3, <3>1 DEF CopyInv
    <3>2. CASE b = a /\ b \notin DOMAIN apps
      <4>1. a # NoApp /\ target[q].id = i
        BY <1>8, <2>3, <3>2
      <4> QED
        BY <1>3, <2>3, <4>1 DEF Deleting
    <3> QED
      BY <1>8, <2>3, <3>1, <3>2
  <2> QED
    BY <1>3, <2>1, <2>2, <2>3 DEF CopyInv
<1> QED
  BY <1>2, <1>9, <1>10, <1>11, <1>12 DEF IInv

LEMMA IdleStep ==
    ASSUME TypeOK, IdleInv, [Next]_vars
    PROVE  IdleInv'
<1> USE DEF runs, IdleInv
<1>1. CASE UNCHANGED vars
  BY <1>1 DEF vars
<1>2. ASSUME NEW r \in Runs, NEW results \in SUBSET Postings, Fetch(r, results) PROVE IdleInv'
  BY <1>2 DEF Fetch, TypeOK
<1>3. ASSUME NEW r \in Runs, NEW k \in Postings, LookUp(r, k) PROVE IdleInv'
  BY <1>3 DEF LookUp
<1>4. ASSUME NEW r \in Runs, InsertFresh(r) PROVE IdleInv'
  <2>1. \A s \in Runs \ {r} : rpc'[s] = rpc[s] /\ queue'[s] = queue[s]
    BY <1>4 DEF InsertFresh, EndRun, TypeOK
  <2>2. queue'[r] = {} \/ rpc'[r] = "scoring"
    BY <1>4 DEF InsertFresh, EndRun, TypeOK
  <2> QED
    BY <2>1, <2>2
<1>5. ASSUME NEW r \in Runs, NEW i \in Ids,
             (\E v \in Verdicts : ScoreRow(r, i, v)) \/ FailRow(r, i)
      PROVE  IdleInv'
  BY <1>5 DEF ScoreRow, FailRow, TypeOK
<1>6. ASSUME NEW r \in Runs, EndRun(r) PROVE IdleInv'
  BY <1>6 DEF EndRun, TypeOK
<1>7. CASE Crash
  BY <1>7 DEF Crash
<1>8. CASE \E q \in Requests :
              \/ \E i \in Ids : StartScore(q, i) \/ StartDelete(q, i)
              \/ \E k \in CapturedPages : StartCapture(q, k)
              \/ RequestStep(q)
  BY <1>8 DEF StartScore, StartDelete, StartCapture, RequestStep, EndScore, EndDelete,
              EndCapture, FailRequest
<1>9. ASSUME NEW r \in Runs, UpsertFails(r) \/ CommitFails(r) \/ FinishRun(r) PROVE IdleInv'
  BY <1>6, <1>9 DEF UpsertFails, CommitFails, FinishRun
<1> QED
  BY <1>1, <1>2, <1>3, <1>4, <1>5, <1>7, <1>8, <1>9 DEF Next, RunStep

LEMMA FailRowInv ==
    ASSUME IInv, NEW r \in Runs, NEW i \in Ids, FailRow(r, i)
    PROVE  IInv'
<1>1. TypeOK /\ TableInv /\ PageInv /\ ServesInv /\ CopyInv
  BY DEF IInv, TableInv
<1>2. TypeOK' /\ PageInv'
  BY <1>1, ScoreType
<1>3. /\ i \in queue[r] /\ i \in live
      /\ row' = [row EXCEPT ![i] = Updated(i, NewRow, Failed(NewRow))]
      /\ queue' = [queue EXCEPT ![r] = @ \ {i}]
      /\ UNCHANGED <<key, live, used, apps, pc, target, skipped, cut, chased>>
  BY DEF FailRow, history
<1>4. i \in 1..used /\ row[i] \in Rows /\ used \in Nat
  BY <1>1, <1>3, AppsType, MaxRowsAssumption DEF TypeOK
<1>5. /\ row'[i].app = row[i].app /\ row'[i].triage = "error"
      /\ \A j \in 1..used : j # i => row'[j] = row[j]
  <2>1. /\ Failed(NewRow).app = NoApp /\ Failed(NewRow).triage = "error"
        /\ NewRow.app = NoApp /\ NewRow.triage = "pending"
    BY DEF Failed, NewRow
  <2>2. /\ row'[i] = Updated(i, NewRow, Failed(NewRow))
        /\ \A j \in 1..used : j # i => row'[j] = row[j]
    BY <1>1, <1>3, <1>4 DEF TypeOK
  <2> QED
    BY <2>1, <2>2 DEF Updated, Flushed
<1>6. OneRowPerPosting' /\ LinkInv'
  <2>1. \A j \in live : j # i => row'[j] = row[j]
    BY <1>1, <1>5, AppsType
  <2> QED
    BY <1>1, <1>3, <1>5, <2>1, TriageStep
<1>7. PendingIsQueued'
  <2> SUFFICES ASSUME NEW j \in live', row'[j].triage = "pending", key'[j] \in Postings
               PROVE  (\E s \in Runs : j \in queue'[s]) \/ j \in skipped' \cup cut'
    BY DEF PendingIsQueued
  <2>1. j # i /\ j \in live /\ row'[j] = row[j]
    BY <1>1, <1>3, <1>5, AppsType
  <2>2. \A s \in Runs : j \in queue[s] => j \in queue'[s]
    BY <1>1, <1>3, <2>1 DEF TypeOK
  <2> QED
    BY <1>1, <1>3, <2>1, <2>2 DEF TableInv, PendingIsQueued
<1>8. \A s \in Runs : queue'[s] \subseteq queue[s]
  BY <1>1, <1>3 DEF TypeOK
<1>9. QueueInv' /\ ApartInv'
  BY <1>1, <1>3, <1>8 DEF TableInv, QueueInv, ApartInv
<1>10. ServesInv' /\ CopyInv'
  <2>1. \A j \in 1..used : row'[j].app = row[j].app
    BY <1>5
  <2> QED
    BY <1>1, <1>3, <1>4, <2>1, CopyKept
<1> QED
  BY <1>2, <1>6, <1>7, <1>9, <1>10 DEF IInv

-----------------------------------------------------------------------------
(* The requests *)

\* A request that begins takes a copy of what is there.
LEMMA BeginInv ==
    ASSUME IInv, NEW q \in Requests,
           \/ \E i \in Ids : StartScore(q, i) \/ StartDelete(q, i)
           \/ \E k \in CapturedPages : StartCapture(q, k)
    PROVE  IInv'
<1>1. TypeOK /\ TableInv /\ PageInv /\ ServesInv /\ CopyInv
  BY DEF IInv, TableInv
<1>2. TypeOK' /\ PageInv'
  BY <1>1, RequestType
<1>3. UNCHANGED tables /\ UNCHANGED runs /\ UNCHANGED history
  BY DEF StartScore, StartDelete, StartCapture
<1>4. TableInv'
  BY <1>1, <1>3, QuietStep DEF runs
<1>5. \A d \in Requests \ {q} : pc'[d] = pc[d] /\ target'[d] = target[d]
  BY <1>1 DEF StartScore, StartDelete, StartCapture, LoadRow, TypeOK
<1>6. ASSUME NEW i \in Ids, StartScore(q, i) PROVE ServesInv' /\ CopyInv'
  <2>1. /\ pc'[q] = "scoring" /\ target'[q].id = i /\ target'[q].copy = row[i]
        /\ i \in 1..used
    BY <1>1, <1>6, AppsType DEF StartScore, LoadRow, TypeOK, NoTarget
  <2> QED
    BY <1>1, <1>3, <1>5, <2>1 DEF ServesInv, CopyInv, tables, history
<1>7. ASSUME NEW i \in Ids, StartDelete(q, i) PROVE ServesInv' /\ CopyInv'
  <2>1. /\ pc'[q] = "deleting" /\ target'[q].id = i /\ i \in live /\ row[i].app = NoApp
    BY <1>1, <1>7 DEF StartDelete, LoadRow, TypeOK, NoTarget, MayDelete
  <2>2. i \in 1..used
    BY <1>1, <2>1, AppsType
  <2>3. \A a \in DOMAIN apps : apps[a] # i
    BY <1>1, <2>1, AppsType DEF TableInv, LinkInv, LinkedBothWays
  <2> QED
    BY <1>1, <1>3, <1>5, <2>1, <2>2, <2>3 DEF ServesInv, CopyInv, tables, history
<1>8. ASSUME NEW k \in CapturedPages, StartCapture(q, k) PROVE ServesInv' /\ CopyInv'
  <2>1. pc'[q] = "inserting"
    BY <1>1, <1>8 DEF StartCapture, TypeOK
  <2> QED
    BY <1>1, <1>3, <1>5, <2>1 DEF ServesInv, CopyInv, tables, history
<1>9. ServesInv' /\ CopyInv'
  BY <1>6, <1>7, <1>8
<1> QED
  BY <1>2, <1>4, <1>9 DEF IInv, TableInv

\* The copies of the others hold when a request leaves.
LEMMA LeaveCopies ==
    ASSUME TypeOK, ServesInv, CopyInv, NEW q \in Requests, LeaveRequest(q),
           UNCHANGED apps, used' \in Nat, used <= used', chased \subseteq chased',
           \A i \in 1..used : i \in live' => i \in live /\ row'[i].app = row[i].app
    PROVE  ServesInv' /\ CopyInv'
<1>1. pc'[q] = "idle" /\ \A d \in Requests \ {q} : pc'[d] = pc[d] /\ target'[d] = target[d]
  BY DEF LeaveRequest, TypeOK
<1>2. used \in Nat
  BY MaxRowsAssumption DEF TypeOK
<1>3. ServesInv'
  BY <1>1, <1>2 DEF ServesInv
<1>4. CopyInv'
  BY <1>1 DEF CopyInv, ServesInv
<1> QED
  BY <1>3, <1>4

LEMMA EndScoreInv ==
    ASSUME IInv, NEW q \in Requests, NEW b \in Bands, EndScore(q, b)
    PROVE  IInv'
<1> DEFINE i == target[q].id
           l == target[q].copy
<1>1. TypeOK /\ TableInv /\ PageInv /\ ServesInv /\ CopyInv
  BY DEF IInv, TableInv
<1>2. TypeOK' /\ PageInv'
  BY <1>1, RequestType
<1>3. /\ pc[q] = "scoring" /\ LeaveRequest(q)
      /\ row' = IF i \in live THEN [row EXCEPT ![i] = Updated(i, l, Rescored(l, b))] ELSE row
      /\ UNCHANGED <<key, live, used, apps, queue, skipped, cut, chased>>
  BY DEF EndScore, runs, history
<1>4. i \in 1..used /\ used \in Nat /\ l \in Rows
  BY <1>1, <1>3, MaxRowsAssumption DEF ServesInv, TypeOK, Targets
<1>5. i \in live /\ l.app # NoApp => row[i].app = l.app
  BY <1>1, <1>3 DEF CopyInv
<1> HIDE DEF i, l
<1>6. \A j \in 1..used : j # i => row'[j] = row[j]
  BY <1>1, <1>3, <1>4 DEF TypeOK
<1>7. ASSUME i \in live
      PROVE  /\ row'[i].app = row[i].app
             /\ row'[i].triage = "promoted" =>
                   row[i].triage = "promoted" \/ row[i].app # NoApp
             /\ row'[i].triage = "pending" => row[i].triage = "pending"
  <2>1. /\ Rescored(l, b).app = l.app
        /\ Rescored(l, b).triage \in {"error", "promoted", "scored"}
        /\ Rescored(l, b).triage = "promoted" => l.app # NoApp
    BY <1>4 DEF Rescored, Rows
  <2>2. row'[i] = Updated(i, l, Rescored(l, b))
    BY <1>1, <1>3, <1>4, <1>7 DEF TypeOK
  <2> QED
    BY <1>5, <1>7, <2>1, <2>2 DEF Updated, Flushed
<1>8. \A j \in live : j \in 1..used
  BY <1>1, AppsType
<1>9. OneRowPerPosting' /\ LinkInv'
  BY <1>1, <1>3, <1>6, <1>7, <1>8, TriageStep
<1>10. PendingIsQueued'
  <2> SUFFICES ASSUME NEW j \in live', row'[j].triage = "pending", key'[j] \in Postings
               PROVE  (\E s \in Runs : j \in queue'[s]) \/ j \in skipped' \cup cut'
    BY DEF PendingIsQueued
  <2>1. j \in live /\ row[j].triage = "pending"
    BY <1>3, <1>6, <1>7, <1>8
  <2> QED
    BY <1>1, <1>3, <2>1 DEF TableInv, PendingIsQueued
<1>11. QueueInv' /\ ApartInv'
  BY <1>1, <1>3 DEF TableInv, QueueInv, ApartInv
<1>12. ServesInv' /\ CopyInv'
  <2>1. \A j \in 1..used : j \in live' => j \in live /\ row'[j].app = row[j].app
    BY <1>3, <1>6, <1>7
  <2> QED
    BY <1>1, <1>3, <1>4, <2>1, LeaveCopies
<1> QED
  BY <1>2, <1>9, <1>10, <1>11, <1>12 DEF IInv

LEMMA EndDeleteInv ==
    ASSUME IInv, NEW q \in Requests, EndDelete(q)
    PROVE  IInv'
<1> DEFINE i == target[q].id
<1>1. TypeOK /\ TableInv /\ PageInv /\ ServesInv /\ CopyInv
  BY DEF IInv, TableInv
<1>2. TypeOK' /\ PageInv'
  BY <1>1, RequestType
<1>3. /\ pc[q] = "deleting" /\ LeaveRequest(q)
      /\ live' = live \ {i} /\ row' = [row EXCEPT ![i] = NewRow]
      /\ skipped' = skipped \ {i} /\ cut' = cut \ {i}
      /\ UNCHANGED <<key, used, apps, queue, chased>>
  BY DEF EndDelete, runs
<1>4. i \in 1..used /\ used \in Nat
  BY <1>1, <1>3, MaxRowsAssumption DEF ServesInv, TypeOK
<1>5. \A a \in DOMAIN apps : apps[a] = i => i \in chased
  BY <1>1, <1>3 DEF CopyInv
<1> HIDE DEF i
<1>6. \A j \in live' : j \in live /\ j # i /\ row'[j] = row[j]
  BY <1>1, <1>3, AppsType DEF TypeOK
<1>7. OneRowPerPosting'
  BY <1>1, <1>3 DEF TableInv, OneRowPerPosting
<1>8. LinkInv'
  <2>1. \A a \in DOMAIN apps :
           IF apps[a] \in live' THEN row'[apps[a]].app = a ELSE apps[a] \in chased
    BY <1>1, <1>3, <1>5, <1>6 DEF TableInv, LinkInv, LinkedBothWays
  <2>2. \A j \in live' :
           /\ row'[j].triage = "promoted" => row'[j].app \in DOMAIN apps
           /\ row'[j].app # NoApp => row'[j].app \in DOMAIN apps /\ apps[row'[j].app] = j
    BY <1>1, <1>6 DEF TableInv, LinkInv, LinkedBothWays
  <2> QED
    BY <1>1, <1>3, <2>1, <2>2 DEF TableInv, LinkInv, LinkedBothWays
<1>9. PendingIsQueued'
  <2> SUFFICES ASSUME NEW j \in live', row'[j].triage = "pending", key'[j] \in Postings
               PROVE  (\E s \in Runs : j \in queue'[s]) \/ j \in skipped' \cup cut'
    BY DEF PendingIsQueued
  <2>1. (\E s \in Runs : j \in queue[s]) \/ j \in skipped \cup cut
    BY <1>1, <1>3, <1>6 DEF TableInv, PendingIsQueued
  <2> QED
    BY <1>3, <1>6, <2>1
<1>10. QueueInv' /\ ApartInv'
  BY <1>1, <1>3 DEF TableInv, QueueInv, ApartInv
<1>11. ServesInv' /\ CopyInv'
  BY <1>1, <1>3, <1>4, <1>6, LeaveCopies
<1> QED
  BY <1>2, <1>7, <1>8, <1>9, <1>10, <1>11 DEF IInv

LEMMA EndCaptureInv ==
    ASSUME IInv, NEW q \in Requests, EndCapture(q)
    PROVE  IInv'
<1> DEFINE ks == target[q].page
<1>1. TypeOK /\ TableInv /\ PageInv /\ ServesInv /\ CopyInv
  BY DEF IInv, TableInv
<1>2. TypeOK' /\ PageInv'
  BY <1>1, EndCaptureType
<1>3. LeaveRequest(q) /\ UNCHANGED queue /\ UNCHANGED history
  BY DEF EndCapture, runs
<1>4. CASE Conflict(ks)
  <2>1. UNCHANGED tables
    BY <1>4 DEF EndCapture
  <2>2. TableInv'
    BY <1>1, <1>3, <2>1, QuietStep
  <2>3. used \in Nat
    BY <1>1, MaxRowsAssumption DEF TypeOK
  <2>4. ServesInv' /\ CopyInv'
    BY <1>1, <1>3, <2>1, <2>3, LeaveCopies DEF tables, history
  <2> QED
    BY <1>2, <2>2, <2>4 DEF IInv, TableInv
<1>5. CASE ~Conflict(ks)
  <2>1. ks \in SUBSET Keys /\ IsFiniteSet(ks) /\ ks \cap Postings = {}
    <3>1. ks = {} \/ \E k \in CapturedPages : ks = {k}
      BY <1>1 DEF PageInv
    <3>2. IsFiniteSet(ks)
      BY <3>1, FS_EmptySet, FS_Singleton
    <3> HIDE DEF ks
    <3> QED
      BY <3>1, <3>2, KeysAssumption DEF Keys
  <2>2. PICK f \in Orders(ks) : Insert(ks, f)
    BY <1>5 DEF EndCapture
  <2>3. apps' = apps
    BY <2>2 DEF Insert
  <2> HIDE DEF ks
  <2>4. /\ OneRowPerPosting' /\ LinkInv'
        /\ used' \in Nat /\ used \in Nat /\ used <= used'
        /\ (used + 1)..used' = (used + 1)..(used + Cardinality(ks))
        /\ \A i \in live' : i \in live \/ (i \in (used + 1)..used' /\ key'[i] \in ks)
        /\ \A i \in live : key'[i] = key[i] /\ row'[i] = row[i]
    BY <1>1, <1>3, <1>5, <2>1, <2>2, InsertTables
  <2>5. QueueInv' /\ ApartInv'
    BY <1>1, <1>3, <2>3, <2>4 DEF TableInv, QueueInv, ApartInv
  <2>6. PendingIsQueued'
    <3> SUFFICES ASSUME NEW i \in live', row'[i].triage = "pending", key'[i] \in Postings
                 PROVE  (\E s \in Runs : i \in queue'[s]) \/ i \in skipped' \cup cut'
      BY DEF PendingIsQueued
    <3>1. i \in live /\ row[i].triage = "pending" /\ key[i] \in Postings
      BY <2>1, <2>4
    <3> QED
      BY <1>1, <1>3, <3>1 DEF TableInv, PendingIsQueued, history
  <2>7. ServesInv' /\ CopyInv'
    <3>1. \A i \in 1..used : i \in live' => i \in live /\ row'[i].app = row[i].app
      BY <2>4
    <3> QED
      BY <1>1, <1>3, <2>3, <2>4, <3>1, LeaveCopies DEF history
  <2> QED
    BY <1>2, <2>4, <2>5, <2>6, <2>7 DEF IInv
<1> QED
  BY <1>4, <1>5

LEMMA FailRequestInv ==
    ASSUME IInv, NEW q \in Requests, FailRequest(q)
    PROVE  IInv'
<1>1. TypeOK /\ TableInv /\ PageInv /\ ServesInv /\ CopyInv
  BY DEF IInv, TableInv
<1>2. TypeOK' /\ PageInv'
  BY <1>1, RequestType
<1>3. LeaveRequest(q) /\ UNCHANGED tables /\ UNCHANGED queue /\ UNCHANGED history
  BY DEF FailRequest, runs
<1>4. TableInv'
  BY <1>1, <1>3, QuietStep
<1>5. used \in Nat
  BY <1>1, MaxRowsAssumption DEF TypeOK
<1>6. ServesInv' /\ CopyInv'
  BY <1>1, <1>3, <1>5, LeaveCopies DEF tables, history
<1> QED
  BY <1>2, <1>4, <1>6 DEF IInv, TableInv

LEMMA CrashInv ==
    ASSUME IInv, Crash
    PROVE  IInv'
<1>1. TypeOK /\ TableInv /\ PageInv /\ ServesInv /\ CopyInv
  BY DEF IInv, TableInv
<1>2. TypeOK' /\ PageInv'
  BY <1>1, CrashType
<1>3. /\ UNCHANGED tables /\ skipped' = skipped /\ chased' = chased
      /\ cut' = cut \cup UNION {queue[r] : r \in Runs}
      /\ \A r \in Runs : queue'[r] = {}
      /\ \A q \in Requests : pc'[q] = "idle"
  BY DEF Crash
<1>4. OneRowPerPosting' /\ LinkInv'
  BY <1>1, <1>3 DEF TableInv, OneRowPerPosting, LinkInv, LinkedBothWays, tables
<1>5. PendingIsQueued'
  BY <1>1, <1>3 DEF TableInv, PendingIsQueued, tables
<1>6. QueueInv' /\ ApartInv'
  BY <1>3 DEF QueueInv, ApartInv
<1>7. ServesInv' /\ CopyInv'
  BY <1>3 DEF ServesInv, CopyInv
<1> QED
  BY <1>2, <1>4, <1>5, <1>6, <1>7 DEF IInv

LEMMA InvStep ==
    ASSUME IInv, IdleInv, [Next]_vars
    PROVE  IInv'
<1>1. CASE UNCHANGED vars
  BY <1>1 DEF vars, tables, runs, history, IInv, TypeOK, PageInv, ServesInv,
              OneRowPerPosting, PendingIsQueued, LinkInv, LinkedBothWays, QueueInv,
              ApartInv, CopyInv
<1>2. ASSUME NEW r \in Runs, NEW results \in SUBSET Postings, Fetch(r, results) PROVE IInv'
  BY <1>2, QuietRun
<1>3. ASSUME NEW r \in Runs, RunStep(r) PROVE IInv'
  BY <1>3, QuietRun, InsertFreshInv, ScoreRowInv, FailRowInv DEF RunStep
<1>4. ASSUME NEW q \in Requests,
             \/ \E i \in Ids : StartScore(q, i) \/ StartDelete(q, i)
             \/ \E k \in CapturedPages : StartCapture(q, k)
      PROVE  IInv'
  BY <1>4, BeginInv
<1>5. ASSUME NEW q \in Requests, RequestStep(q) PROVE IInv'
  BY <1>5, EndScoreInv, EndDeleteInv, EndCaptureInv, FailRequestInv DEF RequestStep
<1>6. CASE Crash
  BY <1>6, CrashInv
<1> QED
  BY <1>1, <1>2, <1>3, <1>4, <1>5, <1>6 DEF Next

LEMMA InvCorrect == Spec => [](IInv /\ IdleInv)
<1>1. Init => IInv /\ IdleInv
  <2> SUFFICES ASSUME Init PROVE IInv /\ IdleInv
    OBVIOUS
  <2>1. TypeOK /\ PageInv
    BY InitType
  <2>2. /\ live = {} /\ DOMAIN apps = {} /\ \A r \in Runs : queue[r] = {}
        /\ \A q \in Requests : pc[q] = "idle"
    BY DEF Init
  <2> QED
    BY <2>1, <2>2 DEF IInv, IdleInv, ServesInv, OneRowPerPosting, PendingIsQueued, LinkInv,
                      LinkedBothWays, IsInjective, QueueInv, ApartInv, CopyInv
<1>2. IInv => TypeOK
  BY DEF IInv
<1> QED
  BY <1>1, <1>2, InvStep, IdleStep, PTL DEF Spec

\* Every state of every behaviour is typed.
THEOREM TypeCorrect == Spec => []TypeOK
<1>1. IInv => TypeOK
  BY DEF IInv
<1> QED
  BY <1>1, InvCorrect, PTL

\* However runs and captures overlap, a posting has one row (models.py:141-143,
\* pipeline.py:140-148, captures.py:57-95).
THEOREM PostingsUnique == Spec => []OneRowPerPosting
<1>1. IInv => OneRowPerPosting
  BY DEF IInv
<1> QED
  BY <1>1, InvCorrect, PTL

\* The two tables tell the same story, but for the promotions a delete has missed
\* (pipeline.py:81-89, 209-225, job_actions.py:77-88, discovery.py:134-140).
THEOREM LinksHold == Spec => []LinkedBothWays
<1>1. IInv => LinkedBothWays
  BY DEF IInv, LinkInv
<1> QED
  BY <1>1, InvCorrect, PTL

\* No discovered row is forgotten in silence (pipeline.py:71-89).
THEOREM NoneForgotten == Spec => []PendingIsQueued
<1>1. IInv => PendingIsQueued
  BY DEF IInv
<1> QED
  BY <1>1, InvCorrect, PTL

-----------------------------------------------------------------------------
(* The fetch: types *)

\* A task runs only while the request waits for it, and for a scraper it was made for.
Tasks ==
    /\ phase \in {"building", "refused"} => \A t \in Searches : state[t] = "none"
    /\ phase \in {"building", "fetching", "refused"} => closed = {}
    /\ \A t \in Searches :
          /\ state[t] = "running" => phase = "fetching" /\ page[t] \in Pages(Source(t))
          /\ state[t] # "none" => t \in Created(scrapers)
          /\ ended[t] = "not" \/ state[t] = "returned"

FetchInv == FetchTypeOK /\ Tasks

LEMMA ProfileFacts ==
    ASSUME FetchTypeOK
    PROVE  /\ profile.results_per_page \in Nat \ {0} /\ profile.max_pages \in Nat
           /\ profile.locations \in Seq(Locations) /\ cap \in Int
BY ProfilesAssumption, CapsAssumption DEF FetchTypeOK, ProfileType

LEMMA PagesFacts ==
    ASSUME FetchTypeOK, NEW s \in Sources
    PROVE  /\ \A n \in Pages(s) : n \in 0..profile.max_pages
           /\ Pages(s) # {} => FirstPage(s) \in Pages(s)
           /\ FirstPage(s) \in 0..(profile.max_pages + 1)
BY ProfileFacts DEF Pages, FirstPage, Sources

\* The results of a page, place by place.
LEMMA ResultsFacts ==
    ASSUME FetchTypeOK, NEW t \in Searches, page[t] \in Pages(Source(t)),
           NEW past, past = Skipped(Source(t), page[t])
    PROVE  /\ past \in Nat /\ Results(t, page[t]) \in Seq(PostingIds)
           /\ \A i \in DOMAIN listing[t] :
                 i > past /\ (i <= past + profile.results_per_page
                                 \/ Len(Results(t, page[t])) < profile.results_per_page)
                     => listing[t][i] \in Range(Results(t, page[t]))
<1> DEFINE n == profile.results_per_page
           l == listing[t]
           upto == IF past + n < Len(l) THEN past + n ELSE Len(l)
           r == SubSeq(l, past + 1, upto)
<1>1. n \in Nat \ {0} /\ l \in Seq(PostingIds) /\ Len(l) \in Nat /\ DOMAIN l = 1..Len(l)
  BY ProfileFacts DEF FetchTypeOK
<1>2. past \in Nat
  <2>1. Source(t) \in Sources
    BY DEF Searches, Source
  <2>2. page[t] \in Nat /\ (Source(t) = "adzuna" => page[t] - 1 \in Nat)
    BY <2>1, PagesFacts, ProfileFacts DEF Pages, Sources
  <2>3. \A a, b \in Nat : a * b \in Nat
    OBVIOUS
  <2> QED
    BY <1>1, <2>2, <2>3 DEF Skipped
<1>3. Results(t, page[t]) = r
  BY DEF Results
<1> HIDE DEF n, l
<1>4. upto \in Nat /\ upto <= Len(l)
  BY <1>1, <1>2
<1>5. /\ r \in Seq(PostingIds)
      /\ Len(r) = IF past + 1 <= upto THEN upto - past ELSE 0
      /\ \A j \in 1..Len(r) : r[j] = l[past + j]
  BY <1>1, <1>2, <1>4
<1> HIDE DEF r
<1>6. ASSUME NEW i \in DOMAIN l, i > past, i <= past + n \/ Len(r) < n
      PROVE  l[i] \in Range(r)
  <2>1. i \in Nat /\ i <= Len(l)
    BY <1>1
  <2>2. i <= upto
    <3>1. CASE upto = Len(l)
      BY <2>1, <3>1
    <3>2. CASE upto # Len(l)
      <4>1. upto = past + n
        BY <3>2
      <4>2. Len(r) = n
        BY <1>1, <1>2, <1>5, <4>1
      <4> QED
        BY <1>1, <1>6, <4>1, <4>2
    <3> QED
      BY <3>1, <3>2
  <2>3. i - past \in 1..Len(r) /\ past + (i - past) = i
    BY <1>2, <1>4, <1>5, <1>6, <2>1, <2>2
  <2>4. r[i - past] = l[i] /\ DOMAIN r = 1..Len(r)
    BY <1>5, <2>3
  <2> QED
    BY <2>3, <2>4 DEF Range
<1> QED
  BY <1>2, <1>3, <1>5, <1>6 DEF n, l

\* A page that has been fetched.
LEMMA PageKept ==
    ASSUME FetchInv, NEW t \in Searches, GetPage(t)
    PROVE  FetchInv'
<1> DEFINE rs == Results(t, page[t])
           all == jobs[t] \o rs
           end == Ending(t, rs, all)
<1>1. /\ state[t] = "running"
      /\ UNCHANGED <<config, boards, phase, scrapers, closed, batch, before>>
      /\ jobs' = [jobs EXCEPT ![t] = all]
      /\ ended' = [ended EXCEPT ![t] = end]
      /\ page' = [page EXCEPT ![t] = IF end = "not" THEN @ + 1 ELSE @]
      /\ state' = [state EXCEPT ![t] = IF end = "not" THEN @ ELSE "returned"]
  BY DEF GetPage
<1>2. page[t] \in Pages(Source(t)) /\ Source(t) \in Sources
  BY <1>1 DEF FetchInv, Tasks, Searches, Source
<1>3. rs \in Seq(PostingIds)
  BY <1>2, ResultsFacts DEF FetchInv
<1>4. all \in Seq(PostingIds)
  BY <1>3 DEF FetchInv, FetchTypeOK
<1>5. /\ end \in {"not", "short", "cap", "pages"}
      /\ end = "not" => page[t] + 1 \in Pages(Source(t))
  BY DEF Ending
<1> HIDE DEF all, end
<1>6. end = "not" => page[t] + 1 \in 0..(profile.max_pages + 1)
  BY <1>2, <1>5, PagesFacts, ProfileFacts DEF FetchInv
<1>7. FetchTypeOK'
  BY <1>1, <1>4, <1>5, <1>6 DEF FetchInv, FetchTypeOK, States, config, boards
<1>8. Tasks'
  BY <1>1, <1>5 DEF FetchInv, FetchTypeOK, Tasks, States, config, boards, Pages, Created
<1> QED
  BY <1>7, <1>8 DEF FetchInv

LEMMA BuildKept ==
    ASSUME FetchInv, NEW keys \in SUBSET Credentials, Build(keys)
    PROVE  /\ FetchInv' /\ phase' \in {"fetching", "refused"} /\ before' = listing'
           /\ \A t \in Searches : page'[t] = FirstPage(Source(t)) \/ state'[t] = "none"
           /\ ended' = ended /\ state = [t \in Searches |-> "none"]
           /\ \A t \in Searches : ended[t] = "not"
<1> DEFINE ts == Created(scrapers')
<1>1. /\ phase = "building" /\ scrapers' = EnabledScrapers(keys)
      /\ phase' = IF scrapers' = {} THEN "refused" ELSE "fetching"
      /\ before' = listing'
      /\ UNCHANGED <<config, changes, gone, jobs, ended, closed, batch>>
      /\ state' = [t \in Searches |-> IF t \in ts THEN StateAtFirst(Source(t)) ELSE "none"]
      /\ page' = [t \in Searches |-> IF t \in ts THEN FirstPage(Source(t)) ELSE 0]
  BY DEF Build
<1>2. PICK f \in [ts -> Listings] : listing' = [t \in Searches |-> IF t \in ts THEN f[t] ELSE <<>>]
  BY DEF Build
<1>3. scrapers' \subseteq Sources
  BY <1>1, ProfilesAssumption DEF EnabledScrapers, FetchInv, FetchTypeOK, ProfileType
<1>4. listing' \in [Searches -> Seq(PostingIds)]
  BY <1>2, ListingsAssumption
<1>5. \A t \in Searches : Source(t) \in Sources
  BY DEF Searches, Source
<1>6. \A t \in Searches : StateAtFirst(Source(t)) \in States
  BY DEF StateAtFirst, States
<1>7. \A t \in Searches : FirstPage(Source(t)) \in 0..(profile.max_pages + 1)
                          /\ (Pages(Source(t)) # {} => FirstPage(Source(t)) \in Pages(Source(t)))
  BY <1>5, PagesFacts DEF FetchInv
<1>8. 0 \in 0..(profile.max_pages + 1) /\ "none" \in States
  BY ProfileFacts DEF FetchInv, States
<1>9. /\ state' \in [Searches -> States] /\ page' \in [Searches -> 0..(profile.max_pages + 1)]
  BY <1>1, <1>6, <1>7, <1>8
<1>10. closed = {} /\ state = [t \in Searches |-> "none"] /\ \A t \in Searches : ended[t] = "not"
  BY <1>1 DEF FetchInv, Tasks, FetchTypeOK
<1> HIDE DEF ts
<1>11. FetchTypeOK'
  BY <1>1, <1>3, <1>4, <1>9, <1>10 DEF FetchInv, FetchTypeOK, config
<1>12. scrapers' = {} => ts = {}
  BY DEF ts, Created
<1>13. ASSUME NEW t \in Searches
       PROVE  /\ state'[t] = "running" => phase' = "fetching" /\ page'[t] \in Pages(Source(t))'
              /\ state'[t] # "none" => t \in Created(scrapers)'
              /\ ended'[t] = "not"
              /\ phase' = "refused" => state'[t] = "none"
  <2>1. state'[t] # "none" => t \in ts
    BY <1>1
  <2>2. state'[t] = "running" =>
            StateAtFirst(Source(t)) = "running" /\ page'[t] = FirstPage(Source(t))
    BY <1>1, <2>1
  <2>3. state'[t] = "running" => page'[t] \in Pages(Source(t))
    BY <1>7, <2>2 DEF StateAtFirst
  <2>4. Pages(Source(t))' = Pages(Source(t)) /\ Created(scrapers)' = ts
    BY <1>1 DEF Pages, config, ts, Created
  <2> QED
    BY <1>1, <1>10, <1>12, <2>1, <2>3, <2>4
<1>14. Tasks'
  BY <1>1, <1>10, <1>13 DEF Tasks
<1> QED
  BY <1>1, <1>10, <1>11, <1>14 DEF FetchInv

LEMMA RestOfSeq ==
    ASSUME NEW s \in Seq(PostingIds), NEW i \in 0..Len(s), NEW b, b = SubSeq(s, i + 1, Len(s))
    PROVE  /\ b \in Seq(PostingIds) /\ Len(b) = Len(s) - i
           /\ \A j \in 1..(Len(s) - i) : b[j] = s[i + j]
<1>1. /\ b \in Seq(PostingIds)
      /\ Len(b) = IF i + 1 <= Len(s) THEN Len(s) - (i + 1) + 1 ELSE 0
      /\ \A j \in 1..(Len(s) - (i + 1) + 1) : b[j] = s[i + 1 + j - 1]
  <2>1. \A j \in (i + 1)..Len(s) : s[j] \in PostingIds
    OBVIOUS
  <2> QED
    BY <2>1, SubSeqProperties
<1>2. i + 1 <= Len(s) \/ i = Len(s)
  OBVIOUS
<1>3. Len(b) = Len(s) - i
  BY <1>1, <1>2
<1>4. \A j \in 1..(Len(s) - i) : b[j] = s[i + j]
  <2>1. ASSUME NEW j \in 1..(Len(s) - i)
        PROVE  j \in 1..(Len(s) - (i + 1) + 1) /\ i + 1 + j - 1 = i + j
    OBVIOUS
  <2> QED
    BY <1>1, <2>1
<1> QED
  BY <1>1, <1>3, <1>4

LEMMA InsertedFacts ==
    ASSUME NEW s \in Seq(PostingIds), NEW i \in 0..Len(s), NEW p \in PostingIds
    PROVE  /\ Inserted(s, i, p) \in Seq(PostingIds)
           /\ \A j \in DOMAIN s : \E k \in DOMAIN Inserted(s, i, p) :
                 k >= j /\ Inserted(s, i, p)[k] = s[j]
<1> DEFINE a == SubSeq(s, 1, i)
           b == SubSeq(s, i + 1, Len(s))
           w == a \o <<p>> \o b
<1>1. i \in Nat /\ i <= Len(s) /\ Len(s) \in Nat /\ DOMAIN s = 1..Len(s)
  OBVIOUS
<1>2. a \in Seq(PostingIds) /\ Len(a) = i /\ \A j \in 1..i : a[j] = s[j]
  <2>1. \A j \in 1..i : s[j] \in PostingIds
    BY <1>1
  <2> QED
    BY <1>1, <2>1, SubSeqProperties
<1>3. b \in Seq(PostingIds) /\ Len(b) = Len(s) - i /\ \A j \in 1..(Len(s) - i) : b[j] = s[i + j]
  BY RestOfSeq
<1> HIDE DEF a, b
<1>4. /\ w \in Seq(PostingIds) /\ Len(w) = Len(s) + 1
      /\ \A j \in 1..i : w[j] = a[j]
      /\ \A j \in 1..(Len(s) - i) : w[i + 1 + j] = b[j]
  <2>1. <<p>> \in Seq(PostingIds) /\ Len(<<p>>) = 1 /\ <<p>>[1] = p
    OBVIOUS
  <2>2. /\ a \o <<p>> \in Seq(PostingIds) /\ Len(a \o <<p>>) = i + 1
        /\ \A j \in 1..i : (a \o <<p>>)[j] = a[j]
    BY <1>1, <1>2, <2>1, ConcatProperties
  <2> QED
    BY <1>1, <1>3, <2>2, ConcatProperties
<1> HIDE DEF w
<1>5. ASSUME NEW j \in DOMAIN s PROVE \E k \in DOMAIN w : k >= j /\ w[k] = s[j]
  <2>1. CASE j <= i
    <3>1. j \in DOMAIN w /\ w[j] = s[j] /\ j >= j
      BY <1>1, <1>2, <1>4, <2>1
    <3> QED
      BY <3>1
  <2>2. CASE j > i
    <3>1. j - i \in 1..(Len(s) - i) /\ i + (j - i) = j /\ i + 1 + (j - i) = j + 1
      BY <1>1, <2>2
    <3>2. w[j + 1] = s[j] /\ j + 1 \in DOMAIN w /\ j + 1 >= j
      BY <1>1, <1>3, <1>4, <3>1
    <3> QED
      BY <3>2
  <2> QED
    BY <1>1, <2>1, <2>2
<1> QED
  BY <1>4, <1>5 DEF Inserted, w, a, b

LEMMA WithoutType ==
    ASSUME NEW s \in Seq(PostingIds), NEW i \in DOMAIN s
    PROVE  Without(s, i) \in Seq(PostingIds)
BY DEF Without

LEMMA FetchStep ==
    ASSUME FetchInv, [FetchNext]_fetchVars
    PROVE  FetchInv'
<1> USE DEF config, boards, tasks
<1>1. CASE UNCHANGED fetchVars
  BY <1>1 DEF fetchVars, FetchInv, FetchTypeOK, Tasks, Pages, Created
<1>2. ASSUME NEW keys \in SUBSET Credentials, Build(keys) PROVE FetchInv'
  BY <1>2, BuildKept
<1>3. ASSUME NEW t \in Searches, Step(t) PROVE FetchInv'
  <2>1. CASE GetPage(t)
    BY <2>1, PageKept
  <2>2. CASE PageFails(t) \/ PageGarbled(t)
    <3>1. /\ state[t] = "running"
          /\ UNCHANGED <<config, boards, page, jobs, phase, scrapers, closed, batch, before>>
          /\ \/ /\ state' = [state EXCEPT ![t] = "returned"]
                /\ ended' = [ended EXCEPT ![t] = "error"]
             \/ state' = [state EXCEPT ![t] = "raised"] /\ ended' = ended
      BY <2>2 DEF PageFails, PageGarbled
    <3>2. FetchTypeOK'
      BY <3>1 DEF FetchInv, FetchTypeOK, States
    <3>3. Tasks'
      BY <3>1 DEF FetchInv, FetchTypeOK, Tasks, States, Pages, Created
    <3> QED
      BY <3>2, <3>3 DEF FetchInv
  <2> QED
    BY <1>3, <2>1, <2>2 DEF Step
<1>4. CASE Collect
  <2>1. \A t \in Searches : Found(t) \subseteq PostingIds
    <3> SUFFICES ASSUME NEW t \in Searches PROVE Found(t) \subseteq PostingIds
      OBVIOUS
    <3>1. jobs[t] \in Seq(PostingIds) /\ cap \in Int
      BY ProfileFacts DEF FetchInv, FetchTypeOK
    <3>2. Cut(jobs[t]) \in Seq(PostingIds)
      BY <3>1 DEF Cut
    <3> QED
      BY <3>2 DEF Found, Range
  <2>2. batch' \subseteq Sources \X PostingIds
    <3>1. \A t \in Searches : Source(t) \in Sources
      BY DEF Searches, Source
    <3>2. batch' = UNION {{Source(t)} \X Found(t) : t \in Kept} /\ Kept \subseteq Searches
      BY <1>4 DEF Collect, Kept
    <3> QED
      BY <2>1, <3>1, <3>2
  <2> QED
    BY <1>4, <2>2 DEF Collect, FetchInv, FetchTypeOK, Tasks, Pages, Created, Gathered
<1>5. ASSUME NEW s \in Sources, Close(s) PROVE FetchInv'
  BY <1>5 DEF Close, FetchInv, FetchTypeOK, Tasks, Pages, Created
<1>6. ASSUME NEW t \in Searches, NEW p \in PostingIds, NEW i \in 0..Len(listing[t]),
             Publish(t, i, p) \/ Withdraw(t, i)
      PROVE  FetchInv'
  <2>1. /\ changes < MaxChanges /\ changes' = changes + 1
        /\ UNCHANGED <<config, tasks, phase, scrapers, closed, batch, before>>
        /\ gone' = gone \/ gone' = gone \cup {t}
    BY <1>6 DEF Publish, Withdraw
  <2>2. PICK l : l \in Seq(PostingIds) /\ listing' = [listing EXCEPT ![t] = l]
    <3>1. listing[t] \in Seq(PostingIds)
      BY DEF FetchInv, FetchTypeOK
    <3> QED
      BY <1>6, <3>1, InsertedFacts, WithoutType DEF Publish, Withdraw
  <2>3. FetchTypeOK'
    BY <2>1, <2>2, MaxChangesAssumption DEF FetchInv, FetchTypeOK
  <2>4. Tasks'
    BY <2>1 DEF FetchInv, Tasks, Pages, Created
  <2> QED
    BY <2>3, <2>4 DEF FetchInv
<1> QED
  BY <1>1, <1>2, <1>3, <1>4, <1>5, <1>6 DEF FetchNext, Finish

LEMMA FetchAlways == FetchSpec => []FetchInv
<1>1. FetchInit => FetchInv
  <2> SUFFICES ASSUME FetchInit PROVE FetchInv
    OBVIOUS
  <2>1. profile.max_pages \in Nat
    BY ProfilesAssumption DEF FetchInit, ProfileType
  <2>2. NoListing \in [Searches -> Seq(PostingIds)]
    BY DEF NoListing
  <2>3. FetchTypeOK
    BY <2>1, <2>2, MaxChangesAssumption DEF FetchInit, FetchTypeOK, States
  <2> QED
    BY <2>3 DEF FetchInit, FetchInv, Tasks
<1>2. FetchInv /\ [FetchNext]_fetchVars => FetchInv'
  BY FetchStep
<1> QED
  BY <1>1, <1>2, PTL DEF FetchSpec

\* Types: of the fetch, its tasks and what they find (TypeOK of Scraping).
THEOREM FetchTyped == FetchSpec => []FetchTypeOK
<1>1. FetchInv => FetchTypeOK
  BY DEF FetchInv
<1> QED
  BY <1>1, FetchAlways, PTL
-----------------------------------------------------------------------------
(* Nothing is missed *)

\* What was listed all along has been found, or is on a page still to come; what
\* is found at the end is all of it.
MissInv ==
    \A t \in Searches \ gone :
        /\ state[t] = "running" =>
              \A p \in Range(before[t]) :
                  \/ p \in Range(jobs[t])
                  \/ \E i \in DOMAIN listing[t] :
                        i > Skipped(Source(t), page[t]) /\ listing[t][i] = p
        /\ ended[t] = "short" => Range(before[t]) \subseteq Range(jobs[t])

\* The next page begins where this one ends.
LEMMA NextPage ==
    ASSUME FetchTypeOK, NEW s \in Sources, NEW n \in Nat
    PROVE  /\ Skipped(s, n + 1) = Skipped(s, n) + profile.results_per_page
           /\ Skipped(s, FirstPage(s)) = 0
<1>1. profile.results_per_page \in Nat
  BY ProfileFacts
<1>2. \A a, b \in Int : (a + 1) * b = a * b + b /\ 0 * b = 0
  OBVIOUS
<1>3. n + 1 - 1 = n - 1 + 1 /\ n - 1 \in Int /\ 1 - 1 = 0
  OBVIOUS
<1> QED
  BY <1>1, <1>2, <1>3 DEF Skipped, FirstPage

LEMMA PageMisses ==
    ASSUME FetchInv, MissInv, NEW t \in Searches \ gone, GetPage(t)
    PROVE  /\ state'[t] = "running" =>
                 \A p \in Range(before[t]) :
                     \/ p \in Range(jobs'[t])
                     \/ \E i \in DOMAIN listing[t] :
                           i > Skipped(Source(t), page'[t]) /\ listing[t][i] = p
           /\ ended'[t] = "short" => Range(before[t]) \subseteq Range(jobs'[t])
<1> DEFINE rs == Results(t, page[t])
           all == jobs[t] \o rs
           end == Ending(t, rs, all)
           past == Skipped(Source(t), page[t])
<1>1. /\ state[t] = "running"
      /\ jobs'[t] = all /\ ended'[t] = end
      /\ page'[t] = IF end = "not" THEN page[t] + 1 ELSE page[t]
      /\ state'[t] = IF end = "not" THEN state[t] ELSE "returned"
  BY DEF GetPage, FetchInv, FetchTypeOK
<1>2. page[t] \in Pages(Source(t)) /\ Source(t) \in Sources
  BY <1>1 DEF FetchInv, Tasks, Searches, Source
<1>3. /\ past \in Nat /\ rs \in Seq(PostingIds)
      /\ \A i \in DOMAIN listing[t] :
            i > past /\ (i <= past + profile.results_per_page
                            \/ Len(rs) < profile.results_per_page)
                => listing[t][i] \in Range(rs)
  BY <1>2, ResultsFacts DEF FetchInv
<1>4. page[t] \in Nat /\ profile.results_per_page \in Nat
  BY <1>2, PagesFacts, ProfileFacts DEF FetchInv
<1>5. Skipped(Source(t), page[t] + 1) = past + profile.results_per_page
  BY <1>2, <1>4, NextPage DEF FetchInv
<1>6. Range(all) = Range(jobs[t]) \cup Range(rs)
  <2>1. jobs[t] \in Seq(PostingIds)
    BY DEF FetchInv, FetchTypeOK
  <2> HIDE DEF rs
  <2>2. \A x \in Seq(PostingIds) : DOMAIN x = 1..Len(x) /\ Len(x) \in Nat
    OBVIOUS
  <2>3. \A i \in 1..Len(jobs[t]) + Len(rs) :
            all[i] = IF i <= Len(jobs[t]) THEN jobs[t][i] ELSE rs[i - Len(jobs[t])]
    BY <1>3, <2>1, ConcatProperties
  <2>4. all \in Seq(PostingIds) /\ Len(all) = Len(jobs[t]) + Len(rs)
    BY <1>3, <2>1, ConcatProperties
  <2> HIDE DEF all
  <2>5. ASSUME NEW i \in DOMAIN all PROVE all[i] \in Range(jobs[t]) \cup Range(rs)
    <3>1. i \in 1..Len(jobs[t]) + Len(rs) /\ Len(jobs[t]) \in Nat /\ Len(rs) \in Nat
      BY <1>3, <2>1, <2>2, <2>4
    <3>2. i \in DOMAIN jobs[t] \/ i - Len(jobs[t]) \in DOMAIN rs
      BY <1>3, <2>1, <2>2, <3>1
    <3>3. i <= Len(jobs[t]) => i \in DOMAIN jobs[t]
      BY <2>1, <2>2, <3>1
    <3>4. ~(i <= Len(jobs[t])) => i - Len(jobs[t]) \in DOMAIN rs
      BY <1>3, <2>2, <3>1
    <3> QED
      BY <2>3, <3>1, <3>3, <3>4 DEF Range
  <2>6. ASSUME NEW i \in DOMAIN jobs[t] PROVE jobs[t][i] \in Range(all)
    <3>1. i \in 1..Len(jobs[t]) /\ Len(jobs[t]) \in Nat /\ Len(rs) \in Nat
      BY <1>3, <2>1, <2>2
    <3>2. i \in DOMAIN all /\ all[i] = jobs[t][i]
      BY <2>2, <2>3, <2>4, <3>1
    <3> QED
      BY <3>2 DEF Range
  <2>7. ASSUME NEW i \in DOMAIN rs PROVE rs[i] \in Range(all)
    <3>1. i \in 1..Len(rs) /\ Len(jobs[t]) \in Nat /\ Len(rs) \in Nat
      BY <1>3, <2>1, <2>2
    <3>2. /\ i + Len(jobs[t]) \in 1..Len(jobs[t]) + Len(rs) /\ ~(i + Len(jobs[t]) <= Len(jobs[t]))
          /\ i + Len(jobs[t]) - Len(jobs[t]) = i
      BY <3>1
    <3>3. i + Len(jobs[t]) \in DOMAIN all /\ all[i + Len(jobs[t])] = rs[i]
      BY <2>2, <2>3, <2>4, <3>2
    <3> QED
      BY <3>3 DEF Range
  <2> QED
    BY <2>5, <2>6, <2>7 DEF Range
<1>7. ASSUME NEW p \in Range(before[t])
      PROVE  \/ p \in Range(jobs[t])
             \/ \E i \in DOMAIN listing[t] : i > past /\ listing[t][i] = p
  BY <1>1 DEF MissInv
<1>8. \A i \in DOMAIN listing[t] : i \in Nat
  BY DEF FetchInv, FetchTypeOK
<1>9. end = "short" => Len(rs) < profile.results_per_page
  BY DEF Ending
<1> HIDE DEF all, rs, end, past
<1>10. ASSUME state'[t] = "running", NEW p \in Range(before[t])
       PROVE  \/ p \in Range(jobs'[t])
              \/ \E i \in DOMAIN listing[t] :
                    i > Skipped(Source(t), page'[t]) /\ listing[t][i] = p
  <2>1. Skipped(Source(t), page'[t]) = past + profile.results_per_page
    BY <1>1, <1>5, <1>10
  <2>2. CASE p \in Range(jobs[t])
    BY <1>1, <1>6, <2>2
  <2>3. CASE \E i \in DOMAIN listing[t] : i > past /\ listing[t][i] = p
    <3>1. PICK i \in DOMAIN listing[t] : i > past /\ listing[t][i] = p
      BY <2>3
    <3>2. i > past + profile.results_per_page \/ i <= past + profile.results_per_page
      BY <1>3, <1>4, <1>8
    <3> QED
      BY <1>1, <1>3, <1>6, <2>1, <3>1, <3>2
  <2> QED
    BY <1>7, <2>2, <2>3
<1>11. ASSUME ended'[t] = "short" PROVE Range(before[t]) \subseteq Range(jobs'[t])
  BY <1>1, <1>3, <1>6, <1>7, <1>9, <1>11
<1> QED
  BY <1>10, <1>11

\* The steps of a task, and of the board of its search, are about that search.
LEMMA MissStep ==
    ASSUME FetchInv, MissInv, [FetchNext]_fetchVars
    PROVE  MissInv'
<1> USE DEF config, boards, tasks
<1>0. ASSUME UNCHANGED <<config, boards, tasks, before>> PROVE MissInv'
  BY <1>0 DEF MissInv, Skipped
<1>1. CASE UNCHANGED fetchVars
  BY <1>0, <1>1 DEF fetchVars
<1>2. ASSUME NEW keys \in SUBSET Credentials, Build(keys) PROVE MissInv'
  <2>1. /\ FetchInv' /\ before' = listing' /\ ended' = ended
        /\ \A t \in Searches : page'[t] = FirstPage(Source(t)) \/ state'[t] = "none"
        /\ \A t \in Searches : ended[t] = "not"
    BY <1>2, BuildKept
  <2>2. ASSUME NEW t \in Searches, state'[t] = "running", NEW p \in Range(before'[t])
        PROVE  \E i \in DOMAIN listing'[t] :
                   i > Skipped(Source(t), page[t])' /\ listing'[t][i] = p
    <3>1. profile' = profile /\ Source(t) \in Sources
      BY <1>2 DEF Build, Searches, Source
    <3>2. Skipped(Source(t), page[t])' = 0
      <4>1. Skipped(Source(t), FirstPage(Source(t))) = 0
        BY <3>1, NextPage DEF FetchInv
      <4>2. page'[t] = FirstPage(Source(t))
        BY <2>1, <2>2
      <4> QED
        BY <3>1, <4>1, <4>2 DEF Skipped
    <3>3. PICK i \in DOMAIN listing'[t] : listing'[t][i] = p
      BY <2>1, <2>2 DEF Range
    <3>4. i > 0
      BY <2>1 DEF FetchInv, FetchTypeOK
    <3> QED
      BY <3>2, <3>3, <3>4
  <2> QED
    BY <2>1, <2>2 DEF MissInv
<1>3. ASSUME NEW t \in Searches, Step(t) PROVE MissInv'
  <2>1. /\ UNCHANGED <<profile, listing, gone, before>> /\ state[t] = "running"
        /\ \A u \in Searches \ {t} : /\ state'[u] = state[u] /\ jobs'[u] = jobs[u]
                                      /\ page'[u] = page[u] /\ ended'[u] = ended[u]
    BY <1>3 DEF Step, GetPage, PageFails, PageGarbled, FetchInv, FetchTypeOK
  <2>2. ASSUME NEW u \in Searches \ gone, u # t
        PROVE  /\ state'[u] = "running" =>
                     \A p \in Range(before'[u]) :
                         \/ p \in Range(jobs'[u])
                         \/ \E i \in DOMAIN listing'[u] :
                               i > Skipped(Source(u), page[u])' /\ listing'[u][i] = p
               /\ ended'[u] = "short" => Range(before'[u]) \subseteq Range(jobs'[u])
    BY <2>1, <2>2 DEF MissInv, Skipped
  <2>3. ASSUME t \notin gone
        PROVE  /\ state'[t] = "running" =>
                     \A p \in Range(before'[t]) :
                         \/ p \in Range(jobs'[t])
                         \/ \E i \in DOMAIN listing'[t] :
                               i > Skipped(Source(t), page[t])' /\ listing'[t][i] = p
               /\ ended'[t] = "short" => Range(before'[t]) \subseteq Range(jobs'[t])
    <3>1. Skipped(Source(t), page[t])' = Skipped(Source(t), page'[t])
      BY <2>1 DEF Skipped
    <3>2. CASE GetPage(t)
      BY <2>1, <2>3, <3>1, <3>2, PageMisses
    <3>3. CASE PageFails(t) \/ PageGarbled(t)
      BY <2>1, <2>3, <3>3 DEF PageFails, PageGarbled, FetchInv, FetchTypeOK, Tasks
    <3> QED
      BY <1>3, <3>2, <3>3 DEF Step
  <2> QED
    BY <2>1, <2>2, <2>3 DEF MissInv
<1>4. ASSUME Collect \/ \E s \in Sources : Close(s) PROVE MissInv'
  BY <1>0, <1>4 DEF Collect, Close
<1>5. ASSUME NEW t \in Searches, NEW p \in PostingIds, NEW i \in 0..Len(listing[t]),
             Publish(t, i, p)
      PROVE  MissInv'
  <2>1. /\ UNCHANGED <<profile, state, page, jobs, ended, gone, before>>
        /\ listing[t] \in Seq(PostingIds)
        /\ listing' = [listing EXCEPT ![t] = Inserted(listing[t], i, p)]
    BY <1>5 DEF Publish, FetchInv, FetchTypeOK
  <2>2. ASSUME NEW u \in Searches, NEW j \in DOMAIN listing[u]
        PROVE  \E k \in DOMAIN listing'[u] : k >= j /\ listing'[u][k] = listing[u][j]
    <3>1. CASE u = t
      BY <2>1, <2>2, <3>1, InsertedFacts DEF FetchInv, FetchTypeOK
    <3>2. CASE u # t
      <4>1. listing'[u] = listing[u] /\ j >= j
        BY <2>1, <3>2 DEF FetchInv, FetchTypeOK
      <4> QED
        BY <4>1
    <3> QED
      BY <3>1, <3>2
  <2>3. ASSUME NEW u \in Searches \ gone, state[u] = "running", NEW x \in Range(before[u]),
               x \notin Range(jobs[u])
        PROVE  \E k \in DOMAIN listing'[u] :
                   k > Skipped(Source(u), page[u]) /\ listing'[u][k] = x
    <3> DEFINE n == Skipped(Source(u), page[u])
    <3>1. PICK j \in DOMAIN listing[u] : j > n /\ listing[u][j] = x
      BY <2>3 DEF MissInv
    <3>2. PICK k \in DOMAIN listing'[u] : k >= j /\ listing'[u][k] = listing[u][j]
      BY <2>2
    <3>3. n \in Nat
      BY <2>3, ResultsFacts DEF FetchInv, Tasks
    <3>4. j \in Nat /\ k \in Nat
      <4>1. FetchInv'
        BY <1>5, FetchStep DEF FetchNext
      <4> QED
        BY <4>1 DEF FetchInv, FetchTypeOK
    <3> HIDE DEF n
    <3>5. k > n
      BY <3>1, <3>2, <3>3, <3>4
    <3> QED
      BY <3>1, <3>2, <3>5 DEF n
  <2>4. \A u \in Searches : Skipped(Source(u), page[u])' = Skipped(Source(u), page[u])
    BY <2>1 DEF Skipped
  <2> QED
    BY <2>1, <2>3, <2>4 DEF MissInv
<1>6. ASSUME NEW t \in Searches, NEW i \in 0..Len(listing[t]), Withdraw(t, i)
      PROVE  MissInv'
  <2>1. /\ UNCHANGED <<profile, state, page, jobs, ended, before>>
        /\ gone' = gone \cup {t}
        /\ \A u \in Searches \ {t} : listing'[u] = listing[u]
    BY <1>6 DEF Withdraw, FetchInv, FetchTypeOK
  <2> QED
    BY <2>1 DEF MissInv, Skipped
<1> QED
  BY <1>1, <1>2, <1>3, <1>4, <1>5, <1>6 DEF FetchNext, Finish

\* What Collect puts in the batch of a search that saw the end of its list.
LEMMA CollectWhole ==
    ASSUME FetchInv, Collect, NEW t \in Created(scrapers), SawAll(t), ~SharesName(t),
           NEW p \in Range(jobs[t]), Unflagged(p)
    PROVE  <<Source(t), p>> \in batch'
<1>1. t \in Searches /\ Location(t) \in Range(profile.locations) /\ state[t] = "returned"
  BY DEF Created, SawAll
<1>2. Place(t) \in Int
  <2>1. \E i \in DOMAIN profile.locations : profile.locations[i] = Location(t)
    BY <1>1 DEF Range
  <2>2. Place(t) \in DOMAIN profile.locations
    BY <2>1 DEF Place
  <2> QED
    BY <2>2, ProfileFacts DEF FetchInv
<1>3. t \in Kept
  <2>1. ASSUME NEW u \in Searches, state[u] = "returned", Key(u) = Key(t) PROVE u = t
    BY <2>1 DEF FetchInv, Tasks, SharesName
  <2> QED
    BY <1>1, <1>2, <2>1 DEF Kept
<1>4. Cut(jobs[t]) = jobs[t]
  <2>1. jobs[t] \in Seq(PostingIds) /\ cap \in Int
    BY <1>1, ProfileFacts DEF FetchInv, FetchTypeOK
  <2>2. cap >= 0 /\ (cap = 0 \/ Len(jobs[t]) <= cap)
    BY DEF SawAll
  <2>3. SubSeq(jobs[t], 1, Len(jobs[t])) = jobs[t]
    BY <2>1, SubSeqFull
  <2>4. CASE cap = 0
    BY <2>4 DEF Cut
  <2>5. CASE cap # 0
    <3>1. cap > 0 /\ ~(cap < Len(jobs[t]))
      BY <2>1, <2>2, <2>5
    <3>2. Cut(jobs[t]) = SubSeq(jobs[t], 1, Len(jobs[t]))
      BY <2>5, <3>1, Zenon DEF Cut
    <3> QED
      BY <2>3, <3>2
  <2> QED
    BY <2>4, <2>5
<1>5. p \in Found(t)
  BY <1>4 DEF Found
<1> QED
  BY <1>3, <1>5 DEF Collect

LEMMA WholeStep ==
    ASSUME FetchInv, MissInv, NothingMissed, [FetchNext]_fetchVars
    PROVE  NothingMissed'
<1> USE DEF config, boards, tasks
\* Once the tasks are done nothing that NothingMissed looks at changes.
<1>0. ASSUME UNCHANGED <<config, boards, tasks, scrapers, batch, before>>,
             phase \in {"closing", "storing"} \/ phase' \notin {"closing", "storing"}
      PROVE  NothingMissed'
  BY <1>0 DEF NothingMissed, Created, SawAll, SharesName, Key
<1>1. CASE UNCHANGED fetchVars
  BY <1>0, <1>1 DEF fetchVars
<1>2. ASSUME phase' \notin {"closing", "storing"} PROVE NothingMissed'
  BY <1>2 DEF NothingMissed
<1>3. ASSUME NEW keys \in SUBSET Credentials, Build(keys) PROVE NothingMissed'
  BY <1>2, <1>3 DEF Build
<1>4. ASSUME NEW t \in Searches, state[t] = "running", phase' = phase PROVE NothingMissed'
  BY <1>2, <1>4 DEF FetchInv, Tasks
<1>5. ASSUME NEW t \in Searches, Step(t) PROVE NothingMissed'
  BY <1>4, <1>5 DEF Step, GetPage, PageFails, PageGarbled
<1>6. CASE Collect
  <2>1. UNCHANGED <<config, boards, tasks, scrapers, before>>
    BY <1>6 DEF Collect
  <2>2. ASSUME NEW t \in Created(scrapers), SawAll(t), t \notin gone, ~SharesName(t),
               NEW p \in Range(before[t]), Unflagged(p)
        PROVE  <<Source(t), p>> \in batch'
    <3>1. t \in Searches /\ ended[t] = "short"
      BY <2>2 DEF Created, SawAll
    <3>2. p \in Range(jobs[t])
      BY <2>2, <3>1 DEF MissInv
    <3> QED
      BY <1>6, <2>2, <3>2, CollectWhole
  <2> QED
    BY <2>1, <2>2 DEF NothingMissed, Created, SawAll, SharesName, Key
<1>7. ASSUME NEW s \in Sources, Close(s) PROVE NothingMissed'
  BY <1>0, <1>7 DEF Close
<1>8. ASSUME NEW t \in Searches, NEW p \in PostingIds, NEW i \in 0..Len(listing[t]),
             Publish(t, i, p) \/ Withdraw(t, i)
      PROVE  NothingMissed'
  BY <1>4, <1>8 DEF Publish, Withdraw
<1> QED
  BY <1>1, <1>3, <1>5, <1>6, <1>7, <1>8 DEF FetchNext, Finish

\* The batch is handed on whole, and no task outlives the fetch (FetchWhole):
\* however the boards grow and shrink between two pages and whichever tasks fail.
THEOREM NothingLost == FetchSpec => []FetchWhole
<1>1. FetchInit => MissInv /\ NothingMissed
  BY DEF FetchInit, MissInv, NothingMissed
<1>2. FetchInv /\ MissInv /\ [FetchNext]_fetchVars => MissInv'
  BY MissStep
<1>3. FetchInv /\ MissInv /\ NothingMissed /\ [FetchNext]_fetchVars => NothingMissed'
  BY WholeStep
<1>4. FetchInv /\ NothingMissed => FetchWhole
  BY DEF FetchInv, Tasks, FetchWhole, NoneAfterClose
<1> QED
  BY <1>1, <1>2, <1>3, <1>4, FetchAlways, PTL DEF FetchSpec
=============================================================================
