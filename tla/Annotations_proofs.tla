------------------------- MODULE Annotations_proofs -------------------------
(***************************************************************************)
(* Theorems about Annotations: for any number of requests that overlap,    *)
(* feedback is lost only to a request that was overtaken, and the columns  *)
(* of a verdict stay together.  Both rest on the same fact: the copy of a  *)
(* handler that nobody has overtaken holds what the row holds, so that     *)
(* flushing only the columns that differ from it leaves nothing behind.    *)
(***************************************************************************)
EXTENDS Annotations, TLAPS

-----------------------------------------------------------------------------
(* Types *)

LEMMA BlankType == Blank \in Rows /\ NoVerdict \in Verdicts /\ NoFeedback \in Feedbacks
BY DEF Blank, Rows, NoVerdict, Verdicts, NoFeedback, Feedbacks

\* Every copy is typed, whatever the handler reads.
LEMMA CopyType ==
    ASSUME TypeOK, NEW k \in {"score", "feedback", "capture"}
    PROVE  Copy(k) \in Rows
BY BlankType DEF Copy, TypeOK, Rows

LEMMA MergedType ==
    ASSUME NEW l \in Feedbacks, NEW g \in Feedbacks
    PROVE  Merged(l, g) \in Feedbacks
BY DEF Merged, Feedbacks

LEMMA ScoredType ==
    ASSUME NEW k, NEW l \in Verdicts, NEW v \in Verdicts
    PROVE  Scored(k, l, v) \in Verdicts
BY DEF Scored, Verdicts

LEMMA OwedType ==
    ASSUME NEW k, NEW v \in Verdicts
    PROVE  Owed(k, v) \in Verdicts
BY DEF Owed, Verdicts

\* So is what an UPDATE leaves.
LEMMA FlushedRowType ==
    ASSUME TypeOK, NEW h \in Handlers
    PROVE  FlushedRow(h) \in Rows
<1>1. row \in Rows /\ loaded[h] \in Rows /\ new[h] \in Rows
  BY DEF TypeOK
<1>2. [c \in DOMAIN row.verdict |->
          Flushed(row.verdict[c], loaded[h].verdict[c], new[h].verdict[c])] \in Verdicts
  <2>1. /\ row.verdict \in Verdicts
        /\ loaded[h].verdict \in Verdicts
        /\ new[h].verdict \in Verdicts
    BY <1>1 DEF Rows
  <2>2. DOMAIN row.verdict = {"fit", "decision", "parsed"}
    BY <2>1 DEF Verdicts
  <2> QED
    BY <2>1, <2>2 DEF Verdicts, Flushed
<1> QED
  BY <1>1, <1>2 DEF FlushedRow, Flushed, Rows

LEMMA LeaveType ==
    ASSUME TypeOK, NEW h \in Handlers, Leave(h)
    PROVE  /\ pc' \in [Handlers -> {"idle", "scoring", "writing"}]
           /\ loaded' \in [Handlers -> Rows]
           /\ new' \in [Handlers -> Rows]
           /\ given' \in [Handlers -> Feedbacks]
           /\ found' \in [Handlers -> Verdicts]
BY BlankType DEF TypeOK, Leave

LEMMA BeginType ==
    ASSUME TypeOK, NEW q \in Requests, NEW k \in {"score", "feedback", "capture"},
           NEW p \in {"scoring", "writing"}, Begin(q, k, p)
    PROVE  /\ pc' \in [Handlers -> {"idle", "scoring", "writing"}]
           /\ kind' \in [Handlers -> Kinds]
           /\ loaded' \in [Handlers -> Rows]
BY CopyType DEF TypeOK, Begin, Handlers, Kinds

\* What a commit takes note of is typed as the row is.
LEMMA SettleType ==
    ASSUME TypeOK, NEW h \in Handlers, Settle(h), row' \in Rows
    PROVE  stale' \subseteq Handlers /\ due' \in Verdicts /\ merged' \in Feedbacks
<1>1. stale' \subseteq Handlers
  BY DEF Settle, Rivals, TypeOK
<1>2. due' \in Verdicts
  BY OwedType DEF Settle, TypeOK, Rows
<1>3. merged' \in Feedbacks
  <2>1. [f \in Fields |-> IF given[h][f] = None THEN merged[f] ELSE given[h][f]]
            = Merged(merged, given[h])
    BY DEF Merged
  <2>2. Merged(merged, given[h]) \in Feedbacks
    BY MergedType DEF TypeOK
  <2>3. row'.feedback \in Feedbacks
    BY DEF Rows
  <2> QED
    BY <2>1, <2>2, <2>3 DEF Settle, TypeOK
<1> QED
  BY <1>1, <1>2, <1>3

LEMMA TypeStep == TypeOK /\ [Next]_vars => TypeOK'
<1> SUFFICES ASSUME TypeOK, [Next]_vars PROVE TypeOK'
  OBVIOUS
<1> USE DEF histories
<1>1. CASE UNCHANGED vars
  BY <1>1 DEF TypeOK, vars, handlers
<1>2. ASSUME NEW q \in Requests, StartScore(q) PROVE TypeOK'
  BY <1>2, BeginType DEF StartScore, TypeOK
<1>3. ASSUME NEW q \in Requests, NEW g \in Givens, Feedback(q, g) PROVE TypeOK'
  <2>1. g \in Feedbacks
    BY GivensAssumption DEF Feedbacks
  <2>2. Copy("feedback") \in Rows
    BY CopyType
  <2>3. [Copy("feedback") EXCEPT !.feedback = Merged(@, g)] \in Rows
    BY <2>1, <2>2, MergedType DEF Rows
  <2> QED
    BY <1>3, <2>1, <2>3, BeginType DEF Feedback, TypeOK, Handlers
<1>4. ASSUME NEW q \in Requests, NEW t \in Texts, Recapture(q, t) PROVE TypeOK'
  <2>1. [Copy("capture") EXCEPT !.text = t] \in Rows
    BY CopyType DEF Rows
  <2> QED
    BY <1>4, <2>1, BeginType DEF Recapture, TypeOK, Handlers
<1>5. ASSUME NEW h \in Handlers, NEW v \in Verdicts, EndScore(h, v) PROVE TypeOK'
  <2>1. [loaded[h] EXCEPT !.verdict = Scored(kind[h], @, v)] \in Rows
    BY ScoredType DEF TypeOK, Rows
  <2> QED
    BY <1>5, <2>1 DEF EndScore, TypeOK
<1>6. ASSUME NEW h \in Handlers, Commit(h) PROVE TypeOK'
  <2>1. row' \in Rows
    BY <1>6, FlushedRowType DEF Commit, TypeOK
  <2>2. stale' \subseteq Handlers /\ due' \in Verdicts /\ merged' \in Feedbacks
    BY <1>6, <2>1, SettleType DEF Commit, TypeOK
  <2> QED
    BY <1>6, <2>1, <2>2, LeaveType DEF Commit, TypeOK
<1>7. ASSUME NEW h \in Handlers, Fail(h) PROVE TypeOK'
  BY <1>7, LeaveType DEF Fail, TypeOK
<1>8. CASE Delete
  BY <1>8, BlankType DEF Delete, TypeOK, handlers
<1> QED
  BY <1>1, <1>2, <1>3, <1>4, <1>5, <1>6, <1>7, <1>8 DEF Next

LEMMA InitType == Init => TypeOK
<1> SUFFICES ASSUME Init PROVE TypeOK
  OBVIOUS
<1>1. row \in Rows
  BY BlankType DEF Init, Rows
<1>2. [Blank EXCEPT !.text = row.text] \in Rows
  BY <1>1, BlankType DEF Rows
<1>3. pc \in [Handlers -> {"idle", "scoring", "writing"}]
  BY DEF Init
<1> QED
  BY <1>1, <1>2, <1>3, BlankType DEF Init, TypeOK, Kinds

\* Every state of every behaviour is typed.
THEOREM TypeCorrect == Spec => []TypeOK
<1> QED
  BY InitType, TypeStep, PTL DEF Spec

-----------------------------------------------------------------------------
(* Phases *)

\* Only a scoring waits for a workflow.
PhaseInv == \A h \in Handlers : pc[h] = "scoring" => Scoring(kind[h])

LEMMA PhaseStep ==
    ASSUME TypeOK, PhaseInv, [Next]_vars
    PROVE  PhaseInv'
<1> USE DEF PhaseInv
<1>1. CASE UNCHANGED vars
  BY <1>1 DEF vars, handlers, Scoring
<1>2. ASSUME NEW q \in Requests, StartScore(q) PROVE PhaseInv'
  BY <1>2 DEF StartScore, Begin, TypeOK, Scoring
<1>3. ASSUME NEW q \in Requests, NEW g \in Givens, Feedback(q, g) PROVE PhaseInv'
  BY <1>3 DEF Feedback, Begin, TypeOK, Scoring
<1>4. ASSUME NEW q \in Requests, NEW t \in Texts, Recapture(q, t) PROVE PhaseInv'
  BY <1>4 DEF Recapture, Begin, TypeOK, Scoring
<1>5. ASSUME NEW h \in Handlers, NEW v \in Verdicts, EndScore(h, v) PROVE PhaseInv'
  BY <1>5 DEF EndScore, TypeOK, Scoring
<1>6. ASSUME NEW h \in Handlers, Commit(h) \/ Fail(h) PROVE PhaseInv'
  BY <1>6 DEF Commit, Fail, Leave, TypeOK, Scoring
<1>7. CASE Delete
  BY <1>7 DEF Delete, handlers, Scoring
<1> QED
  BY <1>1, <1>2, <1>3, <1>4, <1>5, <1>6, <1>7 DEF Next

LEMMA PhaseCorrect == Spec => []PhaseInv
<1>1. Init => PhaseInv
  BY DEF Init, PhaseInv, Scoring
<1> QED
  BY <1>1, TypeCorrect, PhaseStep, PTL DEF Spec

-----------------------------------------------------------------------------
(* Feedback *)

\* The strengthening: a feedback request that nobody has overtaken has merged into
\* what the row holds.
FeedbackInv ==
    /\ row.feedback = merged
    /\ \A h \in Handlers : kind[h] = "feedback" /\ pc[h] # "idle" =>
          /\ exists /\ h \notin stale => loaded[h].feedback = row.feedback
          /\ new[h].feedback = Merged(loaded[h].feedback, given[h])

\* The commit of one feedback request overtakes every other one.
LEMMA FeedbackCommit ==
    ASSUME TypeOK, FeedbackInv, NEW h \in Handlers, Commit(h), exists,
           kind[h] = "feedback"
    PROVE  FeedbackInv'
<1>1. row' = FlushedRow(h) /\ Settle(h) /\ Leave(h) /\ kind' = kind
  BY DEF Commit
<1>2. row'.feedback = new[h].feedback
  BY <1>1 DEF FlushedRow
<1>3. row'.feedback = merged'
  <2>1. CASE h \in stale
    BY <1>1, <2>1 DEF Settle
  <2>2. CASE h \notin stale
    <3>1. new[h].feedback = Merged(merged, given[h])
      BY <2>2 DEF FeedbackInv, Commit
    <3>2. merged' = Merged(merged, given[h])
      BY <1>1, <2>2 DEF Settle, Merged
    <3> QED
      BY <1>2, <3>1, <3>2
  <2> QED
    BY <2>1, <2>2
<1>4. ASSUME NEW g \in Handlers, kind'[g] = "feedback", pc'[g] # "idle"
      PROVE  g \in stale' /\ new'[g].feedback = Merged(loaded'[g].feedback, given'[g])
  <2>1. g # h /\ pc'[g] = pc[g] /\ loaded'[g] = loaded[g] /\ new'[g] = new[g]
            /\ given'[g] = given[g] /\ kind[g] = "feedback"
    BY <1>1, <1>4 DEF Leave, TypeOK
  <2>2. g \in Rivals(h)
    BY <1>4, <2>1 DEF Rivals
  <2> QED
    BY <1>1, <1>4, <2>1, <2>2 DEF Settle, FeedbackInv
<1> QED
  BY <1>3, <1>4 DEF FeedbackInv

LEMMA FeedbackStep ==
    ASSUME TypeOK, PhaseInv, FeedbackInv, [Next]_vars
    PROVE  FeedbackInv'
<1> USE DEF histories
<1>1. CASE UNCHANGED vars
  BY <1>1 DEF FeedbackInv, vars, handlers
<1>2. ASSUME NEW q \in Requests, StartScore(q) PROVE FeedbackInv'
  BY <1>2 DEF StartScore, Begin, TypeOK, FeedbackInv
<1>3. ASSUME NEW q \in Requests, NEW g \in Givens, Feedback(q, g) PROVE FeedbackInv'
  <2>1. /\ loaded'[q].feedback = row.feedback
        /\ new'[q].feedback = Merged(row.feedback, g)
        /\ given'[q] = g
    BY <1>3 DEF Feedback, Begin, Copy, TypeOK, Rows, Handlers
  <2>2. \A h \in Handlers \ {q} :
           /\ pc'[h] = pc[h] /\ kind'[h] = kind[h] /\ loaded'[h] = loaded[h]
           /\ new'[h] = new[h] /\ given'[h] = given[h]
    BY <1>3 DEF Feedback, Begin, TypeOK
  <2> QED
    BY <1>3, <2>1, <2>2 DEF Feedback, Begin, FeedbackInv
<1>4. ASSUME NEW q \in Requests, NEW t \in Texts, Recapture(q, t) PROVE FeedbackInv'
  BY <1>4 DEF Recapture, Begin, TypeOK, FeedbackInv
<1>5. ASSUME NEW h \in Handlers, NEW v \in Verdicts, EndScore(h, v) PROVE FeedbackInv'
  <2>1. \A g \in Handlers \ {h} : pc'[g] = pc[g] /\ new'[g] = new[g]
    BY <1>5 DEF EndScore, TypeOK
  <2>2. kind[h] # "feedback"
    BY <1>5 DEF EndScore, PhaseInv, Scoring
  <2> QED
    BY <1>5, <2>1, <2>2 DEF EndScore, FeedbackInv
<1>6. ASSUME NEW h \in Handlers, Commit(h) PROVE FeedbackInv'
  <2>1. CASE exists /\ kind[h] = "feedback"
    BY <1>6, <2>1, FeedbackCommit
  <2>2. CASE exists /\ kind[h] # "feedback"
    <3>1. row'.feedback = row.feedback /\ merged' = merged
      BY <1>6, <2>2 DEF Commit, FlushedRow, Settle
    <3>2. \A g \in Handlers : g \in stale /\ g # h => g \in stale'
      BY <1>6, <2>2 DEF Commit, Settle
    <3> QED
      BY <1>6, <2>2, <3>1, <3>2 DEF Commit, Leave, TypeOK, FeedbackInv
  <2>3. CASE ~exists
    BY <1>6, <2>3 DEF Commit, Leave, TypeOK, FeedbackInv
  <2> QED
    BY <2>1, <2>2, <2>3
<1>7. ASSUME NEW h \in Handlers, Fail(h) PROVE FeedbackInv'
  BY <1>7 DEF Fail, Leave, TypeOK, FeedbackInv
<1>8. CASE Delete
  BY <1>8 DEF Delete, handlers, Blank, FeedbackInv
<1> QED
  BY <1>1, <1>2, <1>3, <1>4, <1>5, <1>6, <1>7, <1>8 DEF Next

\* The row shows every field of every acknowledged feedback, but for what a request
\* that was overtaken has undone (job_actions.py:120-138).
THEOREM FeedbackSafe == Spec => []FeedbackKept
<1>1. Init => FeedbackInv
  BY DEF Init, FeedbackInv
<1>2. FeedbackInv => FeedbackKept
  BY DEF FeedbackInv, FeedbackKept
<1> QED
  BY <1>1, <1>2, TypeCorrect, PhaseCorrect, FeedbackStep, PTL DEF Spec

-----------------------------------------------------------------------------
(* The verdict *)

\* The strengthening: a scoring that nobody has overtaken has the verdict of the
\* row in its copy, the run that inserted the row has the empty one, and a handler
\* that is not scoring has assigned none.
VerdictInv ==
    /\ row.verdict = due
    /\ \A h \in Handlers : pc[h] # "idle" =>
          /\ Scoring(kind[h]) /\ exists /\ h \notin stale =>
                loaded[h].verdict = row.verdict
          /\ kind[h] = "discover" => loaded[h].verdict.parsed = None
          /\ pc[h] = "writing" =>
                new[h].verdict = IF Scoring(kind[h])
                                 THEN Scored(kind[h], loaded[h].verdict, found[h])
                                 ELSE loaded[h].verdict

\* Flushing against the row's own values assigns every column.
LEMMA FlushWhole ==
    ASSUME NEW v \in Verdicts, NEW n \in Verdicts
    PROVE  [c \in DOMAIN v |-> Flushed(v[c], v[c], n[c])] = n
<1>1. DOMAIN v = {"fit", "decision", "parsed"} /\ DOMAIN n = {"fit", "decision", "parsed"}
  BY DEF Verdicts
<1>2. \A c \in DOMAIN v : Flushed(v[c], v[c], n[c]) = n[c]
  BY DEF Flushed
<1> QED
  BY <1>1, <1>2 DEF Verdicts

\* Flushing what was not assigned changes nothing.
LEMMA FlushNothing ==
    ASSUME NEW v \in Verdicts, NEW l \in Verdicts
    PROVE  [c \in DOMAIN v |-> Flushed(v[c], l[c], l[c])] = v
BY DEF Verdicts, Flushed

\* With the copy of the insert, a run owes what it assigned.
LEMMA OwedIsScored ==
    ASSUME NEW k \in {"score", "discover"}, NEW l \in Verdicts, NEW v \in Verdicts,
           k = "discover" => l.parsed = None
    PROVE  Scored(k, l, v) = Owed(k, v)
<1>1. CASE k = "score"
  BY <1>1 DEF Scored, Owed
<1>2. CASE k = "discover"
  <2>1. ASSUME NEW f, NEW d
        PROVE  [l EXCEPT !.fit = f, !.decision = d]
                  = [fit |-> f, decision |-> d, parsed |-> None]
    <3> DEFINE e == [l EXCEPT !.fit = f, !.decision = d]
               r == [fit |-> f, decision |-> d, parsed |-> None]
    <3>1. DOMAIN l = {"fit", "decision", "parsed"} /\ l.parsed = None
      BY <1>2 DEF Verdicts
    <3>2. e = [c \in {"fit", "decision", "parsed"} |-> e[c]]
      BY <3>1
    <3>3. r = [c \in {"fit", "decision", "parsed"} |-> r[c]]
      OBVIOUS
    <3>4. e.fit = r.fit /\ e.decision = r.decision /\ e.parsed = r.parsed
      BY <3>1
    <3>5. \A c \in {"fit", "decision", "parsed"} : e[c] = r[c]
      BY <3>4
    <3> HIDE DEF e, r
    <3>6. e = r
      BY <3>2, <3>3, <3>5
    <3> QED
      BY <3>6 DEF e, r
  <2> QED
    BY <1>2, <2>1 DEF Scored, Owed
<1> QED
  BY <1>1, <1>2

\* The commit of one scoring overtakes every other one.
LEMMA VerdictCommit ==
    ASSUME TypeOK, VerdictInv, NEW h \in Handlers, Commit(h), exists
    PROVE  VerdictInv'
<1> DEFINE l == loaded[h].verdict
           n == new[h].verdict
<1>1. /\ row' = FlushedRow(h) /\ Settle(h) /\ Leave(h) /\ kind' = kind /\ exists' = exists
      /\ pc[h] = "writing"
  BY DEF Commit
<1>2. row.verdict \in Verdicts /\ l \in Verdicts /\ n \in Verdicts /\ found[h] \in Verdicts
  BY DEF TypeOK, Rows
<1>3. row'.verdict = [c \in DOMAIN row.verdict |-> Flushed(row.verdict[c], l[c], n[c])]
  BY <1>1 DEF FlushedRow
<1>4. row'.verdict = due'
  <2>1. CASE ~Scoring(kind[h])
    <3>1. n = l
      BY <1>1, <2>1 DEF VerdictInv
    <3>2. row'.verdict = row.verdict
      BY <1>2, <1>3, <3>1, FlushNothing
    <3> QED
      BY <1>1, <2>1, <3>2 DEF Settle, VerdictInv
  <2>2. CASE Scoring(kind[h]) /\ h \in stale
    BY <1>1, <2>2 DEF Settle
  <2>3. CASE Scoring(kind[h]) /\ h \notin stale
    <3>1. l = row.verdict /\ n = Scored(kind[h], l, found[h])
      BY <1>1, <2>3 DEF VerdictInv
    <3>2. row'.verdict = n
      BY <1>2, <1>3, <3>1, FlushWhole
    <3>3. n = Owed(kind[h], found[h])
      BY <1>1, <1>2, <2>3, <3>1, OwedIsScored DEF VerdictInv, Scoring
    <3> QED
      BY <1>1, <2>3, <3>2, <3>3 DEF Settle
  <2> QED
    BY <2>1, <2>2, <2>3
<1>5. ASSUME NEW g \in Handlers, pc'[g] # "idle"
      PROVE  /\ g # h /\ pc[g] # "idle" /\ pc'[g] = pc[g] /\ loaded'[g] = loaded[g]
             /\ new'[g] = new[g] /\ found'[g] = found[g]
             /\ Scoring(kind[g]) /\ g \notin stale' => row'.verdict = row.verdict /\ g \notin stale
  <2>1. g # h /\ pc[g] # "idle" /\ pc'[g] = pc[g] /\ loaded'[g] = loaded[g]
            /\ new'[g] = new[g] /\ found'[g] = found[g]
    BY <1>1, <1>5 DEF Leave, TypeOK
  <2>2. ASSUME Scoring(kind[g]), g \notin stale'
        PROVE  row'.verdict = row.verdict /\ g \notin stale
    <3>1. g \notin stale /\ g \notin Rivals(h)
      BY <1>1, <2>1, <2>2 DEF Settle
    <3>2. ~Scoring(kind[h])
      BY <2>1, <2>2, <3>1 DEF Rivals
    <3>3. n = l
      BY <1>1, <3>2 DEF VerdictInv
    <3> QED
      BY <1>2, <1>3, <3>1, <3>3, FlushNothing
  <2> QED
    BY <2>1, <2>2
<1> QED
  BY <1>1, <1>4, <1>5 DEF VerdictInv

LEMMA VerdictStep ==
    ASSUME TypeOK, PhaseInv, VerdictInv, [Next]_vars
    PROVE  VerdictInv'
<1> USE DEF histories
<1>1. CASE UNCHANGED vars
  BY <1>1 DEF VerdictInv, vars, handlers
<1>2. ASSUME NEW q \in Requests, StartScore(q) PROVE VerdictInv'
  <2>1. loaded'[q].verdict = row.verdict /\ pc'[q] = "scoring" /\ kind'[q] = "score"
    BY <1>2 DEF StartScore, Begin, Copy, TypeOK, Rows, Handlers
  <2>2. \A h \in Handlers \ {q} :
           pc'[h] = pc[h] /\ kind'[h] = kind[h] /\ loaded'[h] = loaded[h]
    BY <1>2 DEF StartScore, Begin, TypeOK
  <2> QED
    BY <1>2, <2>1, <2>2 DEF StartScore, VerdictInv
<1>3. ASSUME NEW q \in Requests, NEW g \in Givens, Feedback(q, g) PROVE VerdictInv'
  <2>1. /\ new'[q].verdict = loaded'[q].verdict /\ kind'[q] = "feedback"
    BY <1>3 DEF Feedback, Begin, Copy, TypeOK, Rows, Handlers
  <2>2. \A h \in Handlers \ {q} :
           pc'[h] = pc[h] /\ kind'[h] = kind[h] /\ loaded'[h] = loaded[h] /\ new'[h] = new[h]
    BY <1>3 DEF Feedback, Begin, TypeOK
  <2> QED
    BY <1>3, <2>1, <2>2 DEF Feedback, VerdictInv, Scoring
<1>4. ASSUME NEW q \in Requests, NEW t \in Texts, Recapture(q, t) PROVE VerdictInv'
  <2>1. /\ new'[q].verdict = loaded'[q].verdict /\ kind'[q] = "capture"
    BY <1>4 DEF Recapture, Begin, Copy, TypeOK, Rows, Handlers
  <2>2. \A h \in Handlers \ {q} :
           pc'[h] = pc[h] /\ kind'[h] = kind[h] /\ loaded'[h] = loaded[h] /\ new'[h] = new[h]
    BY <1>4 DEF Recapture, Begin, TypeOK
  <2> QED
    BY <1>4, <2>1, <2>2 DEF Recapture, VerdictInv, Scoring
<1>5. ASSUME NEW h \in Handlers, NEW v \in Verdicts, EndScore(h, v) PROVE VerdictInv'
  <2>1. \A g \in Handlers \ {h} :
           pc'[g] = pc[g] /\ new'[g] = new[g] /\ found'[g] = found[g]
    BY <1>5 DEF EndScore, TypeOK
  <2>2. /\ new'[h].verdict = Scored(kind[h], loaded[h].verdict, v)
        /\ found'[h] = v /\ Scoring(kind[h]) /\ pc[h] # "idle"
    BY <1>5 DEF EndScore, PhaseInv, TypeOK, Rows
  <2> QED
    BY <1>5, <2>1, <2>2 DEF EndScore, VerdictInv
<1>6. ASSUME NEW h \in Handlers, Commit(h) PROVE VerdictInv'
  <2>1. CASE exists
    BY <1>6, <2>1, VerdictCommit
  <2>2. CASE ~exists
    BY <1>6, <2>2 DEF Commit, Leave, TypeOK, VerdictInv
  <2> QED
    BY <2>1, <2>2
<1>7. ASSUME NEW h \in Handlers, Fail(h) PROVE VerdictInv'
  BY <1>7 DEF Fail, Leave, TypeOK, VerdictInv
<1>8. CASE Delete
  BY <1>8 DEF Delete, handlers, Blank, VerdictInv
<1> QED
  BY <1>1, <1>2, <1>3, <1>4, <1>5, <1>6, <1>7, <1>8 DEF Next

\* The columns of the verdict are those of one scoring, the last, unless it had
\* been overtaken (job_actions.py:77-88, pipeline.py:81-84).
THEOREM VerdictSafe == Spec => []VerdictWhole
<1>1. Init => VerdictInv
  BY DEF Init, VerdictInv, Blank, NoVerdict, NoFeedback, Verdicts
<1>2. VerdictInv => VerdictWhole
  BY DEF VerdictInv, VerdictWhole
<1> QED
  BY <1>1, <1>2, TypeCorrect, PhaseCorrect, VerdictStep, PTL DEF Spec
=============================================================================
