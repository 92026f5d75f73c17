---------------------------- MODULE Annotations -----------------------------
(***************************************************************************)
(* What is written on a discovered_jobs row beside its triage, its letter, *)
(* its research and its status: the verdict of a scoring (score_job of     *)
(* app/api/job_actions.py and the loop of app/scrapers/pipeline.py), the   *)
(* user's feedback (record_feedback), and the text of the posting, which   *)
(* a repeated capture refreshes (app/api/captures.py).  Every one of these *)
(* handlers works on a copy and writes the columns that differ from it.    *)
(***************************************************************************)
EXTENDS RowStore

CONSTANTS
    Requests,  \* concurrent score, feedback and capture requests
    Run,       \* the discovery run that inserted the row
    Fields,    \* the fields of FeedbackRequest
    Values,    \* what can be given for a field
    Falsy,     \* one that Python takes for false: a score correction of 0
    Givens,    \* what a feedback request can give
    Texts,     \* descriptions
    Short,     \* those with fewer than 50 characters
    None       \* null: a field not given, a fit not found, a job not parsed

ASSUME RunAssumption == Run \notin Requests
ASSUME FalsyAssumption == Falsy \in Values
ASSUME ShortAssumption == Short \subseteq Texts
ASSUME GivensAssumption == Givens \subseteq [Fields -> Values \cup {None}]
ASSUME NoneAssumption == None \notin Values \cup Texts \cup {"below", "apply"}

Handlers == Requests \cup {Run}

\* parsed goes by the text that was parsed; breakdown and reason go with it.
Verdicts == [fit : {"below", "apply", None}, decision : {"apply", "skip", None},
             parsed : Texts \cup {None}]
NoVerdict == [fit |-> None, decision |-> None, parsed |-> None]

Feedbacks == [Fields -> Values \cup {None}]
NoFeedback == [f \in Fields |-> None]

Rows == [text : Texts \cup {None}, verdict : Verdicts, feedback : Feedbacks]
Blank == [text |-> None, verdict |-> NoVerdict, feedback |-> NoFeedback]

Kinds == {"score", "discover", "feedback", "capture"}

VARIABLES
    exists,    \* the row is in the table
    row,       \* its columns
    pc,        \* where each handler is
    kind,      \* what it does
    loaded,    \* its copy of the columns it reads or writes, and Blank elsewhere
    new,       \* the same object with the attributes it assigned
    given,     \* the fields of a feedback request
    found,     \* the outcome of the workflow of a scoring
    stale,     \* history: handlers whose columns another has written since
    due,       \* history: the verdict the row should show by what has been committed
    merged     \* history: the feedback it should show

handlers == <<pc, kind, loaded, new, given, found>>
histories == <<stale, due, merged>>
vars == <<exists, row, handlers, histories>>

TypeOK ==
    /\ exists \in BOOLEAN
    /\ row \in Rows
    /\ pc \in [Handlers -> {"idle", "scoring", "writing"}]
    /\ kind \in [Handlers -> Kinds]
    /\ loaded \in [Handlers -> Rows]
    /\ new \in [Handlers -> Rows]
    /\ given \in [Handlers -> Feedbacks]
    /\ found \in [Handlers -> Verdicts]
    /\ stale \subseteq Handlers
    /\ due \in Verdicts
    /\ merged \in Feedbacks

\* The row has been inserted, by a run that will score it or by a capture.
Init ==
    /\ exists = TRUE
    /\ row \in [text : Texts, verdict : {NoVerdict}, feedback : {NoFeedback}]
    /\ \E p \in {"idle", "scoring"} :
          pc = [h \in Handlers |-> IF h = Run THEN p ELSE "idle"]
    /\ kind = [h \in Handlers |-> "discover"]
    /\ loaded = [h \in Handlers |->
                    IF pc[h] = "idle" THEN Blank ELSE [Blank EXCEPT !.text = row.text]]
    /\ new = [h \in Handlers |-> Blank]
    /\ given = [h \in Handlers |-> NoFeedback]
    /\ found = [h \in Handlers |-> NoVerdict]
    /\ stale = {}
    /\ due = NoVerdict
    /\ merged = NoFeedback

-----------------------------------------------------------------------------
(* Every handler begins with a load and ends with a commit *)

\* The columns a handler reads or writes; one it leaves alone is not flushed
\* whatever its copy holds.
Copy(k) ==
    CASE k = "score"    -> [row EXCEPT !.feedback = NoFeedback]
      [] k = "feedback" -> [row EXCEPT !.text = None, !.verdict = NoVerdict]
      [] k = "capture"  -> [row EXCEPT !.verdict = NoVerdict, !.feedback = NoFeedback]

Begin(q, k, p) ==
    /\ pc[q] = "idle"
    /\ exists
    /\ pc' = [pc EXCEPT ![q] = p]
    /\ kind' = [kind EXCEPT ![q] = k]
    /\ loaded' = [loaded EXCEPT ![q] = Copy(k)]

Leave(h) ==
    /\ pc' = [pc EXCEPT ![h] = "idle"]
    /\ loaded' = [loaded EXCEPT ![h] = Blank]
    /\ new' = [new EXCEPT ![h] = Blank]
    /\ given' = [given EXCEPT ![h] = NoFeedback]
    /\ found' = [found EXCEPT ![h] = NoVerdict]

-----------------------------------------------------------------------------
(* score_job, and the scoring loop of a discovery run *)

\* A description that is too short is refused with 422.
StartScore(q) ==
    /\ Begin(q, "score", "scoring")
    /\ row.text \notin Short
    /\ UNCHANGED <<exists, row, new, given, found, histories>>

\* What preprocess and matcher make of text t: a fit and a decision, or a
\* quarantined text without either; score_job takes a missing decision for "skip".
Outcomes(t) ==
    {[fit |-> None, decision |-> "skip", parsed |-> None]}
    \cup [fit : {"below", "apply"}, decision : {"apply", "skip"}, parsed : {t}]

\* Mutant: a quarantined text leaves the job parsed before.
ScoredKeeping(k, l, v) ==
    IF k = "score"
    THEN [v EXCEPT !.parsed = IF @ = None THEN l.parsed ELSE @]
    ELSE [l EXCEPT !.fit = IF v.fit = None THEN "below" ELSE v.fit,
                   !.decision = v.decision]

\* Mutant: the two arguments of the fit and the decision are swapped.
ScoredSwapped(k, l, v) ==
    IF k = "score" THEN v ELSE [l EXCEPT !.fit = v.decision, !.decision = v.fit]

\* The columns assigned to the copy l: score_job assigns all of them, a discovery
\* run the fit, 0 if there is none, and the decision.
Scored(k, l, v) ==
    IF k = "score" THEN v
    ELSE [l EXCEPT !.fit = IF v.fit = None THEN "below" ELSE v.fit,
                   !.decision = v.decision]

EndScore(h, v) ==
    /\ pc[h] = "scoring"
    /\ v \in Outcomes(loaded[h].text)
    /\ new' = [new EXCEPT ![h] = [loaded[h] EXCEPT !.verdict = Scored(kind[h], @, v)]]
    /\ found' = [found EXCEPT ![h] = v]
    /\ pc' = [pc EXCEPT ![h] = "writing"]
    /\ UNCHANGED <<exists, row, kind, loaded, given, histories>>

-----------------------------------------------------------------------------
(* record_feedback *)

\* Mutants: what was there before is not looked at; a field counts as given only
\* if it is true.
MergedAlone(l, g) == g
MergedTruthy(l, g) == [f \in Fields |-> IF g[f] \in {None, Falsy} THEN l[f] ELSE g[f]]

\* A field that is not given keeps the value it has in the copy.
Merged(l, g) == [f \in Fields |-> IF g[f] = None THEN l[f] ELSE g[f]]

\* The row is loaded and the feedback assigned before the next await.
Feedback(q, g) ==
    /\ Begin(q, "feedback", "writing")
    /\ new' = [new EXCEPT ![q] = [Copy("feedback") EXCEPT !.feedback = Merged(@, g)]]
    /\ given' = [given EXCEPT ![q] = g]
    /\ UNCHANGED <<exists, row, found, histories>>

-----------------------------------------------------------------------------
\* The page has been captured before: create_capture refreshes its text.  A title,
\* company or location that is not given keeps its value in the same way.
Recapture(q, t) ==
    /\ Begin(q, "capture", "writing")
    /\ new' = [new EXCEPT ![q] = [Copy("capture") EXCEPT !.text = t]]
    /\ UNCHANGED <<exists, row, given, found, histories>>

-----------------------------------------------------------------------------
(* Commits *)

\* The UPDATE of handler h.  human_feedback is one JSON value with the time of the
\* review in it, so that it always differs from the one loaded.
FlushedRow(h) ==
    LET l == loaded[h]
        n == new[h]
    IN  [text |-> Flushed(row.text, l.text, n.text),
         verdict |->
            [c \in DOMAIN row.verdict |->
                Flushed(row.verdict[c], l.verdict[c], n.verdict[c])],
         feedback |-> IF kind[h] = "feedback" THEN n.feedback ELSE row.feedback]

Scoring(k) == k \in {"score", "discover"}

\* Handlers under way that write the same columns as h.
Rivals(h) ==
    {g \in Handlers \ {h} : /\ pc[g] # "idle"
                            /\ kind[g] = kind[h] \/ (Scoring(kind[g]) /\ Scoring(kind[h]))}

\* The verdict a scoring of kind k that ended with v owes the row.
Owed(k, v) ==
    IF k = "score" THEN v
    ELSE [fit |-> IF v.fit = None THEN "below" ELSE v.fit,
          decision |-> v.decision, parsed |-> None]

\* A handler that nobody has overtaken owes the row its outcome; of one that has
\* been overtaken nothing is expected but what it wrote.
Settle(h) ==
    /\ stale' = (stale \ {h}) \cup Rivals(h)
    /\ due' = IF ~Scoring(kind[h]) THEN due
              ELSE IF h \in stale THEN row'.verdict ELSE Owed(kind[h], found[h])
    /\ merged' = IF kind[h] # "feedback" THEN merged
                 ELSE IF h \in stale THEN row'.feedback
                 ELSE [f \in Fields |-> IF given[h][f] = None THEN merged[f]
                                        ELSE given[h][f]]

\* The UPDATE of a row deleted meanwhile matches nothing, and the request fails.
Commit(h) ==
    /\ pc[h] = "writing"
    /\ IF exists
       THEN row' = FlushedRow(h) /\ Settle(h)
       ELSE stale' = stale \ {h} /\ UNCHANGED <<row, due, merged>>
    /\ Leave(h)
    /\ UNCHANGED <<exists, kind>>

\* The request, the workflow or the process fails before the commit; the run marks
\* the row's triage then, and leaves these columns alone.
Fail(h) ==
    /\ pc[h] # "idle"
    /\ stale' = stale \ {h}
    /\ Leave(h)
    /\ UNCHANGED <<exists, row, kind, due, merged>>

Delete ==
    /\ exists
    /\ exists' = FALSE
    /\ row' = Blank
    /\ due' = NoVerdict
    /\ merged' = NoFeedback
    /\ UNCHANGED <<handlers, stale>>

Next ==
    \/ \E q \in Requests :
          \/ StartScore(q)
          \/ \E g \in Givens : Feedback(q, g)
          \/ \E t \in Texts : Recapture(q, t)
    \/ \E h \in Handlers :
          \/ \E v \in Verdicts : EndScore(h, v)
          \/ Commit(h)
          \/ Fail(h)
    \/ Delete

Spec == Init /\ [][Next]_vars

-----------------------------------------------------------------------------
(* Properties *)

\* No feedback is lost but by an overlap: the row shows every field of every
\* acknowledged request, the later one where two give the same, and only a request
\* that another has overtaken since its load can undo a field
\* (job_actions.py:120-138).
FeedbackKept == row.feedback = merged

\* The verdict columns are of one scoring, the last: no column is left over from
\* an earlier one because its copy said so, unless another scoring has overtaken
\* it; that of a discovery run holds the copy of when the row was inserted
\* (job_actions.py:77-88, pipeline.py:81-84).
VerdictWhole == row.verdict = due
=============================================================================
