--------------------------- MODULE MCAnnotations ----------------------------
(* Annotations for TLC: two requests beside the run that inserted the row. *)
EXTENDS Annotations, TLC

CONSTANTS q1, q2, t1, t2

TwoRequests == {q1, q2}
TwoFields == {"score_correction", "decision_override"}
\* One field, the other, or the first again with another value.
SomeGivens ==
    {[f \in TwoFields |-> IF f = "score_correction" THEN v ELSE None] : v \in Values}
    \cup {[f \in TwoFields |-> IF f = "score_correction" THEN None ELSE "other"]}

TwoTexts == {t1, t2}
ShortTexts == {t2}

\* Requests are interchangeable in every invariant.
Symmetries == Permutations(TwoRequests)
=============================================================================
