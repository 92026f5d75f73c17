---------------------------- MODULE LetterStages ----------------------------
(***************************************************************************)
(* What the cover-letter endpoints promise about one job, stated without   *)
(* handlers, copies or commits: a letter appears, is signed off and        *)
(* reopened any number of times, and goes only with its job.               *)
(***************************************************************************)
VARIABLE stage

Stages == {"none", "draft", "signed", "deleted"}

Init == stage = "none"

\* A generated or saved text, signed off at once or not; approval withdrawn
\* or given.
Write == /\ stage # "deleted"
         /\ stage' \in {"draft", "signed"}

\* The job is deleted, whatever it holds.
Delete == /\ stage # "deleted"
          /\ stage' = "deleted"

Next == Write \/ Delete

Spec == Init /\ [][Next]_stage
=============================================================================
