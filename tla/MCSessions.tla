----------------------------- MODULE MCSessions -----------------------------
(* Sessions for TLC: two requests, two names, two passwords. *)
EXTENDS Sessions, TLC

CONSTANTS q1, q2, n1, n2, w1, w2

TwoRequests == {q1, q2}
TwoNames == {n1, n2}
TwoPasswords == {w1, w2}

\* Requests, names and passwords are interchangeable in every invariant.
Symmetries == Permutations(TwoRequests) \cup Permutations(TwoNames)
              \cup Permutations(TwoPasswords)
=============================================================================
