---------------------------- MODULE MCDiscovery -----------------------------
(* Discovery for TLC: two runs, two requests, two postings and one page. *)
EXTENDS Discovery, TLC

CONSTANTS r1, r2, q1, q2, k1, k2, p1

TwoRuns == {r1, r2}
OneRequest == {q1}
TwoRequests == {q1, q2}
TwoPostings == {k1, k2}
OnePage == {p1}

\* Runs, requests and postings are interchangeable in every invariant.
Symmetries == Permutations(TwoRuns) \cup Permutations(TwoRequests)
              \cup Permutations(TwoPostings)
=============================================================================
