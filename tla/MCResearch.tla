----------------------------- MODULE MCResearch -----------------------------
(* Research for TLC: two runs on one job. *)
EXTENDS Research

CONSTANTS r1, r2, s1, s2, s3

TwoRuns == {r1, r2}
=============================================================================
