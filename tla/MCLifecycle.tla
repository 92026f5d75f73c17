---------------------------- MODULE MCLifecycle -----------------------------
(* Lifecycle for TLC: three overlapping requests. *)
EXTENDS Lifecycle, TLC

CONSTANTS q1, q2, q3

ThreeRequests == {q1, q2, q3}

\* One status outside the applied-shaped ones, and two inside.
ThreeStatuses == {"bookmarked", "applied", "screening"}

\* Requests are interchangeable in every invariant.
RequestSymmetry == Permutations(ThreeRequests)
=============================================================================
