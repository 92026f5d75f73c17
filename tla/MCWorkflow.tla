----------------------------- MODULE MCWorkflow -----------------------------
(* Workflow for TLC: three concurrent requests on one thread. *)
EXTENDS Workflow, TLC

CONSTANTS c1, c2, c3

ThreeClients == {c1, c2, c3}

\* Clients are interchangeable in every invariant.
ClientSymmetry == Permutations(ThreeClients)
=============================================================================
