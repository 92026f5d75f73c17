---------------------------- MODULE ApprovalGate ----------------------------
(***************************************************************************)
(* What the approval of an application promises, stated without nodes,     *)
(* checkpoints or requests: a thread is screened; it is closed for good,   *)
(* or it waits until it is evaluated; each evaluation uses up a permit of  *)
(* its own; and nobody is told of an approval before there has been one.   *)
(***************************************************************************)
EXTENDS Naturals

VARIABLES
    stage,   \* where the thread is
    permits, \* approvals given and not used up
    runs,    \* evaluations
    told     \* somebody was told that the thread is approved

vars == <<stage, permits, runs, told>>

Stages == {"screening", "closed", "waiting", "evaluated"}

Init ==
    /\ stage = "screening"
    /\ permits = 0
    /\ runs = 0
    /\ told = FALSE

Screen ==
    /\ stage = "screening"
    /\ stage' \in {"waiting", "closed"}
    /\ UNCHANGED <<permits, runs, told>>

Open == stage \in {"waiting", "evaluated"}

Permit ==
    /\ Open
    /\ permits' = permits + 1
    /\ UNCHANGED <<stage, runs, told>>

Evaluate ==
    /\ Open
    /\ permits > 0
    /\ stage' = "evaluated"
    /\ permits' = permits - 1
    /\ runs' = runs + 1
    /\ told' = TRUE

\* A permit that comes too late to be of use.
Confirm ==
    /\ stage = "evaluated"
    /\ permits > 0
    /\ permits' = permits - 1
    /\ told' = TRUE
    /\ UNCHANGED <<stage, runs>>

\* Permits come to nothing: a request fails, or all of them are lost.
Lapse ==
    /\ permits' \in 0..permits
    /\ UNCHANGED <<stage, runs, told>>

Next == Screen \/ Permit \/ Evaluate \/ Confirm \/ Lapse

Spec == Init /\ [][Next]_vars
=============================================================================
