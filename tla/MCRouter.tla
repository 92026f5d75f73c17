------------------------------ MODULE MCRouter ------------------------------
(* Router for TLC: two calls and two providers. *)
EXTENDS Router

CONSTANTS openai, anthropic, c1, c2

OneCall == {c1}
TwoCalls == {c1, c2}
TwoProviders == {openai, anthropic}
=============================================================================
