----------------------------- MODULE MCSettings -----------------------------
(* Settings for TLC: two requests, two good values and a bad one. *)
EXTENDS Settings, TLC

CONSTANTS q1, q2, good1, good2, bad

TwoRequests == {q1, q2}
ThreeValues == {good1, good2, bad}
OnePreset == {good1}
SoundValues == {good1, good2}

\* One service of each kind; Tavily's search and Reed's scraper read one key
\* as the registry does for Adzuna.
SomeServices == {"openai", "anthropic", "adzuna", "budget", "route"}

\* Requests are interchangeable in every invariant.
Symmetries == Permutations(TwoRequests)
=============================================================================
