--------------------------- MODULE MCCoverLetter ----------------------------
(* CoverLetter for TLC: two concurrent requests on one row. *)
EXTENDS CoverLetter, TLC

CONSTANTS h1, h2, t1, t2

OneHandler == {h1}
TwoHandlers == {h1, h2}
OneText == {t1}
TwoTexts == {t1, t2}
UnitPrice == {1}

\* Handlers are interchangeable in every invariant.
HandlerSymmetry == Permutations(TwoHandlers)
=============================================================================
