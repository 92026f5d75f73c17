----------------------------- MODULE MCScraping -----------------------------
(* Scraping for TLC: both boards at one location, or one at two, which may    *)
(* have the same name in two countries.                                      *)
EXTENDS Scraping, TLC

CONSTANTS l1, l2, p1, p2, p3, p4

TwoLocations == {l1, l2}
FourPostings == {p1, p2, p3, p4}
OneFlagged == {p2}

Layout(enabled, locations, name, size, pages) ==
    [enabled |-> enabled, locations |-> locations, name |-> name,
     results_per_page |-> size, max_pages |-> pages]

Distinct == l1 :> "Dublin" @@ l2 :> "Cork"
Same == l1 :> "Dublin" @@ l2 :> "Dublin"

SomeProfiles ==
    {Layout(Sources, <<l1>>, Distinct, size, pages) : size \in 1..2, pages \in {0, 2}}
    \cup {Layout({s}, <<l1, l2>>, name, 1, 4) : s \in Sources, name \in {Distinct, Same}}

SomeCaps == {0, 2, -1}

SomeListings == {<<>>, <<p1, p2, p3>>}
=============================================================================
