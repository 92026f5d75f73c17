SPECIFICATION FairSpec
CHECK_DEADLOCK FALSE
CONSTANTS
    l1 = l1
    l2 = l2
    p1 = p1
    p2 = p2
    p3 = p3
    p4 = p4
    Locations <- TwoLocations
    PostingIds <- FourPostings
    RedFlagged <- OneFlagged
    Profiles <- SomeProfiles
    Caps <- SomeCaps
    Listings <- SomeListings
    MaxChanges = 2
INVARIANTS
    FetchTypeOK
    FetchWhole
PROPERTIES
    FetchEnds
