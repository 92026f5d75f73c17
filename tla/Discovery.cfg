SPECIFICATION Spec
CHECK_DEADLOCK FALSE
CONSTANTS
    r1 = r1
    r2 = r2
    q1 = q1
    q2 = q2
    k1 = k1
    k2 = k2
    p1 = p1
    Runs <- TwoRuns
    Requests <- TwoRequests
    Postings <- TwoPostings
    CapturedPages <- OnePage
    MaxRows = 2
SYMMETRY Symmetries
INVARIANTS
    TypeOK
    OneRowPerPosting
    LinkedBothWays
    PendingIsQueued
