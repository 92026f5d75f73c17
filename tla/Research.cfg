SPECIFICATION FairSpec
CHECK_DEADLOCK FALSE
CONSTANTS
    r1 = r1
    r2 = r2
    s1 = s1
    s2 = s2
    s3 = s3
    NoBrief = NoBrief
    Runs <- TwoRuns
    Queries = {s1, s2}
    Urls = {s3}
    MAX_ITERATIONS = 3
INVARIANTS
    TypeOK
    ResultWhole
    SpendSound
PROPERTIES
    RunEnds
