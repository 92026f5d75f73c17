SPECIFICATION Spec
CHECK_DEADLOCK FALSE
CONSTANTS
    h1 = h1
    h2 = h2
    t1 = t1
    t2 = t2
    NoLetter = NoLetter
    Blank = Blank
    Handlers <- TwoHandlers
    Texts <- OneText
    Prices <- UnitPrice
    MaxStreams = 2
SYMMETRY HandlerSymmetry
INVARIANTS
    TypeOK
    ApprovedHasLetter
    CountersTrue
    ForceNeeded
PROPERTIES
    ImplementsStages
