SPECIFICATION FairSpec
CHECK_DEADLOCK FALSE
CONSTANTS
    openai = openai
    anthropic = anthropic
    c1 = c1
    c2 = c2
    Unset = Unset
    Calls <- TwoCalls
    Providers <- TwoProviders
    BaseDefault = anthropic
    BaseFallback = openai
INVARIANTS
    TypeOK
    LedgerTrue
    ModelNamed
PROPERTIES
    CallEnds
    ImplementsLedger
