SPECIFICATION Spec
CHECK_DEADLOCK FALSE
CONSTANTS
    q1 = q1
    q2 = q2
    t1 = t1
    t2 = t2
    Run = Run
    None = None
    Falsy = "zero"
    Values = {"zero", "other"}
    Requests <- TwoRequests
    Givens <- SomeGivens
    Fields <- TwoFields
    Texts <- TwoTexts
    Short <- ShortTexts
SYMMETRY Symmetries
INVARIANTS
    TypeOK
    FeedbackKept
    VerdictWhole
