SPECIFICATION Spec
CHECK_DEADLOCK FALSE
CONSTANTS
    q1 = q1
    q2 = q2
    n1 = n1
    n2 = n2
    w1 = w1
    w2 = w2
    None = None
    Requests <- TwoRequests
    Names <- TwoNames
    Passwords <- TwoPasswords
    MaxKeys = 2
    MaxSecrets = 2
SYMMETRY Symmetries
INVARIANTS
    TypeOK
    NameBehindHash
    AccountWhole
    SessionsLast
