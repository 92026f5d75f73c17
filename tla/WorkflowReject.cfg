SPECIFICATION Spec
CHECK_DEADLOCK FALSE
CONSTANTS
    c1 = c1
    c2 = c2
    c3 = c3
    Clients <- ThreeClients
    MaxCalls = 4
SYMMETRY ClientSymmetry
INVARIANTS
    RejectCancels
