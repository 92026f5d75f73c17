SPECIFICATION Spec
CHECK_DEADLOCK FALSE
CONSTANTS
    q1 = q1
    q2 = q2
    q3 = q3
    Requests <- ThreeRequests
    Requested <- ThreeStatuses
    MaxChanges = 3
SYMMETRY RequestSymmetry
INVARIANTS
    TypeOK
    ChartCoversApplied
    HistoryTrue
    EntriesKept
