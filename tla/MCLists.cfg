SPECIFICATION MCSpec
CHECK_DEADLOCK FALSE
CONSTANTS
    PerMs = 2
    Limit = 1
    None = None
    RowIds = {1, 2, 3}
    Times = {0, 1, 2}
    q1 = q1
    q2 = q2
    Queries = {q1, q2}
    Late = 2
    Blank = q1
    Panel = q2
    Slots = {s1, s2}
    MaxFaults = 1
SYMMETRY Symmetry
INVARIANTS
    TypeOK
    ListMatchesSearch
    ListedOrSameMs
    PreviousPageIsNearest
