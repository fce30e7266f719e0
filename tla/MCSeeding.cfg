SPECIFICATION Spec
CHECK_DEADLOCK FALSE
CONSTANTS
    Commands = {c1, c2}
    Users = 4
    Teams = 2
    Tags = 1
    MaxStarts = 3
    None = None
SYMMETRY Symmetry
INVARIANTS
    TypeOK
    SuccessIsExact
    RefusedOnlyIfRaced
