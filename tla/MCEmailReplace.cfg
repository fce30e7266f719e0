SPECIFICATION Spec
CHECK_DEADLOCK FALSE
CONSTANTS
    Users = {u1}
    Tokens = {t1, t2, t3}
    Handlers = {h1, h2}
    None = None
    TTL = 1
    MaxClock = 1
SYMMETRY Symmetry
INVARIANTS
    OneTokenPerUser
