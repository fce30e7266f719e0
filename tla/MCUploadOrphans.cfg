SPECIFICATION Spec
CHECK_DEADLOCK FALSE
CONSTANTS
    Uploads = {u1}
    Handlers = {h1}
    Cleaners = {c1}
    None = None
    TTL = 2
    FinalTTL = 1
    Limit = 1
    MaxDelay = 1
    MaxSkew = 0
    MaxClock = 5
INVARIANTS
    OrphanIsTracked
