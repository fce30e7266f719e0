SPECIFICATION Spec
CHECK_DEADLOCK FALSE
CONSTANTS
    Uploads = {u1}
    Handlers = {h1, h2}
    Cleaners = {c1, c2}
    None = None
    TTL = 3
    FinalTTL = 1
    Limit = 1
    MaxDelay = 0
    MaxSkew = 1
    MaxClock = 6
SYMMETRY Symmetry
INVARIANTS
    TypeOK
    FinalizableUntilExpiry
    PendingIsTracked
    LateFinalizeIsRefused
PROPERTIES
    DeletedWhenCopiedOrExpired
    ImplementsLedger
