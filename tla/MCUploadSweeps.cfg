SPECIFICATION FairSpec
CHECK_DEADLOCK FALSE
CONSTANTS
    Uploads = {u1, u2}
    Handlers = {h1}
    Cleaners = {c1}
    None = None
    TTL = 1
    FinalTTL = 1
    Limit = 1
    MaxDelay = 0
    MaxSkew = 0
    MaxClock = 2
PROPERTIES
    ExpiredIsSwept
