SPECIFICATION Spec
CONSTANTS
    Users = {u1, u2}
    Ids = {i1, i2, i3}
    Handlers = {h1, h2}
    None = None
    TTL = 2
    MaxDelay = 1
    MaxSkew = 1
    MaxClock = 5
    MaxFaults = 1
    FewIds = 2
    ShortTime = 3
CONSTRAINT ManyOrLong
SYMMETRY Symmetry
INVARIANTS
    TypeOK
    SessionTokenPaired
    OneLivePerLogin
    FaultsStrandOneEach
    IndexComplete
    GhostsAreExpired
PROPERTIES
    EndIsFinal
    ImplementsLedger
