SPECIFICATION Spec
CONSTANTS
    Users = {o, u1}
    Owner = o
    Invitations = {i1, i2}
    Handlers = {h1, h2}
    None = None
    CacheTTL = 1
    MaxRequest = 1
    MaxWait = 1
    MaxSkew = 1
    MaxUses = 2
    MaxLife = 1
CONSTRAINT SharedOrReused
SYMMETRY Symmetry
INVARIANTS
    TypeOK
    UsesWithinLimit
    OnlyRecentManagersAct
    MembershipsAreInvited
PROPERTIES
    ImplementsBook
