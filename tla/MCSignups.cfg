SPECIFICATION Spec
CHECK_DEADLOCK FALSE
CONSTANTS
    Callers = {h1, h2}
    Cycle = 2
    MaxMs = 1
    None = None
    e1 = e1
    e2 = e2
    player = player
    Emails = {e1, e2}
    Base <- MCBase
    MaxTries = 1
    Attempts = 2
    MaxStalled = 1
    MaxSignups = 3
    Troubled = {e1}
    MaxFaults = 1
INVARIANTS
    TypeOK
    UniqueIds
    ResendsAreCounted
    AccountsAreComplete
PROPERTIES
    MailSettles
