SPECIFICATION Spec
CHECK_DEADLOCK FALSE
CONSTANTS
    Tabs = {t1, t2}
    MaxId = 3
    MaxFaults = 1
    None = None
SYMMETRY Symmetry
INVARIANTS
    TypeOK
    NoSessionStranded
PROPERTIES
    CookiesNeverGoBack
