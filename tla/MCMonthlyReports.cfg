\* The cached period against the closing date.
SPECIFICATION Spec
CONSTANTS
    r1 = r1
    r2 = r2
    Requests <- MCRequests
    PeriodLength = 6
    CacheTtl = 2
    CallTime = 1
    MaxTime = 14
SYMMETRY MCSymmetry
INVARIANTS
    TypeOK
    StaleKeyExpires
    SentSoonAfterClose
PROPERTIES
    RefusedOnlyBriefly
