\* Both kinds of session, their expiry and their races.
SPECIFICATION Spec
CONSTANTS
    r1 = r1
    r2 = r2
    w1 = w1
    w2 = w2
    None = None
    Requests <- MCRequests
    Workers <- MCWorkers
    Lifetime = 2
    MaxStep = 2
SYMMETRY MCSymmetry
INVARIANTS
    TypeOK
    ServedWithinLifetime
PROPERTIES
    RegressOnlyByOverlap
