\* Two worker processes that may restart, one clean and one infected file.
SPECIFICATION Spec
CONSTANTS
    p1 = p1
    p2 = p2
    r1 = r1
    r2 = r2
    u1 = u1
    u2 = u2
    clean = clean
    infected = infected
    NoJob = NoJob
    None = None
    Processes <- MCProcesses
    Requests <- MCRequests
    Users <- MCUsers
    Scans <- MCScans
    Infected <- MCInfected
    MaxAttempts = 2
    MaxSubmits = 2
SYMMETRY MCSymmetry
INVARIANTS
    TypeOK
    CopiesAccounted
PROPERTIES
    KeepsGate
CHECK_DEADLOCK FALSE
