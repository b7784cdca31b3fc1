\* Overlapping requests of one client through timeouts, repeats and late calls.
SPECIFICATION Spec
CONSTANTS
    r1 = r1
    r2 = r2
    pin1 = pin1
    pin2 = pin2
    None = None
    Requests <- MCRequests
    Pins <- MCPins
    FirstPin = pin1
    MaxAttempts = 2
SYMMETRY MCSymmetry
INVARIANTS
    TypeOK
    AnswersTrue
    KnownPin
\* The client stops after its requests.
CHECK_DEADLOCK FALSE
