\* Requests and form values are interchangeable.
SPECIFICATION Spec
CONSTANTS
    r1 = r1
    r2 = r2
    s1 = s1
    a1 = a1
    a2 = a2
    Empty = Empty
    NoDraft = NoDraft
    NotFinal = NotFinal
    Requests <- MCRequests
    SRs <- MCSRs
    NeedsPdf <- MCNeedsPdf
    Answers <- MCAnswers
    MaxAttempts = 2
SYMMETRY MCSymmetry
INVARIANTS
    TypeOK
    OrphansOnlyByFailure
    DraftsCleared
PROPERTIES
    KeepsPromises
