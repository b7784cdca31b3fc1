\* One request whose type needs a PDF, against the registry's comment on such types.
SPECIFICATION Spec
CONSTANTS
    r1 = r1
    r2 = r2
    s1 = s1
    a1 = a1
    a2 = a2
    Empty = Empty
    NoDraft = NoDraft
    NotFinal = NotFinal
    Requests <- MCRequests
    SRs <- MCSRs
    NeedsPdf <- MCSRs
    Answers <- MCAnswers
    MaxAttempts = 2
INVARIANTS
    PdfBeforeFinalization
