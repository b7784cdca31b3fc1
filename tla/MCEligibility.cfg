\* The estimator with overlapping fills, publications, invalidations and failures.
SPECIFICATION Spec
CONSTANTS
    r1 = r1
    r2 = r2
    None = None
    Requests <- MCRequests
    Inputs <- MCInputs
    TTL = 2
    StepTime = 1
    MaxVersion = 2
    PublishedRates <- MCPublishedRates
    PublishedLimits <- MCPublishedLimits
SYMMETRY MCSymmetry
INVARIANTS
    TypeOK
    StaleAtMost
    RefilledOnlyByRace
    NoPenalty
    EstimateBetween
