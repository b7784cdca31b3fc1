\* Safety and recovery of the breaker; the counter needs two failures, the
\* timeout two ticks.
SPECIFICATION FairSpec
CONSTANTS
    c1 = c1
    c2 = c2
    c3 = c3
    Calls <- MCCalls
    FailMax = 2
    ResetTimeout = 2
INVARIANTS
    TypeOK
    HalfOpenAwaitsProbe
PROPERTIES
    ProbesSpaced
    Recovers
    OutageClosings
    OutageOpens
