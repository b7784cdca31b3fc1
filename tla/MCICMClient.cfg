\* Two calls of up to two attempts; the token is usable for one tick of three.
SPECIFICATION ClientFairSpec
CONSTANTS
    c1 = c1
    c2 = c2
    Calls <- MCCalls
    FailMax = 2
    ResetTimeout = 1
    MaxAttempts = 2
    Lifetime = 3
    Margin = 2
    FetchDelay = 1
    SendDelay = 1
INVARIANTS
    ClientTypeOK
    OneRefresher
    TokenAcceptedOnArrival
PROPERTIES
    CallsEnd
    RevokedReplaced
    ImplementsBreaker
