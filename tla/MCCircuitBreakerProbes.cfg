\* The probes that run at the same time, against "only one probe at a time".
SPECIFICATION Spec
CONSTANTS
    c1 = c1
    c2 = c2
    c3 = c3
    Calls <- MCCalls
    FailMax = 2
    ResetTimeout = 1
INVARIANTS
    OneProbeAtATime
