SPECIFICATION Spec
CONSTANTS
    s1 = s1
    c1 = c1
    c2 = c2
    Serials <- MCSerials
    Callers <- MCCallers
    RetryMax = 2
    CacheTTL = 2
    MaxTime = 3
SYMMETRY Interchangeable
INVARIANTS TypeOK FailureIsEarned RevocationHiddenAtMostTTL
