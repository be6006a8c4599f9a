SPECIFICATION Spec
CONSTANTS
    s1 = s1
    s2 = s2
    h1 = h1
    h2 = h2
    Serials <- OneSerial
    Handlers <- MCHandlers
    CRLs <- TwoCRLs
    CacheEnabled = TRUE
    Skew = 0
    Grace = 0
    Second = 2
    Validity = 3
    TTL = 2
    MaxEntries = 1
    MaxTime = 5
SYMMETRY Interchangeable
INVARIANTS UnknownOnlyFromSourceFailure
