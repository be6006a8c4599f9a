SPECIFICATION Spec
CONSTANTS
    s1 = s1
    s2 = s2
    h1 = h1
    h2 = h2
    Serials <- OneSerial
    Handlers <- OneHandler
    CRLs <- TwoCRLs
    CacheEnabled = TRUE
    Skew = 1
    Grace = 2
    Second = 2
    Validity = 3
    TTL = 2
    MaxEntries = 1
    MaxTime = 9
INVARIANTS UsableCRLGivesUsableResponse
