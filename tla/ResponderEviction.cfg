SPECIFICATION Spec
CONSTANTS
    s1 = s1
    s2 = s2
    h1 = h1
    h2 = h2
    Serials <- TwoSerials
    Handlers <- MCHandlers
    CRLs <- OneCRL
    CacheEnabled = TRUE
    Skew = 0
    Grace = 0
    Second = 2
    Validity = 3
    TTL = 1
    MaxEntries = 1
    MaxTime = 3
SYMMETRY Interchangeable
INVARIANTS CacheBounded
PROPERTIES OnlyExpiredOrEvicted ImplementsResponsePath
