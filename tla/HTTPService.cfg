SPECIFICATION ServiceSpec
CONSTANTS
    s1 = s1
    c1 = c1
    c2 = c2
    Serials <- MCSerials
    Callers <- MCCallers
    RetryMax = 2
    CacheTTL = 1
    MaxTime = 1
    MaxEntries = 1
PROPERTIES LookupsEnd RecoversAsDeployed RevocationReachesClients
