SPECIFICATION Spec
CONSTANTS
    s1 = s1
    c1 = c1
    Serials <- MCSerials
    Callers <- MCCallers
    Files <- MCFiles
    IsURL = FALSE
    Skew = 1
    Grace = 1
    MaxTime = 4
INVARIANTS TypeOK PassInstallsWhatItRead
PROPERTIES ImplementsStatusSource ConvergesToPublished ExpiryLogFollowsWindow
