SPECIFICATION ServiceSpec
CONSTANTS
    s1 = s1
    c1 = c1
    c2 = c2
    Serials <- MCSerials
    Callers <- MCCallers
    Files <- MCFiles
    IsURL = TRUE
    Skew = 0
    Grace = 0
    MaxTime = 2
    MaxEntries = 1
PROPERTIES ImplementsStatusSource ConvergesToPublished SettlesOnPublished
