SPECIFICATION HealthSpec
CONSTANTS
    s1 = s1
    Serials <- MCSerials
    Callers <- NoCallers
    Files <- MCFiles
    IsURL = FALSE
    Skew = 0
    Grace = 0
    MaxTime = 4
    NotBefore = 0
    NotAfter = 3
    Day = 1
    CriticalDays = 1
    WarningDays = 2
INVARIANTS PassingProbeHasDaysLeft
PROPERTIES HealthFollowsPublication
