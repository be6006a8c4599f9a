SPECIFICATION ProgramSpec
CONSTANTS
    r1 = r1
    r2 = r2
    p1 = p1
    p2 = p2
    n1 = n1
    n2 = n2
    n3 = n3
    Requests <- MCRequests
    Responders <- MCResponders
    Names <- MCNames
    Self = p1
    Configs <- MCConfigs
    Backoff = 1
    Watched <- Cert
    Busy = {"file"}
    MaxTime = 8
    NotBefore = 0
    NotAfter = 5
    Day = 2
    CriticalDays = 1
    WarningDays = 2
INVARIANTS ExitZeroIsClean SourceOutlivesRequests ListenerNeverBlocks
INVARIANTS FailsOnlyForCause NoLitter SettingsUsable GaugeLagsAtMostADay AlarmLagsAtMostADay
PROPERTIES SignalEndsProcess ListenerFailureEndsProcess
PROPERTIES AcceptedConstructs ImplementsServer
CHECK_DEADLOCK FALSE
