--------------------------- MODULE ProgramProofs ---------------------------
(***************************************************************************)
(* The safety properties of Server, for any set of requests, and the       *)
(* program as an implementation of Server, Config and ACMEProbe at once,   *)
(* so that what is proved of each holds of the program.                    *)
(*                                                                         *)
(* The argument for Server: Shutdown is only called on a signal, because   *)
(* the listener reports ErrServerClosed only after Shutdown; once it is    *)
(* called no connection is made; main passes the drain only when no        *)
(* connection is left on which a request is served or could still come,    *)
(* and stops the source after that.                                        *)
(*                                                                         *)
(* The argument for the expiry monitor: once the ticker has fired, and     *)
(* with no tick waiting, the reading behind the gauge and the alarm was    *)
(* taken since it fired last, which is less than a day ago; two readings   *)
(* less than a day apart differ by at most one in the days left.           *)
(***************************************************************************)
EXTENDS Program, StartupProofs, TLAPS

\* How far main is.
Started == {"select", "shutdown", "drain", "deferred", "return", "gone"}
Ending == {"shutdown", "drain", "deferred", "return"}

\* No request is served, and none can come.
Quiet == \A r \in Requests : request[r] \notin {"connected", "active"}

\* The inductive invariant.
ServerInv ==
    /\ TypeOK
    /\ main = "gone" <=> ~Alive
    /\ reloading = "stopped" => main \in {"return", "gone"}
    /\ main = "return" => reloading # "running"
    /\ listener # "none" => main \in Started
    /\ shuttingDown => main \in {"drain", "deferred", "return", "gone"}
    /\ main \in {"drain", "deferred", "return"} => shuttingDown
    /\ main \in Ending => signaled
    /\ main \in {"deferred", "return"} => Quiet
    /\ listener = "closed" => shuttingDown
    /\ errCh = <<"closed">> => shuttingDown
    /\ errCh # <<>> => listener = "done"
    /\ ExitZeroIsClean

LEMMA InitServerInv == Init => ServerInv
<1> SUFFICES ASSUME Init PROVE ServerInv
    OBVIOUS
<1>1. TypeOK
    BY Zenon DEF Init, TypeOK
<1> QED BY <1>1 DEF Init, ServerInv, Started, Ending, Alive, Idle, Quiet, ExitZeroIsClean

LEMMA NextServerInv == ServerInv /\ [Next]_vars => ServerInv'
<1> SUFFICES ASSUME ServerInv, [Next]_vars PROVE ServerInv'
    OBVIOUS
<1> USE DEF ServerInv, TypeOK, Started, Ending, Alive, Idle, Quiet, ExitZeroIsClean
<1>1. CASE Signal
    BY <1>1, Zenon DEF Signal
<1>2. CASE Startup
    <2>1. PICK s \in StartupSteps : Advance(s) \/ Abort(s)
        BY <1>2 DEF Startup
    <2>2. CASE Abort(s)
        <3>1. /\ Alive /\ main' = "gone" /\ exit' = "1"
              /\ UNCHANGED <<signaled, reloading, listener, errCh, shuttingDown, request>>
            BY <2>2 DEF Abort, Exit, Go
        <3> QED BY <3>1
    <2>3. CASE Advance(s)
        <3>1. CASE s = <<"load", "signer">>
            BY <2>3, <3>1, Zenon DEF Advance, Go
        <3>2. CASE s = <<"signer", "source">>
            BY <2>3, <3>2, Zenon DEF Advance, Go
        <3>3. CASE s = <<"source", "notify">>
            BY <2>3, <3>3 DEF Advance, Go
        <3>4. CASE s = <<"responder", "start">>
            BY <2>3, <3>4, Zenon DEF Advance, Go
        <3> QED BY <2>1, <3>1, <3>2, <3>3, <3>4, Zenon DEF StartupSteps
    <2> QED BY <2>1, <2>2, <2>3
<1>3. CASE Notify
    BY <1>3 DEF Notify, Go
<1>4. CASE StartListener
    BY <1>4 DEF StartListener, Go
<1>5. CASE SeeSignal
    BY <1>5 DEF SeeSignal, Go
<1>6. CASE ReceiveError
    \* ErrServerClosed cannot be there: Shutdown was not called yet.
    <2>1. main = "select" /\ ~shuttingDown /\ errCh = <<"error">>
        BY <1>6 DEF ReceiveError, Go
    <2>2. Head(errCh) = "error" /\ Tail(errCh) = <<>>
        BY <2>1
    <2> QED BY <1>6, <2>1, <2>2 DEF ReceiveError, Go
<1>7. CASE CallShutdown
    BY <1>7 DEF CallShutdown, Go
<1>8. CASE CloseIdle
    BY <1>8 DEF CloseIdle
<1>9. CASE Drained
    BY <1>9 DEF Drained, Go
<1>10. CASE DrainTimesOut
    BY <1>10 DEF DrainTimesOut, Exit, Go
<1>11. CASE StopSource
    BY <1>11, Zenon DEF StopSource, Go
<1>12. CASE Return
    BY <1>12 DEF Return, Exit, Go
<1>13. ASSUME NEW ok \in BOOLEAN, ChooseTLS(ok) PROVE ServerInv'
    BY <1>13, Zenon DEF ChooseTLS, Report
<1>14. CASE Listen
    BY <1>14 DEF Listen, Report
<1>15. CASE StopServing
    BY <1>15, SMTT(30) DEF StopServing, Report
<1>16. CASE Send
    <2>1. errCh = <<>>
        BY <1>16, Zenon DEF Send
    <2>2. CASE listener = "closed"
        <3>1. errCh' = <<"closed">>
            BY <1>16, <2>1, <2>2 DEF Send
        <3> QED BY <1>16, <2>2, <3>1, Zenon DEF Send
    <2>3. CASE listener = "error"
        <3>1. errCh' = <<"error">>
            BY <1>16, <2>1, <2>3 DEF Send
        <3>2. errCh' # <<"closed">>
            BY <3>1
        <3> QED BY <1>16, <2>3, <3>1, <3>2, Zenon DEF Send
    <2> QED BY <1>16, <2>2, <2>3, Zenon DEF Send
<1>17. ASSUME NEW r \in Requests, Connect(r) PROVE ServerInv'
    BY <1>17 DEF Connect
<1>18. ASSUME NEW r \in Requests, Accept(r) PROVE ServerInv'
    \* The connection was there: main has not passed the drain.
    <2>1. main \notin {"deferred", "return", "gone"}
        BY <1>18 DEF Accept
    <2> QED BY <1>18, <2>1 DEF Accept
<1>19. ASSUME NEW r \in Requests, Finish(r) PROVE ServerInv'
    BY <1>19 DEF Finish
<1>20. CASE UNCHANGED vars
    BY <1>20 DEF vars
<1> QED
    BY <1>1, <1>2, <1>3, <1>4, <1>5, <1>6, <1>7, <1>8, <1>9, <1>10, <1>11, <1>12, <1>13,
       <1>14, <1>15, <1>16, <1>17, <1>18, <1>19, <1>20, Zenon
    DEF Next, MainStep, AfterStartup, ListenerStep

LEMMA AlwaysServerInv == Spec => []ServerInv
BY InitServerInv, NextServerInv, PTL DEF Spec

\* The variables of Server have their types.
THEOREM ServerTypes == Spec => []TypeOK
<1>1. ServerInv => TypeOK
    BY DEF ServerInv
<1> QED BY AlwaysServerInv, <1>1, PTL

\* Exit code 0 is a shutdown that a signal asked for, with every accepted
\* request answered and the reload goroutine stopped.
THEOREM ExitZeroClean == Spec => []ExitZeroIsClean
<1>1. ServerInv => ExitZeroIsClean
    BY DEF ServerInv
<1> QED BY AlwaysServerInv, <1>1, PTL

\* fs.Stop never runs under a request: when main comes to its deferred calls no
\* connection is left on which one is served or could still come.
THEOREM SourceOutlives == Spec => []SourceOutlivesRequests
<1>1. ServerInv => SourceOutlivesRequests
    BY DEF ServerInv, SourceOutlivesRequests, Quiet, Alive
<1> QED BY AlwaysServerInv, <1>1, PTL

\* There is always room in errCh for the listener's one report.
THEOREM ListenerReports == Spec => []ListenerNeverBlocks
<1>1. ServerInv => ListenerNeverBlocks
    BY DEF ServerInv, ListenerNeverBlocks, TypeOK
<1> QED BY AlwaysServerInv, <1>1, PTL

-----------------------------------------------------------------------------
(* Program, step by step. *)

\* A step of the program is a step of Server, or none.
LEMMA ServerSteps == ProgramNext => [Next]_vars
<1>1. Construct => Next
    BY DEF Construct, Startup, MainStep, Next
<1>2. Main => Next
    BY <1>1 DEF Main, MainStep, Next
<1>3. Branch => Next
    <2>1. (cfg.tls # "none") \in BOOLEAN
        OBVIOUS
    <2> QED BY <2>1, Zenon DEF Branch, ListenerStep, Next
<1>4. ProbeCacheDir => [Next]_vars
    BY Zenon DEF ProbeCacheDir, ListenerStep, Next
<1>5. Listener => [Next]_vars
    BY <1>3, <1>4 DEF Listener, Bind, ListenerStep, Next
<1>6. World => [Next]_vars
    BY DEF World, SharedDir, TimePasses, Next
<1>7. WatchExpiry => UNCHANGED vars
    BY DEF WatchExpiry
<1> QED BY <1>2, <1>5, <1>6, <1>7 DEF ProgramNext

\* It is a step of the configuration's way through main, or none.
LEMMA ConfigSteps == ProgramNext => [ConfigNext]_configVars
<1>1. Main => [ConfigNext]_configVars
    BY DEF Main, Construct, ConfigNext
<1>2. Branch \/ ProbeCacheDir => [ConfigNext]_configVars
    BY Zenon DEF Branch, ProbeCacheDir, ConfigNext
<1>3. Bind => [ConfigNext]_configVars
    BY DEF Bind, ConfigNext
<1>4. World => UNCHANGED configVars
    BY DEF World, SharedDir, TimePasses
<1>5. WatchExpiry => UNCHANGED configVars
    BY DEF WatchExpiry
<1> QED BY <1>1, <1>2, <1>3, <1>4, <1>5 DEF ProgramNext, Listener

\* It is a step of one of the probes or of the directory, or none.
LEMMA ProbeSteps == ProgramNext => [ProbeNext]_probeVars
<1>1. Main => UNCHANGED probeVars
    BY DEF Main, Construct
<1>2. Listener => [ProbeNext]_probeVars
    BY SelfAssumption, Zenon DEF Listener, Branch, ProbeCacheDir, Bind, ProbeNext
<1>3. World => [ProbeNext]_probeVars
    BY DEF World, SharedDir, TimePasses, ProbeNext
<1>4. WatchExpiry => UNCHANGED probeVars
    BY DEF WatchExpiry
<1> QED BY <1>1, <1>2, <1>3, <1>4 DEF ProgramNext

LEMMA ProgramStutters ==
    UNCHANGED programVars => UNCHANGED vars /\ UNCHANGED configVars /\ UNCHANGED probeVars
BY DEF programVars

\* The program takes the steps of Server and no others, whatever is configured
\* and whatever becomes of the cache directory.
THEOREM ProgramIsServer == ProgramSpec => Init /\ [][Next]_vars
<1>1. ProgramInit => Init
    BY DEF ProgramInit
<1> QED BY <1>1, ServerSteps, ProgramStutters, PTL DEF ProgramSpec

\* The configuration fares in the program as in Config.
THEOREM ProgramIsConfig == ProgramSpec => ConfigSpec
<1>1. ProgramInit => ConfigInit
    BY DEF ProgramInit
<1> QED BY <1>1, ConfigSteps, ProgramStutters, PTL DEF ProgramSpec, ConfigSpec

\* The cache directory fares in the program as in ACMEProbe.
THEOREM ProgramIsProbe == ProgramSpec => ProbeSpec
<1>1. ProgramInit => ProbeInit
    BY DEF ProgramInit
<1> QED BY <1>1, ProbeSteps, ProgramStutters, PTL DEF ProgramSpec, ProbeSpec

\* Exit code 0 of the program is a clean shutdown.
THEOREM ProgramExitZeroClean == ProgramSpec => []ExitZeroIsClean
<1>1. ServerInv => ExitZeroIsClean
    BY DEF ServerInv
<1> QED BY InitServerInv, NextServerInv, ProgramIsServer, <1>1, PTL

\* In the program too, fs.Stop never runs under a request.
THEOREM ProgramSourceOutlives == ProgramSpec => []SourceOutlivesRequests
<1>1. ServerInv => SourceOutlivesRequests
    BY DEF ServerInv, SourceOutlivesRequests, Quiet, Alive
<1> QED BY InitServerInv, NextServerInv, ProgramIsServer, <1>1, PTL

\* In the program too, the listener's report always has room, the report of a
\* probe that failed included.
THEOREM ProgramListenerReports == ProgramSpec => []ListenerNeverBlocks
<1>1. ServerInv => ListenerNeverBlocks
    BY DEF ServerInv, ListenerNeverBlocks, TypeOK
<1> QED BY InitServerInv, NextServerInv, ProgramIsServer, <1>1, PTL

\* The settings the running program goes by are usable.
THEOREM ProgramSettingsUsable == ProgramSpec => []SettingsUsable
BY ProgramIsConfig, RunsUsable, PTL

\* What Load accepted no constructor of the program refuses for its settings,
\* TLS without a certificate apart.
THEOREM ProgramNeverRefuses == ProgramSpec => AcceptedConstructs
BY ProgramIsConfig, AcceptedNeverRefused, PTL

\* The program's probe of the cache directory fails for a cause only, whatever
\* the other responders and their restarts do meanwhile.
THEOREM ProgramProbeFailsForCause == ProgramSpec => []FailsOnlyForCause
BY ProgramIsProbe, ProbeFailsForCause, PTL

\* A responder that has ended leaves no file of its probe behind, unless it was
\* killed or the directory turned read-only.
THEOREM ProgramLeavesNothing == ProgramSpec => []NoLitter
BY ProgramIsProbe, ProbeLeavesNothing, PTL

-----------------------------------------------------------------------------
(* The expiry monitor: first the days left, as a quotient. *)

LEMMA ProductGrows ==
    ASSUME NEW d \in Nat, NEW x \in Int, NEW y \in Int, x <= y
    PROVE  d * x <= d * y
<1>1. d * (y - x) >= 0
    <2>1. y - x \in Nat
        OBVIOUS
    <2> QED BY <2>1
<1>2. d * (y - x) = d * y - d * x
    OBVIOUS
<1> DEFINE p == d * x
           q == d * y
<1>3. p \in Int /\ q \in Int /\ q - p >= 0
    BY <1>1, <1>2
<1> HIDE DEF p, q
<1>4. p <= q
    BY <1>3
<1> QED BY <1>4 DEF p, q

\* Integer division.
LEMMA Division ==
    ASSUME NEW a \in Int, NEW d \in Int, d > 0
    PROVE  /\ a \div d \in Int /\ a % d \in Int /\ d * (a \div d) \in Int
           /\ a = d * (a \div d) + (a % d) /\ 0 <= a % d /\ a % d < d
OBVIOUS

\* The days left, as a quotient.
LEMMA DaysQuotient ==
    ASSUME NEW t \in Int
    PROVE  /\ DaysUntilExpiry(t) \in Int
           /\ Day * DaysUntilExpiry(t) <= NotAfter - t
           /\ NotAfter - t < Day * DaysUntilExpiry(t) + Day
<1> DEFINE a == NotAfter - t
           q == a \div Day
           r == a % Day
           m == Day * q
<1>1. a \in Int /\ Day \in Int /\ Day > 0
    BY ExpiryAssumption
<1> HIDE DEF a
<1>2. q \in Int /\ r \in Int /\ m \in Int /\ a = m + r /\ 0 <= r /\ r < Day
    BY <1>1, Division, Zenon
<1>3. m <= a /\ a < m + Day
    <2> HIDE DEF a, q, r, m
    <2> QED BY <1>1, <1>2
<1> QED BY <1>2, <1>3, Zenon DEF DaysUntilExpiry, a

\* Within a day the days left go down by one at most.
LEMMA DaysWithinADay ==
    ASSUME NEW t \in Int, NEW u \in Int, t <= u, u < t + Day
    PROVE  DaysUntilExpiry(t) - DaysUntilExpiry(u) \in {0, 1}
<1> DEFINE x == DaysUntilExpiry(t)
           y == DaysUntilExpiry(u)
           p == Day * x
           q == Day * y
<1>1. NotAfter \in Nat /\ Day \in Nat /\ Day > 0
    BY ExpiryAssumption
<1>2. x \in Int /\ p <= NotAfter - t /\ NotAfter - t < p + Day
    BY DaysQuotient
<1>3. y \in Int /\ q <= NotAfter - u /\ NotAfter - u < q + Day
    BY DaysQuotient
<1> HIDE DEF x, y
<1>4. p \in Int /\ q \in Int
    BY <1>1, <1>2, <1>3
<1>5. ASSUME x < y PROVE FALSE
    <2>1. p + Day <= q
        <3>1. Day * (x + 1) <= Day * y
            BY <1>1, <1>2, <1>3, <1>5, ProductGrows
        <3>2. Day * (x + 1) = Day * x + Day
            BY <1>1, <1>2
        <3> QED BY <3>1, <3>2
    <2> HIDE DEF p, q
    <2> QED BY <1>1, <1>2, <1>3, <1>4, <2>1
<1>6. ASSUME y + 1 < x PROVE FALSE
    <2>1. q + 2 * Day <= p
        <3>1. Day * (y + 2) <= Day * x
            BY <1>1, <1>2, <1>3, <1>6, ProductGrows
        <3>2. Day * (y + 2) = Day * y + 2 * Day
            BY <1>1, <1>3
        <3> QED BY <3>1, <3>2
    <2> HIDE DEF p, q
    <2> QED BY <1>1, <1>2, <1>3, <1>4, <2>1
<1>7. x - y \in {0, 1}
    BY <1>2, <1>3, <1>5, <1>6
<1> QED BY <1>7 DEF x, y

\* Less than c days are left when less than c times a day is.
LEMMA DaysBelow ==
    ASSUME NEW t \in Int, NEW c \in Int, NotAfter - t < c * Day
    PROVE  DaysUntilExpiry(t) < c
<1> DEFINE x == DaysUntilExpiry(t)
           p == Day * x
           q == Day * c
<1>1. NotAfter \in Nat /\ Day \in Nat
    BY ExpiryAssumption
<1>2. x \in Int /\ p <= NotAfter - t
    BY DaysQuotient
<1>3. c * Day = q
    BY <1>1
<1> HIDE DEF x
<1>4. c <= x => q <= p
    BY <1>1, <1>2, ProductGrows
<1>5. p \in Int /\ q \in Int
    BY <1>1, <1>2
<1> HIDE DEF p, q
<1>6. x < c
    BY <1>1, <1>2, <1>3, <1>4, <1>5
<1> QED BY <1>6 DEF x

\* The ticker exists.
Running == monitor \notin {"none", "first", "setFirst", "newTicker"}

\* When the ticker fired last, or was created.
LastTick == nextTick - Day

\* The ticker has fired, and no tick waits.
UpToDate == ~ticked /\ startedAt < LastTick

\* The inductive invariant.  When the goroutine is up to date, what it goes by
\* was read since the ticker fired last.
MonitorInv ==
    /\ now \in Nat \ {0}
    /\ ticked \in BOOLEAN
    /\ ~Running => nextTick = 0 /\ ~ticked /\ startedAt = 0
    /\ Running => /\ startedAt \in Nat /\ nextTick \in Nat
                  /\ startedAt <= LastTick /\ LastTick <= now /\ now < nextTick
    /\ UpToDate /\ monitor = "set" => \E t \in LastTick..now : reading = DaysUntilExpiry(t)
    /\ UpToDate /\ monitor \in {"switch", "select"} \cup Monitor!ExpiryStatuses =>
          \E t \in LastTick..now : gauge = DaysUntilExpiry(t)
    /\ UpToDate /\ monitor \in Monitor!ExpiryStatuses =>
          \E t \in LastTick..now : monitor = GetExpiryStatus(t)
    /\ UpToDate /\ monitor = "select" =>
          \E t \in LastTick..now : GetExpiryStatus(t) \in {"ok", logged}

LEMMA InitMonitor == Monitor!Init => MonitorInv
<1> SUFFICES ASSUME Monitor!Init PROVE MonitorInv
    OBVIOUS
<1>1. now = 1 /\ monitor = "none" /\ nextTick = 0 /\ ticked = FALSE /\ startedAt = 0
    BY DEF Monitor!Init
<1>2. now \in Nat \ {0} /\ ~Running
    BY <1>1 DEF Running
<1>3. ticked \in BOOLEAN
    BY <1>1, Zenon
<1>4. monitor \notin {"set", "switch", "select"} \cup Monitor!ExpiryStatuses
    BY <1>1 DEF Monitor!ExpiryStatuses
<1> QED BY <1>1, <1>2, <1>3, <1>4 DEF MonitorInv

LEMMA MonitorTick == MonitorInv /\ Monitor!Tick => MonitorInv'
<1> SUFFICES ASSUME MonitorInv, Monitor!Tick PROVE MonitorInv'
    OBVIOUS
<1>1. Day \in Nat /\ Day > 0 /\ now \in Nat \ {0} /\ ticked \in BOOLEAN
    BY ExpiryAssumption DEF MonitorInv
<1>2. /\ now' = now + 1 /\ UNCHANGED <<monitor, startedAt, reading, gauge, logged>>
      /\ now + 1 = nextTick => ticked' = TRUE /\ nextTick' = nextTick + Day
      /\ now + 1 # nextTick => ticked' = ticked /\ nextTick' = nextTick
    BY <1>1, Zenon DEF Monitor!Tick
<1>3. CASE ~Running
    <2>1. nextTick = 0 /\ ~ticked /\ startedAt = 0
        BY <1>3 DEF MonitorInv
    <2>2. now + 1 # nextTick
        BY <1>1, <2>1
    <2>3. monitor' \notin {"set", "switch", "select"} \cup Monitor!ExpiryStatuses
        BY <1>2, <1>3 DEF Running, Monitor!ExpiryStatuses
    <2>4. ~Running'
        BY <1>2, <1>3, Zenon DEF Running
    <2> QED BY <1>1, <1>2, <2>1, <2>2, <2>3, <2>4 DEF MonitorInv
<1>4. CASE Running
    <2>1. /\ startedAt \in Nat /\ nextTick \in Nat
          /\ startedAt <= LastTick /\ LastTick <= now /\ now < nextTick
        BY <1>4 DEF MonitorInv
    <2>2. /\ startedAt' \in Nat /\ nextTick' \in Nat
          /\ startedAt' <= LastTick' /\ LastTick' <= now' /\ now' < nextTick'
        BY <1>1, <1>2, <2>1 DEF LastTick
    <2>3. Running'
        BY <1>2, <1>4, Zenon DEF Running
    <2>4. CASE now + 1 = nextTick
        BY <1>1, <1>2, <2>2, <2>3, <2>4 DEF MonitorInv, UpToDate
    <2>5. CASE now + 1 # nextTick
        <3>1. LastTick' = LastTick /\ ticked' = ticked /\ LastTick \in Int
            BY <1>1, <1>2, <2>1, <2>5 DEF LastTick
        <3>2. \A t \in LastTick..now : t \in LastTick'..now'
            BY <1>1, <1>2, <3>1
        <3>3. UpToDate' = UpToDate
            BY <1>2, <3>1, Zenon DEF UpToDate
        <3> QED BY <1>1, <1>2, <2>2, <2>3, <3>1, <3>2, <3>3 DEF MonitorInv
    <2> QED BY <2>4, <2>5
<1> QED BY <1>3, <1>4

LEMMA MonitorRun == MonitorInv /\ (Monitor!StartExpiryMonitor \/ Monitor!Run) => MonitorInv'
<1> SUFFICES ASSUME MonitorInv, Monitor!StartExpiryMonitor \/ Monitor!Run PROVE MonitorInv'
    OBVIOUS
<1>1. Day \in Nat /\ Day > 0 /\ now \in Nat \ {0} /\ ticked \in BOOLEAN
    BY ExpiryAssumption DEF MonitorInv
<1>2. Running => /\ startedAt \in Nat /\ nextTick \in Nat
                 /\ startedAt <= LastTick /\ LastTick <= now /\ now < nextTick
    BY DEF MonitorInv
<1>3. Running => LastTick \in Int /\ now \in LastTick..now
    BY <1>1, <1>2 DEF LastTick
<1> DEFINE Acting == {"set", "switch", "select"} \cup Monitor!ExpiryStatuses
<1>4. ASSUME ~Running, ~Running', monitor' \notin Acting, UNCHANGED <<now, startedAt, nextTick, ticked>>
      PROVE  MonitorInv'
    BY <1>1, <1>4 DEF MonitorInv
<1>5. CASE Monitor!StartExpiryMonitor
    BY <1>4, <1>5 DEF Monitor!StartExpiryMonitor, Running, Monitor!ExpiryStatuses
<1>6. CASE Monitor!SetAtStart
    BY <1>4, <1>6 DEF Monitor!SetAtStart, Monitor!ReadDays, Monitor!SetGauge, Running,
                      Monitor!ExpiryStatuses
<1>7. CASE Monitor!NewTicker
    \* The ticker has not fired yet.
    <2>1. Running' /\ startedAt' = now /\ nextTick' = now + Day /\ now' = now /\ ticked' = ticked
        BY <1>7 DEF Monitor!NewTicker, Running
    <2>2. LastTick' = now
        BY <1>1, <2>1 DEF LastTick
    <2>3. /\ nextTick' \in Nat /\ startedAt' <= LastTick' /\ LastTick' <= now' /\ now' < nextTick'
          /\ ~UpToDate'
        BY <1>1, <2>1, <2>2 DEF UpToDate
    <2> QED BY <1>1, <2>1, <2>3 DEF MonitorInv
<1>8. CASE Monitor!ReceiveTick
    <2>1. /\ Running /\ Running' /\ monitor' \notin Acting /\ ticked' = FALSE
          /\ UNCHANGED <<now, startedAt, nextTick>> /\ LastTick' = LastTick
        BY <1>8 DEF Monitor!ReceiveTick, Running, LastTick, Monitor!ExpiryStatuses
    <2> QED BY <1>1, <1>2, <2>1 DEF MonitorInv
<1>9. CASE Monitor!ReadDays("read", "set")
    <2>1. /\ Running /\ Running' /\ reading' = DaysUntilExpiry(now) /\ monitor' = "set"
          /\ UNCHANGED <<now, startedAt, nextTick, ticked>> /\ LastTick' = LastTick
        BY <1>9 DEF Monitor!ReadDays, Running, LastTick, Monitor!DaysUntilExpiry, DaysUntilExpiry
    <2>2. monitor' \notin {"switch", "select"} \cup Monitor!ExpiryStatuses
        BY <2>1 DEF Monitor!ExpiryStatuses
    <2> QED BY <1>1, <1>2, <1>3, <2>1, <2>2 DEF MonitorInv
<1>10. CASE Monitor!SetGauge("set", "switch")
    <2>1. /\ Running /\ Running' /\ gauge' = reading /\ monitor = "set" /\ monitor' = "switch"
          /\ UNCHANGED <<now, startedAt, nextTick, ticked>> /\ LastTick' = LastTick
        BY <1>10 DEF Monitor!SetGauge, Running, LastTick
    <2>2. monitor' \notin Monitor!ExpiryStatuses
        BY <2>1 DEF Monitor!ExpiryStatuses
    <2>3. UpToDate' = UpToDate
        BY <2>1, Zenon DEF UpToDate
    <2> QED BY <1>1, <1>2, <2>1, <2>2, <2>3 DEF MonitorInv
<1>11. CASE Monitor!SwitchOnStatus
    <2>1. /\ monitor = "switch" /\ monitor' = GetExpiryStatus(now)
          /\ UNCHANGED <<now, startedAt, nextTick, ticked, gauge>> /\ LastTick' = LastTick
        BY <1>11 DEF Monitor!SwitchOnStatus, LastTick, Monitor!GetExpiryStatus, GetExpiryStatus,
                     Monitor!ExpiryStatusFor, ExpiryStatusFor,
                     Monitor!DaysUntilExpiry, DaysUntilExpiry
    <2>2. monitor' \in Monitor!ExpiryStatuses
        BY <2>1, Zenon DEF GetExpiryStatus, ExpiryStatusFor, Monitor!ExpiryStatuses
    <2>3. Running /\ Running' /\ monitor' \notin {"set", "select"}
        BY <2>1, <2>2 DEF Running, Monitor!ExpiryStatuses
    <2>4. UpToDate' = UpToDate
        BY <2>1, Zenon DEF UpToDate
    <2> QED BY <1>1, <1>2, <1>3, <2>1, <2>2, <2>3, <2>4 DEF MonitorInv
<1>12. CASE Monitor!LogStatus
    <2>1. /\ monitor \in Monitor!ExpiryStatuses /\ monitor' = "select"
          /\ UNCHANGED <<now, startedAt, nextTick, ticked, gauge>> /\ LastTick' = LastTick
        BY <1>12, Zenon DEF Monitor!LogStatus, LastTick
    <2>2. monitor \in {"ok", logged'}
        BY <1>12 DEF Monitor!LogStatus
    <2>3. Running /\ Running' /\ monitor' \notin {"set"} \cup Monitor!ExpiryStatuses
        BY <2>1 DEF Running, Monitor!ExpiryStatuses
    <2>4. UpToDate' = UpToDate
        BY <2>1, Zenon DEF UpToDate
    <2> QED BY <1>1, <1>2, <2>1, <2>2, <2>3, <2>4 DEF MonitorInv
<1>13. CASE Monitor!ExitMonitor
    <2>1. /\ Running /\ Running' /\ monitor' \notin Acting
          /\ UNCHANGED <<now, startedAt, nextTick, ticked>> /\ LastTick' = LastTick
        BY <1>13 DEF Monitor!ExitMonitor, Running, LastTick, Monitor!ExpiryStatuses
    <2> QED BY <1>1, <1>2, <2>1 DEF MonitorInv
<1> QED BY <1>5, <1>6, <1>7, <1>8, <1>9, <1>10, <1>11, <1>12, <1>13, Zenon
        DEF Monitor!Run, Monitor!SetOnTick

\* A step of the program is a step of the monitor or of the clock, or none.
LEMMA MonitorSteps ==
    ProgramNext => Monitor!StartExpiryMonitor \/ Monitor!Run \/ Monitor!Tick \/ UNCHANGED monitorVars
<1>1. Main => Monitor!StartExpiryMonitor \/ UNCHANGED monitorVars
    BY DEF Main, Construct
<1>2. Listener => UNCHANGED monitorVars
    BY Zenon DEF Listener, Branch, ProbeCacheDir, Bind
<1>3. World => Monitor!Tick \/ UNCHANGED monitorVars
    BY DEF World, SharedDir, TimePasses
<1>4. WatchExpiry => Monitor!Run
    BY DEF WatchExpiry
<1> QED BY <1>1, <1>2, <1>3, <1>4 DEF ProgramNext

LEMMA AlwaysMonitorInv == ProgramSpec => []MonitorInv
<1>1. ProgramInit => MonitorInv
    BY InitMonitor DEF ProgramInit
<1>2. MonitorInv /\ UNCHANGED monitorVars => MonitorInv'
    BY DEF monitorVars, MonitorInv, UpToDate, Running, LastTick
<1>3. MonitorInv /\ [ProgramNext]_programVars => MonitorInv'
    BY <1>2, MonitorSteps, MonitorRun, MonitorTick DEF programVars
<1> QED BY <1>1, <1>3, PTL DEF ProgramSpec

\* Once the ticker has fired, and whenever no tick waits, the gauge shows the days
\* left or one more, for every certificate and every length of a day: ticks that
\* were dropped and delays of the goroutine, at its start and later, do not add
\* up, because the reading it shows was taken since the ticker fired last.
THEOREM ProgramGaugeLags == ProgramSpec => []GaugeLagsAtMostADay
<1>1. MonitorInv => GaugeLagsAtMostADay
    <2> SUFFICES ASSUME MonitorInv, Monitor!CaughtUp, startedAt + Day <= now
                 PROVE  gauge - DaysUntilExpiry(now) \in {0, 1}
        BY DEF GaugeLagsAtMostADay, Monitor!GaugeLagsAtMostADay, Monitor!DaysUntilExpiry,
               DaysUntilExpiry
    <2>1. monitor = "select" /\ ~ticked /\ Running
        BY DEF Monitor!CaughtUp, Running
    <2>2. /\ now \in Nat /\ startedAt \in Nat /\ nextTick \in Nat /\ now < nextTick
          /\ Day \in Nat
        BY <2>1, ExpiryAssumption DEF MonitorInv
    <2>3. UpToDate
        BY <2>1, <2>2 DEF UpToDate, LastTick
    <2>4. PICK t \in LastTick..now : gauge = DaysUntilExpiry(t)
        BY <2>1, <2>3 DEF MonitorInv
    <2>5. t \in Int /\ t <= now /\ now < t + Day
        BY <2>2 DEF LastTick
    <2> QED BY <2>2, <2>4, <2>5, DaysWithinADay
<1> QED BY <1>1, AlwaysMonitorInv, PTL

\* No stage of expiry passes unreported for more than a day while the goroutine
\* keeps up, for every certificate and all thresholds.
THEOREM ProgramAlarmLags == ProgramSpec => []AlarmLagsAtMostADay
<1>1. MonitorInv => AlarmLagsAtMostADay
    <2> DEFINE left == NotAfter - (now - Day)
    <2> SUFFICES ASSUME MonitorInv, Monitor!CaughtUp, startedAt <= now - Day
                 PROVE  /\ left < 0 => logged = "expired"
                        /\ left < CriticalDays * Day => logged \in {"critical", "expired"}
                        /\ left < WarningDays * Day => logged # "ok"
        BY DEF AlarmLagsAtMostADay, Monitor!AlarmLagsAtMostADay
    <2>1. monitor = "select" /\ ~ticked /\ Running
        BY DEF Monitor!CaughtUp, Running
    <2>2. /\ now \in Nat /\ startedAt \in Nat /\ nextTick \in Nat /\ now < nextTick
          /\ startedAt <= LastTick
        BY <2>1 DEF MonitorInv
    <2>3. /\ Day \in Nat \ {0} /\ NotAfter \in Nat /\ CriticalDays \in Nat /\ WarningDays \in Nat
          /\ CriticalDays <= WarningDays
        BY ExpiryAssumption
    <2>4. UpToDate
        BY <2>1, <2>2, <2>3 DEF UpToDate, LastTick
    <2>5. PICK t \in LastTick..now : GetExpiryStatus(t) \in {"ok", logged}
        BY <2>1, <2>4 DEF MonitorInv
    <2>6. t \in Int /\ NotAfter - t < left
        BY <2>2, <2>3 DEF LastTick
    <2>7. DaysUntilExpiry(t) \in Int
        BY <2>6, DaysQuotient
    <2>8. ASSUME NEW c \in Nat, left < c * Day PROVE DaysUntilExpiry(t) < c
        <3>1. c * Day \in Int /\ left \in Int /\ NotAfter - t \in Int
            BY <2>2, <2>3, <2>6
        <3> DEFINE p == c * Day
        <3>2. p = c * Day
            OBVIOUS
        <3> HIDE DEF p
        <3> HIDE DEF left
        <3>3. NotAfter - t < p
            BY <2>6, <2>8, <3>1, <3>2
        <3> QED BY <2>6, <3>2, <3>3, DaysBelow
    <2>9. left < 0 => DaysUntilExpiry(t) < 0
        <3>1. 0 * Day = 0
            BY <2>3
        <3> QED BY <2>8, <3>1
    <2> HIDE DEF left
    <2>10. left < 0 => GetExpiryStatus(t) = "expired"
        BY <2>3, <2>7, <2>9 DEF GetExpiryStatus, ExpiryStatusFor
    <2>11. left < CriticalDays * Day => GetExpiryStatus(t) \in {"critical", "expired"}
        BY <2>3, <2>7, <2>8 DEF GetExpiryStatus, ExpiryStatusFor
    <2>12. left < WarningDays * Day => GetExpiryStatus(t) # "ok"
        BY <2>3, <2>7, <2>8 DEF GetExpiryStatus, ExpiryStatusFor
    <2> QED BY <2>5, <2>10, <2>11, <2>12
<1> QED BY <1>1, AlwaysMonitorInv, PTL
=============================================================================
