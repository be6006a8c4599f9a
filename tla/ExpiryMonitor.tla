---------------------------- MODULE ExpiryMonitor ----------------------------
(***************************************************************************)
(* The goroutine of Signer.StartExpiryMonitor: a gauge and a log line,     *)
(* brought up to date by a 24-hour ticker until the program is told to     *)
(* stop.  Any time may pass between two steps of the goroutine; the        *)
(* ticker's channel holds one tick and drops the ticks nobody fetched.     *)
(* Module Program starts the goroutine and tells it to stop.               *)
(***************************************************************************)
EXTENDS SignerExpiry

CONSTANT MaxTime       \* bound on the clock

VARIABLES now,         \* the wall clock
          ctxDone,     \* ctx is done
          monitor,     \* where the goroutine is, "none" before it is started
          startedAt,   \* history: when the ticker was created
          nextTick,    \* when the ticker fires next
          ticked,      \* ticker.C holds a tick
          reading,     \* what DaysUntilExpiry returned
          gauge,       \* ocsp_signer_days_until_expiry
          logged       \* the last expiry status written to the log

vars == <<now, monitor, startedAt, nextTick, ticked, reading, gauge, logged>>

\* What GetExpiryStatus returns.
ExpiryStatuses == {"ok", "warning", "critical", "expired"}

Init ==
    /\ now = 1
    /\ monitor = "none"
    /\ startedAt = 0
    /\ nextTick = 0
    /\ ticked = FALSE
    /\ reading = 0
    /\ gauge = 0
    /\ logged = "ok"

\* The go statement.
StartExpiryMonitor ==
    /\ monitor = "none"
    /\ monitor' = "first"
    /\ UNCHANGED <<now, startedAt, nextTick, ticked, reading, gauge, logged>>

\* Time passes, and the runtime fires the ticker when it is due.
Tick ==
    /\ now < MaxTime
    /\ now' = now + 1
    /\ ticked' = (ticked \/ now' = nextTick)
    /\ nextTick' = IF now' = nextTick THEN nextTick + Day ELSE nextTick
    /\ UNCHANGED <<monitor, startedAt, reading, gauge, logged>>

ReadDays(from, to) ==
    /\ monitor = from
    /\ reading' = DaysUntilExpiry(now)
    /\ monitor' = to
    /\ UNCHANGED <<now, startedAt, nextTick, ticked, gauge, logged>>

\* Mutant: the gauge is left alone once the certificate has expired.
SetGaugeWhileValid(from, to) ==
    /\ monitor = from
    /\ gauge' = IF reading < 0 THEN gauge ELSE reading
    /\ monitor' = to
    /\ UNCHANGED <<now, startedAt, nextTick, ticked, reading, logged>>

SetGauge(from, to) ==
    /\ monitor = from
    /\ gauge' = reading
    /\ monitor' = to
    /\ UNCHANGED <<now, startedAt, nextTick, ticked, reading, logged>>

\* The gauge is set once before the ticker exists.
SetAtStart == ReadDays("first", "setFirst") \/ SetGauge("setFirst", "newTicker")

NewTicker ==
    /\ monitor = "newTicker"
    /\ monitor' = "select"
    /\ startedAt' = now
    /\ nextTick' = now + Day
    /\ UNCHANGED <<now, ticked, reading, gauge, logged>>

\* The case <-ticker.C, taken also when ctx is done as well.
ReceiveTick ==
    /\ monitor = "select" /\ ticked
    /\ ticked' = FALSE
    /\ monitor' = "read"
    /\ UNCHANGED <<now, startedAt, nextTick, reading, gauge, logged>>

SetOnTick == ReadDays("read", "set") \/ SetGauge("set", "switch")

\* The switch: GetExpiryStatus takes a reading of its own.
SwitchOnStatus ==
    /\ monitor = "switch"
    /\ monitor' = GetExpiryStatus(now)
    /\ UNCHANGED <<now, startedAt, nextTick, ticked, reading, gauge, logged>>

\* Mutant: no case for an expired certificate.
LogStatusWhileValid ==
    /\ monitor \in ExpiryStatuses
    /\ logged' = IF monitor \in {"ok", "expired"} THEN logged ELSE monitor
    /\ monitor' = "select"
    /\ UNCHANGED <<now, startedAt, nextTick, ticked, reading, gauge>>

\* The cases of the switch.  Nothing is logged for "ok".
LogStatus ==
    /\ monitor \in ExpiryStatuses
    /\ logged' = IF monitor = "ok" THEN logged ELSE monitor
    /\ monitor' = "select"
    /\ UNCHANGED <<now, startedAt, nextTick, ticked, reading, gauge>>

ExitMonitor ==
    /\ monitor = "select" /\ ctxDone
    /\ monitor' = "exited"
    /\ UNCHANGED <<now, startedAt, nextTick, ticked, reading, gauge, logged>>

Run ==
    \/ SetAtStart \/ NewTicker
    \/ ReceiveTick \/ SetOnTick \/ SwitchOnStatus \/ LogStatus
    \/ ExitMonitor

-----------------------------------------------------------------------------
(* Properties. *)

\* The goroutine has handled every tick so far.
CaughtUp == monitor = "select" /\ ~ticked

\* The gauge shows the days left or one more whenever no tick waits, from the
\* first tick on.  Until then it shows what was read before the ticker existed.
GaugeLagsAtMostADay ==
    CaughtUp /\ startedAt + Day <= now => gauge - DaysUntilExpiry(now) \in {0, 1}

\* What held of the certificate a day ago, the ticker running, has been logged.
AlarmLagsAtMostADay ==
    LET yesterday == now - Day
        left      == NotAfter - yesterday
    IN  CaughtUp /\ startedAt <= yesterday =>
            /\ left < 0 => logged = "expired"
            /\ left < CriticalDays * Day => logged \in {"critical", "expired"}
            /\ left < WarningDays * Day => logged # "ok"
=============================================================================
