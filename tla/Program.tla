------------------------------ MODULE Program ------------------------------
(***************************************************************************)
(* The whole program (cmd/ocsp-responder/main.go): the goroutines of       *)
(* Server, whose startup steps succeed or fail as the configuration        *)
(* (Config) and the world have it, and whose listener goroutine probes the *)
(* ACME cache directory (ACMEProbe) beside other responders.  A fourth     *)
(* goroutine watches the signer's certificate (ExpiryMonitor).             *)
(***************************************************************************)
EXTENDS Config, Server, ACMEProbe, SignerExpiry

CONSTANTS Self,      \* this process among the responders that share the directory
          Watched,   \* bound: the configurations under which time passes
          Busy,      \* bound: the types of source under which clients connect
          MaxTime    \* bound on the clock

ASSUME SelfAssumption == Self \in Responders

VARIABLES now, monitor, startedAt, nextTick, ticked, reading, gauge, logged

Monitor == INSTANCE ExpiryMonitor WITH ctxDone <- signaled

monitorVars == <<now, monitor, startedAt, nextTick, ticked, reading, gauge, logged>>
programVars == <<vars, configVars, probeVars, monitorVars>>

\* Without ACME nobody looks at the directory.
ProgramInit ==
    /\ Init /\ ConfigInit /\ ProbeInit /\ Monitor!Init
    /\ cfg.tls # "acme" => dir = "missing"

-----------------------------------------------------------------------------
(* The main goroutine. *)

\* A step of the startup.  A source of type "file" has a reload goroutine.
Construct ==
    /\ main = stage
    /\ \/ Load \/ NewSigner \/ NewFileSource \/ NewHTTPSource \/ NewStaticSource
       \/ NewResponder \/ Mishap
    /\ \E s \in StartupSteps : IF stage' = "exit" THEN Abort(s) ELSE Advance(s)
    /\ main' = "notify" => reloading' = IF cfg.type = "file" THEN "running" ELSE "none"
    /\ UNCHANGED <<probeVars, monitorVars>>

Main ==
    \/ Construct
    \/ Notify /\ Monitor!StartExpiryMonitor /\ UNCHANGED <<configVars, probeVars>>
    \/ AfterStartup /\ UNCHANGED <<configVars, probeVars, monitorVars>>

-----------------------------------------------------------------------------
(* The listener goroutine. *)

Branch ==
    /\ cfg.tls # "acme"
    /\ ChooseTLS(cfg.tls # "none")
    /\ IF cfg.tls = "none" THEN UseTLS ELSE UNCHANGED configVars
    /\ UNCHANGED <<probeVars, monitorVars>>

\* Mutant: the goroutine returns without sending the error.
ProbeCacheDirSilently ==
    /\ cfg.tls = "acme" /\ Alive /\ listener = "starting"
    /\ ensureACMECacheDir(Self) /\ UNCHANGED monitorVars
    /\ CASE pc'[Self] = "ok" -> ChooseTLS(TRUE) /\ UNCHANGED configVars
         [] pc'[Self] = "failed" -> Report("starting", "done") /\ Mishap
         [] OTHER -> UNCHANGED <<vars, configVars>>

\* ensureACMECacheDir step by step, and what follows its last step.
ProbeCacheDir ==
    /\ cfg.tls = "acme" /\ Alive /\ listener = "starting"
    /\ ensureACMECacheDir(Self) /\ UNCHANGED monitorVars
    /\ CASE pc'[Self] = "ok" -> ChooseTLS(TRUE) /\ UNCHANGED configVars
         [] pc'[Self] = "failed" -> ChooseTLS(FALSE) /\ Mishap
         [] OTHER -> UNCHANGED <<vars, configVars>>

Bind ==
    /\ Listen
    /\ CASE listener' = "serving" -> UseTLS
         [] listener' = "error" -> Mishap
         [] OTHER -> UNCHANGED configVars
    /\ UNCHANGED <<probeVars, monitorVars>>

Listener ==
    \/ Branch
    \/ ProbeCacheDir
    \/ Bind
    \/ Send /\ UNCHANGED <<configVars, probeVars, monitorVars>>

WatchExpiry == Alive /\ Monitor!Run /\ UNCHANGED <<vars, configVars, probeVars>>

-----------------------------------------------------------------------------
(* The world. *)

\* Bound: a responder is restarted only while each has a name to pick.
NamesLeft == Cardinality(abandoned) + Cardinality(Responders) <= Cardinality(Names)

\* What happens in the cache directory meanwhile.
SharedDir ==
    /\ cfg.tls = "acme" /\ listener = "starting"
    /\ \/ \E p \in Responders \ {Self} : ensureACMECacheDir(p) \/ (Restart(p) /\ NamesLeft')
       \/ Change
       \/ Sweep
    /\ UNCHANGED <<vars, configVars, monitorVars>>

TimePasses == cfg \in Watched /\ Monitor!Tick /\ UNCHANGED <<vars, configVars, probeVars>>

World ==
    \/ TimePasses
    \/ SharedDir
    \/ /\ \/ Signal \/ StopServing
          \/ \E r \in Requests : (cfg.type \in Busy /\ Connect(r)) \/ Accept(r) \/ Finish(r)
       /\ UNCHANGED <<configVars, probeVars, monitorVars>>

ProgramNext == Main \/ Listener \/ WatchExpiry \/ World

\* As in Server: both goroutines are scheduled, and the shutdown timer fires.
ProgramSpec ==
    /\ ProgramInit /\ [][ProgramNext]_programVars
    /\ WF_programVars(Main) /\ WF_programVars(Listener)

-----------------------------------------------------------------------------
(* Properties. *)

\* The program is a Server, whatever is configured and whatever becomes of the
\* cache directory: every way a startup step, the TLS settings or the probe can
\* fail is one that Start and main handle, and nothing leaves the listener
\* goroutine or main hanging.
ImplementsServer == Spec

\* Once the ticker has fired, the gauge an alert watches is never more than a day
\* off, and errs on one side only: whenever no tick waits to be handled, it shows
\* the days left or one more.  However late the goroutine was before, the start
\* included, and although the ticker drops ticks, the delays do not add up.
GaugeLagsAtMostADay == Monitor!GaugeLagsAtMostADay

\* No stage of expiry passes unreported while the ticker runs.  A day after the certificate had less
\* than the warning or the critical number of days left, or had expired, and
\* with no tick waiting to be handled, the log has said at least that.
AlarmLagsAtMostADay == Monitor!AlarmLagsAtMostADay
=============================================================================
