------------------------------- MODULE Server -------------------------------
(***************************************************************************)
(* The life of the process: main (cmd/ocsp-responder/main.go) and          *)
(* Server.Start (internal/server/server.go).  Three parties run side by    *)
(* side: the main goroutine, from loading the configuration to the exit    *)
(* code; the listener goroutine, which reports through errCh; and the      *)
(* request goroutines of net/http.  A signal can come at any moment.       *)
(*                                                                         *)
(* net/http is modelled by how Start uses it: ListenAndServe returns an    *)
(* error or, after Shutdown was called, ErrServerClosed; Shutdown stops    *)
(* the listener, closes the connections that wait for a request and        *)
(* returns nil once none is left, or an error when its context ends first. *)
(***************************************************************************)
EXTENDS Naturals, Sequences

CONSTANT Requests     \* requests that may arrive

VARIABLES main,          \* where the main goroutine is
          exit,          \* "running", or how the process ended
          signaled,      \* ctx of signal.NotifyContext is done
          reloading,     \* the reload goroutine: "none", "running", "stopped"
          listener,      \* where the listener goroutine is
          errCh,         \* the channel from the listener goroutine to Start
          shuttingDown,  \* httpServer.Shutdown was called
          request        \* request[r]: "none", "connected", "active", "answered"

vars == <<main, exit, signaled, reloading, listener, errCh, shuttingDown, request>>

Init ==
    /\ main = "load"
    /\ exit = "running"
    /\ signaled = FALSE
    /\ reloading = "none"
    /\ listener = "none"
    /\ errCh = <<>>
    /\ shuttingDown = FALSE
    /\ request = [r \in Requests |-> "none"]

Alive == exit = "running"

Go(from, to) == Alive /\ main = from /\ main' = to

Exit(from, how) ==
    /\ Go(from, "gone")
    /\ exit' = how
    /\ UNCHANGED <<signaled, listener, errCh, shuttingDown, request>>

-----------------------------------------------------------------------------
(* main, up to Start. *)

\* config.Load, NewSigner, newSource, and the parsing of cache.ttl for
\* NewResponder (Start parses it again).
StartupSteps ==
    {<<"load", "signer">>, <<"signer", "source">>, <<"source", "notify">>,
     <<"responder", "start">>}

\* A step succeeds.  newSource starts the reload goroutine of a CRL source.
Advance(s) ==
    /\ Go(s[1], s[2])
    /\ reloading' \in IF s[1] = "source" THEN {"none", "running"} ELSE {reloading}
    /\ UNCHANGED <<exit, signaled, listener, errCh, shuttingDown, request>>

\* A step fails: os.Exit(1).
Abort(s) == Exit(s[1], "1") /\ UNCHANGED reloading

Startup == \E s \in StartupSteps : Advance(s) \/ Abort(s)

\* signal.NotifyContext.  The expiry monitor started next depends on ctx alone.
Notify ==
    /\ Go("notify", "responder")
    /\ UNCHANGED <<exit, signaled, reloading, listener, errCh, shuttingDown, request>>

\* SIGTERM or SIGINT.  Before NotifyContext and after the deferred cancel it has
\* its default effect; between, it cancels ctx, and later ones change nothing.
Signal ==
    /\ Alive
    /\ IF main \in {"load", "signer", "source", "notify", "deferred", "return"}
       THEN exit' = "killed" /\ main' = "gone" /\ UNCHANGED signaled
       ELSE ~signaled /\ signaled' = TRUE /\ UNCHANGED <<exit, main>>
    /\ UNCHANGED <<reloading, listener, errCh, shuttingDown, request>>

-----------------------------------------------------------------------------
(* Start. *)

\* The routes, then `go func()`.
StartListener ==
    /\ Go("start", "select")
    /\ listener' = "starting"
    /\ UNCHANGED <<exit, signaled, reloading, errCh, shuttingDown, request>>

\* The select: ctx.Done().
SeeSignal ==
    /\ Go("select", "shutdown")
    /\ signaled
    /\ UNCHANGED <<exit, signaled, reloading, listener, errCh, shuttingDown, request>>

\* Mutant: an error of the listener is taken for the end of serving.
ReceiveAnyError ==
    /\ errCh # <<>>
    /\ Go("select", "shutdown")
    /\ errCh' = Tail(errCh)
    /\ UNCHANGED <<exit, signaled, reloading, listener, shuttingDown, request>>

\* Mutant: the error is logged and the select entered again.
ReceiveErrorLogsOnly ==
    /\ errCh # <<>>
    /\ errCh' = Tail(errCh)
    /\ Go("select", "select")
    /\ UNCHANGED <<exit, signaled, reloading, listener, shuttingDown, request>>

\* The select: errCh.  An error ends Start and the process at once.
ReceiveError ==
    /\ errCh # <<>>
    /\ errCh' = Tail(errCh)
    /\ Go("select", IF Head(errCh) = "closed" THEN "shutdown" ELSE "gone")
    /\ exit' = IF Head(errCh) = "closed" THEN exit ELSE "1"
    /\ UNCHANGED <<signaled, reloading, listener, shuttingDown, request>>

CallShutdown ==
    /\ Go("shutdown", "drain")
    /\ shuttingDown' = TRUE
    /\ UNCHANGED <<exit, signaled, reloading, listener, errCh, request>>

Idle == \A r \in Requests : request[r] # "active"

\* Shutdown closes a connection on which no request has come.
CloseIdle ==
    /\ Alive /\ main = "drain"
    /\ \E r \in Requests : /\ request[r] = "connected"
                          /\ request' = [request EXCEPT ![r] = "none"]
    /\ UNCHANGED <<main, exit, signaled, reloading, listener, errCh, shuttingDown>>

\* Mutant: httpServer.Close instead of Shutdown.
DrainedAtOnce ==
    /\ Go("drain", "deferred")
    /\ UNCHANGED <<exit, signaled, reloading, listener, errCh, shuttingDown, request>>

\* Shutdown returns nil, then Start; main returns and its deferred cancel runs.
Drained ==
    /\ Go("drain", "deferred")
    /\ \A r \in Requests : request[r] \notin {"connected", "active"}
    /\ UNCHANGED <<exit, signaled, reloading, listener, errCh, shuttingDown, request>>

\* Mutant: context.Background() instead of the 10-second timeout.
NeverTimesOut == FALSE /\ UNCHANGED vars

\* Its 10 seconds pass first: Start returns the error, os.Exit skips the
\* deferred calls.
DrainTimesOut == Exit("drain", "1") /\ UNCHANGED reloading

\* The deferred fs.Stop of a CRL source.
StopSource ==
    /\ Go("deferred", "return")
    /\ reloading' = IF reloading = "running" THEN "stopped" ELSE reloading
    /\ UNCHANGED <<exit, signaled, listener, errCh, shuttingDown, request>>

\* The end of main.
Return == Exit("return", "0") /\ UNCHANGED reloading

-----------------------------------------------------------------------------
(* The listener goroutine. *)

Report(from, result) ==
    /\ Alive
    /\ listener = from
    /\ listener' = result
    /\ UNCHANGED <<main, exit, signaled, reloading, errCh, shuttingDown, request>>

\* The branch on the TLS settings: ready to listen, or there is no certificate
\* or ACME host, or ensureACMECacheDir failed.
ChooseTLS(ok) == Report("starting", IF ok THEN "listening" ELSE "error")

\* ListenAndServe: it refuses after Shutdown; otherwise the address is bound,
\* and the key pair loaded, or not.
Listen ==
    \/ shuttingDown /\ Report("listening", "closed")
    \/ ~shuttingDown /\ Report("listening", "serving")
    \/ ~shuttingDown /\ Report("listening", "error")

\* Accept fails, for good or because Shutdown closed the listener.
StopServing ==
    \/ shuttingDown /\ Report("serving", "closed")
    \/ ~shuttingDown /\ Report("serving", "error")

\* Mutant: no return after the error of the ACME cache directory is sent.
SendAndGoOn ==
    /\ Alive
    /\ listener \in {"closed", "error"}
    /\ Len(errCh) < 1
    /\ errCh' = Append(errCh, listener)
    /\ listener' = IF listener = "error" THEN "listening" ELSE "done"
    /\ UNCHANGED <<main, exit, signaled, reloading, shuttingDown, request>>

\* errCh <- err, with room for one.
Send ==
    /\ Alive
    /\ listener \in {"closed", "error"}
    /\ Len(errCh) < 1
    /\ errCh' = Append(errCh, listener)
    /\ listener' = "done"
    /\ UNCHANGED <<main, exit, signaled, reloading, shuttingDown, request>>

Connect(r) ==
    /\ Alive
    /\ listener = "serving" /\ ~shuttingDown
    /\ request[r] = "none"
    /\ request' = [request EXCEPT ![r] = "connected"]
    /\ UNCHANGED <<main, exit, signaled, reloading, listener, errCh, shuttingDown>>

\* A request comes on an open connection, during the drain as well.
Accept(r) ==
    /\ Alive
    /\ request[r] = "connected"
    /\ request' = [request EXCEPT ![r] = "active"]
    /\ UNCHANGED <<main, exit, signaled, reloading, listener, errCh, shuttingDown>>

\* A handler ends in its own time; nothing cancels it on Shutdown.
Finish(r) ==
    /\ Alive
    /\ request[r] = "active"
    /\ request' = [request EXCEPT ![r] = "answered"]
    /\ UNCHANGED <<main, exit, signaled, reloading, listener, errCh, shuttingDown>>

-----------------------------------------------------------------------------
AfterStartup ==
    \/ StartListener
    \/ SeeSignal
    \/ ReceiveError
    \/ CallShutdown
    \/ CloseIdle
    \/ Drained
    \/ DrainTimesOut
    \/ StopSource
    \/ Return

MainStep == Startup \/ Notify \/ AfterStartup

ListenerStep == (\E ok \in BOOLEAN : ChooseTLS(ok)) \/ Listen \/ Send

Next ==
    \/ Signal
    \/ MainStep
    \/ ListenerStep
    \/ StopServing
    \/ \E r \in Requests : Connect(r) \/ Accept(r) \/ Finish(r)

\* Both goroutines are scheduled, and the shutdown timer fires.  Nothing says
\* that a request ends, that serving stops, or that a signal comes.
Spec == Init /\ [][Next]_vars /\ WF_vars(MainStep) /\ WF_vars(ListenerStep)

-----------------------------------------------------------------------------
(* Properties. *)

\* Every variable has its type.
TypeOK ==
    /\ main \in {"load", "signer", "source", "notify", "responder", "start", "select",
                 "shutdown", "drain", "deferred", "return", "gone"}
    /\ exit \in {"running", "0", "1", "killed"}
    /\ signaled \in BOOLEAN
    /\ reloading \in {"none", "running", "stopped"}
    /\ listener \in {"none", "starting", "listening", "serving", "closed", "error", "done"}
    /\ errCh \in {<<>>, <<"closed">>, <<"error">>}
    /\ shuttingDown \in BOOLEAN
    /\ request \in [Requests -> {"none", "connected", "active", "answered"}]

\* Exit code 0 means a clean shutdown: a signal asked for it, no request that
\* was accepted is left unanswered, and the reload goroutine was stopped.  A
\* listener that fails is never mistaken for it, although ListenAndServe also
\* returns an error when all is well.
ExitZeroIsClean == exit = "0" => signaled /\ Idle /\ reloading # "running"

\* A request is never served by a source that was already stopped: fs.Stop
\* comes after the drain.
SourceOutlivesRequests ==
    \A r \in Requests : Alive /\ request[r] = "active" => reloading # "stopped"

\* The listener goroutine is never left waiting on errCh, whichever case the
\* select took: there is always room for its one report.
ListenerNeverBlocks == listener \in {"closed", "error"} => errCh = <<>>

\* A signal ends the process, however long the requests in flight take.
SignalEndsProcess == signaled ~> ~Alive

\* A listener that fails ends the process with an error, unless a signal was
\* there to be seen as well.
ListenerFailureEndsProcess ==
    (listener = "error" /\ Alive) ~> (exit = "1" \/ signaled)
=============================================================================
