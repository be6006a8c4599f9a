----------------------------- MODULE CRLService -----------------------------
(***************************************************************************)
(* The whole path of a revocation through a responder with a CRL source:   *)
(* publisher, reload goroutine, GetStatus, response cache, response.       *)
(* FileSource composed with ResponsePath; a handler is a caller.           *)
(***************************************************************************)
EXTENDS FileSource

CONSTANT MaxEntries    \* cache.max_entries

VARIABLES entries, path, key, answer    \* as in ResponsePath

Path == INSTANCE ResponsePath WITH Keys <- Serials, Handlers <- Callers

pathVars == <<entries, path, key, answer>>
serviceVars == <<vars, pathVars>>

ServiceInit == Init /\ Path!Init

CallSource(c) == Path!Lookup(c) /\ Call(c, key[c])

\* The client of request c is gone when GetStatus looks at its context.
GiveUp(c) == CheckLoaded(c, TRUE) /\ UNCHANGED pathVars

\* GetStatus, with the responder's own issuer.
RunSource(c) ==
    /\ CheckLoaded(c, FALSE) \/ Snapshot(c, "configured")
    /\ UNCHANGED pathVars

SourceReturns(c) == Path!SourceReturns(c, call[c].status) /\ Return(c)

Serve(c) ==
    \/ Path!Proceed(c) /\ UNCHANGED vars
    \/ CallSource(c)
    \/ RunSource(c)
    \/ SourceReturns(c)

\* Without Stop, which comes after the last request (SourceOutlivesRequests of
\* module Server).
SourceStep ==
    /\ Tick \/ Reload \/ \E f \in Files : Publish(f)
    /\ UNCHANGED pathVars

Expire(s) == Path!Expire({s}) /\ UNCHANGED vars

ServiceNext ==
    \/ SourceStep
    \/ \E s \in Serials : Expire(s)
    \/ \E c \in Callers :
          \/ \E s \in Serials : Path!Arrive(c, s) /\ UNCHANGED vars
          \/ Serve(c)
          \/ GiveUp(c)

\* The reload goroutine and the handlers are scheduled, and the deadline of a
\* cached response passes.
ServiceSpec ==
    /\ ServiceInit /\ [][ServiceNext]_serviceVars
    /\ WF_serviceVars(Reload /\ UNCHANGED pathVars)
    /\ \A c \in Callers : WF_serviceVars(Serve(c))
    /\ \A s \in Serials : WF_serviceVars(Expire(s))

-----------------------------------------------------------------------------
(* Properties. *)

\* What a responder should say about s when f is published.
Published(f, usable, s) ==
    IF Accepted(f) /\ usable THEN StatusIn(CRLOf(f), s) ELSE "unknown"

\* A published CRL reaches the clients.  If the published content and the
\* validity of its window stop changing, and clients stop giving up, then from
\* some point on every response says what that content says: a revocation shows
\* up, a rollback is undone, and a CRL that no longer loads or is out of its
\* window turns every answer into `unknown`, although older answers were cached
\* and a slow request may still insert one.
SettlesOnPublished ==
    LET NobodyGivesUp == <>[][\A c \in Callers : ~GiveUp(c)]_serviceVars
    IN  \A f \in Files, usable \in BOOLEAN :
            NobodyGivesUp /\ <>[](file = f /\ crlUsableAt(CRLOf(f), now) = usable)
                => <>[](\A c \in Callers :
                           path[c] = "respond" => answer[c] = Published(f, usable, key[c]))
=============================================================================
