---------------------------- MODULE HTTPService ----------------------------
(***************************************************************************)
(* A responder with a CA-API source, as deployed: HTTPSource behind the    *)
(* response cache (ResponsePath).  A handler is a caller.                  *)
(***************************************************************************)
EXTENDS HTTPSource

CONSTANT MaxEntries   \* cache.max_entries

VARIABLES entries, path, key, answer   \* as in ResponsePath

Path == INSTANCE ResponsePath WITH Keys <- Serials, Handlers <- Callers

pathVars == <<entries, path, key, answer>>
serviceVars == <<vars, pathVars>>

ServiceInit == Init /\ Path!Init

\* A client's request.
Request(c) == (\E s \in Serials : Path!Arrive(c, s)) /\ UNCHANGED vars

CallSource(c) == Path!Lookup(c) /\ Begin(c, key[c])

RunSource(c) == Step(c) /\ UNCHANGED pathVars

SourceReturns(c) == Path!SourceReturns(c, status[c]) /\ Return(c)

Serve(c) ==
    \/ Path!Proceed(c) /\ UNCHANGED vars
    \/ CallSource(c)
    \/ RunSource(c)
    \/ SourceReturns(c)

\* The clock of the source stands still, so its own entries stay: the run that
\* lets them expire is the one of module HTTPSource.
Environment ==
    /\ \/ Relink
       \/ \E s \in Serials : Revoke(s)
       \/ \E c \in Callers : Cancel(c)
    /\ UNCHANGED pathVars

Expire(s) == Path!Expire({s}) /\ UNCHANGED vars

ServiceNext ==
    \/ Environment
    \/ \E s \in Serials : Expire(s)
    \/ \E c \in Callers : Request(c) \/ Serve(c)

\* Handlers are scheduled, deadlines of cached responses pass, and
\* clients keep asking.
ServiceSpec ==
    /\ ServiceInit /\ [][ServiceNext]_serviceVars
    /\ \A c \in Callers : WF_serviceVars(Serve(c))
    /\ \A s \in Serials : WF_serviceVars(Expire(s))
    /\ WF_serviceVars(\E c \in Callers : Request(c))

-----------------------------------------------------------------------------
(* Properties. *)

Calm == link = "up" /\ \A c \in Callers : ~canceled[c]

\* The source recovers once the CA does.  If from some point on the CA answers
\* and no client goes away, the source ends up healthy, although only lookups
\* restore its health and responses are served from two caches on the way.
RecoversAsDeployed == <>[]Calm => <>[]healthy

\* What is cached in front of the source does not hide the CA for good: a
\* serial that stays revoked while the CA answers ends up answered `revoked`,
\* once the source's own cache lets go of an older answer
\* (RevocationHiddenAtMostTTL of module HTTPSource bounds when).
RevocationReachesClients ==
    \A s \in Serials :
        <>[](/\ Calm /\ ca[s] = "revoked"
             /\ s \in DOMAIN cache => cache[s].status = "revoked")
            => <>[](\A c \in Callers : path[c] = "respond" /\ key[c] = s
                                          => answer[c] = "revoked")
=============================================================================
