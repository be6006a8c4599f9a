----------------------------- MODULE HTTPSource -----------------------------
(***************************************************************************)
(* The CA-API source (internal/source/http.go): concurrent GetStatus       *)
(* lookups over one cache and one health flag, neither under a lock, with  *)
(* retries, a CA that can fail, and clients that can go away.              *)
(*                                                                         *)
(* One step per access to the cache, to the health flag and to the CA.     *)
(* Times are naturals, counted in clock ticks.                             *)
(***************************************************************************)
EXTENDS Integers, Sequences

CONSTANTS Serials,    \* certificate serial numbers, the cache keys
          Callers,    \* goroutines that call GetStatus
          RetryMax,   \* retry_max, as configured
          CacheTTL,   \* cache_ttl; 0 is no cache
          MaxTime     \* bound on the clock

ASSUME HTTPAssumption ==
    RetryMax \in Int /\ CacheTTL \in Nat /\ MaxTime \in Nat

VARIABLES now,        \* the wall clock
          ca,         \* ca[s]: what the CA has on record for serial s
          link,       \* what a request to the CA meets
          revokedAt,  \* revokedAt[s]: history, when s was revoked (0: it is not)
          healthy,    \* s.healthy
          cache,      \* s.cache: a function from the cached serials to entries
          pc,         \* pc[c]: where GetStatus is
          serial,     \* serial[c]: its argument
          canceled,   \* canceled[c]: the caller's context is done
          entry,      \* entry[c]: the cache entry it loaded
          seen,       \* seen[c]: the replies of its attempts so far
          servedAt,   \* servedAt[c]: history, when the CA gave its answer
          status,     \* status[c]: the result, or "error"
          slowest     \* history: the longest time from an answer to its storing

caVars     == <<ca, link, revokedAt>>
sourceVars == <<healthy, cache>>
callVars   == <<pc, serial, canceled, entry, seen, servedAt, status>>
vars == <<now, caVars, sourceVars, callVars, slowest>>

\* The CA says good or revoked, or something else: it does not know the serial
\* (404), or its body lacks the status field or has a value outside the mapping.
Records == {"good", "revoked", "other"}

\* A request is answered, fails in a way worth a retry (no connection, a
\* timeout, an unexpected status code), or gets a body that does not decode.
Links == {"up", "down", "garbled"}

Statuses == {"good", "revoked", "unknown"}

\* NewHTTPSource replaces a retry count that is not positive.
maxAttempts == IF RetryMax <= 0 THEN 3 ELSE RetryMax

NoEntry == [status |-> "unknown", expiresAt |-> 0]

\* NewHTTPSource: an empty cache, and healthy until a lookup fails.
Init ==
    /\ now = 1
    /\ ca \in [Serials -> Records \ {"revoked"}]
    /\ link \in Links
    /\ revokedAt = [s \in Serials |-> 0]
    /\ healthy = TRUE
    /\ cache = <<>>
    /\ pc = [c \in Callers |-> "idle"]
    /\ serial \in [Callers -> Serials]
    /\ canceled = [c \in Callers |-> FALSE]
    /\ entry = [c \in Callers |-> NoEntry]
    /\ seen = [c \in Callers |-> <<>>]
    /\ servedAt = [c \in Callers |-> 0]
    /\ status = [c \in Callers |-> "none"]
    /\ slowest = 0

Goto(c, from, to) == pc[c] = from /\ pc' = [pc EXCEPT ![c] = to]

-----------------------------------------------------------------------------
(* The clock, the CA and the clients. *)

Tick ==
    /\ now < MaxTime
    /\ now' = now + 1
    /\ UNCHANGED <<caVars, sourceVars, callVars, slowest>>

\* Revocation is final.
Revoke(s) ==
    /\ revokedAt[s] = 0
    /\ ca' = [ca EXCEPT ![s] = "revoked"]
    /\ revokedAt' = [revokedAt EXCEPT ![s] = now]
    /\ UNCHANGED <<now, link, sourceVars, callVars, slowest>>

Relink ==
    /\ link' \in Links \ {link}
    /\ UNCHANGED <<now, ca, revokedAt, sourceVars, callVars, slowest>>

\* The client disconnects, or its deadline passes.
Cancel(c) ==
    /\ pc[c] \notin {"idle", "returned"}
    /\ ~canceled[c]
    /\ canceled' = [canceled EXCEPT ![c] = TRUE]
    /\ UNCHANGED <<now, caVars, sourceVars, pc, serial, entry, seen, servedAt, status, slowest>>

-----------------------------------------------------------------------------
(* GetStatus, the cache. *)

Begin(c, s) ==
    /\ Goto(c, "idle", "check")
    /\ serial' = [serial EXCEPT ![c] = s]
    /\ UNCHANGED <<now, caVars, sourceVars, canceled, entry, seen, servedAt, status, slowest>>

\* Finish(c, from, result): the call returns; the loaded entry is dropped.
Finish(c, from, result) ==
    /\ Goto(c, from, "returned")
    /\ status' = [status EXCEPT ![c] = result]
    /\ entry' = [entry EXCEPT ![c] = NoEntry]

\* Mutant: the cache is consulted whatever the health.
CheckContext(c) ==
    /\ \/ canceled[c] /\ Finish(c, "check", "error")
       \/ ~canceled[c] /\ Goto(c, "check", "load") /\ UNCHANGED <<status, entry>>
    /\ UNCHANGED <<now, caVars, sourceVars, serial, canceled, seen, servedAt, slowest>>

\* ctx.Err(), then s.healthy: an unhealthy source does not use its cache.
CheckHealthy(c) ==
    /\ \/ canceled[c] /\ Finish(c, "check", "error")
       \/ /\ ~canceled[c]
          /\ Goto(c, "check", IF healthy THEN "load" ELSE "fetch")
          /\ UNCHANGED <<status, entry>>
    /\ UNCHANGED <<now, caVars, sourceVars, serial, canceled, seen, servedAt, slowest>>

CacheLoad(c) ==
    /\ IF serial[c] \in DOMAIN cache
       THEN Goto(c, "load", "loaded") /\ entry' = [entry EXCEPT ![c] = cache[serial[c]]]
       ELSE Goto(c, "load", "fetch") /\ UNCHANGED entry
    /\ UNCHANGED <<now, caVars, sourceVars, serial, canceled, seen, servedAt, status, slowest>>

Without(k) == [x \in DOMAIN cache \ {k} |-> cache[x]]
Put(k, e) == [x \in DOMAIN cache \cup {k} |-> IF x = k THEN e ELSE cache[x]]

\* Mutant: a hit renews the entry.
CacheCheckRenewing(c) ==
    /\ \/ /\ now < entry[c].expiresAt
          /\ Finish(c, "loaded", entry[c].status)
          /\ cache' = Put(serial[c], [entry[c] EXCEPT !.expiresAt = now + CacheTTL])
       \/ /\ now >= entry[c].expiresAt
          /\ Goto(c, "loaded", "fetch")
          /\ entry' = [entry EXCEPT ![c] = NoEntry]
          /\ cache' = Without(serial[c])
          /\ UNCHANGED status
    /\ UNCHANGED <<now, caVars, healthy, serial, canceled, seen, servedAt, slowest>>

\* The loaded entry is judged.  Delete removes whatever the key holds by now.
CacheCheck(c) ==
    /\ \/ /\ now < entry[c].expiresAt
          /\ Finish(c, "loaded", entry[c].status)
          /\ UNCHANGED cache
       \/ /\ now >= entry[c].expiresAt
          /\ Goto(c, "loaded", "fetch")
          /\ entry' = [entry EXCEPT ![c] = NoEntry]
          /\ cache' = Without(serial[c])
          /\ UNCHANGED status
    /\ UNCHANGED <<now, caVars, healthy, serial, canceled, seen, servedAt, slowest>>

-----------------------------------------------------------------------------
(* fetchWithRetry and fetchOnce. *)

\* Mutant: the CA's word is passed on without the mapping.
StatusAsReplied(record) == record

\* fetchOnce's switch on the reply: "other" is an answer, not a failure.
StatusFor(record) == IF record \in {"good", "revoked"} THEN record ELSE "unknown"

Failing(c, from) ==
    /\ Goto(c, from, "demote")
    /\ status' = [status EXCEPT ![c] = "error"]
    /\ UNCHANGED servedAt

\* A canceled context ends the loop at its head, or fails the request and then
\* ends the loop.
FetchCanceled(c) ==
    /\ canceled[c]
    /\ Failing(c, "fetch")
    /\ UNCHANGED <<now, caVars, sourceVars, serial, canceled, entry, seen, slowest>>

\* Mutant: the loop runs once too often.
RetryAtLimit(c) == Len(seen[c]) + 1 <= maxAttempts

\* The attempt that just failed was not the last one.
RetryLeft(c) == Len(seen[c]) + 1 < maxAttempts

\* One attempt: what the CA replies, at the instant it does.
Fetch(c) ==
    /\ ~canceled[c]
    /\ seen' = [seen EXCEPT ![c] = Append(@, link)]
    /\ \/ /\ link = "up"
          /\ Goto(c, "fetch", "promote")
          /\ status' = [status EXCEPT ![c] = StatusFor(ca[serial[c]])]
          /\ servedAt' = [servedAt EXCEPT ![c] = now]
       \/ link = "garbled" /\ Failing(c, "fetch")
       \/ link = "down" /\ ~RetryLeft(c) /\ Failing(c, "fetch")
       \/ /\ link = "down" /\ RetryLeft(c)
          /\ Goto(c, "fetch", "backoff")
          /\ UNCHANGED <<status, servedAt>>
    /\ UNCHANGED <<now, caVars, sourceVars, serial, canceled, entry, slowest>>

\* Mutant: the timer is not in the select.
BackoffUntilDone(c) ==
    /\ canceled[c]
    /\ Failing(c, "backoff")
    /\ UNCHANGED <<now, caVars, sourceVars, serial, canceled, entry, seen, slowest>>

\* The select between the timer and ctx.Done().
Backoff(c) ==
    /\ \/ Goto(c, "backoff", "fetch") /\ UNCHANGED <<status, servedAt>>
       \/ canceled[c] /\ Failing(c, "backoff")
    /\ UNCHANGED <<now, caVars, sourceVars, serial, canceled, entry, seen, slowest>>

-----------------------------------------------------------------------------
(* GetStatus, after the fetch. *)

Demote(c) ==
    /\ Goto(c, "demote", "returned")
    /\ healthy' = FALSE
    /\ UNCHANGED <<now, caVars, cache, serial, canceled, entry, seen, servedAt, status, slowest>>

Promote(c) ==
    /\ Goto(c, "promote", IF CacheTTL > 0 THEN "store" ELSE "returned")
    /\ healthy' = TRUE
    /\ UNCHANGED <<now, caVars, cache, serial, canceled, entry, seen, servedAt, status, slowest>>

\* The deadline counts from the storing, not from the CA's answer.
Store(c) ==
    /\ Goto(c, "store", "returned")
    /\ cache' = Put(serial[c], [status |-> status[c], expiresAt |-> now + CacheTTL])
    /\ slowest' = IF now - servedAt[c] > slowest THEN now - servedAt[c] ELSE slowest
    /\ UNCHANGED <<now, caVars, healthy, serial, canceled, entry, seen, servedAt, status>>

\* The caller consumes the result.
Return(c) ==
    /\ Goto(c, "returned", "idle")
    /\ canceled' = [canceled EXCEPT ![c] = FALSE]
    /\ seen' = [seen EXCEPT ![c] = <<>>]
    /\ servedAt' = [servedAt EXCEPT ![c] = 0]
    /\ status' = [status EXCEPT ![c] = "none"]
    /\ UNCHANGED <<now, caVars, sourceVars, serial, entry, slowest>>

Step(c) ==
    \/ CheckHealthy(c)
    \/ CacheLoad(c)
    \/ CacheCheck(c)
    \/ FetchCanceled(c)
    \/ Fetch(c)
    \/ Backoff(c)
    \/ Demote(c)
    \/ Promote(c)
    \/ Store(c)

GetStatus(c) ==
    \/ \E s \in Serials : Begin(c, s)
    \/ Step(c)
    \/ Return(c)

-----------------------------------------------------------------------------
Next ==
    \/ Tick
    \/ \E s \in Serials : Revoke(s)
    \/ Relink
    \/ \E c \in Callers : Cancel(c) \/ GetStatus(c)

\* A lookup that has begun keeps running: goroutines are scheduled, the client
\* timeout ends every request and the timer ends every backoff.
Spec == Init /\ [][Next]_vars /\ \A c \in Callers : WF_vars(Step(c))

-----------------------------------------------------------------------------
(* Properties. *)

Points == {"idle", "check", "load", "loaded", "fetch", "backoff", "demote", "promote",
           "store", "returned"}

\* Every variable has its type; what the source caches and answers is one of
\* the three OCSP statuses.
TypeOK ==
    /\ now \in Nat
    /\ ca \in [Serials -> Records]
    /\ link \in Links
    /\ revokedAt \in [Serials -> Nat]
    /\ healthy \in BOOLEAN
    /\ DOMAIN cache \subseteq Serials
    /\ cache \in [DOMAIN cache -> [status : Statuses, expiresAt : Nat]]
    /\ pc \in [Callers -> Points]
    /\ serial \in [Callers -> Serials]
    /\ canceled \in [Callers -> BOOLEAN]
    /\ entry \in [Callers -> [status : Statuses, expiresAt : Nat]]
    /\ seen \in [Callers -> Seq(Links)]
    /\ servedAt \in [Callers -> Nat]
    /\ status \in [Callers -> Statuses \cup {"none", "error"}]
    /\ slowest \in Nat

\* A lookup fails for a reason, and not before its attempts are used up: its
\* caller was gone, the CA's last reply did not decode, or there were exactly
\* max-attempts attempts.  Whatever the outcome, only failures worth a retry
\* were retried, and never more than max-attempts requests were made.
FailureIsEarned ==
    \A c \in Callers :
        LET n == Len(seen[c])
        IN  /\ n <= maxAttempts
            /\ \A i \in 1 .. n - 1 : seen[c][i] = "down"
            /\ status[c] = "error" =>
                  \/ canceled[c]
                  \/ n > 0 /\ seen[c][n] = "garbled"
                  \/ n = maxAttempts /\ seen[c][n] = "down"

\* The cache hides a revocation for a bounded time.  Once the CA has revoked a
\* serial, `good` stays in the cache for at most cache_ttl, plus the time one
\* lookup spends between the CA's answer and the storing of it: no hit, failed
\* lookup or overwriting by a slower lookup prolongs it.
RevocationHiddenAtMostTTL ==
    \A s \in DOMAIN cache :
        cache[s].status = "good" /\ revokedAt[s] # 0
            => cache[s].expiresAt <= revokedAt[s] + CacheTTL + slowest

\* Every lookup ends, however the CA behaves and whether or not its caller
\* is still there.
LookupsEnd == \A c \in Callers : pc[c] = "check" ~> pc[c] = "returned"
=============================================================================
