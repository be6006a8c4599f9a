------------------------------ MODULE Responder ------------------------------
(***************************************************************************)
(* The responder core (internal/responder/responder.go): Handle, with its  *)
(* response cache, composed with the contract of a CRL-backed source       *)
(* (StatusSource) and with the signer.                                     *)
(*                                                                         *)
(* Handle runs in one goroutine per request.  It takes one step per        *)
(* critical section of the cache and per reading of the clock, so that     *)
(* other requests, reloads and the clock move between any two of them.     *)
(***************************************************************************)
EXTENDS Signer, CRLValidity, FiniteSets

CONSTANTS Serials,      \* certificate serial numbers, the cache keys
          CRLs,         \* the verified CRL generations
          Handlers,     \* goroutines serving requests
          MaxTime,      \* bound on the clock
          TTL,          \* cache.ttl
          MaxEntries,   \* cache.max_entries
          CacheEnabled  \* cache.enabled

\* A CRL's nextUpdate comes from DER, in whole seconds.
ASSUME ResponderAssumption ==
    /\ CRLs \subseteq [revoked : SUBSET Serials, thisUpdate : Nat, nextUpdate : Nat]
    /\ \A c \in CRLs : c.nextUpdate % Second = 0
    /\ IsFiniteSet(Serials)
    /\ MaxTime \in Nat /\ TTL \in Nat /\ MaxEntries \in Nat
    /\ CacheEnabled \in BOOLEAN

VARIABLES now, crl, up, call,   \* the source, as in StatusSource
          entries,    \* the cache: a function from the cached keys to entries
          gauge,      \* ocsp_cache_entries
          pc,         \* pc[h]: where Handle is
          key,        \* key[h]: the serial of the request
          at,         \* at[h]: the clock reading a cache operation works with
          expiresAt,  \* expiresAt[h]: setAt's deadline for the new entry
          resp,       \* resp[h]: the response to return
          hit         \* hit[h]: the response came from the cache

sourceVars  == <<now, crl, up, call>>
cacheVars   == <<entries, gauge>>
handlerVars == <<pc, key, at, expiresAt, resp, hit>>
vars == <<sourceVars, cacheVars, handlerVars>>

Source == INSTANCE StatusSource WITH Callers <- Handlers

\* A response.  The last three fields are history, not DER: what GetStatus
\* returned, the generation in memory when it did, and the time.
Response(s, status, thisUpdate, nextUpdate, cause, c, t) ==
    [serial |-> s, status |-> status, thisUpdate |-> thisUpdate,
     nextUpdate |-> nextUpdate, cause |-> cause, crl |-> c, readAt |-> t]

NoCRL == [revoked |-> {}, thisUpdate |-> 0, nextUpdate |-> 0]

\* The response variable before it is assigned: nil.
Blank(s) == Response(s, "none", 0, 0, "none", NoCRL, 0)

\* The clock is at least a second past the zero time.
Init ==
    /\ Source!Init
    /\ now >= Second
    /\ entries = <<>>
    /\ gauge = 0
    /\ pc = [h \in Handlers |-> "idle"]
    /\ key \in [Handlers -> Serials]
    /\ at = [h \in Handlers |-> 0]
    /\ expiresAt = [h \in Handlers |-> 0]
    /\ resp = [h \in Handlers |-> Blank(key[h])]
    /\ hit = [h \in Handlers |-> FALSE]

Environment ==
    /\ Source!Tick \/ Source!Install \/ Source!SetUp
    /\ UNCHANGED <<cacheVars, handlerVars>>

Goto(h, from, to) == pc[h] = from /\ pc' = [pc EXCEPT ![h] = to]

-----------------------------------------------------------------------------
(* Handle, up to the cache. *)

\* The context is live, the request parses and names the configured issuer;
\* get reads the clock before it takes the lock.
Begin(h, serial) ==
    /\ Goto(h, "idle", "get")
    /\ key' = [key EXCEPT ![h] = serial]
    /\ at' = [at EXCEPT ![h] = now]
    /\ resp' = [resp EXCEPT ![h] = Blank(serial)]
    /\ UNCHANGED <<sourceVars, cacheVars, expiresAt, hit>>

\* A canceled context, a malformed request, another issuer: an error.
Reject(h) ==
    /\ Goto(h, "idle", "returned")
    /\ UNCHANGED <<sourceVars, cacheVars, key, at, expiresAt, resp, hit>>

-----------------------------------------------------------------------------
(* cache.getAt. *)

Cached(h) == key[h] \in DOMAIN entries

Fresh(h) == Cached(h) /\ at[h] < entries[key[h]].expiresAt

Hit(h) ==
    /\ resp' = [resp EXCEPT ![h] = entries[key[h]].data]
    /\ hit' = [hit EXCEPT ![h] = TRUE]
    /\ UNCHANGED <<sourceVars, cacheVars, key, at, expiresAt>>

\* The reading at[h] is not used after a miss; clearing it saves states.
Miss(h) ==
    /\ at' = [at EXCEPT ![h] = 0]
    /\ UNCHANGED <<sourceVars, key, expiresAt, resp, hit>>

\* Under the read lock.
CacheGet(h) ==
    \/ CacheEnabled /\ Fresh(h) /\ Goto(h, "get", "returned") /\ Hit(h)
    \/ /\ CacheEnabled /\ Cached(h) /\ ~Fresh(h)
       /\ Goto(h, "get", "expired")
       /\ UNCHANGED <<sourceVars, cacheVars, key, at, expiresAt, resp, hit>>
    \/ /\ ~CacheEnabled \/ ~Cached(h)
       /\ Goto(h, "get", "lookup") /\ Miss(h) /\ UNCHANGED cacheVars

Without(k) == [x \in DOMAIN entries \ {k} |-> entries[x]]

\* Mutant: no second look under the write lock.
CacheDelete(h) ==
    /\ entries' = Without(key[h])
    /\ gauge' = Cardinality(DOMAIN entries')
    /\ Goto(h, "expired", "lookup") /\ Miss(h)

\* Under the write lock: another request may have replaced or removed the
\* entry since the read lock was released.
CacheRecheck(h) ==
    \/ Fresh(h) /\ Goto(h, "expired", "returned") /\ Hit(h)
    \/ /\ ~Fresh(h)
       /\ entries' = Without(key[h])
       /\ gauge' = IF Cached(h) THEN Cardinality(DOMAIN entries') ELSE gauge
       /\ Goto(h, "expired", "lookup") /\ Miss(h)

-----------------------------------------------------------------------------
(* The source and the signer. *)

CallSource(h) ==
    /\ Goto(h, "lookup", "source")
    /\ Source!Call(h, key[h])
    /\ UNCHANGED <<cacheVars, key, at, expiresAt, resp, hit>>

SourceAdmits(h) ==
    /\ Source!Admit(h)
    /\ UNCHANGED <<cacheVars, handlerVars>>

\* GetStatus returns.  Handle passes its own issuer, so the issuer check of
\* the source never fails; the request's context may be canceled by now.
SourceReturns(h) ==
    /\ Goto(h, "source", "sign")
    /\ \/ Source!Answer(h)
       \/ \E err \in {"unhealthy", "canceled"} : Source!Refuse(h, err)
    /\ resp' = [resp EXCEPT ![h] =
           Response(key[h], "none", 0, 0, call'[h].status, crl, now)]
    /\ UNCHANGED <<cacheVars, key, at, expiresAt, hit>>

\* Mutant: the error is passed on as a status.
StatusAsReturned(h) == call[h].status

\* An error of the source, whatever it is, becomes `unknown` without a deadline.
StatusOf(h) == IF call[h].status \in Errors THEN "unknown" ELSE call[h].status

\* CreateResponse succeeds.
Sign(h) ==
    /\ Goto(h, "sign", "set")
    /\ Source!Return(h)
    /\ resp' = [resp EXCEPT ![h] =
           Response(key[h], StatusOf(h), Truncate(now),
                    signedNextUpdate(now, call[h].nextUpdate),
                    resp[h].cause, resp[h].crl, resp[h].readAt)]
    /\ UNCHANGED <<cacheVars, key, at, expiresAt, hit>>

\* CreateResponse fails: Handle returns the error and caches nothing.
SignFails(h) ==
    /\ Goto(h, "sign", "returned")
    /\ Source!Return(h)
    /\ UNCHANGED <<cacheVars, key, at, expiresAt, resp, hit>>

-----------------------------------------------------------------------------
(* cache.setAt. *)

\* Mutant: the TTL alone.
TTLDeadline(t, nextUpdate) == t + TTL

\* The deadline of an entry inserted at t: the TTL, and no later than the
\* nextUpdate the response was signed with.
Deadline(t, nextUpdate) ==
    IF nextUpdate # 0 /\ nextUpdate < t + TTL THEN nextUpdate ELSE t + TTL

\* The clock reading and the early returns.
CacheDeadline(h) ==
    LET deadline == Deadline(now, resp[h].nextUpdate)
    IN  /\ IF CacheEnabled /\ MaxEntries > 0 /\ now < deadline
           THEN Goto(h, "set", "insert") /\ expiresAt' = [expiresAt EXCEPT ![h] = deadline]
           ELSE Goto(h, "set", "returned") /\ UNCHANGED expiresAt
        /\ UNCHANGED <<sourceVars, cacheVars, key, at, resp, hit>>

Put(f, k, e) == [x \in DOMAIN f \cup {k} |-> IF x = k THEN e ELSE f[x]]

\* Mutant: one entry too many.
OverFull == Cardinality(DOMAIN entries) > MaxEntries

Full == Cardinality(DOMAIN entries) >= MaxEntries

\* Under the write lock.  A full cache drops an arbitrary entry first, even
\* when the key is already there.
CacheInsert(h) ==
    LET entry == [data |-> resp[h], expiresAt |-> expiresAt[h]]
    IN  /\ Goto(h, "insert", "returned")
        /\ IF Full
           THEN \E k \in DOMAIN entries : entries' = Put(Without(k), key[h], entry)
           ELSE entries' = Put(entries, key[h], entry)
        /\ gauge' = Cardinality(DOMAIN entries')
        /\ expiresAt' = [expiresAt EXCEPT ![h] = 0]
        /\ UNCHANGED <<sourceVars, key, at, resp, hit>>

\* The HTTP handler writes the response or the error and the goroutine ends.
Deliver(h) ==
    /\ Goto(h, "returned", "idle")
    /\ at' = [at EXCEPT ![h] = 0]
    /\ resp' = [resp EXCEPT ![h] = Blank(key[h])]
    /\ hit' = [hit EXCEPT ![h] = FALSE]
    /\ UNCHANGED <<sourceVars, cacheVars, key, expiresAt>>

Handle(h) ==
    \/ \E serial \in Serials : Begin(h, serial)
    \/ Reject(h)
    \/ CacheGet(h)
    \/ CacheRecheck(h)
    \/ CallSource(h)
    \/ SourceAdmits(h)
    \/ SourceReturns(h)
    \/ Sign(h)
    \/ SignFails(h)
    \/ CacheDeadline(h)
    \/ CacheInsert(h)
    \/ Deliver(h)

Next == Environment \/ \E h \in Handlers : Handle(h)

Spec == Init /\ [][Next]_vars

-----------------------------------------------------------------------------
(* What ResponsePath sees of the responder. *)

\* Request h has yet to look up k, and will find the entry fresh.
Finds(h, k) ==
    pc[h] \in {"get", "expired"} /\ key[h] = k /\ at[h] < entries[k].expiresAt

MayHit(k) == now < entries[k].expiresAt \/ \E h \in Handlers : Finds(h, k)

\* A request that ends in an error is back where it came from.
PathOf(h) ==
    CASE pc[h] = "expired" -> "recheck"
      [] pc[h] \in {"set", "insert"} -> "sign"
      [] pc[h] = "returned" -> IF resp[h].status = "none" THEN "idle" ELSE "respond"
      [] OTHER -> pc[h]

AnswerOf(h) == IF pc[h] = "sign" THEN StatusOf(h) ELSE resp[h].status

pathEntries == [k \in DOMAIN entries |-> [status |-> entries[k].data.status, fresh |-> MayHit(k)]]
paths == [h \in Handlers |-> PathOf(h)]
answers == [h \in Handlers |-> AnswerOf(h)]

Path == INSTANCE ResponsePath WITH Keys <- Serials, entries <- pathEntries,
                                   path <- paths, answer <- answers

-----------------------------------------------------------------------------
(* Properties. *)

Responses ==
    [serial : Serials, status : {"none", "good", "revoked", "unknown"},
     thisUpdate : Nat, nextUpdate : Nat,
     cause : {"none", "good", "revoked", "unhealthy", "canceled"},
     crl : CRLs \cup {NoCRL}, readAt : Nat]

\* Every variable has its type; a cached response is a signed one.
TypeOK ==
    /\ now \in Nat
    /\ crl \in CRLs
    /\ up \in BOOLEAN
    /\ call \in [Handlers -> CallRecords({"idle", "called", "admitted", "returned"}, Serials)]
    /\ DOMAIN entries \subseteq Serials
    /\ entries \in [DOMAIN entries -> [data : Responses, expiresAt : Nat]]
    /\ gauge \in Nat
    /\ pc \in [Handlers -> {"idle", "get", "expired", "lookup", "source", "sign",
                            "set", "insert", "returned"}]
    /\ key \in [Handlers -> Serials]
    /\ at \in [Handlers -> Nat]
    /\ expiresAt \in [Handlers -> Nat]
    /\ resp \in [Handlers -> Responses]
    /\ hit \in [Handlers -> BOOLEAN]

\* The responses that exist: about to be returned, about to be cached, cached.
Issued == {resp[h] : h \in Handlers} \cup {entries[k].data : k \in DOMAIN entries}

\* A definite response never says more than the CRL it came from.  It gives
\* the status which that one generation gives the serial, and its nextUpdate
\* is not past the generation's own: no reload, delay or cache lifetime in
\* Handle lets a client rely on `good` after the CRL behind it has expired.
NeverOutlivesItsCRL ==
    \A r \in Issued : r.status \in {"good", "revoked"} =>
        /\ r.status = StatusIn(r.crl, r.serial)
        /\ r.crl.nextUpdate # 0 => r.nextUpdate <= r.crl.nextUpdate

\* A request gets the answer for its own serial, and from the cache only a
\* response still inside its signed validity when the request looked it up,
\* whatever other requests inserted, replaced or deleted in between.
ServesOwnFreshResponse ==
    \A h \in Handlers :
        /\ resp[h].serial = key[h]
        /\ hit[h] => at[h] < resp[h].nextUpdate

\* The cache never holds more than max_entries responses, with any number of
\* requests inserting at once, and the ocsp_cache_entries gauge is its size.
CacheBounded ==
    /\ Cardinality(DOMAIN entries) <= MaxEntries
    /\ gauge = Cardinality(DOMAIN entries)

\* The lock upgrade in getAt loses nothing: a response leaves the cache only
\* once it has expired, or when setAt evicts it from a full cache.
OnlyExpiredOrEvicted ==
    [][\A k \in DOMAIN entries \ DOMAIN entries' :
          \/ entries[k].expiresAt <= now
          \/ Full /\ \E h \in Handlers : pc[h] = "insert" /\ pc'[h] = "returned"]_vars

\* A signed response is not expired already at the time its status was read:
\* a CRL that GetStatus takes as usable gives responses a client can use.
UsableCRLGivesUsableResponse ==
    \A r \in Issued : r.status # "none" => Truncate(r.readAt) <= r.nextUpdate

\* Handle is the response path that the deployed compositions use: with the
\* clock, the CRL generations and the signing left out, every step of every
\* request is one that ResponsePath allows, although the clock is read before
\* the lock is taken, and so requests that look at one entry go by different
\* readings.
ImplementsResponsePath == Path!Spec

\* While the source is down the responder answers `unknown`: a response handed
\* out by the cache at that time is no exception.
DownMeansUnknown ==
    [][\A h \in Handlers :
          ~up /\ pc[h] = "get" /\ pc'[h] = "returned" => resp'[h].status = "unknown"]_vars

\* `unknown` is answered when the status source fails: what the cache holds
\* for later requests never comes from one client having gone away.
UnknownOnlyFromSourceFailure ==
    \A k \in DOMAIN entries :
        entries[k].data.status = "unknown" => entries[k].data.cause = "unhealthy"
=============================================================================
