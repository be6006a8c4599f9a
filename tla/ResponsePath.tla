---------------------------- MODULE ResponsePath ----------------------------
(***************************************************************************)
(* Responder.Handle without a clock, for questions of what eventually      *)
(* happens.  A cached response is fresh until its deadline lies behind the *)
(* clock and behind every reading of it in use.  Until then one request    *)
(* may find it expired already and another, with an earlier reading, not.  *)
(* Module Responder has the same steps with the clock and implements this  *)
(* one.  The steps of the source are joined to Lookup and SourceReturns by *)
(* the modules that compose this one with a source.                        *)
(***************************************************************************)
EXTENDS FiniteSets, Naturals

CONSTANTS Keys,         \* serial numbers
          Handlers,     \* goroutines serving requests
          MaxEntries    \* cache.max_entries

VARIABLES entries,  \* the cache: a function from the cached keys to entries
          path,     \* path[h]: where Handle is
          key,      \* key[h]: the serial of the request
          answer    \* answer[h]: the status in the response to return

Init ==
    /\ entries = <<>>
    /\ path = [h \in Handlers |-> "idle"]
    /\ key \in [Handlers -> Keys]
    /\ answer = [h \in Handlers |-> "none"]

Move(h, from, to) == path[h] = from /\ path' = [path EXCEPT ![h] = to]

\* A request that parses and names the issuer; any other ends without a trace.
Arrive(h, k) ==
    /\ Move(h, "idle", "get")
    /\ key' = [key EXCEPT ![h] = k]
    /\ UNCHANGED <<entries, answer>>

Aged(K) ==
    [k \in DOMAIN entries |->
        [status |-> entries[k].status, fresh |-> entries[k].fresh /\ k \notin K]]

\* Responses whose deadlines (TTL or nextUpdate) pass.
Expire(K) ==
    /\ \A k \in K : k \in DOMAIN entries /\ entries[k].fresh
    /\ entries' = Aged(K)
    /\ UNCHANGED <<path, key, answer>>

Cached(h) == key[h] \in DOMAIN entries

Fresh(h) == Cached(h) /\ entries[key[h]].fresh

\* The reading may have been the last one before the deadline.
Hit(h, from) ==
    /\ Move(h, from, "respond")
    /\ answer' = [answer EXCEPT ![h] = entries[key[h]].status]
    /\ entries' \in {entries, Aged({key[h]})}
    /\ UNCHANGED key

\* getAt under the read lock, with a reading of the clock taken before.
CacheGet(h) ==
    \/ Fresh(h) /\ Hit(h, "get")
    \/ /\ Move(h, "get", IF Cached(h) THEN "recheck" ELSE "lookup")
       /\ UNCHANGED <<entries, key, answer>>

Remove(k) == [x \in DOMAIN entries \ {k} |-> entries[x]]

\* Mutant: under the write lock, any entry is taken for a new one.
CacheRecheckPresence(h) ==
    \/ Cached(h) /\ Hit(h, "recheck")
    \/ /\ ~Cached(h)
       /\ Move(h, "recheck", "lookup")
       /\ UNCHANGED <<entries, key, answer>>

\* getAt under the write lock, with the same reading.
CacheRecheck(h) ==
    \/ Fresh(h) /\ Hit(h, "recheck")
    \/ /\ Move(h, "recheck", "lookup")
       /\ entries' = Remove(key[h])
       /\ UNCHANGED <<key, answer>>

Lookup(h) ==
    /\ Move(h, "lookup", "source")
    /\ UNCHANGED <<entries, key, answer>>

\* Whatever error GetStatus returns, the status is `unknown`.
SourceReturns(h, status) ==
    /\ Move(h, "source", "sign")
    /\ answer' = [answer EXCEPT ![h] =
           IF status \in {"good", "revoked"} THEN status ELSE "unknown"]
    /\ UNCHANGED <<entries, key>>

Put(f, k, e) == [x \in DOMAIN f \cup {k} |-> IF x = k THEN e ELSE f[x]]

\* CreateResponse, then setAt: a full cache drops an arbitrary entry first.  A
\* response whose deadline is not ahead any more is left out; the deadline may
\* still pass before the entry is there.
SignAndSet(h) ==
    LET Room == IF Cardinality(DOMAIN entries) >= MaxEntries
                THEN {Remove(k) : k \in DOMAIN entries}
                ELSE {entries}
    IN  /\ Move(h, "sign", "respond")
        /\ \/ UNCHANGED entries
           \/ \E f \in Room, fresh \in BOOLEAN :
                 entries' = Put(f, key[h], [status |-> answer[h], fresh |-> fresh])
        /\ UNCHANGED <<key, answer>>

\* CreateResponse fails: the client gets an error and nothing is cached.
SignFails(h) ==
    /\ Move(h, "sign", "idle")
    /\ answer' = [answer EXCEPT ![h] = "none"]
    /\ UNCHANGED <<entries, key>>

\* The response goes out and the goroutine ends.
Respond(h) ==
    /\ Move(h, "respond", "idle")
    /\ answer' = [answer EXCEPT ![h] = "none"]
    /\ UNCHANGED <<entries, key>>

\* The steps of a request that involve no one else.
Proceed(h) ==
    \/ CacheGet(h)
    \/ CacheRecheck(h)
    \/ SignAndSet(h)
    \/ SignFails(h)
    \/ Respond(h)

\* Beside any source.
Next ==
    \/ \E K \in SUBSET Keys : Expire(K)
    \/ \E h \in Handlers :
          \/ \E k \in Keys : Arrive(h, k)
          \/ Lookup(h)
          \/ \E status \in {"good", "revoked", "error"} : SourceReturns(h, status)
          \/ Proceed(h)

vars == <<entries, path, key, answer>>

Spec == Init /\ [][Next]_vars
=============================================================================
