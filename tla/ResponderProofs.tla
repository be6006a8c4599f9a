--------------------------- MODULE ResponderProofs ---------------------------
(***************************************************************************)
(* Proofs about Responder, for every number of requests, serials, CRL      *)
(* generations and cache entries, and every TTL, validity and grace.       *)
(***************************************************************************)
EXTENDS Responder, FiniteSetTheorems, TLAPS

(* The inductive invariant. *)

\* What NeverOutlivesItsCRL says of one response.
Honest(r) ==
    r.status \in {"good", "revoked"} =>
        /\ r.status = StatusIn(r.crl, r.serial)
        /\ r.crl.nextUpdate # 0 => r.nextUpdate <= r.crl.nextUpdate

\* A response that CreateResponse returned.
Signed(r) == r.status # "none" /\ r.nextUpdate # 0

\* What a request knows at each point of Handle.
HandlerInv(h) ==
    /\ resp[h].serial = key[h]
    /\ Honest(resp[h])
    /\ pc[h] \in {"idle", "get", "expired", "lookup", "source", "sign"} => resp[h].status = "none"
    /\ pc[h] \in {"source", "sign"} => call[h].serial = key[h]
    /\ pc[h] = "sign" =>
          /\ call[h].pc = "returned" /\ call[h].status # "none"
          /\ resp[h].crl \in CRLs
          /\ call[h].status \in {"good", "revoked"} =>
                /\ call[h].status = StatusIn(resp[h].crl, key[h])
                /\ call[h].nextUpdate = resp[h].crl.nextUpdate
          /\ call[h].status \in Errors => call[h].nextUpdate = 0
    /\ pc[h] \in {"set", "insert"} => Signed(resp[h])
    /\ pc[h] = "insert" => expiresAt[h] <= resp[h].nextUpdate
    /\ hit[h] => pc[h] = "returned" /\ at[h] < resp[h].nextUpdate
    /\ at[h] <= now

\* What the cache guarantees about each entry.
EntryInv(k) ==
    /\ entries[k].data.serial = k
    /\ Honest(entries[k].data)
    /\ Signed(entries[k].data)
    /\ entries[k].expiresAt <= entries[k].data.nextUpdate

IInv ==
    /\ TypeOK
    /\ now >= Second
    /\ \A h \in Handlers : HandlerInv(h)
    /\ \A k \in DOMAIN entries : EntryInv(k)

-----------------------------------------------------------------------------
(* Lemmas about the operators. *)

\* Truncation to whole seconds rounds down, by less than a second.
LEMMA TruncateBelow ==
    ASSUME NEW t \in Nat
    PROVE  Truncate(t) \in Nat /\ Truncate(t) <= t /\ t - Second < Truncate(t)
  BY SignerAssumption DEF Truncate

\* Truncation preserves the order of times.
LEMMA TruncateMonotonic ==
    ASSUME NEW s \in Nat, NEW t \in Nat, s <= t
    PROVE  Truncate(s) <= Truncate(t)
  BY SignerAssumption DEF Truncate

\* A whole second is its own truncation.
LEMMA TruncateWhole ==
    ASSUME NEW t \in Nat, t % Second = 0
    PROVE  Truncate(t) = t
  BY SignerAssumption DEF Truncate

\* CreateResponse never signs past the source's deadline, and what it signs is
\* never the zero time.
LEMMA SignedNextUpdateBound ==
    ASSUME NEW t \in Nat, t >= Second, NEW d \in Nat, d % Second = 0
    PROVE  /\ signedNextUpdate(t, d) \in Nat
           /\ signedNextUpdate(t, d) # 0
           /\ d # 0 => signedNextUpdate(t, d) <= d
<1> DEFINE horizon == t + Validity
<1>1. horizon \in Nat /\ horizon >= Second
  BY SignerAssumption
<1>2. Truncate(horizon) \in Nat /\ Truncate(horizon) <= horizon /\ Truncate(horizon) # 0
  BY <1>1, TruncateBelow, SignerAssumption
<1>3. Truncate(d) = d
  BY TruncateWhole
<1>4. CASE d # 0 /\ d < horizon
  BY <1>3, <1>4 DEF signedNextUpdate
<1>5. CASE ~(d # 0 /\ d < horizon)
  BY <1>1, <1>2, <1>5 DEF signedNextUpdate
<1> QED
  BY <1>4, <1>5, Zenon

\* setAt's deadline is not past a signed nextUpdate.
LEMMA DeadlineBound ==
    ASSUME NEW t \in Nat, NEW n \in Nat, n # 0
    PROVE  Deadline(t, n) \in Nat /\ Deadline(t, n) <= n
  BY ResponderAssumption DEF Deadline

\* Deleting an entry removes its key and changes no other entry.
LEMMA WithoutFacts ==
    ASSUME NEW k
    PROVE  /\ DOMAIN Without(k) = DOMAIN entries \ {k}
           /\ \A x \in DOMAIN entries \ {k} : Without(k)[x] = entries[x]
  BY DEF Without

-----------------------------------------------------------------------------

\* The initial state satisfies the invariant.
LEMMA InitEstablishesIInv == Init => IInv
<1> SUFFICES ASSUME Init PROVE IInv
  OBVIOUS
<1> USE DEF Init, Source!Init
<1>1. call \in [Handlers -> CallRecords({"idle", "called", "admitted", "returned"}, Serials)]
  BY DEF Source!Pending, CallRecords, Errors
<1>2. resp \in [Handlers -> Responses]
  BY DEF Blank, Response, Responses
<1>3. TypeOK
  BY <1>1, <1>2, ResponderAssumption DEF TypeOK
<1>4. ASSUME NEW h \in Handlers PROVE HandlerInv(h)
  BY <1>3, ResponderAssumption, SMTT(30) DEF TypeOK, HandlerInv, Honest, Blank, Response
<1> QED
  BY <1>3, <1>4 DEF IInv

-----------------------------------------------------------------------------
(* The inductive step.  A step of one request leaves the others alone, so  *)
(* each action needs an argument for its own request and for the cache.    *)

Local(h) == <<pc[h], key[h], at[h], expiresAt[h], resp[h], hit[h], call[h]>>

\* The invariant of a request depends on its own variables and the clock.
LEMMA LocalKeepsHandlerInv ==
    ASSUME TypeOK, NEW d \in Handlers, HandlerInv(d), UNCHANGED Local(d),
           now' \in Nat, now <= now'
    PROVE  HandlerInv(d)'
  BY DEF HandlerInv, Local, TypeOK, Honest, Signed

\* The source moves on its own: the clock, a new generation, up or down.
LEMMA EnvironmentKeepsIInv ==
    ASSUME IInv, Environment
    PROVE  IInv'
<1>1. TypeOK' /\ now <= now' /\ UNCHANGED <<cacheVars, handlerVars, call>>
  BY DEF IInv, Environment, Source!Tick, Source!Install, Source!SetUp, TypeOK,
         cacheVars, handlerVars
<1>2. ASSUME NEW d \in Handlers PROVE HandlerInv(d)'
  BY <1>1, LocalKeepsHandlerInv, Zenon DEF IInv, TypeOK, Local, handlerVars
<1>3. ASSUME NEW k \in DOMAIN entries PROVE EntryInv(k)'
  BY <1>1 DEF IInv, EntryInv, cacheVars
<1> QED
  BY <1>1, <1>2, <1>3, SignerAssumption DEF IInv, TypeOK, cacheVars

\* A step of one request that leaves the cache alone.
LEMMA StepKeepsIInv ==
    ASSUME IInv, NEW h \in Handlers, TypeOK', HandlerInv(h)',
           UNCHANGED <<now, cacheVars>>,
           \A d \in Handlers \ {h} : UNCHANGED Local(d)
    PROVE  IInv'
<1>1. ASSUME NEW d \in Handlers PROVE HandlerInv(d)'
  <2>1. CASE d = h
    BY <2>1, Zenon
  <2>2. CASE d # h
    BY <2>2, LocalKeepsHandlerInv DEF IInv, TypeOK
  <2> QED BY <2>1, <2>2, Zenon
<1>2. ASSUME NEW k \in DOMAIN entries PROVE EntryInv(k)'
  BY DEF IInv, EntryInv, cacheVars
<1> QED
  BY <1>1, <1>2, Zenon DEF IInv, cacheVars

\* A request begins.
LEMMA BeginKeepsIInv ==
    ASSUME IInv, NEW h \in Handlers, NEW serial \in Serials, Begin(h, serial)
    PROVE  IInv'
<1> USE DEF Begin, Goto, sourceVars, cacheVars
<1>1. Blank(serial) \in Responses
  BY Zenon DEF Blank, Response, Responses
<1>2. TypeOK'
  BY <1>1, Zenon DEF IInv, TypeOK
<1>3. HandlerInv(h)'
  BY DEF IInv, TypeOK, HandlerInv, Honest, Blank, Response
<1>4. \A d \in Handlers \ {h} : UNCHANGED Local(d)
  BY DEF IInv, TypeOK, Local
<1> QED
  BY <1>2, <1>3, <1>4, StepKeepsIInv, Zenon

\* Handle rejects the request.
LEMMA RejectKeepsIInv ==
    ASSUME IInv, NEW h \in Handlers, Reject(h)
    PROVE  IInv'
<1> USE DEF Reject, Goto, sourceVars, cacheVars
<1>1. TypeOK'
  BY Zenon DEF IInv, TypeOK
<1>2. HandlerInv(h)'
  BY DEF IInv, TypeOK, HandlerInv
<1>3. \A d \in Handlers \ {h} : UNCHANGED Local(d)
  BY DEF IInv, TypeOK, Local
<1> QED
  BY <1>1, <1>2, <1>3, StepKeepsIInv, Zenon

\* A cache hit, with or without the write lock: the entry's own invariant is
\* what the response needs.
LEMMA HitKeepsIInv ==
    ASSUME IInv, NEW h \in Handlers, NEW from, Fresh(h),
           Goto(h, from, "returned"), Hit(h)
    PROVE  IInv'
<1> USE DEF Goto, Hit, sourceVars, cacheVars
<1> DEFINE e == entries[key[h]]
<1>1. /\ key[h] \in DOMAIN entries /\ at[h] < e.expiresAt
      /\ e \in [data : Responses, expiresAt : Nat]
      /\ EntryInv(key[h])
  BY Zenon DEF IInv, TypeOK, Fresh, Cached
<1>2. TypeOK'
  BY <1>1, Zenon DEF IInv, TypeOK
<1>3. /\ resp'[h] = e.data /\ pc'[h] = "returned" /\ key'[h] = key[h] /\ at'[h] = at[h]
      /\ now' = now
  BY Zenon DEF IInv, TypeOK
<1>4. at[h] < e.data.nextUpdate
  BY <1>1, SMTT(30) DEF EntryInv, Responses, IInv, TypeOK
<1>5. HandlerInv(h)'
  BY <1>1, <1>3, <1>4, Zenon DEF IInv, HandlerInv, EntryInv, Honest
<1>6. \A d \in Handlers \ {h} : UNCHANGED Local(d)
  BY DEF IInv, TypeOK, Local
<1> QED
  BY <1>2, <1>5, <1>6, StepKeepsIInv, Zenon

\* The lookup under the read lock.
LEMMA CacheGetKeepsIInv ==
    ASSUME IInv, NEW h \in Handlers, CacheGet(h)
    PROVE  IInv'
<1>1. CASE Fresh(h) /\ Goto(h, "get", "returned") /\ Hit(h)
  BY <1>1, HitKeepsIInv, Zenon
<1>2. CASE /\ Goto(h, "get", "expired")
           /\ UNCHANGED <<sourceVars, cacheVars, key, at, expiresAt, resp, hit>>
  <2> USE <1>2 DEF Goto, sourceVars, cacheVars
  <2>1. TypeOK'
    BY Zenon DEF IInv, TypeOK
  <2>2. HandlerInv(h)'
    BY DEF IInv, TypeOK, HandlerInv
  <2>3. \A d \in Handlers \ {h} : UNCHANGED Local(d)
    BY DEF IInv, TypeOK, Local
  <2> QED
    BY <2>1, <2>2, <2>3, StepKeepsIInv, Zenon
<1>3. CASE Goto(h, "get", "lookup") /\ Miss(h) /\ UNCHANGED cacheVars
  <2> USE <1>3 DEF Goto, Miss, sourceVars, cacheVars
  <2>1. TypeOK'
    BY Zenon DEF IInv, TypeOK
  <2>2. HandlerInv(h)'
    BY DEF IInv, TypeOK, HandlerInv
  <2>3. \A d \in Handlers \ {h} : UNCHANGED Local(d)
    BY DEF IInv, TypeOK, Local
  <2> QED
    BY <2>1, <2>2, <2>3, StepKeepsIInv, Zenon
<1> QED
  BY <1>1, <1>2, <1>3 DEF CacheGet

\* The second look under the write lock.
LEMMA CacheRecheckKeepsIInv ==
    ASSUME IInv, NEW h \in Handlers, CacheRecheck(h)
    PROVE  IInv'
<1>1. CASE Fresh(h) /\ Goto(h, "expired", "returned") /\ Hit(h)
  BY <1>1, HitKeepsIInv, Zenon
<1>2. CASE /\ entries' = Without(key[h])
           /\ gauge' = IF Cached(h) THEN Cardinality(DOMAIN entries') ELSE gauge
           /\ Goto(h, "expired", "lookup") /\ Miss(h)
  <2> USE <1>2 DEF Goto, Miss, sourceVars
  <2>1. /\ DOMAIN entries' \subseteq DOMAIN entries
        /\ \A k \in DOMAIN entries' : entries'[k] = entries[k]
        /\ entries' = [k \in DOMAIN entries' |-> entries'[k]]
    BY DEF Without
  <2>2. gauge' \in Nat
    <3>1. IsFiniteSet(DOMAIN entries')
      BY <2>1, ResponderAssumption, FS_Subset, Zenon DEF IInv, TypeOK
    <3> QED
      BY <3>1, FS_CardinalityType, Zenon DEF IInv, TypeOK
  <2>3. TypeOK'
    BY <2>1, <2>2, Zenon DEF IInv, TypeOK
  <2>4. HandlerInv(h)'
    BY DEF IInv, TypeOK, HandlerInv
  <2>5. ASSUME NEW d \in Handlers \ {h} PROVE HandlerInv(d)'
    BY LocalKeepsHandlerInv DEF IInv, TypeOK, Local
  <2>6. ASSUME NEW k \in DOMAIN entries' PROVE EntryInv(k)'
    BY <2>1, Zenon DEF IInv, EntryInv
  <2> QED
    BY <2>3, <2>4, <2>5, <2>6, Zenon DEF IInv
<1> QED
  BY <1>1, <1>2 DEF CacheRecheck

\* Handle calls GetStatus.
LEMMA CallSourceKeepsIInv ==
    ASSUME IInv, NEW h \in Handlers, CallSource(h)
    PROVE  IInv'
<1> USE DEF CallSource, Goto, cacheVars, Source!Call, Source!Pending
<1>1. TypeOK'
  BY Zenon DEF IInv, TypeOK, CallRecords, Errors
<1>2. HandlerInv(h)'
  BY DEF IInv, TypeOK, HandlerInv
<1>3. \A d \in Handlers \ {h} : UNCHANGED Local(d)
  BY DEF IInv, TypeOK, Local
<1> QED
  BY <1>1, <1>2, <1>3, StepKeepsIInv, Zenon

\* GetStatus gets past its first checks.
LEMMA SourceAdmitsKeepsIInv ==
    ASSUME IInv, NEW h \in Handlers, SourceAdmits(h)
    PROVE  IInv'
<1> USE DEF SourceAdmits, cacheVars, handlerVars, Source!Admit, Source!Pending
<1>1. TypeOK'
  BY Zenon DEF IInv, TypeOK, CallRecords, Errors
<1>2. pc[h] # "sign"
  BY Zenon DEF IInv, HandlerInv
<1>3. HandlerInv(h)'
  BY <1>2 DEF IInv, TypeOK, HandlerInv
<1>4. \A d \in Handlers \ {h} : UNCHANGED Local(d)
  BY Zenon DEF IInv, TypeOK, Local
<1> QED
  BY <1>1, <1>3, <1>4, StepKeepsIInv, Zenon

\* GetStatus returns: an answer agrees with the generation it was read from.
LEMMA SourceReturnsKeepsIInv ==
    ASSUME IInv, NEW h \in Handlers, SourceReturns(h)
    PROVE  IInv'
<1> USE DEF SourceReturns, Goto, cacheVars
<1>1. PICK status \in {"good", "revoked", "unhealthy", "canceled"}, n \in Nat :
        /\ call' = [call EXCEPT ![h] = Result(call[h].serial, status, n)]
        /\ status \in {"good", "revoked"} =>
              status = StatusIn(crl, call[h].serial) /\ n = crl.nextUpdate
        /\ status \in Errors => n = 0
        /\ UNCHANGED <<now, crl, up>>
  <2>1. CASE Source!Answer(h)
    <3>1. crl.nextUpdate \in Nat
      BY ResponderAssumption DEF IInv, TypeOK
    <3> QED
      BY <2>1, <3>1, Zenon DEF Source!Answer, Source!Result, Result, Source!StatusIn, StatusIn, Errors
  <2>2. ASSUME NEW err \in {"unhealthy", "canceled"}, Source!Refuse(h, err)
        PROVE  \E status \in {"good", "revoked", "unhealthy", "canceled"}, n \in Nat :
                 /\ call' = [call EXCEPT ![h] = Result(call[h].serial, status, n)]
                 /\ status \in {"good", "revoked"} =>
                       status = StatusIn(crl, call[h].serial) /\ n = crl.nextUpdate
                 /\ status \in Errors => n = 0
                 /\ UNCHANGED <<now, crl, up>>
    BY <2>2, Zenon DEF Source!Refuse, Source!Result, Result
  <2> QED
    BY <2>1, <2>2, Zenon
<1>2. call'[h] = Result(call[h].serial, status, n)
  BY <1>1 DEF IInv, TypeOK
<1>3. resp'[h] = Response(key[h], "none", 0, 0, status, crl, now)
  BY <1>2 DEF IInv, TypeOK, Result
<1>4. Response(key[h], "none", 0, 0, status, crl, now) \in Responses
  BY Zenon DEF IInv, TypeOK, Response, Responses
<1>5. TypeOK'
  BY <1>1, <1>2, <1>3, <1>4, Zenon DEF IInv, TypeOK, CallRecords, Errors, Result
<1>6. HandlerInv(h)'
  BY <1>1, <1>2, <1>3, Zenon DEF IInv, TypeOK, HandlerInv, Honest, Response, Result
<1>7. \A d \in Handlers \ {h} : UNCHANGED Local(d)
  BY <1>1 DEF IInv, TypeOK, Local
<1> QED
  BY <1>1, <1>5, <1>6, <1>7, StepKeepsIInv, Zenon

\* CreateResponse signs: the deadline it signs is not past the source's.
LEMMA SignKeepsIInv ==
    ASSUME IInv, NEW h \in Handlers, Sign(h)
    PROVE  IInv'
<1> USE DEF Sign, Goto, cacheVars
<1> DEFINE n == call[h].nextUpdate
           r == Response(key[h], StatusOf(h), Truncate(now), signedNextUpdate(now, n),
                         resp[h].cause, resp[h].crl, resp[h].readAt)
<1>1. /\ HandlerInv(h) /\ pc[h] = "sign" /\ now \in Nat /\ now >= Second
      /\ resp[h] \in Responses
      /\ call[h] \in CallRecords({"idle", "called", "admitted", "returned"}, Serials)
  BY Zenon DEF IInv, TypeOK
<1>2. n \in Nat /\ n % Second = 0
  <2>1. CASE call[h].status \in {"good", "revoked"}
    BY <1>1, <2>1, ResponderAssumption, Zenon DEF HandlerInv
  <2>2. CASE call[h].status \in Errors
    BY <1>1, <2>2, SignerAssumption DEF HandlerInv
  <2> QED
    BY <1>1, <2>1, <2>2, Zenon DEF HandlerInv, CallRecords
<1>3. /\ signedNextUpdate(now, n) \in Nat /\ signedNextUpdate(now, n) # 0
      /\ n # 0 => signedNextUpdate(now, n) <= n
  BY <1>1, <1>2, SignedNextUpdateBound, Zenon
<1>4. StatusOf(h) \in {"good", "revoked", "unknown"}
  BY <1>1, Zenon DEF StatusOf, HandlerInv, CallRecords
<1>5. r \in Responses
  BY <1>1, <1>3, <1>4, TruncateBelow, Zenon DEF Response, Responses, IInv, TypeOK
<1>6. Honest(r)
  BY <1>1, <1>3, <1>4 DEF Honest, HandlerInv, Response, StatusOf, Errors
<1>7. resp'[h] = r
  BY DEF IInv, TypeOK
<1>8. call' = [call EXCEPT ![h] = Pending("idle", call[h].serial)] /\ UNCHANGED <<now, crl, up>>
  BY DEF Source!Return, Source!Pending, Pending
<1>9. TypeOK'
  BY <1>1, <1>5, <1>8, Zenon DEF IInv, TypeOK, CallRecords, Errors, Pending
<1>10. HandlerInv(h)'
  BY <1>1, <1>3, <1>4, <1>6, <1>7, <1>8, Zenon DEF IInv, TypeOK, HandlerInv, Signed, Response
<1>11. \A d \in Handlers \ {h} : UNCHANGED Local(d)
  BY <1>8 DEF IInv, TypeOK, Local
<1> QED
  BY <1>8, <1>9, <1>10, <1>11, StepKeepsIInv

\* CreateResponse fails.
LEMMA SignFailsKeepsIInv ==
    ASSUME IInv, NEW h \in Handlers, SignFails(h)
    PROVE  IInv'
<1> USE DEF SignFails, Goto, cacheVars, Source!Return, Source!Pending
<1>1. call[h] \in CallRecords({"idle", "called", "admitted", "returned"}, Serials)
  BY DEF IInv, TypeOK
<1>2. TypeOK'
  BY <1>1, Zenon DEF IInv, TypeOK, CallRecords, Errors
<1>3. HandlerInv(h)'
  BY DEF IInv, TypeOK, HandlerInv
<1>4. \A d \in Handlers \ {h} : UNCHANGED Local(d)
  BY DEF IInv, TypeOK, Local
<1> QED
  BY <1>2, <1>3, <1>4, StepKeepsIInv, Zenon

\* setAt computes the deadline of the entry, or returns early.
LEMMA CacheDeadlineKeepsIInv ==
    ASSUME IInv, NEW h \in Handlers, CacheDeadline(h)
    PROVE  IInv'
<1> USE DEF CacheDeadline, Goto, sourceVars, cacheVars
<1> DEFINE deadline == Deadline(now, resp[h].nextUpdate)
<1>1. /\ HandlerInv(h) /\ pc[h] = "set" /\ now \in Nat /\ resp[h].nextUpdate \in Nat
  BY Zenon DEF IInv, TypeOK, Responses
<1>2. deadline \in Nat /\ deadline <= resp[h].nextUpdate
  BY <1>1, DeadlineBound, Zenon DEF HandlerInv, Signed
<1>3. TypeOK'
  BY <1>2, SMTT(30) DEF IInv, TypeOK
<1>4. HandlerInv(h)'
  BY <1>1, <1>2 DEF IInv, TypeOK, HandlerInv, Honest, Signed
<1>5. \A d \in Handlers \ {h} : UNCHANGED Local(d)
  BY DEF IInv, TypeOK, Local
<1> QED
  BY <1>3, <1>4, <1>5, StepKeepsIInv, Zenon

\* What setAt leaves in the cache: the new entry, and none but old ones beside.
LEMMA StoreFacts ==
    ASSUME NEW h \in Handlers, CacheInsert(h)
    PROVE  LET entry == [data |-> resp[h], expiresAt |-> expiresAt[h]]
           IN  /\ DOMAIN entries' \subseteq DOMAIN entries \cup {key[h]}
               /\ \A k \in DOMAIN entries' :
                     entries'[k] = IF k = key[h] THEN entry ELSE entries[k]
               /\ entries' = [k \in DOMAIN entries' |-> entries'[k]]
<1> DEFINE entry == [data |-> resp[h], expiresAt |-> expiresAt[h]]
           Stored(f) == entries' = Put(f, key[h], entry)
<1>1. Stored(entries) \/ \E k \in DOMAIN entries : Stored(Without(k))
  BY DEF CacheInsert
<1> HIDE DEF entry
<1>2. ASSUME NEW f, Stored(f),
             DOMAIN f \subseteq DOMAIN entries,
             \A x \in DOMAIN f : f[x] = entries[x]
      PROVE  /\ DOMAIN entries' \subseteq DOMAIN entries \cup {key[h]}
             /\ \A k \in DOMAIN entries' :
                   entries'[k] = IF k = key[h] THEN entry ELSE entries[k]
             /\ entries' = [k \in DOMAIN entries' |-> entries'[k]]
  BY <1>2 DEF Put
<1>3. CASE Stored(entries)
  BY <1>2, <1>3 DEF entry
<1>4. ASSUME NEW k \in DOMAIN entries, Stored(Without(k))
      PROVE  /\ DOMAIN entries' \subseteq DOMAIN entries \cup {key[h]}
             /\ \A x \in DOMAIN entries' :
                   entries'[x] = IF x = key[h] THEN entry ELSE entries[x]
             /\ entries' = [x \in DOMAIN entries' |-> entries'[x]]
  <2> HIDE DEF Stored
  <2> QED
    BY <1>2, <1>4, WithoutFacts, Zenon
<1> QED
  BY <1>1, <1>3, <1>4 DEF entry

\* setAt inserts: the new entry inherits the invariant of the request, and the
\* entries that stay keep theirs.
LEMMA CacheInsertKeepsIInv ==
    ASSUME IInv, NEW h \in Handlers, CacheInsert(h)
    PROVE  IInv'
<1> USE DEF CacheInsert, Goto, sourceVars
<1> DEFINE entry == [data |-> resp[h], expiresAt |-> expiresAt[h]]
<1>1. /\ HandlerInv(h) /\ pc[h] = "insert" /\ key[h] \in Serials
      /\ resp[h] \in Responses /\ expiresAt[h] \in Nat
  BY DEF IInv, TypeOK
<1>2. /\ DOMAIN entries' \subseteq DOMAIN entries \cup {key[h]}
      /\ \A k \in DOMAIN entries' :
            entries'[k] = IF k = key[h] THEN entry ELSE entries[k]
      /\ entries' = [k \in DOMAIN entries' |-> entries'[k]]
  BY StoreFacts, Zenon
<1>3. gauge' \in Nat
  <2>1. IsFiniteSet(DOMAIN entries')
    BY <1>1, <1>2, ResponderAssumption, FS_Subset DEF IInv, TypeOK
  <2> QED
    BY <2>1, FS_CardinalityType
<1>4. TypeOK'
  BY <1>1, <1>2, <1>3 DEF IInv, TypeOK
<1>5. HandlerInv(h)'
  BY <1>1 DEF IInv, TypeOK, HandlerInv
<1>6. ASSUME NEW d \in Handlers \ {h} PROVE HandlerInv(d)'
  BY LocalKeepsHandlerInv, SMTT(30) DEF IInv, TypeOK, Local
<1>7. ASSUME NEW k \in DOMAIN entries' PROVE EntryInv(k)'
  <2>1. CASE k = key[h]
    BY <1>1, <1>2, <2>1 DEF EntryInv, HandlerInv
  <2>2. CASE k # key[h]
    BY <1>2, <2>2 DEF IInv, EntryInv
  <2> QED BY <2>1, <2>2, Zenon
<1> QED
  BY <1>4, <1>5, <1>6, <1>7 DEF IInv

\* The response is delivered and the request ends.
LEMMA DeliverKeepsIInv ==
    ASSUME IInv, NEW h \in Handlers, Deliver(h)
    PROVE  IInv'
<1> USE DEF Deliver, Goto, sourceVars, cacheVars
<1>1. Blank(key[h]) \in Responses
  BY DEF IInv, TypeOK, Blank, Response, Responses
<1>2. TypeOK'
  BY <1>1, Zenon DEF IInv, TypeOK
<1>3. HandlerInv(h)'
  BY DEF IInv, TypeOK, HandlerInv, Honest, Blank, Response
<1>4. \A d \in Handlers \ {h} : UNCHANGED Local(d)
  BY DEF IInv, TypeOK, Local
<1> QED
  BY <1>2, <1>3, <1>4, StepKeepsIInv, Zenon

\* Every step keeps the invariant.
LEMMA NextKeepsIInv == IInv /\ [Next]_vars => IInv'
<1> SUFFICES ASSUME IInv, [Next]_vars PROVE IInv'
  OBVIOUS
<1>1. CASE Environment
  BY <1>1, EnvironmentKeepsIInv
<1>2. ASSUME NEW h \in Handlers, Handle(h) PROVE IInv'
  BY <1>2, BeginKeepsIInv, RejectKeepsIInv, CacheGetKeepsIInv, CacheRecheckKeepsIInv,
     CallSourceKeepsIInv, SourceAdmitsKeepsIInv, SourceReturnsKeepsIInv, SignKeepsIInv,
     SignFailsKeepsIInv, CacheDeadlineKeepsIInv, CacheInsertKeepsIInv, DeliverKeepsIInv, Zenon
     DEF Handle
<1>3. CASE UNCHANGED vars
  <2>1. TypeOK'
    BY <1>3 DEF IInv, TypeOK, vars, sourceVars, cacheVars, handlerVars
  <2>2. ASSUME NEW d \in Handlers PROVE HandlerInv(d)'
    BY <1>3, LocalKeepsHandlerInv
       DEF IInv, TypeOK, Local, vars, sourceVars, cacheVars, handlerVars
  <2>3. ASSUME NEW k \in DOMAIN entries PROVE EntryInv(k)'
    BY <1>3 DEF IInv, EntryInv, vars, cacheVars
  <2> QED
    BY <1>3, <2>1, <2>2, <2>3 DEF IInv, vars, sourceVars, cacheVars
<1> QED
  BY <1>1, <1>2, <1>3 DEF Next

\* The invariant holds throughout.
LEMMA Invariance == Spec => []IInv
  BY InitEstablishesIInv, NextKeepsIInv, PTL DEF Spec

-----------------------------------------------------------------------------
(* The theorems. *)

\* The state of the responder stays well typed.
THEOREM TypeCorrect == Spec => []TypeOK
<1>1. IInv => TypeOK
  BY Zenon DEF IInv
<1> QED
  BY <1>1, Invariance, PTL

\* No response, cached or about to be returned, says more than the one CRL
\* generation it came from, or says it for longer.
THEOREM ResponsesNeverOutliveTheirCRL == Spec => []NeverOutlivesItsCRL
<1>1. IInv => NeverOutlivesItsCRL
  BY DEF IInv, HandlerInv, EntryInv, Honest, Issued, NeverOutlivesItsCRL
<1> QED
  BY <1>1, Invariance, PTL

\* Every request is answered for its own serial, and from the cache only with
\* a response that was still valid when it looked.
THEOREM RequestsAreServedFresh == Spec => []ServesOwnFreshResponse
<1>1. IInv => ServesOwnFreshResponse
  BY DEF IInv, HandlerInv, ServesOwnFreshResponse
<1> QED
  BY <1>1, Invariance, PTL

-----------------------------------------------------------------------------

\* A step of the cache keeps its size within max_entries: a full cache gives
\* up an entry before it takes one.
LEMMA NextKeepsCacheBounded == TypeOK /\ CacheBounded /\ [Next]_vars => CacheBounded'
<1> SUFFICES ASSUME TypeOK, CacheBounded, [Next]_vars PROVE CacheBounded'
  OBVIOUS
<1>1. IsFiniteSet(DOMAIN entries) /\ Cardinality(DOMAIN entries) \in Nat
  BY ResponderAssumption, FS_Subset, FS_CardinalityType DEF TypeOK
<1>2. ASSUME UNCHANGED cacheVars PROVE CacheBounded'
  BY <1>2 DEF CacheBounded, cacheVars
<1>3. ASSUME NEW h \in Handlers, CacheRecheck(h) PROVE CacheBounded'
  <2>1. CASE Hit(h)
    BY <1>2, <2>1 DEF Hit
  <2>2. CASE /\ entries' = Without(key[h])
             /\ gauge' = IF Cached(h) THEN Cardinality(DOMAIN entries') ELSE gauge
    <3>1. DOMAIN entries' = DOMAIN entries \ {key[h]}
      BY <2>2, WithoutFacts
    <3>2. Cardinality(DOMAIN entries') =
            IF Cached(h) THEN Cardinality(DOMAIN entries) - 1 ELSE Cardinality(DOMAIN entries)
      BY <1>1, <3>1, FS_RemoveElement DEF Cached
    <3> QED
      BY <1>1, <2>2, <3>2, ResponderAssumption DEF CacheBounded
  <2> QED
    BY <1>3, <2>1, <2>2 DEF CacheRecheck
<1>4. ASSUME NEW h \in Handlers, CacheInsert(h) PROVE CacheBounded'
  <2> DEFINE entry == [data |-> resp[h], expiresAt |-> expiresAt[h]]
  <2>1. ASSUME NEW f, entries' = Put(f, key[h], entry), IsFiniteSet(DOMAIN f),
               Cardinality(DOMAIN f) < MaxEntries
        PROVE  Cardinality(DOMAIN entries') <= MaxEntries
    <3>1. DOMAIN entries' = DOMAIN f \cup {key[h]}
      BY <2>1 DEF Put
    <3>2. Cardinality(DOMAIN f) \in Nat
      BY <2>1, FS_CardinalityType
    <3>3. \/ Cardinality(DOMAIN f \cup {key[h]}) = Cardinality(DOMAIN f)
          \/ Cardinality(DOMAIN f \cup {key[h]}) = Cardinality(DOMAIN f) + 1
      BY <2>1, FS_AddElement
    <3>4. MaxEntries \in Nat /\ Cardinality(DOMAIN f) < MaxEntries
      BY <2>1, ResponderAssumption, Zenon
    <3> QED
      BY <3>1, <3>2, <3>3, <3>4
  <2>2. CASE Full
    <3>1. PICK k \in DOMAIN entries : entries' = Put(Without(k), key[h], entry)
      BY <1>4, <2>2 DEF CacheInsert
    <3>2. /\ IsFiniteSet(DOMAIN Without(k))
          /\ Cardinality(DOMAIN Without(k)) = Cardinality(DOMAIN entries) - 1
      BY <1>1, WithoutFacts, FS_RemoveElement, ZenonT(30)
    <3>3. Cardinality(DOMAIN Without(k)) < MaxEntries
      BY <1>1, <3>2, ResponderAssumption DEF CacheBounded
    <3> QED
      BY <1>4, <2>1, <3>1, <3>2, <3>3, SMTT(30) DEF CacheInsert, CacheBounded
  <2>3. CASE ~Full
    <3>1. entries' = Put(entries, key[h], entry)
      BY <1>4, <2>3 DEF CacheInsert
    <3>2. Cardinality(DOMAIN entries) < MaxEntries
      BY <1>1, <2>3, ResponderAssumption DEF Full
    <3> QED
      BY <1>1, <1>4, <2>1, <3>1, <3>2 DEF CacheInsert, CacheBounded
  <2> QED BY <2>2, <2>3
<1>5. ASSUME NEW h \in Handlers,
             \/ \E s \in Serials : Begin(h, s)
             \/ Reject(h) \/ CacheGet(h) \/ CallSource(h) \/ SourceAdmits(h)
             \/ SourceReturns(h) \/ Sign(h) \/ SignFails(h) \/ CacheDeadline(h)
             \/ Deliver(h)
      PROVE  UNCHANGED cacheVars
  BY <1>5, Zenon DEF Begin, Reject, CacheGet, Hit, Miss, CallSource, SourceAdmits, SourceReturns,
              Sign, SignFails, CacheDeadline, Deliver, cacheVars
<1>6. CASE Environment \/ UNCHANGED vars
  BY <1>2, <1>6 DEF Environment, vars
<1> QED
  BY <1>2, <1>3, <1>4, <1>5, <1>6 DEF Next, Handle

\* However many requests insert at once, the cache holds at most max_entries
\* responses, and the gauge reports how many it holds.
THEOREM CacheStaysBounded == Spec => []CacheBounded
<1>1. Init => CacheBounded
  BY FS_EmptySet, ResponderAssumption DEF Init, CacheBounded
<1> QED
  BY <1>1, NextKeepsCacheBounded, TypeCorrect, PTL DEF Spec

\* The lock upgrade of getAt never deletes a response that is still fresh.
THEOREM OnlyExpiredOrEvictedEntriesLeave == Spec => OnlyExpiredOrEvicted
<1> DEFINE Leaves(k) == \/ entries[k].expiresAt <= now
                        \/ Full /\ \E h \in Handlers : pc[h] = "insert" /\ pc'[h] = "returned"
<1>1. ASSUME IInv, Next, NEW k \in DOMAIN entries \ DOMAIN entries' PROVE Leaves(k)
  <2>1. CASE UNCHANGED cacheVars
    BY <1>1, <2>1, Zenon DEF cacheVars
  <2>2. ASSUME NEW h \in Handlers, CacheRecheck(h) PROVE Leaves(k)
    <3>1. CASE Hit(h)
      BY <2>1, <3>1, Zenon DEF Hit
    <3>2. CASE ~Fresh(h) /\ entries' = Without(key[h])
      <4>1. k = key[h]
        BY <1>1, <3>2, WithoutFacts, Zenon
      <4>2. entries[k].expiresAt <= at[h] /\ at[h] <= now
        BY <1>1, <3>2, <4>1 DEF IInv, TypeOK, HandlerInv, Fresh, Cached
      <4> QED
        BY <1>1, <4>2 DEF IInv, TypeOK
    <3> QED
      BY <2>2, <3>1, <3>2, Zenon DEF CacheRecheck
  <2>3. ASSUME NEW h \in Handlers, CacheInsert(h) PROVE Leaves(k)
    <3>1. pc[h] = "insert" /\ pc'[h] = "returned"
      BY <1>1, <2>3, Zenon DEF CacheInsert, Goto, IInv, TypeOK
    <3>2. CASE Full
      BY <3>1, <3>2, Zenon
    <3>3. CASE ~Full
      BY <1>1, <2>3, <3>3, Zenon DEF CacheInsert, Put
    <3> QED BY <3>2, <3>3
  <2>4. ASSUME NEW h \in Handlers,
               \/ \E s \in Serials : Begin(h, s)
               \/ Reject(h) \/ CacheGet(h) \/ CallSource(h) \/ SourceAdmits(h)
               \/ SourceReturns(h) \/ Sign(h) \/ SignFails(h) \/ CacheDeadline(h)
               \/ Deliver(h)
        PROVE  UNCHANGED cacheVars
    BY <2>4, Zenon DEF Begin, Reject, CacheGet, Hit, Miss, CallSource, SourceAdmits,
                SourceReturns, Sign, SignFails, CacheDeadline, Deliver, cacheVars
  <2>5. CASE Environment
    BY <2>1, <2>5 DEF Environment
  <2> QED
    BY <1>1, <2>1, <2>2, <2>3, <2>4, <2>5, Zenon DEF Next, Handle
<1>2. IInv /\ [Next]_vars =>
        [\A k \in DOMAIN entries \ DOMAIN entries' : Leaves(k)]_vars
  BY <1>1
<1> QED
  BY <1>2, Invariance, PTL DEF Spec, OnlyExpiredOrEvicted

-----------------------------------------------------------------------------
(* Without a grace period a usable CRL gives usable responses. *)

\* What UsableCRLGivesUsableResponse says of one response, and when it was read.
Usable(r) ==
    /\ r.status # "none" => Truncate(r.readAt) <= r.nextUpdate
    /\ r.readAt <= now

\* The same for a request; one about to sign also knows the CRL was in time.
UsableIn(h) ==
    /\ Usable(resp[h])
    /\ pc[h] = "sign" /\ call[h].nextUpdate # 0 => resp[h].readAt <= call[h].nextUpdate

FreshInv ==
    /\ \A h \in Handlers : UsableIn(h)
    /\ \A k \in DOMAIN entries : Usable(entries[k].data)

\* CreateResponse does not sign a deadline before the truncated time at which
\* the status was read, if that time was not past the source's deadline.
LEMMA SignedNextUpdateUsable ==
    ASSUME NEW t \in Nat, NEW d \in Nat, NEW read \in Nat,
           read <= t, d # 0 => read <= d
    PROVE  Truncate(read) <= signedNextUpdate(t, d)
<1>1. t + Validity \in Nat /\ read <= t + Validity
  BY SignerAssumption
<1> QED
  BY <1>1, TruncateMonotonic DEF signedNextUpdate

\* Every step keeps FreshInv when there is no grace period.
LEMMA NextKeepsFreshInv ==
    ASSUME Grace = 0, IInv, FreshInv, [Next]_vars
    PROVE  FreshInv'
<1>0. IInv' /\ TypeOK /\ TypeOK'
  BY NextKeepsIInv, Zenon DEF IInv
<1>1. ASSUME now <= now', NEW d \in Handlers, UNCHANGED Local(d)
      PROVE  UsableIn(d)'
  BY <1>0, <1>1 DEF FreshInv, UsableIn, Usable, Local, TypeOK, Responses
<1>2. ASSUME now <= now', UNCHANGED entries, NEW k \in DOMAIN entries
      PROVE  Usable(entries[k].data)'
  BY <1>0, <1>2 DEF FreshInv, Usable, TypeOK, Responses
<1>3. CASE Environment \/ UNCHANGED vars
  <2>1. now <= now' /\ UNCHANGED <<cacheVars, handlerVars, call>>
    BY <1>0, <1>3 DEF Environment, vars, sourceVars, Source!Tick, Source!Install,
                      Source!SetUp, TypeOK
  <2> QED
    BY <1>1, <1>2, <2>1 DEF FreshInv, Local, cacheVars, handlerVars
<1>4. ASSUME NEW h \in Handlers, now' = now, UsableIn(h)',
             \A d \in Handlers \ {h} : UNCHANGED Local(d),
             \A k \in DOMAIN entries' : Usable(entries'[k].data)
      PROVE  FreshInv'
  BY <1>0, <1>1, <1>4 DEF FreshInv, TypeOK, Usable
<1>5. ASSUME NEW k \in DOMAIN entries, now' = now PROVE Usable(entries[k].data)
  BY <1>5 DEF FreshInv
<1>6. ASSUME NEW h \in Handlers, Handle(h) PROVE FreshInv'
  <2> USE DEF Goto, sourceVars, cacheVars, Local
  <2>0. UsableIn(h) /\ now \in Nat
    BY <1>0, Zenon DEF FreshInv, TypeOK
  <2>1. CASE (\E serial \in Serials : Begin(h, serial)) \/ Deliver(h)
    <3>1. PICK serial \in Serials : resp' = [resp EXCEPT ![h] = Blank(serial)]
      BY <1>0, <2>1 DEF Begin, Deliver, TypeOK
    <3>2. pc'[h] # "sign" /\ resp'[h] = Blank(serial)
      BY <1>0, <2>1, <3>1, ZenonT(30) DEF Begin, Deliver, TypeOK
    <3>3. UsableIn(h)'
      BY <2>0, <2>1, <3>2 DEF UsableIn, Usable, Blank, Response, Begin, Deliver
    <3> QED
      BY <1>0, <1>4, <1>5, <2>1, <3>3, Zenon DEF Begin, Deliver, TypeOK
  <2>2. CASE Reject(h) \/ CallSource(h) \/ SourceAdmits(h) \/ SignFails(h) \/ CacheDeadline(h)
    <3>1. now' = now /\ UNCHANGED <<entries, resp>> /\ pc'[h] # "sign"
      BY <1>0, <2>2, ZenonT(30) DEF Reject, CallSource, SourceAdmits, SignFails, CacheDeadline,
         handlerVars, Source!Call, Source!Admit, Source!Return, TypeOK, IInv, HandlerInv
    <3>2. UsableIn(h)'
      BY <2>0, <3>1 DEF UsableIn, Usable
    <3>3. \A d \in Handlers \ {h} : UNCHANGED Local(d)
      BY <1>0, <2>2, SMTT(30) DEF Reject, CallSource, SourceAdmits, SignFails, CacheDeadline,
         handlerVars, Source!Call, Source!Admit, Source!Return, TypeOK
    <3> QED
      BY <1>4, <1>5, <3>1, <3>2, <3>3
  <2>3. CASE CacheGet(h) \/ CacheRecheck(h)
    <3>1. now' = now /\ pc'[h] # "sign" /\ \A d \in Handlers \ {h} : UNCHANGED Local(d)
      BY <1>0, <2>3, SMTT(30) DEF CacheGet, CacheRecheck, Hit, Miss, TypeOK
    <3>2. \/ UNCHANGED resp
          \/ Cached(h) /\ resp'[h] = entries[key[h]].data
      BY <1>0, <2>3, Zenon DEF CacheGet, CacheRecheck, Hit, Miss, Fresh, TypeOK
    <3>3. UsableIn(h)'
      BY <1>5, <2>0, <3>1, <3>2, Zenon DEF UsableIn, Usable, Cached
    <3>4. UNCHANGED entries \/ entries' = Without(key[h])
      BY <2>3 DEF CacheGet, CacheRecheck, Hit, Miss
    <3>5. \A k \in DOMAIN entries' : k \in DOMAIN entries /\ entries'[k] = entries[k]
      BY <3>4, WithoutFacts, Zenon
    <3> QED
      BY <1>4, <1>5, <3>1, <3>3, <3>5, Zenon
  <2>4. CASE SourceReturns(h)
    <3>1. now' = now /\ entries' = entries /\ \A d \in Handlers \ {h} : UNCHANGED Local(d)
      BY <1>0, <2>4 DEF SourceReturns, Source!Answer, Source!Refuse, TypeOK
    <3>2. resp'[h].status = "none" /\ resp'[h].readAt = now
      BY <1>0, <2>4, Zenon DEF SourceReturns, Response, TypeOK
    <3>3. ASSUME Source!Answer(h) PROVE UsableIn(h)'
      <4>1. call'[h].nextUpdate = crl.nextUpdate
        BY <1>0, <3>3, Zenon DEF Source!Answer, Source!Result, TypeOK
      <4>2. crl.nextUpdate # 0 => now <= crl.nextUpdate
        BY <1>0, <3>3, ResponderAssumption DEF Source!Answer, Source!crlUsableAt,
           Source!crlExpiredAt, Source!IsZero, TypeOK
      <4> QED
        BY <2>0, <3>1, <3>2, <4>1, <4>2 DEF UsableIn, Usable
    <3>4. ASSUME NEW err \in {"unhealthy", "canceled"}, Source!Refuse(h, err)
          PROVE  UsableIn(h)'
      <4>1. call'[h].nextUpdate = 0
        BY <1>0, <3>4, Zenon DEF Source!Refuse, Source!Result, TypeOK
      <4> QED
        BY <2>0, <3>1, <3>2, <4>1 DEF UsableIn, Usable
    <3>5. UsableIn(h)'
      BY <2>4, <3>3, <3>4, Zenon DEF SourceReturns
    <3> QED
      BY <1>4, <1>5, <3>1, <3>5
  <2>5. CASE Sign(h)
    <3>1. now' = now /\ entries' = entries /\ pc[h] = "sign" /\ pc'[h] = "set"
          /\ \A d \in Handlers \ {h} : UNCHANGED Local(d)
      BY <1>0, <2>5, Zenon DEF Sign, Source!Return, TypeOK
    <3>2. /\ resp'[h].readAt = resp[h].readAt
          /\ resp'[h].nextUpdate = signedNextUpdate(now, call[h].nextUpdate)
      BY <1>0, <2>5 DEF Sign, Response, TypeOK
    <3>3. resp[h].readAt \in Nat /\ call[h].nextUpdate \in Nat
      BY <1>0 DEF TypeOK, Responses, CallRecords
    <3>4. Truncate(resp[h].readAt) <= signedNextUpdate(now, call[h].nextUpdate)
      BY <2>0, <3>1, <3>3, SignedNextUpdateUsable, Zenon DEF UsableIn, Usable
    <3>5. UsableIn(h)'
      BY <2>0, <3>1, <3>2, <3>4, Zenon DEF UsableIn, Usable
    <3> QED
      BY <1>4, <1>5, <3>1, <3>5, Zenon
  <2>6. CASE CacheInsert(h)
    <3>1. now' = now /\ UNCHANGED resp /\ pc'[h] # "sign"
          /\ \A d \in Handlers \ {h} : UNCHANGED Local(d)
      BY <1>0, <2>6, Zenon DEF CacheInsert, TypeOK
    <3>2. UsableIn(h)'
      BY <2>0, <3>1, Zenon DEF UsableIn, Usable
    <3>3. ASSUME NEW k \in DOMAIN entries' PROVE Usable(entries'[k].data)
      BY <1>0, <1>5, <2>0, <2>6, <3>1, StoreFacts DEF UsableIn
    <3> QED
      BY <1>4, <3>1, <3>2, <3>3, Zenon
  <2> QED
    BY <1>6, <2>1, <2>2, <2>3, <2>4, <2>5, <2>6, Zenon DEF Handle
<1> QED
  BY <1>3, <1>6 DEF Next

\* Without a grace period, a response is never expired already when its status
\* is read: GetStatus answers only from a CRL that is not expired, and
\* CreateResponse keeps the CRL's nextUpdate or signs a later one of its own.
THEOREM UsableWithoutGrace == Grace = 0 => (Spec => []UsableCRLGivesUsableResponse)
<1> SUFFICES ASSUME Grace = 0 PROVE Spec => []UsableCRLGivesUsableResponse
  OBVIOUS
<1>1. Init => FreshInv
  BY DEF Init, Source!Init, FreshInv, UsableIn, Usable, Blank, Response
<1>2. IInv /\ FreshInv /\ [Next]_vars => FreshInv'
  BY NextKeepsFreshInv, Zenon
<1>3. FreshInv => UsableCRLGivesUsableResponse
  BY DEF FreshInv, UsableIn, Usable, UsableCRLGivesUsableResponse, Issued
<1> QED
  BY <1>1, <1>2, <1>3, Invariance, PTL DEF Spec
=============================================================================
