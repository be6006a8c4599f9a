-------------------------- MODULE ResponsePathProofs --------------------------
(***************************************************************************)
(* Responder implements ResponsePath.  An entry counts as fresh there as   *)
(* long as some request can still hit it: one to come, by the clock, or    *)
(* one at the cache, by its earlier reading.  The signing of a response    *)
(* and its insertion are one step there, taken at the insertion.           *)
(***************************************************************************)
EXTENDS ResponderProofs

\* A responder without a cache caches nothing.
OffInv == ~CacheEnabled => DOMAIN entries = {} /\ \A h \in Handlers : pc[h] # "insert"

\* setAt and get return at once when the cache is disabled.
LEMMA AlwaysOffInv == Spec => []OffInv
<1>1. Init => OffInv
  BY DEF Init, OffInv
<1>2. TypeOK /\ OffInv /\ [Next]_vars => OffInv'
  <2> SUFFICES ASSUME TypeOK, ~CacheEnabled, OffInv, [Next]_vars
               PROVE  DOMAIN entries' = {} /\ \A h \in Handlers : pc'[h] # "insert"
    BY DEF OffInv
  <2>1. CASE UNCHANGED <<entries, pc>>
    BY <2>1 DEF OffInv
  <2>2. CASE Environment \/ UNCHANGED vars
    BY <2>1, <2>2, Zenon DEF Environment, vars, cacheVars, handlerVars
  <2>3. ASSUME NEW h \in Handlers, NEW from, NEW to, Goto(h, from, to), to # "insert"
        PROVE  \A d \in Handlers : pc'[d] # "insert"
    BY <2>3 DEF Goto, OffInv, TypeOK
  <2>4. ASSUME NEW h \in Handlers, Handle(h)
        PROVE  DOMAIN entries' = {} /\ \A d \in Handlers : pc'[d] # "insert"
    <3>1. CASE (\E serial \in Serials : Begin(h, serial)) \/ Reject(h)
      BY <2>3, <3>1, Zenon DEF Begin, Reject, cacheVars, OffInv
    <3>2. CASE CacheGet(h)
      BY <2>3, <3>2, Zenon DEF CacheGet, cacheVars, OffInv
    <3>3. CASE CacheRecheck(h)
      <4>1. UNCHANGED entries \/ entries' = Without(key[h])
        BY <3>3, Zenon DEF CacheRecheck, Hit, cacheVars
      <4>2. DOMAIN entries' = {}
        BY <4>1, WithoutFacts, Zenon DEF OffInv
      <4> QED BY <2>3, <3>3, <4>2, Zenon DEF CacheRecheck
    <3>4. CASE CallSource(h) \/ SourceReturns(h)
      BY <2>3, <3>4, Zenon DEF CallSource, SourceReturns, cacheVars, OffInv
    <3>5. CASE SourceAdmits(h)
      BY <2>1, <3>5, Zenon DEF SourceAdmits, cacheVars, handlerVars
    <3>6. CASE Sign(h) \/ SignFails(h)
      BY <2>3, <3>6, Zenon DEF Sign, SignFails, cacheVars, OffInv
    <3>7. CASE CacheDeadline(h)
      BY <2>3, <3>7, Zenon DEF CacheDeadline, cacheVars, OffInv
    <3>8. CASE CacheInsert(h)
      BY <3>8, Zenon DEF CacheInsert, Goto, OffInv
    <3>9. CASE Deliver(h)
      BY <2>3, <3>9 DEF Deliver, cacheVars, OffInv
    <3> QED BY <2>4, <3>1, <3>2, <3>3, <3>4, <3>5, <3>6, <3>7, <3>8, <3>9, Zenon DEF Handle
  <2> QED BY <2>2, <2>4, Zenon DEF Next
<1> QED BY <1>1, <1>2, TypeCorrect, PTL DEF Spec

\* A step of one request changes what ResponsePath sees of that request only.
LEMMA OthersStay ==
    ASSUME NEW h \in Handlers, \A d \in Handlers \ {h} : UNCHANGED Local(d)
    PROVE  /\ paths' = [paths EXCEPT ![h] = PathOf(h)']
           /\ answers' = [answers EXCEPT ![h] = AnswerOf(h)']
           /\ paths[h] = PathOf(h) /\ answers[h] = AnswerOf(h)
<1>1. \A d \in Handlers \ {h} : PathOf(d)' = PathOf(d) /\ AnswerOf(d)' = AnswerOf(d)
  BY DEF Local, PathOf, AnswerOf, StatusOf
<1>2. /\ paths' = [d \in Handlers |-> PathOf(d)']
      /\ answers' = [d \in Handlers |-> AnswerOf(d)']
  BY DEF paths, answers
<1> QED BY <1>1, <1>2, Zenon DEF paths, answers

\* An entry stays as fresh as it was unless the request that moves was the last
\* one to find it so.
LEMMA FindersStay ==
    ASSUME NEW h \in Handlers, \A d \in Handlers \ {h} : UNCHANGED Local(d), UNCHANGED now,
           NEW k, entries'[k] = entries[k],
           Finds(h, k)' => MayHit(k), Finds(h, k) => MayHit(k)'
    PROVE  MayHit(k)' = MayHit(k)
<1>1. \A d \in Handlers \ {h} : Finds(d, k)' = Finds(d, k)
  BY DEF Local, Finds
<1>2. MayHit(k)' <=> now < entries[k].expiresAt \/ \E d \in Handlers : Finds(d, k)'
  BY DEF MayHit
<1> QED BY <1>1, <1>2 DEF MayHit

\* The cache as ResponsePath sees it is the responses and their freshness.
LEMMA EntriesStay ==
    ASSUME UNCHANGED entries, \A k \in DOMAIN entries : MayHit(k)' = MayHit(k)
    PROVE  pathEntries' = pathEntries
  BY Zenon DEF pathEntries

\* The cache when the entries of K cease to be fresh.
LEMMA AgedIs ==
    ASSUME UNCHANGED entries, NEW K,
           \A k \in DOMAIN entries : MayHit(k)' = (MayHit(k) /\ k \notin K)
    PROVE  pathEntries' = Path!Aged(K)
<1>1. Path!Aged(K) = [k \in DOMAIN entries |->
            [status |-> entries[k].data.status, fresh |-> MayHit(k) /\ k \notin K]]
  BY DEF Path!Aged, pathEntries
<1>2. pathEntries' = [k \in DOMAIN entries |-> [status |-> entries[k].data.status, fresh |-> MayHit(k)']]
  BY DEF pathEntries
<1> QED BY <1>1, <1>2, Zenon

\* The clock may pass any number of deadlines.
LEMMA EnvironmentImplements ==
    ASSUME IInv, Environment
    PROVE  [Path!Next]_(Path!vars)
<1>1. UNCHANGED <<entries, pc, key, at, resp, call>> /\ now \in Nat /\ now' \in Nat /\ now <= now'
  BY DEF IInv, TypeOK, Environment, Source!Tick, Source!Install, Source!SetUp, cacheVars, handlerVars
<1>2. UNCHANGED <<paths, answers>>
  BY <1>1 DEF paths, answers, PathOf, AnswerOf, StatusOf
<1> DEFINE K == {k \in DOMAIN entries : MayHit(k) /\ ~MayHit(k)'}
<1>3. ASSUME NEW k \in DOMAIN entries PROVE MayHit(k)' = (MayHit(k) /\ k \notin K)
  <2>1. entries[k].expiresAt \in Nat
    BY DEF IInv, TypeOK
  <2>2. \A h \in Handlers : Finds(h, k)' = Finds(h, k)
    BY <1>1 DEF Finds
  <2>3. MayHit(k)' => MayHit(k)
    BY <1>1, <2>1, <2>2 DEF MayHit
  <2> QED BY <2>3, Zenon DEF MayHit
<1>4. pathEntries' = Path!Aged(K)
  BY <1>1, <1>3, AgedIs, Zenon
<1>5. K \in SUBSET Serials /\ \A k \in K : k \in DOMAIN pathEntries /\ pathEntries[k].fresh
  BY Zenon DEF IInv, TypeOK, pathEntries
<1>6. Path!Expire(K)
  BY <1>1, <1>2, <1>4, <1>5, Zenon DEF Path!Expire
<1> QED BY <1>5, <1>6 DEF Path!Next

\* A step that ResponsePath does not see.
LEMMA Unseen ==
    ASSUME NEW h \in Handlers, \A d \in Handlers \ {h} : UNCHANGED Local(d), UNCHANGED key,
           pathEntries' = pathEntries, PathOf(h)' = PathOf(h), AnswerOf(h)' = AnswerOf(h)
    PROVE  UNCHANGED Path!vars
<1>1. paths' = paths /\ answers' = answers
  BY OthersStay, Zenon DEF paths, answers
<1> QED BY <1>1, Zenon DEF Path!vars

\* A request that is not at the cache makes no entry more or less fresh.
LEMMA AwayStays ==
    ASSUME NEW h \in Handlers, \A d \in Handlers \ {h} : UNCHANGED Local(d),
           UNCHANGED <<now, entries>>,
           pc[h] \notin {"get", "expired"}, pc'[h] \notin {"get", "expired"}
    PROVE  pathEntries' = pathEntries
<1>1. \A k : ~Finds(h, k) /\ ~Finds(h, k)'
  BY DEF Finds
<1>2. \A k \in DOMAIN entries : MayHit(k)' = MayHit(k)
  BY <1>1, FindersStay, Zenon
<1> QED BY <1>2, EntriesStay

\* A new request reads the clock now: it finds fresh only what is fresh.
LEMMA BeginImplements ==
    ASSUME IInv, NEW h \in Handlers, NEW serial \in Serials, Begin(h, serial)
    PROVE  Path!Arrive(h, serial)
<1>1. /\ pc[h] = "idle" /\ pc'[h] = "get" /\ key' = [key EXCEPT ![h] = serial]
      /\ at'[h] = now /\ resp'[h] = Blank(serial) /\ UNCHANGED <<now, entries>>
      /\ resp[h].status = "none"
  BY Zenon DEF IInv, TypeOK, HandlerInv, Begin, Goto, sourceVars, cacheVars
<1>2. \A d \in Handlers \ {h} : UNCHANGED Local(d)
  BY Zenon DEF IInv, TypeOK, Begin, Goto, sourceVars, Local
<1>3. ASSUME NEW k \in DOMAIN entries PROVE MayHit(k)' = MayHit(k)
  <2>1. ~Finds(h, k)
    BY <1>1, Zenon DEF Finds
  <2>2. Finds(h, k)' => MayHit(k)
    BY <1>1, Zenon DEF Finds, MayHit
  <2> QED BY <1>1, <1>2, <2>1, <2>2, FindersStay, Zenon
<1>4. pathEntries' = pathEntries
  BY <1>1, <1>3, EntriesStay, Zenon
<1>5. PathOf(h) = "idle" /\ PathOf(h)' = "get"
  BY <1>1, Zenon DEF PathOf
<1>6. AnswerOf(h)' = AnswerOf(h)
  BY <1>1 DEF AnswerOf, Blank, Response
<1>7. answers' = answers
  BY <1>2, <1>6, OthersStay, Zenon DEF answers
<1> QED BY <1>1, <1>2, <1>4, <1>5, <1>7, OthersStay, Zenon DEF Path!Arrive, Path!Move

\* A request refused before the cache is one that never came.
LEMMA RejectImplements ==
    ASSUME IInv, NEW h \in Handlers, Reject(h)
    PROVE  UNCHANGED Path!vars
<1>1. /\ pc[h] = "idle" /\ pc'[h] = "returned" /\ resp[h].status = "none"
      /\ UNCHANGED <<now, entries, key, resp>>
  BY DEF IInv, TypeOK, HandlerInv, Reject, Goto, sourceVars, cacheVars
<1>2. \A d \in Handlers \ {h} : UNCHANGED Local(d)
  BY Zenon DEF IInv, TypeOK, Reject, Goto, sourceVars, Local
<1>3. pathEntries' = pathEntries
  BY <1>1, <1>2, AwayStays, Zenon
<1>4. PathOf(h)' = PathOf(h) /\ AnswerOf(h)' = AnswerOf(h)
  BY <1>1, Zenon DEF PathOf, AnswerOf
<1> QED BY <1>1, <1>2, <1>3, <1>4, Unseen

\* The request that hits may have been the last one to find the entry fresh.
LEMMA HitImplements ==
    ASSUME IInv, NEW h \in Handlers, Fresh(h), Hit(h),
           NEW from \in {"get", "expired"}, Goto(h, from, "returned")
    PROVE  Path!Fresh(h) /\ Path!Hit(h, IF from = "get" THEN "get" ELSE "recheck")
<1>1. PICK s : s = key[h]
  OBVIOUS
<1>2. /\ pc[h] = from /\ pc'[h] = "returned" /\ UNCHANGED <<now, entries, key>>
      /\ resp'[h] = entries[s].data
  BY <1>1, Zenon DEF IInv, TypeOK, Hit, Goto, sourceVars, cacheVars
<1>3. \A d \in Handlers \ {h} : UNCHANGED Local(d)
  BY Zenon DEF IInv, TypeOK, Hit, Goto, sourceVars, Local
<1>4. s \in DOMAIN entries /\ Finds(h, s) /\ entries[s].data.status # "none"
  BY <1>1, <1>2 DEF IInv, EntryInv, Signed, Fresh, Cached, Finds
<1>5. s \in DOMAIN pathEntries /\ pathEntries[s].fresh /\ pathEntries[s].status = entries[s].data.status
  BY <1>4, Zenon DEF pathEntries, MayHit
<1>6. ASSUME NEW k \in DOMAIN entries, k # s PROVE MayHit(k)' = MayHit(k)
  <2>1. ~Finds(h, k) /\ ~Finds(h, k)'
    BY <1>1, <1>2, <1>6 DEF Finds
  <2> QED BY <1>2, <1>3, <2>1, FindersStay
<1>7. MayHit(s)
  BY <1>4 DEF MayHit
<1>8. pathEntries' \in {pathEntries, Path!Aged({s})}
  <2>1. CASE MayHit(s)'
    <3>1. \A k \in DOMAIN entries : MayHit(k)' = MayHit(k)
      <4>1. MayHit(s)' = MayHit(s)
        BY <1>7, <2>1, Zenon DEF MayHit
      <4> QED BY <1>6, <4>1, Zenon
    <3> QED BY <1>2, <3>1, EntriesStay, Zenon
  <2>2. CASE ~MayHit(s)'
    <3>1. \A k \in DOMAIN entries : MayHit(k)' = (MayHit(k) /\ k \notin {s})
      <4>1. MayHit(s)' = FALSE
        BY <2>2 DEF MayHit
      <4>2. \A k \in DOMAIN entries : MayHit(k) \in BOOLEAN
        BY DEF MayHit
      <4> QED BY <1>6, <4>1, <4>2, Zenon
    <3> QED BY <1>2, <3>1, AgedIs
  <2> QED BY <2>1, <2>2, Zenon
<1>9. /\ PathOf(h) = IF from = "get" THEN "get" ELSE "recheck"
      /\ PathOf(h)' = "respond" /\ AnswerOf(h)' = pathEntries[s].status
  BY <1>2, <1>4, <1>5 DEF PathOf, AnswerOf
<1> QED
  BY <1>1, <1>2, <1>3, <1>5, <1>8, <1>9, OthersStay, Zenon
     DEF Path!Fresh, Path!Cached, Path!Hit, Path!Move

\* Under the read lock: a hit, an expired entry, or none.
LEMMA CacheGetImplements ==
    ASSUME IInv, OffInv, NEW h \in Handlers, CacheGet(h)
    PROVE  Path!CacheGet(h)
<1>1. CASE Fresh(h) /\ Goto(h, "get", "returned") /\ Hit(h)
  <2>1. Path!Fresh(h) /\ Path!Hit(h, "get")
    BY <1>1, HitImplements
  <2> QED BY <2>1 DEF Path!CacheGet
<1>2. CASE /\ Cached(h) /\ Goto(h, "get", "expired")
           /\ UNCHANGED <<sourceVars, cacheVars, key, at, expiresAt, resp, hit>>
  <2>1. /\ pc[h] = "get" /\ pc'[h] = "expired" /\ UNCHANGED <<now, entries, key, at, resp, call>>
        /\ \A d \in Handlers \ {h} : UNCHANGED Local(d)
    BY <1>2 DEF IInv, TypeOK, Goto, sourceVars, cacheVars, Local
  <2>2. ASSUME NEW k \in DOMAIN entries PROVE MayHit(k)' = MayHit(k)
    <3>1. Finds(h, k)' <=> Finds(h, k)
      BY <2>1 DEF Finds
    <3>2. (Finds(h, k) => MayHit(k)) /\ (Finds(h, k)' => MayHit(k)')
      BY DEF MayHit
    <3> QED BY <2>1, <3>1, <3>2, FindersStay
  <2>3. pathEntries' = pathEntries
    BY <2>1, <2>2, EntriesStay
  <2>4. PathOf(h) = "get" /\ PathOf(h)' = "recheck" /\ AnswerOf(h)' = AnswerOf(h)
    BY <2>1 DEF PathOf, AnswerOf
  <2>5. answers' = answers
    BY <2>1, <2>4, OthersStay, Zenon DEF answers
  <2>6. Path!Cached(h)
    BY <1>2 DEF Cached, Path!Cached, pathEntries
  <2> QED BY <2>1, <2>3, <2>4, <2>5, <2>6, OthersStay, Zenon DEF Path!CacheGet, Path!Move
<1>3. CASE ~Cached(h) /\ Goto(h, "get", "lookup") /\ Miss(h) /\ UNCHANGED cacheVars
  <2>1. /\ pc[h] = "get" /\ pc'[h] = "lookup" /\ UNCHANGED <<now, entries, key, resp, call>>
        /\ \A d \in Handlers \ {h} : UNCHANGED Local(d)
    BY <1>3, Zenon DEF IInv, TypeOK, Goto, Miss, sourceVars, cacheVars, Local
  <2>2. ASSUME NEW k \in DOMAIN entries PROVE MayHit(k)' = MayHit(k)
    <3>1. ~Finds(h, k) /\ ~Finds(h, k)'
      BY <1>3, <2>1 DEF Finds, Cached
    <3> QED BY <2>1, <3>1, FindersStay
  <2>3. pathEntries' = pathEntries
    BY <2>1, <2>2, EntriesStay
  <2>4. PathOf(h) = "get" /\ PathOf(h)' = "lookup" /\ AnswerOf(h)' = AnswerOf(h)
    BY <2>1 DEF PathOf, AnswerOf
  <2>5. answers' = answers
    BY <2>1, <2>4, OthersStay, Zenon DEF answers
  <2>6. ~Path!Cached(h)
    BY <1>3 DEF Cached, Path!Cached, pathEntries
  <2> QED BY <2>1, <2>3, <2>4, <2>5, <2>6, OthersStay DEF Path!CacheGet, Path!Move
<1> QED BY <1>1, <1>2, <1>3 DEF CacheGet, OffInv, Cached

\* Under the write lock: a hit after all, or the expired entry goes.
LEMMA CacheRecheckImplements ==
    ASSUME IInv, NEW h \in Handlers, CacheRecheck(h)
    PROVE  Path!CacheRecheck(h)
<1>1. CASE Fresh(h) /\ Goto(h, "expired", "returned") /\ Hit(h)
  <2>1. Path!Fresh(h) /\ Path!Hit(h, "recheck")
    BY <1>1, HitImplements
  <2> QED BY <2>1 DEF Path!CacheRecheck
<1>2. CASE entries' = Without(key[h]) /\ Goto(h, "expired", "lookup") /\ Miss(h)
  <2>1. /\ pc[h] = "expired" /\ pc'[h] = "lookup" /\ UNCHANGED <<now, key, resp, call>>
        /\ \A d \in Handlers \ {h} : UNCHANGED Local(d)
    BY <1>2 DEF IInv, TypeOK, Goto, Miss, sourceVars, Local
  <2>2. /\ DOMAIN entries' = DOMAIN entries \ {key[h]}
        /\ \A k \in DOMAIN entries \ {key[h]} : entries'[k] = entries[k]
    BY <1>2, WithoutFacts, Zenon
  <2>3. ASSUME NEW k \in DOMAIN entries \ {key[h]} PROVE MayHit(k)' = MayHit(k)
    <3>1. ~Finds(h, k) /\ ~Finds(h, k)'
      BY <2>1 DEF Finds
    <3> QED BY <2>1, <2>2, <3>1, FindersStay
  <2>4. pathEntries' = Path!Remove(key[h])
    BY <2>2, <2>3 DEF pathEntries, Path!Remove
  <2>5. PathOf(h) = "recheck" /\ PathOf(h)' = "lookup" /\ AnswerOf(h)' = AnswerOf(h)
    BY <2>1 DEF PathOf, AnswerOf
  <2>6. answers' = answers
    BY <2>1, <2>5, OthersStay, Zenon DEF answers
  <2> QED BY <2>1, <2>4, <2>5, <2>6, OthersStay DEF Path!CacheRecheck, Path!Move
<1> QED BY <1>1, <1>2 DEF CacheRecheck

\* The call of GetStatus.
LEMMA CallSourceImplements ==
    ASSUME IInv, NEW h \in Handlers, CallSource(h)
    PROVE  Path!Lookup(h)
<1>1. /\ pc[h] = "lookup" /\ pc'[h] = "source" /\ UNCHANGED <<now, entries, key, resp>>
      /\ \A d \in Handlers \ {h} : UNCHANGED Local(d)
  BY DEF IInv, TypeOK, CallSource, Goto, Source!Call, cacheVars, Local
<1>2. pathEntries' = pathEntries
  BY <1>1, AwayStays
<1>3. PathOf(h) = "lookup" /\ PathOf(h)' = "source" /\ AnswerOf(h)' = AnswerOf(h)
  BY <1>1 DEF PathOf, AnswerOf
<1>4. answers' = answers
  BY <1>1, <1>3, OthersStay, Zenon DEF answers
<1> QED BY <1>1, <1>2, <1>3, <1>4, OthersStay DEF Path!Lookup, Path!Move

\* The first checks of GetStatus are the source's affair.
LEMMA SourceAdmitsImplements ==
    ASSUME IInv, NEW h \in Handlers, SourceAdmits(h)
    PROVE  UNCHANGED Path!vars
<1>1. /\ UNCHANGED <<now, entries, pc, key, at, resp>>
      /\ \A d \in Handlers \ {h} : UNCHANGED Local(d)
  BY DEF IInv, TypeOK, SourceAdmits, Source!Admit, cacheVars, handlerVars, Local
<1>2. pc[h] # "sign"
  BY DEF IInv, HandlerInv, SourceAdmits, Source!Admit
<1>3. \A k \in DOMAIN entries : MayHit(k)' = MayHit(k)
  BY <1>1 DEF MayHit, Finds
<1>4. pathEntries' = pathEntries
  BY <1>1, <1>3, EntriesStay
<1>5. PathOf(h)' = PathOf(h) /\ AnswerOf(h)' = AnswerOf(h)
  BY <1>1, <1>2 DEF PathOf, AnswerOf
<1> QED BY <1>1, <1>4, <1>5, Unseen

\* GetStatus returns a status, or an error that becomes `unknown`.
LEMMA SourceReturnsImplements ==
    ASSUME IInv, NEW h \in Handlers, SourceReturns(h)
    PROVE  \E status \in {"good", "revoked", "error"} : Path!SourceReturns(h, status)
<1>1. /\ pc[h] = "source" /\ pc'[h] = "sign" /\ UNCHANGED <<now, entries, key>>
      /\ \A d \in Handlers \ {h} : UNCHANGED Local(d)
  BY DEF IInv, TypeOK, SourceReturns, Goto, Source!Answer, Source!Refuse, cacheVars, Local
<1>2. call'[h].status \in {"good", "revoked"} \cup {"unhealthy", "canceled"}
  <2>1. CASE Source!Answer(h)
    BY <2>1 DEF IInv, TypeOK, Source!Answer, Source!Result, Source!StatusIn
  <2>2. CASE \E err \in {"unhealthy", "canceled"} : Source!Refuse(h, err)
    BY <2>2 DEF IInv, TypeOK, Source!Refuse, Source!Result
  <2> QED BY <2>1, <2>2 DEF SourceReturns
<1>3. pathEntries' = pathEntries
  BY <1>1, AwayStays
<1>4. PathOf(h) = "source" /\ PathOf(h)' = "sign"
  BY <1>1 DEF PathOf
<1>5. AnswerOf(h)' = IF call'[h].status \in {"good", "revoked"} THEN call'[h].status ELSE "unknown"
  BY <1>1, <1>2 DEF AnswerOf, StatusOf, Errors
<1> DEFINE status == IF call'[h].status \in {"good", "revoked"} THEN call'[h].status ELSE "error"
<1>6. status \in {"good", "revoked", "error"}
  OBVIOUS
<1>7. AnswerOf(h)' = IF status \in {"good", "revoked"} THEN status ELSE "unknown"
  BY <1>5
<1> HIDE DEF status
<1>8. Path!SourceReturns(h, status)
  BY <1>1, <1>3, <1>4, <1>7, OthersStay, Zenon DEF Path!SourceReturns, Path!Move
<1> QED BY <1>6, <1>8, Zenon

\* CreateResponse settles nothing the answer did not settle before.
LEMMA SignImplements ==
    ASSUME IInv, NEW h \in Handlers, Sign(h)
    PROVE  UNCHANGED Path!vars
<1>1. /\ pc[h] = "sign" /\ pc'[h] = "set" /\ UNCHANGED <<now, entries, key>>
      /\ resp'[h].status = StatusOf(h)
      /\ \A d \in Handlers \ {h} : UNCHANGED Local(d)
  BY Zenon DEF IInv, TypeOK, Sign, Goto, Source!Return, Response, cacheVars, Local
<1>2. pathEntries' = pathEntries
  BY <1>1, AwayStays
<1>3. PathOf(h)' = PathOf(h) /\ AnswerOf(h)' = AnswerOf(h)
  BY <1>1 DEF PathOf, AnswerOf
<1> QED BY <1>1, <1>2, <1>3, Unseen, Zenon

\* CreateResponse fails and the request ends.
LEMMA SignFailsImplements ==
    ASSUME IInv, NEW h \in Handlers, SignFails(h)
    PROVE  Path!SignFails(h)
<1>1. /\ pc[h] = "sign" /\ pc'[h] = "returned" /\ UNCHANGED <<now, entries, key, resp>>
      /\ \A d \in Handlers \ {h} : UNCHANGED Local(d)
  BY DEF IInv, TypeOK, SignFails, Goto, Source!Return, cacheVars, Local
<1>2. pathEntries' = pathEntries
  BY <1>1, AwayStays, Zenon
<1>3. resp[h].status = "none"
  BY <1>1 DEF IInv, HandlerInv
<1>4. PathOf(h) = "sign" /\ PathOf(h)' = "idle" /\ AnswerOf(h)' = "none"
  BY <1>1, <1>3 DEF PathOf, AnswerOf
<1> QED BY <1>1, <1>2, <1>4, OthersStay, Zenon DEF Path!SignFails, Path!Move

\* An early return of setAt is the end of the path; a deadline is not seen.
LEMMA CacheDeadlineImplements ==
    ASSUME IInv, NEW h \in Handlers, CacheDeadline(h)
    PROVE  Path!SignAndSet(h) \/ UNCHANGED Path!vars
<1>1. /\ pc[h] = "set" /\ pc'[h] \in {"insert", "returned"} /\ UNCHANGED <<now, entries, key, resp>>
      /\ \A d \in Handlers \ {h} : UNCHANGED Local(d)
  BY DEF IInv, TypeOK, CacheDeadline, Goto, sourceVars, cacheVars, Local
<1>2. pathEntries' = pathEntries
  BY <1>1, AwayStays, Zenon
<1>3. resp[h].status # "none"
  BY <1>1 DEF IInv, HandlerInv, Signed
<1>4. AnswerOf(h)' = AnswerOf(h)
  BY <1>1 DEF AnswerOf
<1>5. CASE pc'[h] = "insert"
  <2>1. PathOf(h)' = PathOf(h)
    BY <1>1, <1>5, Zenon DEF PathOf
  <2> QED BY <1>1, <1>2, <1>4, <2>1, Unseen
<1>6. CASE pc'[h] = "returned"
  <2>1. PathOf(h) = "sign" /\ PathOf(h)' = "respond"
    BY <1>1, <1>3, <1>6 DEF PathOf
  <2>2. answers' = answers
    BY <1>1, <1>4, OthersStay, Zenon DEF answers
  <2> QED BY <1>1, <1>2, <2>1, <2>2, OthersStay DEF Path!SignAndSet, Path!Move
<1> QED BY <1>1, <1>5, <1>6, Zenon

\* The two modules count with the same operator.
LEMMA SameCardinality ==
    ASSUME NEW S
    PROVE  Path!Cardinality(S) = Cardinality(S)
  BY DEF Cardinality, Path!Cardinality

\* An insertion: what it evicts and what it adds are the path's.
LEMMA CacheInsertImplements ==
    ASSUME IInv, NEW h \in Handlers, CacheInsert(h)
    PROVE  Path!SignAndSet(h)
<1> DEFINE entry == [data |-> resp[h], expiresAt |-> expiresAt[h]]
           fresh == MayHit(key[h])'
           put == [status |-> AnswerOf(h), fresh |-> fresh]
<1>1. /\ pc[h] = "insert" /\ pc'[h] = "returned" /\ UNCHANGED <<now, key, resp>>
      /\ \A d \in Handlers \ {h} : UNCHANGED Local(d)
  BY DEF IInv, TypeOK, CacheInsert, Goto, sourceVars, Local
<1>2. resp[h].status # "none"
  BY <1>1 DEF IInv, HandlerInv, Signed
<1>3. /\ PathOf(h) = "sign" /\ PathOf(h)' = "respond"
      /\ AnswerOf(h) = resp[h].status /\ AnswerOf(h)' = AnswerOf(h)
  BY <1>1, <1>2 DEF PathOf, AnswerOf
<1>4. answers' = answers /\ answers[h] = AnswerOf(h)
  BY <1>1, <1>3, OthersStay, Zenon DEF answers
<1>5. ASSUME NEW k, entries'[k] = entries[k] PROVE MayHit(k)' = MayHit(k)
  <2>1. ~Finds(h, k) /\ ~Finds(h, k)'
    BY <1>1 DEF Finds
  <2> QED BY <1>1, <1>5, <2>1, FindersStay
<1>6. fresh \in BOOLEAN
  BY DEF MayHit
<1>7. DOMAIN pathEntries = DOMAIN entries
  BY DEF pathEntries
<1> HIDE DEF fresh
<1>8. ASSUME NEW f, DOMAIN f \subseteq DOMAIN entries,
             \A x \in DOMAIN f : f[x] = entries[x], entries' = Put(f, key[h], entry),
             NEW g, g = [x \in DOMAIN f |-> pathEntries[x]]
      PROVE  pathEntries' = Path!Put(g, key[h], put)
  <2>1. DOMAIN entries' = DOMAIN f \cup {key[h]}
    BY <1>8, Zenon DEF Put
  <2>2. entries'[key[h]].data.status = AnswerOf(h)
    BY <1>3, <1>8, Zenon DEF Put
  <2>3. ASSUME NEW x \in DOMAIN f, x # key[h]
        PROVE  entries'[x].data.status = pathEntries[x].status /\ MayHit(x)' = pathEntries[x].fresh
    <3>1. entries'[x] = entries[x]
      BY <1>8, <2>3 DEF Put
    <3> QED BY <1>5, <1>8, <3>1, Zenon DEF pathEntries
  <2>4. MayHit(key[h])' = fresh
    BY Zenon DEF fresh
  <2>5. pathEntries' = [x \in DOMAIN f \cup {key[h]} |->
            [status |-> entries'[x].data.status, fresh |-> MayHit(x)']]
    BY <2>1, Zenon DEF pathEntries
  <2>6. \A x \in DOMAIN f : pathEntries[x] = [status |-> pathEntries[x].status, fresh |-> pathEntries[x].fresh]
    BY <1>8, Zenon DEF pathEntries
  <2>7. DOMAIN g = DOMAIN f /\ \A x \in DOMAIN f : g[x] = pathEntries[x]
    BY <1>8, Zenon
  <2>8. ASSUME NEW x \in DOMAIN f \cup {key[h]}
        PROVE  [status |-> entries'[x].data.status, fresh |-> MayHit(x)']
                  = IF x = key[h] THEN put ELSE g[x]
    <3>1. CASE x = key[h]
      <4>1. MayHit(x)' = fresh
        BY <1>1, <2>4, <3>1, Zenon
      <4> QED BY <2>2, <3>1, <4>1, Zenon
    <3>2. CASE x # key[h]
      BY <2>3, <2>6, <2>7, <3>2, Zenon
    <3> QED BY <3>1, <3>2, Zenon
  <2> HIDE DEF put
  <2> QED BY <2>5, <2>7, <2>8 DEF Path!Put
<1>9. CASE Full
  <2>1. PICK k \in DOMAIN entries : entries' = Put(Without(k), key[h], entry)
    BY <1>9, Zenon DEF CacheInsert
  <2>2. pathEntries' = Path!Put(Path!Remove(k), key[h], put)
    <3>1. Path!Remove(k) = [x \in DOMAIN Without(k) |-> pathEntries[x]]
      BY <1>7, WithoutFacts, Zenon DEF Path!Remove
    <3> QED BY <1>8, <2>1, <3>1, WithoutFacts, Zenon
  <2>3. Path!Cardinality(DOMAIN pathEntries) >= MaxEntries
    BY <1>7, <1>9, SameCardinality, Zenon DEF Full
  <2>4. \E f \in {Path!Remove(x) : x \in DOMAIN pathEntries}, b \in BOOLEAN :
            pathEntries' = Path!Put(f, key[h], [status |-> answers[h], fresh |-> b])
    BY <1>4, <1>6, <1>7, <2>2, Zenon
  <2> QED BY <1>1, <1>3, <1>4, <2>3, <2>4, OthersStay, Zenon DEF Path!SignAndSet, Path!Move
<1>10. CASE ~Full
  <2>1. entries' = Put(entries, key[h], entry)
    BY <1>10 DEF CacheInsert
  <2>2. pathEntries = [x \in DOMAIN entries |-> pathEntries[x]]
    BY DEF pathEntries
  <2>3. pathEntries' = Path!Put(pathEntries, key[h], put)
    BY <1>8, <2>1, <2>2, Zenon
  <2>4. ~(Path!Cardinality(DOMAIN pathEntries) >= MaxEntries)
    BY <1>7, <1>10, SameCardinality, Zenon DEF Full
  <2>5. \E f \in {pathEntries}, b \in BOOLEAN :
            pathEntries' = Path!Put(f, key[h], [status |-> answers[h], fresh |-> b])
    BY <1>4, <1>6, <2>3
  <2> QED BY <1>1, <1>3, <1>4, <2>4, <2>5, OthersStay, Zenon DEF Path!SignAndSet, Path!Move
<1> QED BY <1>9, <1>10

\* A response goes out; a request that failed had ended before.
LEMMA DeliverImplements ==
    ASSUME IInv, NEW h \in Handlers, Deliver(h)
    PROVE  Path!Respond(h) \/ UNCHANGED Path!vars
<1>1. /\ pc[h] = "returned" /\ pc'[h] = "idle" /\ UNCHANGED <<now, entries, key>>
      /\ resp'[h].status = "none"
      /\ \A d \in Handlers \ {h} : UNCHANGED Local(d)
  BY DEF IInv, TypeOK, Deliver, Goto, Blank, Response, sourceVars, cacheVars, Local
<1>2. pathEntries' = pathEntries
  BY <1>1, AwayStays
<1>3. PathOf(h)' = "idle" /\ AnswerOf(h)' = "none" /\ AnswerOf(h) = resp[h].status
  BY <1>1 DEF PathOf, AnswerOf
<1>4. CASE resp[h].status = "none"
  <2>1. PathOf(h) = "idle"
    BY <1>1, <1>4 DEF PathOf
  <2> QED BY <1>1, <1>2, <1>3, <1>4, <2>1, Unseen, Zenon
<1>5. CASE resp[h].status # "none"
  <2>1. PathOf(h) = "respond"
    BY <1>1, <1>5 DEF PathOf
  <2> QED BY <1>1, <1>2, <1>3, <2>1, OthersStay DEF Path!Respond, Path!Move
<1> QED BY <1>4, <1>5, Zenon

\* No request and an empty cache.
LEMMA InitImplements == Init => Path!Init
<1> SUFFICES ASSUME Init PROVE Path!Init
  OBVIOUS
<1>1. \A h \in Handlers : PathOf(h) = "idle" /\ AnswerOf(h) = "none"
  BY DEF Init, PathOf, AnswerOf, Blank, Response
<1>2. paths = [h \in Handlers |-> "idle"] /\ answers = [h \in Handlers |-> "none"]
  BY <1>1 DEF paths, answers
<1>3. pathEntries = <<>>
  BY DEF Init, pathEntries
<1> QED BY <1>2, <1>3 DEF Init, Path!Init

\* Every step of the responder is a step of ResponsePath or none.
LEMMA NextImplements ==
    ASSUME IInv, OffInv, [Next]_vars
    PROVE  [Path!Next]_(Path!vars)
<1>1. CASE Environment
  BY <1>1, EnvironmentImplements
<1>2. ASSUME NEW h \in Handlers, Handle(h) PROVE [Path!Next]_(Path!vars)
  <2>1. CASE \E serial \in Serials : Begin(h, serial)
    BY <2>1, BeginImplements DEF Path!Next
  <2>2. CASE CacheGet(h) \/ CacheRecheck(h)
    BY <2>2, CacheGetImplements, CacheRecheckImplements DEF Path!Next, Path!Proceed
  <2>3. CASE CallSource(h) \/ SourceReturns(h)
    BY <2>3, CallSourceImplements, SourceReturnsImplements DEF Path!Next
  <2>4. CASE SignFails(h) \/ CacheDeadline(h) \/ CacheInsert(h) \/ Deliver(h)
    BY <2>4, SignFailsImplements, CacheDeadlineImplements, CacheInsertImplements, DeliverImplements
    DEF Path!Next, Path!Proceed
  <2>5. CASE Reject(h) \/ SourceAdmits(h) \/ Sign(h)
    BY <2>5, RejectImplements, SourceAdmitsImplements, SignImplements
  <2> QED BY <1>2, <2>1, <2>2, <2>3, <2>4, <2>5 DEF Handle
<1>3. CASE UNCHANGED vars
  <2>1. UNCHANGED <<pathEntries, paths, answers, key>>
    BY <1>3 DEF vars, sourceVars, cacheVars, handlerVars, pathEntries, paths, answers,
                PathOf, AnswerOf, StatusOf, MayHit, Finds
  <2> QED BY <2>1 DEF Path!vars
<1> QED BY <1>1, <1>2, <1>3 DEF Next

\* Handle with its clock, its cache and its locks implements ResponsePath, for
\* any number of requests and any TTL, validity and cache size: the reading of
\* the clock before the lock, the lock upgrade, the deadline of setAt and an
\* eviction at any moment give no behaviour that ResponsePath does not have.
\* CRLService and HTTPService rely on it when they use ResponsePath for Handle.
THEOREM ResponderImplementsResponsePath == Spec => ImplementsResponsePath
<1>1. IInv /\ OffInv /\ [Next]_vars => [Path!Next]_(Path!vars)
  BY NextImplements
<1> QED BY <1>1, InitImplements, Invariance, AlwaysOffInv, PTL
        DEF Spec, ImplementsResponsePath, Path!Spec
=============================================================================
