-------------------------- MODULE HTTPSourceProofs --------------------------
(***************************************************************************)
(* Proofs about HTTPSource, for every number of lookups, serials and       *)
(* attempts and every cache_ttl, and about HTTPService, which puts the     *)
(* response path in front of it.                                           *)
(***************************************************************************)
EXTENDS HTTPService, TLAPS

(* The inductive invariant. *)

\* What FailureIsEarned says of one lookup.
Earned(c) ==
    LET n == Len(seen[c])
    IN  /\ n <= maxAttempts
        /\ \A i \in 1 .. n - 1 : seen[c][i] = "down"
        /\ status[c] = "error" =>
              \/ canceled[c]
              \/ n > 0 /\ seen[c][n] = "garbled"
              \/ n = maxAttempts /\ seen[c][n] = "down"

\* What a lookup knows at each point of GetStatus.
CallInv(c) ==
    /\ Earned(c)
    /\ pc[c] \in {"idle", "check", "load", "loaded"} => seen[c] = <<>> /\ status[c] = "none"
    /\ pc[c] \in {"fetch", "backoff"} =>
          /\ Len(seen[c]) < maxAttempts
          /\ \A i \in 1 .. Len(seen[c]) : seen[c][i] = "down"
          /\ status[c] = "none"
    /\ pc[c] = "demote" => status[c] = "error"
    /\ pc[c] \in {"promote", "store"} => status[c] \in Statuses

\* An answer on its way to the cache: a `good` was given before the revocation.
AnswerInv(c) ==
    /\ servedAt[c] <= now
    /\ pc[c] \in {"promote", "store"} /\ status[c] = "good" /\ revokedAt[serial[c]] # 0
          => servedAt[c] <= revokedAt[serial[c]]

RecordInv ==
    /\ now > 0
    /\ \A s \in Serials : ca[s] = "good" => revokedAt[s] = 0

EntryInv == \A s \in DOMAIN cache : cache[s].expiresAt <= now + CacheTTL

IInv ==
    /\ TypeOK
    /\ \A c \in Callers : CallInv(c)

TimeInv ==
    /\ RecordInv
    /\ EntryInv
    /\ \A c \in Callers : AnswerInv(c)
    /\ RevocationHiddenAtMostTTL

-----------------------------------------------------------------------------

\* NewHTTPSource leaves at least one attempt.
LEMMA MaxAttemptsPositive == maxAttempts \in Nat /\ maxAttempts >= 1
  BY HTTPAssumption DEF maxAttempts

\* Deleting a key changes no other entry.
LEMMA WithoutFacts ==
    ASSUME NEW k
    PROVE  /\ DOMAIN Without(k) = DOMAIN cache \ {k}
           /\ \A x \in DOMAIN cache \ {k} : Without(k)[x] = cache[x]
  BY DEF Without

\* Every step keeps the types.
LEMMA NextKeepsTypeOK == IInv /\ [Next]_vars => TypeOK'
<1> SUFFICES ASSUME IInv, [Next]_vars PROVE TypeOK'
  OBVIOUS
<1> DEFINE Entries == [status : Statuses, expiresAt : Nat]
<1>0. TypeOK /\ NoEntry \in Entries
  BY DEF IInv, NoEntry, Statuses
<1> USE HTTPAssumption, <1>0 DEF Points, TypeOK, caVars, sourceVars, callVars
<1>1. CASE Tick \/ Relink \/ UNCHANGED vars
  BY <1>1 DEF Tick, Relink, vars
<1>2. ASSUME NEW s \in Serials, Revoke(s) PROVE TypeOK'
  BY <1>2, Zenon DEF Revoke, Records
<1>3. ASSUME NEW c \in Callers, Cancel(c) \/ GetStatus(c) PROVE TypeOK'
  <2> USE DEF Goto
  <2>0. entry[c] \in Entries /\ entry[c].status \in Statuses
    OBVIOUS
  <2>1. CASE Cancel(c)
    BY <2>1, Zenon DEF Cancel
  <2>2. ASSUME NEW s \in Serials, Begin(c, s) PROVE TypeOK'
    BY <2>2, Zenon DEF Begin
  <2>3. CASE CheckHealthy(c)
    <3> HIDE DEF Entries
    <3>1. entry' \in [Callers -> Entries]
      BY <2>3, ZenonT(30) DEF CheckHealthy, Finish, Entries
    <3>2. status' \in [Callers -> Statuses \cup {"none", "error"}]
      BY <2>3, Zenon DEF CheckHealthy, Finish
    <3>3. pc' \in [Callers -> Points]
      BY <2>3, Zenon DEF CheckHealthy, Finish
    <3> QED
      BY <2>3, <3>1, <3>2, <3>3, Zenon DEF CheckHealthy, Entries
  <2>4. CASE CacheLoad(c)
    <3>1. CASE serial[c] \in DOMAIN cache
      <4>1. cache[serial[c]] \in Entries
        BY <3>1
      <4> HIDE DEF Entries
      <4>2. entry' \in [Callers -> Entries]
        BY <2>4, <3>1, <4>1, Zenon DEF CacheLoad, Entries
      <4> QED
        BY <2>4, <3>1, <4>2, Zenon DEF CacheLoad, Entries
    <3>2. CASE serial[c] \notin DOMAIN cache
      BY <2>4, <3>2, Zenon DEF CacheLoad
    <3> QED
      BY <3>1, <3>2, Zenon
  <2>5. CASE CacheCheck(c)
    <3>1. DOMAIN cache' \subseteq Serials /\ cache' \in [DOMAIN cache' -> Entries]
      BY <2>5 DEF CacheCheck, Without
    <3> HIDE DEF Entries
    <3>2. entry' \in [Callers -> Entries]
      BY <2>5, Zenon DEF CacheCheck, Finish, Entries
    <3>3. status' \in [Callers -> Statuses \cup {"none", "error"}]
      BY <2>0, <2>5, Zenon DEF CacheCheck, Finish
    <3>4. pc' \in [Callers -> Points]
      BY <2>5, Zenon DEF CacheCheck, Finish
    <3> QED
      BY <2>5, <3>1, <3>2, <3>3, <3>4, Zenon DEF CacheCheck, Entries
  <2>6. CASE FetchCanceled(c)
    BY <2>6, Zenon DEF FetchCanceled, Failing
  <2>7. CASE Fetch(c)
    <3>1. seen' \in [Callers -> Seq(Links)]
      BY <2>7 DEF Fetch
    <3>2. status' \in [Callers -> Statuses \cup {"none", "error"}]
      BY <2>7, Zenon DEF Fetch, Failing, StatusFor, Statuses, Records
    <3>3. servedAt' \in [Callers -> Nat]
      BY <2>7, Zenon DEF Fetch, Failing
    <3>4. pc' \in [Callers -> Points]
      BY <2>7, ZenonT(30) DEF Fetch, Failing
    <3> QED
      BY <2>7, <3>1, <3>2, <3>3, <3>4, Zenon DEF Fetch
  <2>8. CASE Backoff(c)
    BY <2>8, Zenon DEF Backoff, Failing
  <2>9. CASE Demote(c) \/ Promote(c)
    BY <2>9, Zenon DEF Demote, Promote
  <2>10. CASE Store(c)
    <3> DEFINE e == [status |-> status[c], expiresAt |-> now + CacheTTL]
    <3>1. e \in Entries /\ cache' = Put(serial[c], e)
      BY <2>10 DEF Store, IInv, CallInv
    <3> HIDE DEF e, Entries
    <3>2. DOMAIN cache' \subseteq Serials /\ cache' \in [DOMAIN cache' -> Entries]
      BY <3>1 DEF Put, Entries
    <3>3. slowest' \in Nat
      BY <2>10 DEF Store
    <3>4. pc' \in [Callers -> Points]
      BY <2>10 DEF Store
    <3> QED
      BY <2>10, <3>2, <3>3, <3>4, Zenon DEF Store, Entries
  <2>11. CASE Return(c)
    <3>1. <<>> \in Seq(Links)
      OBVIOUS
    <3> QED
      BY <2>11, <3>1, Zenon DEF Return
  <2> QED
    BY <1>3, <2>1, <2>2, <2>3, <2>4, <2>5, <2>6, <2>7, <2>8, <2>9, <2>10, <2>11, Zenon
       DEF GetStatus, Step
<1> QED
  BY <1>1, <1>2, <1>3, Zenon DEF Next

-----------------------------------------------------------------------------
(* Failures are earned. *)

\* The invariant of a lookup depends on its own variables only.
CallState(c) == <<pc[c], serial[c], canceled[c], seen[c], servedAt[c], status[c]>>

\* A step of one lookup leaves the others' variables alone.
LEMMA CallersApart ==
    ASSUME TypeOK, NEW c \in Callers, Cancel(c) \/ GetStatus(c), NEW d \in Callers, d # c
    PROVE  UNCHANGED CallState(d)
<1>0. /\ DOMAIN pc = Callers /\ DOMAIN serial = Callers /\ DOMAIN canceled = Callers
      /\ DOMAIN seen = Callers /\ DOMAIN servedAt = Callers /\ DOMAIN status = Callers
      /\ c \in Callers /\ d \in Callers /\ d # c
  BY DEF TypeOK
<1> USE <1>0 DEF CallState, Goto
<1>1. CASE Cancel(c)
  BY <1>1 DEF Cancel
<1>2. ASSUME NEW s \in Serials, Begin(c, s) PROVE UNCHANGED CallState(d)
  BY <1>2 DEF Begin
<1>3. CASE CheckHealthy(c)
  BY <1>3 DEF CheckHealthy, Finish
<1>4. CASE CacheLoad(c)
  BY <1>4 DEF CacheLoad
<1>5. CASE CacheCheck(c)
  BY <1>5 DEF CacheCheck, Finish
<1>6. CASE FetchCanceled(c)
  BY <1>6 DEF FetchCanceled, Failing
<1>7. CASE Fetch(c)
  BY <1>7 DEF Fetch, Failing
<1>8. CASE Backoff(c)
  BY <1>8 DEF Backoff, Failing
<1>9. CASE Demote(c) \/ Promote(c)
  BY <1>9 DEF Demote, Promote
<1>10. CASE Store(c)
  BY <1>10 DEF Store
<1>11. CASE Return(c)
  BY <1>11 DEF Return
<1> HIDE <1>0 DEF CallState, Goto
<1> QED
  BY <1>1, <1>2, <1>3, <1>4, <1>5, <1>6, <1>7, <1>8, <1>9, <1>10, <1>11 DEF GetStatus, Step

\* An attempt that the CA answers, or not, keeps the account of attempts.
LEMMA FetchKeepsCallInv ==
    ASSUME IInv, NEW c \in Callers, Fetch(c)
    PROVE  CallInv(c)'
<1> DEFINE n == Len(seen[c])
<1>1. /\ seen[c] \in Seq(Links) /\ link \in Links /\ pc[c] = "fetch"
      /\ n \in Nat /\ n < maxAttempts /\ status[c] = "none"
      /\ \A i \in 1 .. n : seen[c][i] = "down"
  BY DEF IInv, TypeOK, CallInv, Fetch, Goto, Failing
<1>2. seen'[c] = Append(seen[c], link) /\ canceled'[c] = canceled[c]
  BY DEF Fetch, IInv, TypeOK
<1>3. /\ Len(seen'[c]) = n + 1 /\ seen'[c][n + 1] = link
      /\ \A i \in 1 .. n : seen'[c][i] = "down"
  BY <1>1, <1>2
<1>4. \/ pc'[c] = "promote" /\ status'[c] \in Statuses /\ link = "up"
      \/ pc'[c] = "demote" /\ status'[c] = "error" /\ link = "garbled"
      \/ pc'[c] = "demote" /\ status'[c] = "error" /\ link = "down" /\ ~RetryLeft(c)
      \/ pc'[c] = "backoff" /\ status'[c] = "none" /\ link = "down" /\ RetryLeft(c)
  BY <1>1 DEF Fetch, Goto, Failing, StatusFor, Statuses, IInv, TypeOK
<1>5. RetryLeft(c) <=> n + 1 < maxAttempts
  BY DEF RetryLeft
<1> DEFINE m == n + 1
<1>6. m \in Nat /\ m <= maxAttempts /\ Len(seen'[c]) = m
      /\ (~RetryLeft(c) => m = maxAttempts)
      /\ \A i \in 1 .. m - 1 : seen'[c][i] = "down"
  BY <1>1, <1>3, <1>5, MaxAttemptsPositive
<1>7. seen'[c][m] = link /\ m > 0
  BY <1>1, <1>3
<1>8. link = "down" => \A i \in 1 .. m : seen'[c][i] = "down"
  BY <1>6, <1>7
<1> HIDE DEF n, m
<1>9. Earned(c)'
  BY <1>4, <1>6, <1>7 DEF Earned, Statuses
<1> QED
  BY <1>4, <1>5, <1>6, <1>8, <1>9 DEF CallInv, m

\* Every step keeps the account of every lookup.
LEMMA NextKeepsIInv == IInv /\ [Next]_vars => IInv'
<1> SUFFICES ASSUME IInv, [Next]_vars PROVE \A d \in Callers : CallInv(d)'
  BY NextKeepsTypeOK DEF IInv
<1>0. TypeOK
  BY DEF IInv
<1>1. ASSUME NEW d \in Callers, UNCHANGED CallState(d) PROVE CallInv(d)'
  BY <1>1 DEF IInv, CallInv, Earned, CallState, maxAttempts
<1>2. CASE Tick \/ Relink \/ (\E s \in Serials : Revoke(s)) \/ UNCHANGED vars
  BY <1>1, <1>2 DEF Tick, Relink, Revoke, vars, callVars, CallState
<1>3. ASSUME NEW c \in Callers, Cancel(c) \/ GetStatus(c), NEW d \in Callers
      PROVE  CallInv(d)'
  <2>1. CASE d # c
    BY <1>0, <1>1, <1>3, <2>1, CallersApart, Zenon
  <2>2. CASE d = c
    <3> USE DEF Goto, Failing, Finish
    <3>0. CallInv(c)
      BY DEF IInv
    <3> USE <1>0, <3>0 DEF TypeOK, CallInv, Earned, maxAttempts
    <3>1. CASE Cancel(c)
      BY <2>2, <3>1 DEF Cancel
    <3>2. CASE (\E s \in Serials : Begin(c, s)) \/ CacheLoad(c)
      BY <2>2, <3>2, MaxAttemptsPositive DEF Begin, CacheLoad
    <3>3. CASE CheckHealthy(c)
      BY <2>2, <3>3, MaxAttemptsPositive DEF CheckHealthy
    <3>4. CASE CacheCheck(c)
      <4>1. entry[c].status \in Statuses /\ "error" \notin Statuses
        BY DEF Statuses
      <4>2. seen'[c] = <<>> /\ pc[c] = "loaded"
        BY <3>4 DEF CacheCheck
      <4>3. \/ pc'[c] = "returned" /\ status'[c] = entry[c].status
            \/ pc'[c] = "fetch" /\ status'[c] = "none"
        BY <3>4, <4>2 DEF CacheCheck
      <4> QED
        BY <2>2, <4>1, <4>2, <4>3, MaxAttemptsPositive
    <3>5. CASE FetchCanceled(c) \/ Backoff(c)
      BY <2>2, <3>5 DEF FetchCanceled, Backoff
    <3>6. CASE Fetch(c)
      BY <2>2, <3>6, FetchKeepsCallInv
    <3>7. CASE Demote(c) \/ Promote(c) \/ Store(c)
      BY <2>2, <3>7, ZenonT(30) DEF Demote, Promote, Store
    <3>8. CASE Return(c)
      BY <2>2, <3>8, MaxAttemptsPositive DEF Return
    <3> QED
      BY <1>3, <3>1, <3>2, <3>3, <3>4, <3>5, <3>6, <3>7, <3>8, Zenon DEF GetStatus, Step
  <2> QED
    BY <2>1, <2>2
<1> QED
  BY <1>2, <1>3 DEF Next

\* The initial state satisfies the invariant.
LEMMA InitEstablishesIInv == Init => IInv
<1> SUFFICES ASSUME Init PROVE IInv
  OBVIOUS
<1>1. TypeOK
  BY DEF Init, TypeOK, NoEntry, Statuses, Points
<1>2. ASSUME NEW c \in Callers PROVE CallInv(c)
  BY MaxAttemptsPositive DEF Init, CallInv, Earned
<1> QED
  BY <1>1, <1>2 DEF IInv

LEMMA Invariance == Spec => []IInv
  BY InitEstablishesIInv, NextKeepsIInv, PTL DEF Spec

\* What HTTPSource caches and answers is always one of the OCSP statuses.
THEOREM TypeCorrect == Spec => []TypeOK
<1>1. IInv => TypeOK
  BY DEF IInv
<1> QED
  BY <1>1, Invariance, PTL

\* GetStatus gives up only for a reason, and after exactly the attempts
\* NewHTTPSource configured, whatever the retry count in the configuration.
THEOREM LookupFailuresAreEarned == Spec => []FailureIsEarned
<1>1. IInv => FailureIsEarned
  BY DEF IInv, CallInv, Earned, FailureIsEarned
<1> QED
  BY <1>1, Invariance, PTL

-----------------------------------------------------------------------------
(* The cache hides a revocation for a bounded time. *)

\* A step that only deletes entries and changes neither the records nor the
\* answers under way keeps the bounds.
LEMMA QuietStepKeepsTimeInv ==
    ASSUME TypeOK, TypeOK', TimeInv,
           now <= now', slowest <= slowest', UNCHANGED <<ca, revokedAt>>,
           \A s \in DOMAIN cache' : s \in DOMAIN cache /\ cache'[s] = cache[s],
           NEW c \in Callers, AnswerInv(c)',
           \A d \in Callers \ {c} :
              UNCHANGED <<pc[d], serial[d], servedAt[d], status[d]>>
    PROVE  TimeInv'
<1>0. now \in Nat /\ now' \in Nat /\ slowest \in Nat /\ slowest' \in Nat /\ CacheTTL \in Nat
  BY HTTPAssumption DEF TypeOK
<1>1. RecordInv'
  BY <1>0 DEF TimeInv, RecordInv
<1>2. ASSUME NEW s \in DOMAIN cache'
      PROVE  /\ s \in DOMAIN cache /\ s \in Serials /\ cache'[s] = cache[s]
             /\ cache[s].expiresAt \in Nat /\ revokedAt[s] \in Nat
             /\ cache[s].expiresAt <= now + CacheTTL
  BY DEF TypeOK, TimeInv, EntryInv
<1>3. EntryInv'
  BY <1>0, <1>2 DEF EntryInv
<1>4. ASSUME NEW d \in Callers PROVE AnswerInv(d)'
  <2>1. CASE d = c
    BY <2>1
  <2>2. CASE d # c
    <3>1. AnswerInv(d) /\ UNCHANGED <<pc[d], serial[d], servedAt[d], status[d]>>
      BY <2>2 DEF TimeInv
    <3>2. servedAt[d] \in Nat
      BY DEF TypeOK
    <3> QED
      BY <1>0, <3>1, <3>2 DEF AnswerInv
  <2> QED
    BY <2>1, <2>2
<1>5. RevocationHiddenAtMostTTL'
  BY <1>0, <1>2 DEF TimeInv, RevocationHiddenAtMostTTL
<1> QED
  BY <1>1, <1>3, <1>4, <1>5 DEF TimeInv

\* The CA revokes: nothing in the cache lasts longer than cache_ttl from now,
\* and no answer under way was given later than now.
LEMMA RevokeKeepsTimeInv ==
    ASSUME TypeOK, TypeOK', TimeInv, NEW s \in Serials, Revoke(s)
    PROVE  TimeInv'
<1> USE HTTPAssumption DEF Revoke, sourceVars, callVars, TimeInv, TypeOK
<1>1. RecordInv'
  BY DEF RecordInv
<1>2. EntryInv'
  BY DEF EntryInv
<1>3. ASSUME NEW d \in Callers PROVE AnswerInv(d)'
  BY DEF AnswerInv
<1>4. RevocationHiddenAtMostTTL'
  BY DEF RevocationHiddenAtMostTTL, EntryInv
<1> QED
  BY <1>1, <1>2, <1>3, <1>4

\* Storing an answer: its deadline is within the bound, because slowest covers
\* the time since the CA gave it.
LEMMA StoreKeepsTimeInv ==
    ASSUME TypeOK, TypeOK', TimeInv, NEW c \in Callers, Store(c)
    PROVE  TimeInv'
<1> USE HTTPAssumption
<1> DEFINE e == [status |-> status[c], expiresAt |-> now + CacheTTL]
<1>1. /\ now' = now /\ UNCHANGED <<ca, revokedAt, serial, servedAt, status>>
      /\ cache' = Put(serial[c], e) /\ pc[c] = "store"
      /\ pc' = [pc EXCEPT ![c] = "returned"]
  BY DEF Store, Goto, caVars
<1>2. slowest <= slowest' /\ now - servedAt[c] <= slowest'
  BY SMTT(30) DEF Store, TypeOK
<1>3. /\ DOMAIN cache' = DOMAIN cache \cup {serial[c]}
      /\ \A s \in DOMAIN cache' : cache'[s] = IF s = serial[c] THEN e ELSE cache[s]
  <2>1. cache' = Put(serial[c], e)
    BY <1>1
  <2> HIDE DEF e
  <2> QED
    BY <2>1 DEF Put
<1>4. RecordInv'
  BY <1>1 DEF TimeInv, RecordInv
<1>5. ASSUME NEW d \in Callers PROVE AnswerInv(d)'
  BY <1>1 DEF TimeInv, AnswerInv, TypeOK
<1>6. ASSUME NEW s \in DOMAIN cache'
      PROVE  /\ cache'[s].expiresAt <= now + CacheTTL
             /\ cache'[s].status = "good" /\ revokedAt[s] # 0
                   => cache'[s].expiresAt <= revokedAt[s] + CacheTTL + slowest'
  <2>1. CASE s = serial[c]
    <3>1. cache'[s].expiresAt = now + CacheTTL /\ cache'[s].status = status[c]
      BY <1>3, <2>1
    <3>2. status[c] = "good" /\ revokedAt[s] # 0 => servedAt[c] <= revokedAt[s]
      BY <1>1, <2>1 DEF TimeInv, AnswerInv
    <3>3. now \in Nat /\ servedAt[c] \in Nat /\ revokedAt[s] \in Nat /\ slowest' \in Nat
      BY <2>1 DEF TypeOK
    <3> QED
      BY <1>2, <3>1, <3>2, <3>3
  <2>2. CASE s # serial[c]
    <3>1. s \in DOMAIN cache /\ cache'[s] = cache[s]
      BY <1>3, <2>2
    <3>2. /\ cache[s].expiresAt \in Nat /\ revokedAt[s] \in Nat
          /\ slowest \in Nat /\ slowest' \in Nat
      BY <3>1 DEF TypeOK
    <3> QED
      BY <1>2, <3>1, <3>2 DEF TimeInv, EntryInv, RevocationHiddenAtMostTTL
  <2> QED
    BY <2>1, <2>2
<1>7. EntryInv' /\ RevocationHiddenAtMostTTL'
  BY <1>1, <1>6 DEF EntryInv, RevocationHiddenAtMostTTL
<1> QED
  BY <1>4, <1>5, <1>7 DEF TimeInv

\* Storing apart, a step of a lookup changes neither the clock nor the records,
\* and at most deletes its serial from the cache.
LEMMA OnlyStoreAdds ==
    ASSUME NEW c \in Callers, Cancel(c) \/ GetStatus(c), ~Store(c)
    PROVE  /\ UNCHANGED <<now, slowest, ca, revokedAt>>
           /\ cache' = cache \/ cache' = Without(serial[c])
<1> USE DEF caVars, sourceVars
<1>1. CASE Cancel(c)
  BY <1>1 DEF Cancel
<1>2. CASE \E s \in Serials : Begin(c, s)
  BY <1>2, Zenon DEF Begin
<1>3. CASE CheckHealthy(c) \/ CacheLoad(c)
  BY <1>3 DEF CheckHealthy, CacheLoad
<1>4. CASE CacheCheck(c)
  BY <1>4, Zenon DEF CacheCheck
<1>5. CASE FetchCanceled(c) \/ Fetch(c) \/ Backoff(c)
  BY <1>5 DEF FetchCanceled, Fetch, Backoff
<1>6. CASE Demote(c) \/ Promote(c)
  BY <1>6 DEF Demote, Promote
<1>7. CASE Return(c)
  BY <1>7, Zenon DEF Return
<1> HIDE DEF caVars, sourceVars
<1> QED
  BY <1>1, <1>2, <1>3, <1>4, <1>5, <1>6, <1>7, Zenon DEF GetStatus, Step

\* Only Fetch takes an answer from the CA: another step keeps the one under way
\* or drops it.
LEMMA OnlyFetchAnswers ==
    ASSUME TypeOK, NEW c \in Callers, Cancel(c) \/ GetStatus(c), ~Store(c), ~Fetch(c)
    PROVE  /\ servedAt'[c] = servedAt[c] \/ servedAt'[c] = 0
           /\ pc'[c] \in {"promote", "store"} =>
                 /\ pc[c] \in {"promote", "store"} /\ serial'[c] = serial[c]
                 /\ servedAt'[c] = servedAt[c] /\ status'[c] = status[c]
<1>0. c \in DOMAIN pc /\ c \in DOMAIN servedAt
  BY Zenon DEF TypeOK
<1> USE <1>0 DEF Goto
<1>1. CASE Cancel(c)
  BY <1>1 DEF Cancel
<1>2. CASE \E s \in Serials : Begin(c, s)
  BY <1>2 DEF Begin
<1>3. CASE CheckHealthy(c)
  BY <1>3 DEF CheckHealthy, Finish
<1>4. CASE CacheLoad(c) \/ CacheCheck(c)
  BY <1>4 DEF CacheLoad, CacheCheck, Finish
<1>5. CASE FetchCanceled(c) \/ Backoff(c)
  BY <1>5 DEF FetchCanceled, Backoff, Failing
<1>6. CASE Demote(c) \/ Promote(c)
  BY <1>6 DEF Demote, Promote
<1>7. CASE Return(c)
  BY <1>7 DEF Return
<1> HIDE <1>0 DEF Goto
<1> QED
  BY <1>1, <1>2, <1>3, <1>4, <1>5, <1>6, <1>7, Zenon DEF GetStatus, Step

\* Every step keeps the bounds.
LEMMA NextKeepsTimeInv == IInv /\ TimeInv /\ [Next]_vars => TimeInv'
<1> SUFFICES ASSUME IInv, TimeInv, [Next]_vars PROVE TimeInv'
  OBVIOUS
<1>0. TypeOK /\ TypeOK'
  BY NextKeepsTypeOK, Zenon DEF IInv
<1>1. CASE Tick \/ Relink \/ UNCHANGED vars
  <2>1. now <= now' /\ UNCHANGED <<ca, revokedAt, cache, pc, serial, servedAt, status, slowest>>
    BY <1>0, <1>1 DEF Tick, Relink, vars, caVars, sourceVars, callVars, TypeOK
  <2> QED
    BY <1>0, <2>1, HTTPAssumption DEF TimeInv, RecordInv, EntryInv, AnswerInv,
       RevocationHiddenAtMostTTL, TypeOK
<1>2. ASSUME NEW s \in Serials, Revoke(s) PROVE TimeInv'
  BY <1>0, <1>2, RevokeKeepsTimeInv
<1>3. ASSUME NEW c \in Callers, Cancel(c) \/ GetStatus(c) PROVE TimeInv'
  <2>1. CASE Store(c)
    BY <1>0, <2>1, StoreKeepsTimeInv
  <2>2. CASE ~Store(c)
    <3>1. /\ UNCHANGED <<now, slowest, ca, revokedAt>>
          /\ cache' = cache \/ cache' = Without(serial[c])
      BY <1>3, <2>2, OnlyStoreAdds
    <3>3. \A s \in DOMAIN cache' : s \in DOMAIN cache /\ cache'[s] = cache[s]
      BY <3>1, WithoutFacts, Zenon
    <3>4. \A d \in Callers \ {c} : UNCHANGED <<pc[d], serial[d], servedAt[d], status[d]>>
      BY <1>0, <1>3, CallersApart DEF CallState
    <3>5. AnswerInv(c)'
      <4>1. AnswerInv(c) /\ RecordInv /\ serial[c] \in Serials /\ now \in Nat
        BY <1>0 DEF TimeInv, TypeOK
      <4>2. CASE Fetch(c)
        <5>1. servedAt'[c] = now \/ (servedAt'[c] = servedAt[c] /\ pc'[c] # "promote")
          BY <1>0, <4>2, Zenon DEF TypeOK, Fetch, Failing, Goto
        <5>2. pc'[c] # "store" /\ (pc'[c] = "promote" => status'[c] = StatusFor(ca[serial[c]]))
          BY <1>0, <4>2 DEF TypeOK, Fetch, Failing, Goto
        <5>3. status'[c] = "good" /\ pc'[c] = "promote" => revokedAt[serial[c]] = 0
          BY <4>1, <5>2, Zenon DEF StatusFor, RecordInv
        <5>4. serial'[c] = serial[c]
          BY <4>2 DEF Fetch
        <5> QED
          BY <3>1, <4>1, <5>1, <5>2, <5>3, <5>4 DEF AnswerInv
      <4>3. CASE ~Fetch(c)
        <5>1. /\ servedAt'[c] = servedAt[c] \/ servedAt'[c] = 0
              /\ pc'[c] \in {"promote", "store"} =>
                    /\ pc[c] \in {"promote", "store"} /\ serial'[c] = serial[c]
                    /\ servedAt'[c] = servedAt[c] /\ status'[c] = status[c]
          BY <1>0, <1>3, <2>2, <4>3, OnlyFetchAnswers
        <5> QED
          BY <3>1, <4>1, <5>1 DEF AnswerInv
      <4> QED
        BY <4>2, <4>3
    <3>6. now <= now' /\ slowest <= slowest'
      BY <1>0, <3>1 DEF TypeOK
    <3> QED
      BY <1>0, <3>1, <3>3, <3>4, <3>5, <3>6, QuietStepKeepsTimeInv
  <2> QED
    BY <2>1, <2>2, Zenon
<1> QED
  BY <1>1, <1>2, <1>3 DEF Next

\* Once the CA has revoked a serial, HTTPSource's cache holds `good` for it no
\* longer than cache_ttl plus the slowest storing of an answer.
THEOREM RevocationIsHiddenAtMostTTL == Spec => []RevocationHiddenAtMostTTL
<1>1. Init => TimeInv
  BY DEF Init, TimeInv, RecordInv, EntryInv, AnswerInv, RevocationHiddenAtMostTTL
<1>2. TimeInv => RevocationHiddenAtMostTTL
  BY DEF TimeInv
<1> QED
  BY <1>1, <1>2, NextKeepsTimeInv, Invariance, PTL DEF Spec

-----------------------------------------------------------------------------
(* The service: HTTPSource and ResponsePath side by side. *)

\* What the path asks the source for is a serial.
Keyed == key \in [Callers -> Serials]

\* Only a new request changes the serial.
LEMMA PathKeepsKeyed ==
    ASSUME Keyed, [Path!Next]_pathVars
    PROVE  Keyed'
<1>1. ASSUME NEW c \in Callers, NEW s \in Serials, Path!Arrive(c, s) PROVE Keyed'
  BY <1>1 DEF Keyed, Path!Arrive
<1>2. CASE UNCHANGED key
  BY <1>2, Zenon DEF Keyed
<1>3. ASSUME Path!Next PROVE UNCHANGED key \/ \E c \in Callers, s \in Serials : Path!Arrive(c, s)
  BY <1>3, Zenon DEF Path!Next, Path!Expire, Path!Lookup, Path!SourceReturns, Path!Proceed, Path!CacheGet,
     Path!CacheRecheck, Path!Hit, Path!SignAndSet, Path!SignFails, Path!Respond
<1> QED BY <1>1, <1>2, <1>3 DEF pathVars

\* Every step of the service is one of the source, of the path, or of both.
LEMMA ServiceSteps ==
    ASSUME Keyed, [ServiceNext]_serviceVars
    PROVE  [Next]_vars /\ [Path!Next]_pathVars
<1>1. CASE Environment
  BY <1>1 DEF Environment, Next
<1>2. ASSUME NEW s \in Serials, Expire(s) PROVE [Next]_vars /\ [Path!Next]_pathVars
  BY <1>2 DEF Expire, Path!Next
<1>3. ASSUME NEW c \in Callers, Request(c) \/ Serve(c)
      PROVE  [Next]_vars /\ [Path!Next]_pathVars
  <2>1. CASE Request(c) \/ (Path!Proceed(c) /\ UNCHANGED vars)
    BY <2>1 DEF Request, Path!Next
  <2>2. CASE CallSource(c)
    <3>1. key[c] \in Serials
      BY DEF Keyed
    <3> QED BY <2>2, <3>1 DEF CallSource, Path!Next, Next, GetStatus
  <2>3. CASE RunSource(c)
    BY <2>3 DEF RunSource, Next, GetStatus
  <2>4. CASE SourceReturns(c)
    <3> DEFINE result == IF status[c] \in {"good", "revoked"} THEN status[c] ELSE "error"
    <3>1. Path!SourceReturns(c, result) /\ result \in {"good", "revoked", "error"}
      BY <2>4, Zenon DEF SourceReturns, Path!SourceReturns
    <3> HIDE DEF result
    <3> QED BY <2>4, <3>1 DEF SourceReturns, Path!Next, Next, GetStatus
  <2> QED BY <1>3, <2>1, <2>2, <2>3, <2>4 DEF Serve
<1>4. CASE UNCHANGED serviceVars
  BY <1>4 DEF serviceVars
<1> QED BY <1>1, <1>2, <1>3, <1>4 DEF ServiceNext

\* A service with the CA's API as its source takes the steps of HTTPSource and
\* those of ResponsePath, hence of Handle, and no others.
THEOREM ServiceIsSourceAndPath ==
    ServiceSpec => Init /\ [][Next]_vars /\ Path!Spec
<1>1. ServiceInit => Init /\ Path!Init /\ Keyed
  BY DEF ServiceInit, Path!Init, Keyed
<1>2. Keyed /\ [ServiceNext]_serviceVars => [Next]_vars /\ [Path!Next]_(Path!vars) /\ Keyed'
  BY ServiceSteps, PathKeepsKeyed DEF pathVars, Path!vars
<1> QED BY <1>1, <1>2, PTL DEF ServiceSpec, Path!Spec

\* Behind the response cache too, a lookup fails only after all its attempts, on
\* a reply that does not decode, or for a client that went away.
THEOREM ServiceFailuresAreEarned == ServiceSpec => []FailureIsEarned
<1>1. IInv => FailureIsEarned
  BY DEF IInv, CallInv, Earned, FailureIsEarned
<1> QED BY <1>1, InitEstablishesIInv, NextKeepsIInv, ServiceIsSourceAndPath, PTL
=============================================================================
