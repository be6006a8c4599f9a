-------------------------- MODULE FileSourceProofs --------------------------
(***************************************************************************)
(* Proofs about FileSource, for every set of contents, serials and callers,*)
(* every grace period and skew, and for a disk file as well as a URL, and  *)
(* about CRLService, which puts the response path in front of it.          *)
(***************************************************************************)
EXTENDS CRLService, TLAPS

\* What holds between two steps of the reload goroutine.  The last conjunct is
\* the reason a skipped reload is safe: while the source is loaded, the stored
\* digest can only be the digest of the CRL in memory.
LoopInv ==
    /\ pc \in {"swap", "storeLoaded"} => Accepted(buf)
    /\ pc = "storeLoaded" => crl = CRLOf(buf)
    /\ pc = "checkExpiry" => loaded /\ crl = CRLOf(buf)
    /\ ~IsURL /\ loaded /\ pc # "storeLoaded" =>
          \A f \in Files : lastHash = Sum256(f) => crl = CRLOf(f)

IInv == TypeOK /\ LoopInv

-----------------------------------------------------------------------------

\* What NewFileSource leaves satisfies the invariant.
LEMMA InitEstablishesIInv == Init => IInv
<1> SUFFICES ASSUME Init PROVE IInv
  OBVIOUS
<1> USE FilesAssumption
<1>1. PICK f \in Files : NewFileSource(f)
  BY DEF Init
<1>2. CRLOf(f) \in CRLs
  BY <1>1 DEF NewFileSource, CRLs
<1>3. now \in Nat
  BY DEF Init
<1>4. call \in [Callers -> Calls]
  BY DEF Init, Pending, Calls, CallRecords, Errors
<1>5. TypeOK
  BY <1>1, <1>2, <1>3, <1>4, Zenon DEF Init, NewFileSource, TypeOK
<1>6. LoopInv
  BY <1>1 DEF Init, NewFileSource, LoopInv, Sum256, NoHash
<1> QED
  BY <1>5, <1>6 DEF IInv

\* A step of a caller changes nothing but its own call, and keeps it typed.
LEMMA GetStatusKeepsType ==
    ASSUME TypeOK, NEW c \in Callers, GetStatus(c)
    PROVE  /\ call' \in [Callers -> Calls]
           /\ UNCHANGED <<now, file, sourceVars, done, loopVars>>
<1> USE DEF TypeOK
<1>0. call[c] \in Calls
  OBVIOUS
<1>1. crl.nextUpdate \in Nat
  BY FilesAssumption DEF CRLs, CRLOf
<1>2. ASSUME NEW s \in Serials, Call(c, s)
      PROVE  /\ call' \in [Callers -> Calls]
             /\ UNCHANGED <<now, file, sourceVars, done, loopVars>>
  BY <1>2 DEF Call, Pending, Calls, CallRecords, Errors
<1>3. ASSUME NEW canceled \in BOOLEAN, CheckLoaded(c, canceled)
      PROVE  /\ call' \in [Callers -> Calls]
             /\ UNCHANGED <<now, file, sourceVars, done, loopVars>>
  BY <1>0, <1>3 DEF CheckLoaded, Pending, Result, Calls, CallRecords, Errors
<1>4. ASSUME NEW issuer \in Issuers, Snapshot(c, issuer)
      PROVE  /\ call' \in [Callers -> Calls]
             /\ UNCHANGED <<now, file, sourceVars, done, loopVars>>
  BY <1>0, <1>1, <1>4 DEF Snapshot, Result, Calls, CallRecords, Errors, StatusIn
<1>5. ASSUME Return(c)
      PROVE  /\ call' \in [Callers -> Calls]
             /\ UNCHANGED <<now, file, sourceVars, done, loopVars>>
  BY <1>0, <1>5 DEF Return, Pending, Calls, CallRecords, Errors
<1> QED
  BY <1>2, <1>3, <1>4, <1>5 DEF GetStatus

\* Every step keeps the invariant.
LEMMA NextKeepsIInv == IInv /\ [Next]_vars => IInv'
<1> SUFFICES ASSUME IInv, [Next]_vars PROVE IInv'
  OBVIOUS
<1> USE DEF IInv
<1>1. CASE Tick
  BY <1>1 DEF Tick, TypeOK, LoopInv, sourceVars, loopVars
<1>2. ASSUME NEW f \in Files, Publish(f) PROVE IInv'
  BY <1>2 DEF Publish, TypeOK, LoopInv, sourceVars, loopVars
<1>3. CASE Stop
  BY <1>3 DEF Stop, TypeOK, LoopInv, sourceVars, loopVars
<1>4. CASE ReadCRL
  <2>1. TypeOK'
    BY <1>4 DEF ReadCRL, TypeOK, sourceVars
  <2>2. LoopInv'
    BY <1>4 DEF ReadCRL, TypeOK, LoopInv, sourceVars, Unchanged, Accepted
  <2> QED BY <2>1, <2>2
<1>5. CASE SwapCRL
  <2>1. CRLOf(buf) \in CRLs
    BY <1>5 DEF SwapCRL, TypeOK, LoopInv, CRLs
  <2>2. TypeOK'
    BY <1>5, <2>1 DEF SwapCRL, TypeOK
  <2>3. LoopInv'
    BY <1>5 DEF SwapCRL, LoopInv
  <2> QED BY <2>2, <2>3
<1>6. CASE StoreLoaded
  <2>1. TypeOK'
    BY <1>6 DEF StoreLoaded, TypeOK
  <2>2. LoopInv'
    BY <1>6 DEF StoreLoaded, TypeOK, LoopInv, Sum256
  <2> QED BY <2>1, <2>2
<1>7. CASE CheckExpiry
  <2>1. TypeOK'
    BY <1>7 DEF CheckExpiry, TypeOK
  <2>2. LoopInv'
    BY <1>7 DEF CheckExpiry, LoopInv
  <2> QED BY <2>1, <2>2
<1>8. CASE MarkUnhealthy
  BY <1>8, Zenon DEF MarkUnhealthy, TypeOK, LoopInv
<1>9. CASE ExitLoop
  BY <1>9 DEF ExitLoop, TypeOK, LoopInv, sourceVars
<1>10. ASSUME NEW c \in Callers, GetStatus(c) PROVE IInv'
  BY <1>10, GetStatusKeepsType
     DEF TypeOK, LoopInv, sourceVars, loopVars
<1>11. CASE UNCHANGED vars
  BY <1>11 DEF vars, TypeOK, LoopInv, sourceVars, loopVars
<1> QED
  BY <1>1, <1>2, <1>3, <1>4, <1>5, <1>6, <1>7, <1>8, <1>9, <1>10, <1>11
     DEF Next, Reload

\* The invariant holds throughout.
LEMMA Invariance == Spec => []IInv
  BY InitEstablishesIInv, NextKeepsIInv, PTL DEF Spec

-----------------------------------------------------------------------------

\* The source stays well typed; in particular the CRL in memory is always one
\* that parseCRLBytes verified against the configured issuer.
THEOREM TypeCorrect == Spec => []TypeOK
<1>1. IInv => TypeOK
  BY DEF IInv
<1> QED
  BY <1>1, Invariance, PTL

\* A reload pass that ends without an error leaves in memory the CRL of the
\* bytes it read, also when reloadFromDiskIfChanged skipped the parse.
THEOREM ReloadInstallsWhatItRead == Spec => []PassInstallsWhatItRead
<1>1. IInv => PassInstallsWhatItRead
  BY DEF IInv, LoopInv, PassInstallsWhatItRead
<1> QED
  BY <1>1, Invariance, PTL

-----------------------------------------------------------------------------
(* FileSource implements StatusSource: initial states map to initial       *)
(* states, and every step maps to a step of the contract or to a stutter.  *)

\* The initial states of FileSource are initial states of the contract.
LEMMA InitImplements == Init => Source!Init
<1> SUFFICES ASSUME Init PROVE Source!Init
  OBVIOUS
<1>1. crl \in CRLs /\ loaded = TRUE
  BY InitEstablishesIInv DEF Init, NewFileSource, IInv, TypeOK
<1> QED
  BY <1>1 DEF Init, Source!Init, Source!Pending, Pending

\* A step of a caller is a step of the contract.
LEMMA GetStatusImplements ==
    ASSUME NEW c \in Callers, GetStatus(c)
    PROVE  Source!Next
<1> USE DEF Source!Pending, Pending, Source!Result, Result, sourceVars
<1>1. ASSUME NEW s \in Serials, Call(c, s) PROVE Source!Next
  BY <1>1, Zenon DEF Call, Source!Call, Source!Next
<1>2. ASSUME NEW canceled \in BOOLEAN, CheckLoaded(c, canceled) PROVE Source!Next
  <2>1. CASE canceled
    <3>1. Source!Refuse(c, "canceled")
      BY <1>2, <2>1 DEF CheckLoaded, Source!Refuse, Source!MayRefuse
    <3> QED
      BY <3>1 DEF Source!Next, Source!Errors
  <2>2. CASE ~canceled /\ ~loaded
    <3>1. Source!Refuse(c, "unhealthy")
      BY <1>2, <2>2 DEF CheckLoaded, Source!Refuse, Source!MayRefuse
    <3> QED
      BY <3>1 DEF Source!Next, Source!Errors
  <2>3. CASE ~canceled /\ loaded
    BY <1>2, <2>3, Zenon DEF CheckLoaded, Source!Admit, Source!Next
  <2> QED
    BY <2>1, <2>2, <2>3
<1>3. ASSUME NEW issuer \in Issuers, Snapshot(c, issuer) PROVE Source!Next
  <2>0. Source!crlUsableAt(crl, now) <=> crlUsableAt(crl, now)
    BY DEF Source!crlUsableAt, crlUsableAt, Source!crlExpiredAt, crlExpiredAt,
           Source!crlNotYetValidAt, crlNotYetValidAt, Source!IsZero, IsZero
  <2>1. CASE ~crlUsableAt(crl, now)
    <3>1. Source!Refuse(c, "unhealthy")
      BY <1>3, <2>0, <2>1 DEF Snapshot, Source!Refuse, Source!MayRefuse
    <3> QED
      BY <3>1 DEF Source!Next, Source!Errors
  <2>2. CASE crlUsableAt(crl, now) /\ issuer # "configured"
    <3>1. Source!Refuse(c, "issuer")
      BY <1>3, <2>2 DEF Snapshot, Source!Refuse, Source!MayRefuse
    <3> QED
      BY <3>1 DEF Source!Next, Source!Errors
  <2>3. CASE crlUsableAt(crl, now) /\ issuer = "configured"
    <3>1. Source!Answer(c)
      BY <1>3, <2>0, <2>3 DEF Snapshot, Source!Answer, Source!StatusIn, StatusIn
    <3> QED
      BY <3>1 DEF Source!Next
  <2> QED
    BY <2>1, <2>2, <2>3
<1>4. ASSUME Return(c) PROVE Source!Next
  BY <1>4, Zenon DEF Return, Source!Return, Source!Next
<1> QED
  BY <1>1, <1>2, <1>3, <1>4 DEF GetStatus

\* Every step of FileSource is a step of the contract, or invisible to it.
LEMMA NextImplements == IInv /\ [Next]_vars => [Source!Next]_(Source!vars)
<1> SUFFICES ASSUME IInv, [Next]_vars
             PROVE  Source!Next \/ UNCHANGED Source!vars
  OBVIOUS
<1>1. CASE Tick
  BY <1>1 DEF Tick, sourceVars, Source!Next, Source!Tick
<1>2. CASE SwapCRL
  <2>1. crl' \in CRLs
    BY <1>2 DEF IInv, TypeOK, LoopInv, CRLs, SwapCRL
  <2> QED
    BY <1>2, <2>1 DEF SwapCRL, Source!Next, Source!Install
<1>3. CASE StoreLoaded
  BY <1>3 DEF StoreLoaded, Source!Next, Source!SetUp
<1>4. CASE MarkUnhealthy
  BY <1>4, Zenon DEF MarkUnhealthy, Source!Next, Source!SetUp
<1>5. ASSUME NEW c \in Callers, GetStatus(c) PROVE Source!Next
  BY <1>5, GetStatusImplements
<1>6. CASE \/ \E f \in Files : Publish(f)
           \/ Stop \/ ReadCRL \/ CheckExpiry \/ ExitLoop \/ UNCHANGED vars
  BY <1>6 DEF Publish, Stop, ReadCRL, CheckExpiry, ExitLoop, vars, sourceVars,
              Source!vars
<1> QED
  BY <1>1, <1>2, <1>3, <1>4, <1>5, <1>6 DEF Next, Reload

\* FileSource implements the contract of a source: reloads, failed loads and
\* the gap between the check of `loaded` and the snapshot never let GetStatus
\* return an answer that StatusSource forbids.
THEOREM FileSourceImplementsStatusSource == Spec => ImplementsStatusSource
  BY InitImplements, NextImplements, Invariance, PTL
     DEF Spec, ImplementsStatusSource, Source!Spec

-----------------------------------------------------------------------------
(* The service: FileSource and ResponsePath side by side. *)

\* What the path asks the source for is a serial.
Keyed == key \in [Callers -> Serials]

\* Only a new request changes the serial.
LEMMA PathKeepsKeyed ==
    ASSUME Keyed, [Path!Next]_pathVars
    PROVE  Keyed'
<1>1. ASSUME NEW c \in Callers, NEW s \in Serials, Path!Arrive(c, s) PROVE Keyed'
  BY <1>1 DEF Keyed, Path!Arrive
<1>2. CASE UNCHANGED key
  BY <1>2 DEF Keyed
<1>3. ASSUME Path!Next PROVE UNCHANGED key \/ \E c \in Callers, s \in Serials : Path!Arrive(c, s)
  BY <1>3, Zenon DEF Path!Next, Path!Expire, Path!Lookup, Path!SourceReturns, Path!Proceed, Path!CacheGet,
     Path!CacheRecheck, Path!Hit, Path!SignAndSet, Path!SignFails, Path!Respond
<1> QED BY <1>1, <1>2, <1>3 DEF pathVars

\* Every step of the service is one of the source, of the path, or of both.
LEMMA ServiceSteps ==
    ASSUME Keyed, [ServiceNext]_serviceVars
    PROVE  [Next]_vars /\ [Path!Next]_pathVars
<1>1. CASE SourceStep
  BY <1>1 DEF SourceStep, Next
<1>2. ASSUME NEW s \in Serials, Expire(s) PROVE [Next]_vars /\ [Path!Next]_pathVars
  BY <1>2 DEF Expire, Path!Next
<1>3. ASSUME NEW c \in Callers, NEW s \in Serials, Path!Arrive(c, s), UNCHANGED vars
      PROVE  [Next]_vars /\ [Path!Next]_pathVars
  BY <1>3 DEF Path!Next
<1>4. ASSUME NEW c \in Callers, Serve(c) \/ GiveUp(c)
      PROVE  [Next]_vars /\ [Path!Next]_pathVars
  <2>1. CASE Path!Proceed(c) /\ UNCHANGED vars
    BY <2>1 DEF Path!Next
  <2>2. CASE CallSource(c)
    <3>1. key[c] \in Serials
      BY DEF Keyed
    <3> QED BY <2>2, <3>1 DEF CallSource, Path!Next, Next, GetStatus
  <2>3. CASE RunSource(c) \/ GiveUp(c)
    BY <2>3, Zenon DEF RunSource, GiveUp, Next, GetStatus, Issuers
  <2>4. CASE SourceReturns(c)
    <3> DEFINE status == IF call[c].status \in {"good", "revoked"} THEN call[c].status ELSE "error"
    <3>1. Path!SourceReturns(c, status) /\ status \in {"good", "revoked", "error"}
      BY <2>4, Zenon DEF SourceReturns, Path!SourceReturns
    <3> HIDE DEF status
    <3> QED BY <2>4, <3>1 DEF SourceReturns, Path!Next, Next, GetStatus
  <2> QED BY <1>4, <2>1, <2>2, <2>3, <2>4 DEF Serve
<1>5. CASE UNCHANGED serviceVars
  BY <1>5 DEF serviceVars
<1> QED BY <1>1, <1>2, <1>3, <1>4, <1>5 DEF ServiceNext

\* The composition hides nothing of its parts: a service with a CRL source takes
\* the steps of FileSource and those of ResponsePath, hence of Handle, and no
\* others.
THEOREM ServiceIsSourceAndPath ==
    ServiceSpec => Init /\ [][Next]_vars /\ Path!Spec
<1>1. ServiceInit => Init /\ Path!Init /\ Keyed
  BY DEF ServiceInit, Path!Init, Keyed
<1>2. Keyed /\ [ServiceNext]_serviceVars => [Next]_vars /\ [Path!Next]_(Path!vars) /\ Keyed'
  BY ServiceSteps, PathKeepsKeyed DEF pathVars, Path!vars
<1> QED BY <1>1, <1>2, PTL DEF ServiceSpec, Path!Spec

\* A reload pass installs what it read also with requests in flight.
THEOREM ServiceInstallsWhatItRead == ServiceSpec => []PassInstallsWhatItRead
<1>1. IInv => PassInstallsWhatItRead
  BY DEF IInv, LoopInv, PassInstallsWhatItRead
<1> QED BY <1>1, InitEstablishesIInv, NextKeepsIInv, ServiceIsSourceAndPath, PTL

\* What the response path gets from the source is what StatusSource allows.
THEOREM ServiceImplementsStatusSource == ServiceSpec => ImplementsStatusSource
  BY InitImplements, NextImplements, InitEstablishesIInv, NextKeepsIInv,
     ServiceIsSourceAndPath, PTL DEF ImplementsStatusSource, Source!Spec
=============================================================================
