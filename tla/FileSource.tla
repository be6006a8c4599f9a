----------------------------- MODULE FileSource -----------------------------
(***************************************************************************)
(* The CRL source (internal/source/file.go): the reload goroutine, the     *)
(* GetStatus callers beside it, the clock, and the publisher that replaces *)
(* the CRL file (or what the CRL URL serves) at any moment.                *)
(*                                                                         *)
(* One step per access to state another goroutine can see.  The reload     *)
(* goroutine reads the file, swaps the CRL under s.mu, stores `loaded`     *)
(* after the unlock, and only then records the digest; a caller reads      *)
(* `loaded` without the lock and takes its snapshot under it.              *)
(***************************************************************************)
EXTENDS CRLValidity

CONSTANTS Serials,    \* certificate serial numbers
          Files,      \* contents the CRL path or URL can have
          Callers,    \* goroutines that call GetStatus
          IsURL,      \* whether the CRL is fetched over HTTP
          MaxTime     \* bound on the clock

\* How a content fails, or "crl": it cannot be read (missing file, failed or
\* non-200 fetch), does not parse, names another issuer, or is badly signed.
Kinds == {"unreadable", "garbage", "foreign", "forged", "crl"}

ASSUME FilesAssumption ==
    /\ Files \subseteq [kind : Kinds, revoked : SUBSET Serials,
                        thisUpdate : Nat, nextUpdate : Nat]
    /\ IsURL \in BOOLEAN
    /\ MaxTime \in Nat

VARIABLES now,            \* the wall clock
          file,           \* what the CRL path or URL holds
          crl,            \* s.revoked, s.thisUpdate, s.nextUpdate, under s.mu
          loaded,         \* s.loaded
          lastHash,       \* s.lastHash
          expiredLogged,  \* s.expiredLogged
          done,           \* s.done is closed
          pc,             \* where the reload goroutine is
          buf,            \* the bytes its last read returned
          call            \* call[c]: the GetStatus call of goroutine c

sourceVars == <<crl, loaded, lastHash, expiredLogged>>
loopVars   == <<pc, buf>>
vars == <<now, file, sourceVars, done, loopVars, call>>

-----------------------------------------------------------------------------
(* Reading a content. *)

Readable(f) == f.kind # "unreadable"

\* verifyCRLForIssuer: the issuer names match and the signature checks.
verifyCRLForIssuer(f) == f.kind \notin {"foreign", "forged"}

\* parseCRLBytes reaches the swap.
Accepted(f) == Readable(f) /\ f.kind # "garbage" /\ verifyCRLForIssuer(f)

CRLOf(f) == [revoked |-> f.revoked, thisUpdate |-> f.thisUpdate,
             nextUpdate |-> f.nextUpdate]

\* sha256.Sum256, without collisions; <<>> is the zero digest never stored.
Sum256(f) == <<f>>
NoHash == <<>>

\* Mutant: the digest alone decides.
UnchangedByDigest(f) == ~IsURL /\ Sum256(f) = lastHash

\* reloadFromDiskIfChanged returns early: same bytes as the last good load,
\* and that load still stands.
Unchanged(f) == ~IsURL /\ Sum256(f) = lastHash /\ loaded

-----------------------------------------------------------------------------
(* The state NewFileSource leaves: the first load succeeded, checkExpiry   *)
(* ran, and the reload goroutine waits for its first tick.                 *)

NewFileSource(f) ==
    /\ Accepted(f)
    /\ file = f
    /\ buf = f
    /\ crl = CRLOf(f)
    /\ loaded = TRUE
    /\ lastHash = IF IsURL THEN NoHash ELSE Sum256(f)
    /\ expiredLogged = ~crlUsableAt(CRLOf(f), now)

Init ==
    /\ now \in 1 .. MaxTime
    /\ \E f \in Files : NewFileSource(f)
    /\ done = FALSE
    /\ pc = "select"
    /\ call \in [Callers -> {Pending("idle", s) : s \in Serials}]

-----------------------------------------------------------------------------
(* The environment. *)

Tick ==
    /\ now < MaxTime
    /\ now' = now + 1
    /\ UNCHANGED <<file, sourceVars, done, loopVars, call>>

\* The publisher replaces the content, or an outage begins or ends.
Publish(f) ==
    /\ file' = f
    /\ UNCHANGED <<now, sourceVars, done, loopVars, call>>

Stop ==
    /\ ~done
    /\ done' = TRUE
    /\ UNCHANGED <<now, file, sourceVars, loopVars, call>>

-----------------------------------------------------------------------------
(* reloadLoop. *)

\* The ticker fires and the content is read.  A select with both channels
\* ready picks either, so a tick can still be taken after Stop.
ReadCRL ==
    /\ pc = "select"
    /\ buf' = file
    /\ pc' = IF Readable(file) /\ Unchanged(file) THEN "checkExpiry"
             ELSE IF Accepted(file) THEN "swap"
             ELSE "markUnhealthy"
    /\ UNCHANGED <<now, file, sourceVars, done, call>>

\* Mutant: what was verified is read again for the swap.
SwapCRLReadAgain ==
    /\ pc = "swap"
    /\ crl' = CRLOf(file)
    /\ pc' = "storeLoaded"
    /\ UNCHANGED <<now, file, loaded, lastHash, expiredLogged, done, buf, call>>

\* parseCRLBytes, the critical section.
SwapCRL ==
    /\ pc = "swap"
    /\ crl' = CRLOf(buf)
    /\ pc' = "storeLoaded"
    /\ UNCHANGED <<now, file, loaded, lastHash, expiredLogged, done, buf, call>>

\* Mutant: a reload does not record its digest.
StoreLoadedOnly ==
    /\ pc = "storeLoaded"
    /\ loaded' = TRUE
    /\ pc' = "checkExpiry"
    /\ UNCHANGED <<now, file, crl, lastHash, expiredLogged, done, buf, call>>

\* parseCRLBytes after the unlock, then storeHash (disk only).
StoreLoaded ==
    /\ pc = "storeLoaded"
    /\ loaded' = TRUE
    /\ lastHash' = IF IsURL THEN lastHash ELSE Sum256(buf)
    /\ pc' = "checkExpiry"
    /\ UNCHANGED <<now, file, crl, expiredLogged, done, buf, call>>

\* Mutant: the flag is set on expiry and never reset.
CheckExpirySticky ==
    /\ pc = "checkExpiry"
    /\ expiredLogged' = (expiredLogged \/ ~crlUsableAt(crl, now))
    /\ pc' = "select"
    /\ UNCHANGED <<now, file, crl, loaded, lastHash, done, buf, call>>

\* checkExpiry: logs on a change of expiredLogged only.
CheckExpiry ==
    /\ pc = "checkExpiry"
    /\ expiredLogged' = ~crlUsableAt(crl, now)
    /\ pc' = "select"
    /\ UNCHANGED <<now, file, crl, loaded, lastHash, done, buf, call>>

\* Mutant: a failed load is only logged.
MarkUnhealthyLogsOnly ==
    /\ pc = "markUnhealthy"
    /\ pc' = "select"
    /\ UNCHANGED <<now, file, sourceVars, done, buf, call>>

\* markUnhealthy: the CRL in memory and the digest stay.
MarkUnhealthy ==
    /\ pc = "markUnhealthy"
    /\ loaded' = FALSE
    /\ pc' = "select"
    /\ UNCHANGED <<now, file, crl, lastHash, expiredLogged, done, buf, call>>

ExitLoop ==
    /\ pc = "select"
    /\ done
    /\ pc' = "exited"
    /\ UNCHANGED <<now, file, sourceVars, done, buf, call>>

Reload == ReadCRL \/ SwapCRL \/ StoreLoaded \/ CheckExpiry \/ MarkUnhealthy

-----------------------------------------------------------------------------
(* GetStatus. *)

Issuers == {"configured", "nil", "other"}

Call(c, serial) ==
    /\ call[c].pc = "idle"
    /\ call' = [call EXCEPT ![c] = Pending("called", serial)]
    /\ UNCHANGED <<now, file, sourceVars, done, loopVars>>

\* Mutant: s.loaded is not checked.
CheckCanceledOnly(c, canceled) ==
    /\ call[c].pc = "called"
    /\ call' = [call EXCEPT ![c] =
                  IF canceled THEN Result(call[c].serial, "canceled", 0)
                  ELSE Pending("admitted", call[c].serial)]
    /\ UNCHANGED <<now, file, sourceVars, done, loopVars>>

\* The two checks before the lock: ctx.Err(), then s.loaded.
CheckLoaded(c, canceled) ==
    /\ call[c].pc = "called"
    /\ call' = [call EXCEPT ![c] =
                  IF canceled THEN Result(call[c].serial, "canceled", 0)
                  ELSE IF ~loaded THEN Result(call[c].serial, "unhealthy", 0)
                  ELSE Pending("admitted", call[c].serial)]
    /\ UNCHANGED <<now, file, sourceVars, done, loopVars>>

\* Mutant: the window is not checked on the snapshot.
SnapshotUnchecked(c, issuer) ==
    /\ call[c].pc = "admitted"
    /\ call' = [call EXCEPT ![c] =
                  IF issuer # "configured" THEN Result(call[c].serial, "issuer", 0)
                  ELSE Result(call[c].serial, StatusIn(crl, call[c].serial),
                              crl.nextUpdate)]
    /\ UNCHANGED <<now, file, sourceVars, done, loopVars>>

\* The snapshot under s.mu.RLock, and the answer computed from it alone.
Snapshot(c, issuer) ==
    /\ call[c].pc = "admitted"
    /\ call' = [call EXCEPT ![c] =
                  IF ~crlUsableAt(crl, now) THEN Result(call[c].serial, "unhealthy", 0)
                  ELSE IF issuer # "configured" THEN Result(call[c].serial, "issuer", 0)
                  ELSE Result(call[c].serial, StatusIn(crl, call[c].serial),
                              crl.nextUpdate)]
    /\ UNCHANGED <<now, file, sourceVars, done, loopVars>>

\* The caller consumes the result.
Return(c) ==
    /\ call[c].pc = "returned"
    /\ call' = [call EXCEPT ![c] = Pending("idle", call[c].serial)]
    /\ UNCHANGED <<now, file, sourceVars, done, loopVars>>

GetStatus(c) ==
    \/ \E serial \in Serials : Call(c, serial)
    \/ \E canceled \in BOOLEAN : CheckLoaded(c, canceled)
    \/ \E issuer \in Issuers : Snapshot(c, issuer)
    \/ Return(c)

-----------------------------------------------------------------------------
Next ==
    \/ Tick
    \/ \E f \in Files : Publish(f)
    \/ Stop
    \/ Reload
    \/ ExitLoop
    \/ \E c \in Callers : GetStatus(c)

\* The ticker keeps firing and the goroutine keeps running until Stop.
Spec == Init /\ [][Next]_vars /\ WF_vars(Reload)

-----------------------------------------------------------------------------
(* Properties. *)

CRLs == {CRLOf(f) : f \in {g \in Files : Accepted(g)}}

Calls == CallRecords({"idle", "called", "admitted", "returned"}, Serials)

\* Every variable has its type.  For crl that is more than typing: the CRL in
\* memory is always one that parseCRLBytes verified for the configured issuer.
TypeOK ==
    /\ now \in Nat
    /\ file \in Files
    /\ crl \in CRLs
    /\ loaded \in BOOLEAN
    /\ lastHash \in {Sum256(f) : f \in Files} \cup {NoHash}
    /\ expiredLogged \in BOOLEAN
    /\ done \in BOOLEAN
    /\ pc \in {"select", "swap", "storeLoaded", "checkExpiry", "markUnhealthy", "exited"}
    /\ buf \in Files
    /\ call \in [Callers -> Calls]

\* A pass of the reload loop that ends without an error leaves in memory
\* exactly the CRL of the bytes it read, and the source loaded: when
\* reloadFromDiskIfChanged skips a file because its digest is the last one
\* stored, nothing was installed or lost since that digest was stored.
PassInstallsWhatItRead ==
    pc = "checkExpiry" => loaded /\ crl = CRLOf(buf)

Source == INSTANCE StatusSource WITH up <- loaded

\* GetStatus gives every caller an answer the contract of a source allows,
\* whatever the reload goroutine does between its check of `loaded` and its
\* snapshot: one verified generation, inside its window at the instant of the
\* snapshot, and that generation's own nextUpdate.
ImplementsStatusSource == Source!Spec

\* The source ends up agreeing with what is published.  If the content stops
\* changing (and Stop is not called), then from some point on the source is
\* loaded exactly if that content is a verified CRL, and then that CRL is the
\* one in memory: after a corrupt file, a rollback to bytes already seen, or a
\* transient read error.
ConvergesToPublished ==
    \A f \in Files :
        <>[](file = f /\ ~done)
            => <>[](loaded = Accepted(f) /\ (loaded => crl = CRLOf(f)))

\* The operator's log follows the validity window.  If a loaded CRL stays
\* unusable, or stays usable, checkExpiry's flag ends up saying so.
ExpiryLogFollowsWindow ==
    \A usable \in BOOLEAN :
        <>[](loaded /\ ~done /\ crlUsableAt(crl, now) = usable)
            => <>[](expiredLogged = ~usable)
=============================================================================
