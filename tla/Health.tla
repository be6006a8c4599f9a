------------------------------- MODULE Health -------------------------------
(***************************************************************************)
(* GET /health (ServeHealth of internal/server/handler.go) over the CRL    *)
(* source and the signing certificate.  A probe reads the clock, `loaded`  *)
(* and the CRL's window several times, one step per reading, while the     *)
(* source reloads and time passes: first for the body, then again for the  *)
(* status code.                                                            *)
(***************************************************************************)
EXTENDS FileSource, SignerExpiry

VARIABLES probe,    \* where the probe is
          body,     \* the fields of the JSON body that vary
          code      \* the status code and the body's "status", 0 until decided

probeVars == <<probe, body, code>>
healthVars == <<vars, probeVars>>

NoBody == [valid |-> FALSE, days |-> 0, expiry |-> "ok", healthy |-> FALSE]

HealthInit ==
    /\ Init
    /\ probe = "idle"
    /\ body = NoBody
    /\ code = 0

At(from, to) == probe = from /\ probe' = to

Request ==
    /\ At("idle", "valid")
    /\ UNCHANGED <<vars, body, code>>

-----------------------------------------------------------------------------
(* The map literal, evaluated in the order it is written. *)

ReadValid ==
    /\ At("valid", "days")
    /\ body' = [body EXCEPT !.valid = Valid(now)]
    /\ UNCHANGED <<vars, code>>

ReadDays ==
    /\ At("days", "expiry")
    /\ body' = [body EXCEPT !.days = DaysUntilExpiry(now)]
    /\ UNCHANGED <<vars, code>>

ReadExpiry ==
    /\ At("expiry", "loaded")
    /\ body' = [body EXCEPT !.expiry = GetExpiryStatus(now)]
    /\ UNCHANGED <<vars, code>>

\* FileSource.Healthy, first operand; && skips the second.
ReadLoaded ==
    /\ At("loaded", IF loaded THEN "usable" ELSE "decideValid")
    /\ UNCHANGED <<vars, body, code>>

\* Its second operand: crlUsable, one snapshot and one clock reading.
ReadUsable ==
    /\ At("usable", "decideValid")
    /\ body' = [body EXCEPT !.healthy = crlUsableAt(crl, now)]
    /\ UNCHANGED <<vars, code>>

-----------------------------------------------------------------------------
(* The condition behind the status code, with readings of its own. *)

Decide(from, ok, to) ==
    /\ At(from, IF ok THEN to ELSE "sent")
    /\ code' = IF ~ok THEN 503 ELSE IF to = "sent" THEN 200 ELSE code
    /\ UNCHANGED <<vars, body>>

\* Mutant: the validity already read for the body decides.
DecideValidAsReported == Decide("decideValid", body.valid, "decideLoaded")

DecideValid == Decide("decideValid", Valid(now), "decideLoaded")

DecideLoaded == Decide("decideLoaded", loaded, "decideUsable")

\* Mutant: a CRL that loaded is taken to be usable.
DecideLoadedIsUsable == Decide("decideUsable", TRUE, "sent")

DecideUsable == Decide("decideUsable", crlUsableAt(crl, now), "sent")

Respond ==
    /\ At("sent", "idle")
    /\ body' = NoBody
    /\ code' = 0
    /\ UNCHANGED vars

ServeHealth ==
    \/ ReadValid
    \/ ReadDays
    \/ ReadExpiry
    \/ ReadLoaded
    \/ ReadUsable
    \/ DecideValid
    \/ DecideLoaded
    \/ DecideUsable

-----------------------------------------------------------------------------
SourceStep ==
    \/ Tick
    \/ \E f \in Files : Publish(f)
    \/ Stop
    \/ Reload
    \/ ExitLoop

HealthNext ==
    \/ SourceStep /\ UNCHANGED probeVars
    \/ Request
    \/ ServeHealth
    \/ Respond

\* The reload goroutine and the request's goroutine are scheduled.
HealthSpec ==
    /\ HealthInit /\ [][HealthNext]_healthVars
    /\ WF_healthVars(Reload /\ UNCHANGED probeVars)
    /\ WF_healthVars(ServeHealth \/ Respond)

-----------------------------------------------------------------------------
(* Properties. *)

\* A probe that passes does not carry news of an expired signer.  The clock
\* may reach NotAfter anywhere in the request, but the days left and the expiry
\* status are read before the validity that decides the code.
PassingProbeHasDaysLeft ==
    code = 200 => body.days >= 0 /\ body.expiry # "expired"

\* /health ends up telling the truth about what is published.  If the published
\* content stops changing and so do the validity of its window and that of the
\* signer, then from some point on probes pass exactly if the content is a
\* verified CRL inside its window and the signer is valid.
HealthFollowsPublication ==
    \A f \in Files, usable, valid \in BOOLEAN :
        <>[](/\ file = f /\ ~done
             /\ crlUsableAt(CRLOf(f), now) = usable
             /\ Valid(now) = valid)
            => <>[](code # 0 => (code = 200) = (Accepted(f) /\ usable /\ valid))
=============================================================================
