---------------------------- MODULE StatusSource ----------------------------
(***************************************************************************)
(* What a CRL-backed status source promises its callers (the contract of   *)
(* the Source interface), without saying how CRLs get into memory.         *)
(*                                                                         *)
(*  - A definite answer (good or revoked) is what the one CRL in memory    *)
(*    says at the instant of the answer; that CRL is inside its validity   *)
(*    window at the same instant, the answer carries its nextUpdate, and   *)
(*    the source was up at an instant of the call.                         *)
(*  - The error "unhealthy" is returned only at an instant at which the    *)
(*    source is down or its CRL is outside the window.                     *)
(*  - Every CRL that reaches memory is one of CRLs, the verified ones.     *)
(*                                                                         *)
(* FileSource implements this specification; Responder is composed with it.*)
(***************************************************************************)
EXTENDS CRLValidity

CONSTANTS Serials,    \* certificate serial numbers
          CRLs,       \* the verified CRL generations
          Callers,    \* goroutines that call GetStatus
          MaxTime     \* bound on the clock

VARIABLES now,        \* the wall clock
          crl,        \* the CRL generation in memory
          up,         \* whether the last load succeeded
          call        \* call[c]: the GetStatus call of goroutine c

vars == <<now, crl, up, call>>

Init ==
    /\ now \in 1 .. MaxTime
    /\ crl \in CRLs
    /\ up = TRUE
    /\ call \in [Callers -> {Pending("idle", s) : s \in Serials}]

Tick ==
    /\ now < MaxTime
    /\ now' = now + 1
    /\ UNCHANGED <<crl, up, call>>

\* A new generation replaces the one in memory.
Install ==
    /\ crl' \in CRLs
    /\ UNCHANGED <<now, up, call>>

\* A load succeeds or fails; the CRL in memory is kept either way.
SetUp ==
    /\ up' \in BOOLEAN
    /\ UNCHANGED <<now, crl, call>>

Call(c, serial) ==
    /\ call[c].pc = "idle"
    /\ call' = [call EXCEPT ![c] = Pending("called", serial)]
    /\ UNCHANGED <<now, crl, up>>

Admit(c) ==
    /\ call[c].pc = "called"
    /\ up
    /\ call' = [call EXCEPT ![c] = Pending("admitted", call[c].serial)]
    /\ UNCHANGED <<now, crl, up>>

Answer(c) ==
    /\ call[c].pc = "admitted"
    /\ crlUsableAt(crl, now)
    /\ call' = [call EXCEPT ![c] =
           Result(call[c].serial, StatusIn(crl, call[c].serial), crl.nextUpdate)]
    /\ UNCHANGED <<now, crl, up>>

\* The errors, each with what must hold at the instant it is returned.
MayRefuse(c, err) ==
    \/ err = "canceled"  /\ call[c].pc = "called"
    \/ err = "unhealthy" /\ call[c].pc = "called" /\ ~up
    \/ err = "unhealthy" /\ call[c].pc = "admitted" /\ ~crlUsableAt(crl, now)
    \/ err = "issuer"    /\ call[c].pc = "admitted"

Refuse(c, err) ==
    /\ MayRefuse(c, err)
    /\ call' = [call EXCEPT ![c] = Result(call[c].serial, err, 0)]
    /\ UNCHANGED <<now, crl, up>>

Return(c) ==
    /\ call[c].pc = "returned"
    /\ call' = [call EXCEPT ![c] = Pending("idle", call[c].serial)]
    /\ UNCHANGED <<now, crl, up>>

Next ==
    \/ Tick
    \/ Install
    \/ SetUp
    \/ \E c \in Callers :
          \/ \E serial \in Serials : Call(c, serial)
          \/ Admit(c)
          \/ Answer(c)
          \/ \E err \in Errors : Refuse(c, err)
          \/ Return(c)

Spec == Init /\ [][Next]_vars
=============================================================================
