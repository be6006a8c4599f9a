---------------------------- MODULE HealthProofs ----------------------------
(***************************************************************************)
(* That a probe of /health which passes never reports a signer without     *)
(* days left, for every certificate, every length of a day and every CRL.  *)
(* The argument is the order of the readings: the clock does not go back,  *)
(* so a certificate that is valid when the code is decided had days left   *)
(* when the body was filled.                                               *)
(***************************************************************************)
EXTENDS Health, TLAPS

\* The probe has read the days, and the expiry status.
DaysRead == {"expiry", "loaded", "usable", "decideValid", "decideLoaded", "decideUsable", "sent"}
ExpiryRead == DaysRead \ {"expiry"}

\* The probe found the signer valid, or is about to look.
Passing == probe \in {"decideLoaded", "decideUsable"} \/ code = 200

BodyType == [valid : BOOLEAN, days : Int, expiry : {"ok", "warning", "critical", "expired"},
             healthy : BOOLEAN]

\* The inductive invariant.  While the certificate has not expired, what was
\* read of it earlier was not bad; once it was found valid, that stays.
IInv ==
    /\ now \in Nat
    /\ body \in BodyType
    /\ code = 200 => probe = "sent"
    /\ probe \in DaysRead /\ (now < NotAfter \/ Passing) => body.days >= 0
    /\ probe \in ExpiryRead /\ (now < NotAfter \/ Passing) => body.expiry # "expired"

LEMMA NegativeProduct ==
    ASSUME NEW d \in Int, NEW k \in Int, d > 0, k < 0
    PROVE  d * k <= -d
OBVIOUS

\* Integer division.
LEMMA Division ==
    ASSUME NEW a \in Int, NEW d \in Int, d > 0
    PROVE  /\ a \div d \in Int /\ a % d \in Int /\ d * (a \div d) \in Int
           /\ a = d * (a \div d) + (a % d) /\ 0 <= a % d /\ a % d < d
OBVIOUS

\* Floor division by a day: before the end of the certificate, 0 or more.
LEMMA DaysLeft ==
    ASSUME NEW t \in Nat
    PROVE  /\ DaysUntilExpiry(t) \in Int
           /\ t < NotAfter => DaysUntilExpiry(t) >= 0
<1> DEFINE a == NotAfter - t
           q == a \div Day
<1>1. a \in Int /\ Day \in Int /\ Day > 0
    BY ExpiryAssumption
<1> HIDE DEF a
<1>2. q \in Int /\ a = Day * q + (a % Day) /\ 0 <= a % Day /\ a % Day < Day
    BY <1>1, Division, Zenon
<1>3. ASSUME t < NotAfter PROVE q >= 0
    <2>1. a > 0
        BY <1>3, ExpiryAssumption DEF a
    <2> DEFINE r == a % Day
               m == Day * q
    <2>2. ASSUME q < 0 PROVE m <= -Day
        BY <1>1, <1>2, <2>2, NegativeProduct
    <2>3. m \in Int /\ r \in Int /\ a = m + r /\ r < Day
        BY <1>1, Division, Zenon
    <2> HIDE DEF m, r, q
    <2> QED BY <1>1, <1>2, <2>1, <2>2, <2>3
<1> QED BY <1>2, <1>3 DEF DaysUntilExpiry, a

LEMMA StatusKnown ==
    ASSUME NEW t \in Nat
    PROVE  /\ GetExpiryStatus(t) \in {"ok", "warning", "critical", "expired"}
           /\ t < NotAfter => GetExpiryStatus(t) # "expired"
BY DaysLeft, ExpiryAssumption DEF GetExpiryStatus, ExpiryStatusFor

\* Nothing else moves the clock back or touches the probe.
LEMMA SourceStepClock ==
    ASSUME now \in Nat, SourceStep
    PROVE  now' \in Nat /\ now <= now'
<1>1. CASE Tick
    BY <1>1 DEF Tick
<1>2. CASE UNCHANGED now
    BY <1>2
<1>3. CASE Reload
    BY <1>2, <1>3 DEF Reload, ReadCRL, SwapCRL, StoreLoaded, CheckExpiry, MarkUnhealthy
<1> QED BY <1>1, <1>2, <1>3 DEF SourceStep, Publish, Stop, ExitLoop

LEMMA InitIInv == HealthInit => IInv
<1> SUFFICES ASSUME HealthInit PROVE IInv
    OBVIOUS
<1>1. now \in Nat /\ probe = "idle" /\ code = 0 /\ body = NoBody
    BY FilesAssumption DEF HealthInit, Init
<1>2. NoBody \in BodyType
    BY DEF NoBody, BodyType
<1> QED BY <1>1, <1>2 DEF IInv, DaysRead, ExpiryRead

LEMMA NextIInv == IInv /\ [HealthNext]_healthVars => IInv'
<1> SUFFICES ASSUME IInv, [HealthNext]_healthVars PROVE IInv'
    OBVIOUS
<1>1. CASE SourceStep /\ UNCHANGED probeVars
    <2>1. now' \in Nat /\ now <= now'
        BY <1>1, SourceStepClock DEF IInv
    <2>2. now \in Nat /\ NotAfter \in Nat
        BY ExpiryAssumption DEF IInv
    <2>3. now' < NotAfter => now < NotAfter
        BY <2>1, <2>2
    <2>4. UNCHANGED <<probe, body, code>>
        BY <1>1 DEF probeVars
    <2> QED BY <2>1, <2>3, <2>4 DEF IInv, Passing
<1>2. CASE Request
    BY <1>2 DEF Request, At, vars, IInv, DaysRead, ExpiryRead, Passing
<1>3. CASE ReadValid
    <2>1. Valid(now) \in BOOLEAN
        BY DEF Valid
    <2> DEFINE b == [body EXCEPT !.valid = Valid(now)]
    <2>2. b \in BodyType
        BY <2>1 DEF IInv, BodyType
    <2> QED BY <1>3, <2>2 DEF ReadValid, At, vars, IInv, DaysRead, ExpiryRead, Passing
<1>4. CASE ReadDays
    <2> DEFINE d == DaysUntilExpiry(now)
               b == [body EXCEPT !.days = d]
    <2>1. d \in Int /\ (now < NotAfter => d >= 0)
        BY DaysLeft DEF IInv
    <2>2. body' = b /\ probe = "days" /\ probe' = "expiry" /\ UNCHANGED <<now, code>>
        BY <1>4 DEF ReadDays, At, vars
    <2> HIDE DEF d
    <2>3. b \in BodyType /\ b.days = d
        BY <2>1 DEF IInv, BodyType
    <2> HIDE DEF b
    <2> QED BY <2>1, <2>2, <2>3 DEF IInv, ExpiryRead, Passing
<1>5. CASE ReadExpiry
    <2> DEFINE e == GetExpiryStatus(now)
               b == [body EXCEPT !.expiry = e]
    <2>1. e \in {"ok", "warning", "critical", "expired"} /\ (now < NotAfter => e # "expired")
        BY StatusKnown DEF IInv
    <2>2. body' = b /\ probe = "expiry" /\ probe' = "loaded" /\ UNCHANGED <<now, code>>
        BY <1>5 DEF ReadExpiry, At, vars
    <2> HIDE DEF e
    <2>3. b \in BodyType /\ b.expiry = e /\ b.days = body.days
        BY <2>1 DEF IInv, BodyType
    <2> HIDE DEF b
    <2> QED BY <2>1, <2>2, <2>3 DEF IInv, DaysRead, Passing
<1>6. CASE ReadLoaded
    BY <1>6 DEF ReadLoaded, At, vars, IInv, DaysRead, ExpiryRead, Passing
<1>7. CASE ReadUsable
    <2> DEFINE u == crlUsableAt(crl, now)
               b == [body EXCEPT !.healthy = u]
    <2>1. u \in BOOLEAN
        BY DEF crlUsableAt
    <2>2. body' = b /\ probe = "usable" /\ probe' = "decideValid" /\ UNCHANGED <<now, code>>
        BY <1>7 DEF ReadUsable, At, vars
    <2> HIDE DEF u
    <2>3. b \in BodyType /\ b.expiry = body.expiry /\ b.days = body.days
        BY <2>1 DEF IInv, BodyType
    <2> HIDE DEF b
    <2> QED BY <2>2, <2>3 DEF IInv, DaysRead, ExpiryRead, Passing
<1>8. CASE DecideValid
    BY <1>8 DEF DecideValid, Decide, Valid, At, vars, IInv, DaysRead, ExpiryRead, Passing
<1>9. CASE DecideLoaded
    BY <1>9 DEF DecideLoaded, Decide, At, vars, IInv, DaysRead, ExpiryRead, Passing
<1>10. CASE DecideUsable
    BY <1>10 DEF DecideUsable, Decide, At, vars, IInv, DaysRead, ExpiryRead, Passing
<1>11. CASE Respond
    <2>1. NoBody \in BodyType
        BY DEF NoBody, BodyType
    <2> QED BY <1>11, <2>1 DEF Respond, At, vars, IInv, DaysRead, ExpiryRead, Passing
<1>12. CASE UNCHANGED healthVars
    BY <1>12 DEF healthVars, probeVars, vars, IInv, Passing
<1> QED BY <1>1, <1>2, <1>3, <1>4, <1>5, <1>6, <1>7, <1>8, <1>9, <1>10, <1>11, <1>12
        DEF HealthNext, ServeHealth

\* A probe that passes reports a signer with days left.
THEOREM PassingProbe == HealthSpec => []PassingProbeHasDaysLeft
<1>1. IInv => PassingProbeHasDaysLeft
    BY DEF IInv, PassingProbeHasDaysLeft, Passing, DaysRead, ExpiryRead
<1> QED BY InitIInv, NextIInv, <1>1, PTL DEF HealthSpec
=============================================================================
