---------------------------- MODULE SignerExpiry ----------------------------
(***************************************************************************)
(* How far the signing certificate is from its end: Valid,                 *)
(* DaysUntilExpiry and GetExpiryStatus of internal/signer/signer.go, each  *)
(* as a function of the clock reading it takes.                            *)
(***************************************************************************)
EXTENDS Integers

CONSTANTS NotBefore,     \* the certificate's validity
          NotAfter,
          Day,           \* clock ticks in 24 hours
          CriticalDays,  \* the thresholds of GetExpiryStatus: 8 and 30 in the
          WarningDays    \* code, smaller on small instances

ASSUME ExpiryAssumption ==
    /\ NotBefore \in Nat /\ NotAfter \in Nat
    /\ Day \in Nat \ {0}
    /\ CriticalDays \in Nat /\ WarningDays \in Nat /\ CriticalDays <= WarningDays

\* Both ends are outside.
Valid(t) == NotBefore < t /\ t < NotAfter

\* math.Floor: a certificate that expired an hour ago has -1 days left.
DaysUntilExpiry(t) == (NotAfter - t) \div Day

ExpiryStatusFor(days) ==
    CASE days < 0 -> "expired"
      [] 0 <= days /\ days < CriticalDays -> "critical"
      [] CriticalDays <= days /\ days < WarningDays -> "warning"
      [] OTHER -> "ok"

GetExpiryStatus(t) == ExpiryStatusFor(DaysUntilExpiry(t))
=============================================================================
