------------------------------- MODULE Signer -------------------------------
(***************************************************************************)
(* What CreateResponse (internal/signer/signer.go) signs.  DER carries     *)
(* times in whole seconds; the clock is finer, Second ticks to a second.   *)
(***************************************************************************)
EXTENDS Naturals

CONSTANTS Second,     \* clock ticks in a second
          Validity    \* response_validity, in ticks

ASSUME SignerAssumption == Second \in Nat \ {0} /\ Validity \in Nat

\* time.Truncate(time.Second)
Truncate(t) == t - (t % Second)

\* Mutant: the source's deadline does not cap the horizon.
uncappedNextUpdate(thisUpdate, sourceNextUpdate) == Truncate(thisUpdate + Validity)

\* The validity horizon, or the source's own deadline when that is sooner.
\* The zero source deadline is no deadline.
signedNextUpdate(thisUpdate, sourceNextUpdate) ==
    LET horizon == thisUpdate + Validity
    IN  Truncate(IF sourceNextUpdate # 0 /\ sourceNextUpdate < horizon
                 THEN sourceNextUpdate ELSE horizon)
=============================================================================
