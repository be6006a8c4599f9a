---------------------------- MODULE CRLValidity ----------------------------
(***************************************************************************)
(* The validity window of a CRL, what a CRL says about a serial, and a     *)
(* GetStatus call as its caller sees it.                                   *)
(*                                                                         *)
(* Times are naturals, counted in clock ticks, and 0 is Go's zero          *)
(* time.Time.  A CRL is a record                                           *)
(*     [revoked |-> set of serials, thisUpdate |-> t, nextUpdate |-> t].   *)
(* The revocation date and the reason code travel with a revoked entry and *)
(* no property depends on them, so they are left out.                      *)
(***************************************************************************)
EXTENDS Naturals

CONSTANTS Skew,     \* crlClockSkewAllowance
          Grace     \* expiryGrace, set by WithCRLExpiryGrace

ASSUME WindowAssumption == Skew \in Nat /\ Grace \in Nat

IsZero(t) == t = 0

crlNotYetValidAt(thisUpdate, t) == ~IsZero(thisUpdate) /\ t + Skew < thisUpdate

crlExpiredAt(nextUpdate, t) == ~IsZero(nextUpdate) /\ t > nextUpdate + Grace

\* Mutant: expiry is not live.
crlUsableFrom(c, t) == ~crlNotYetValidAt(c.thisUpdate, t)

crlUsableAt(c, t) ==
    ~crlNotYetValidAt(c.thisUpdate, t) /\ ~crlExpiredAt(c.nextUpdate, t)

\* The status a CRL gives a serial: listed is revoked, anything else is good.
StatusIn(c, serial) == IF serial \in c.revoked THEN "revoked" ELSE "good"

\* A call without an answer, at p, and one that returned: a CertStatus with its
\* SourceNextUpdate, or an error in place of the status.
Pending(p, serial) ==
    [pc |-> p, serial |-> serial, status |-> "none", nextUpdate |-> 0]

Result(serial, status, nextUpdate) ==
    [pc |-> "returned", serial |-> serial, status |-> status, nextUpdate |-> nextUpdate]

\* The errors of GetStatus: ErrSourceUnhealthy, ctx.Err(), a bad issuer argument.
Errors == {"unhealthy", "canceled", "issuer"}

CallRecords(pcs, serials) ==
    [pc : pcs, serial : serials, status : {"none", "good", "revoked"} \cup Errors,
     nextUpdate : Nat]
=============================================================================
