---------------------------- MODULE MCCRLService ----------------------------
(***************************************************************************)
(* Instance of CRLService: a CRL that revokes nothing and expires during   *)
(* the run, one that revokes s1, and a failing load.                       *)
(***************************************************************************)
EXTENDS CRLService

CONSTANTS s1, c1, c2

MCSerials == {s1}
MCCallers == {c1, c2}

Content(kind, revoked, nextUpdate) ==
    [kind |-> kind, revoked |-> revoked, thisUpdate |-> 1, nextUpdate |-> nextUpdate]

MCFiles == {Content("crl", {}, 1), Content("crl", {s1}, 0), Content("garbage", {}, 0)}
=============================================================================
