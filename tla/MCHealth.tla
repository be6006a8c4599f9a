------------------------------ MODULE MCHealth ------------------------------
(***************************************************************************)
(* Instance of Health: a CRL that expires inside the clock bound, one that *)
(* does not, and a content that fails to load.                             *)
(***************************************************************************)
EXTENDS Health

CONSTANT s1

MCSerials == {s1}
NoCallers == {}

Content(kind, thisUpdate, nextUpdate) ==
    [kind |-> kind, revoked |-> {}, thisUpdate |-> thisUpdate, nextUpdate |-> nextUpdate]

MCFiles == {Content("crl", 1, 2), Content("crl", 2, 0), Content("garbage", 0, 0)}
=============================================================================
