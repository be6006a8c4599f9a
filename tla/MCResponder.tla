----------------------------- MODULE MCResponder -----------------------------
(***************************************************************************)
(* Instances of Responder: one or two requests at a time, one or two       *)
(* serials, and up to two generations.  The first revokes nothing and      *)
(* expires inside the clock bound; the second revokes s1 and has no        *)
(* nextUpdate.                                                             *)
(***************************************************************************)
EXTENDS Responder, TLC

CONSTANTS s1, s2, h1, h2

TwoSerials == {s1, s2}
OneSerial == {s1}
MCHandlers == {h1, h2}
OneHandler == {h1}
Interchangeable == Permutations(MCHandlers)

TwoCRLs == {[revoked |-> {}, thisUpdate |-> 2, nextUpdate |-> 4],
            [revoked |-> {s1}, thisUpdate |-> 3, nextUpdate |-> 0]}
OneCRL  == {[revoked |-> {s1}, thisUpdate |-> 2, nextUpdate |-> 6]}
=============================================================================
