---------------------------- MODULE MCFileSource ----------------------------
(***************************************************************************)
(* Instance of FileSource: two generations, the second of which revokes s1 *)
(* and is not yet valid at time 1, and one content per way a load fails.   *)
(* Generation gen1 expires inside the clock bound, with and without grace. *)
(***************************************************************************)
EXTENDS FileSource

CONSTANTS s1, c1

MCSerials == {s1}
MCCallers == {c1}

Content(kind, revoked, thisUpdate, nextUpdate) ==
    [kind |-> kind, revoked |-> revoked,
     thisUpdate |-> thisUpdate, nextUpdate |-> nextUpdate]

MCFiles == {Content("crl", {}, 1, 2), Content("crl", {s1}, 3, 0),
            Content("unreadable", {}, 0, 0), Content("garbage", {}, 0, 0),
            Content("foreign", {}, 1, 5), Content("forged", {}, 1, 5)}
=============================================================================
