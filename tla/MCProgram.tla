----------------------------- MODULE MCProgram -----------------------------
(***************************************************************************)
(* Instance of Program: two requests, another responder that shares the    *)
(* cache directory, and three file names, so that one can be left behind   *)
(* by a kill while both probe.                                             *)
(*                                                                         *)
(* The durations are empty, unparsable, negative, zero and positive; for   *)
(* each kind of source the fields that it ignores are left out, as a       *)
(* configuration file would leave them out.                                *)
(***************************************************************************)
EXTENDS Program

CONSTANTS r1, r2, p1, p2, n1, n2, n3

MCRequests == {r1, r2}
MCResponders == {p1, p2}
MCNames == {n1, n2, n3}

Empty == [empty |-> TRUE, parses |-> FALSE, d |-> 0]
Lasting(n) == [empty |-> FALSE, parses |-> TRUE, d |-> n]
Written == {Empty, [empty |-> FALSE, parses |-> FALSE, d |-> 0]} \cup {Lasting(n) : n \in -1..1}

Blank ==
    [decodes |-> TRUE, signerFiles |-> TRUE, validity |-> Empty, type |-> "other",
     location |-> FALSE, reloadInterval |-> Empty, expiryGrace |-> Empty,
     timeout |-> Empty, retryMax |-> 0, retryBackoff |-> Empty, cacheTTL |-> Empty,
     status |-> "", ttl |-> Empty, tls |-> "plain"]

\* What every configuration has.
Common ==
    {[Blank EXCEPT !.decodes = y, !.signerFiles = f, !.validity = v, !.ttl = t, !.tls = m] :
        y \in BOOLEAN, f \in BOOLEAN, v \in Written, t \in Written, m \in {"plain", "none"}}

\* The source's section is varied where the rest is as good as equal.
Plain == {c \in Common : c.decodes /\ c.signerFiles /\ c.validity = c.ttl}

Served == [Blank EXCEPT !.type = "static", !.status = "good",
                        !.validity = Lasting(1), !.ttl = Lasting(1)]

MCConfigs ==
    Common
    \cup {[Served EXCEPT !.tls = m] : m \in {"cert", "acme"}}
    \cup {[c EXCEPT !.type = "static", !.status = s] :
            c \in Common, s \in {"", "good", "other"}}
    \cup {[c EXCEPT !.type = "file", !.location = l, !.reloadInterval = r, !.expiryGrace = g] :
            c \in Plain, l \in BOOLEAN, r \in Written, g \in Written}
    \cup {[c EXCEPT !.type = "http", !.location = l, !.timeout = t, !.retryMax = n,
                    !.retryBackoff = b, !.cacheTTL = s] :
            c \in {x \in Plain : x.tls = "plain"},
            l \in BOOLEAN, t \in Written, n \in -1..1, b \in Written, s \in Written}

Cert == {[Served EXCEPT !.tls = "cert"]}
=============================================================================
