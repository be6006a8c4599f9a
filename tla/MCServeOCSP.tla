----------------------------- MODULE MCServeOCSP -----------------------------
(***************************************************************************)
(* Instance of ServeOCSP with a limit of 4 bytes, which like 10240 leaves  *)
(* 1 when divided by 3: 8 characters.  The path segments are all those of  *)
(* up to 4 characters, two alphanumerics and the six others, and those of  *)
(* 5 to 8 characters over three.  The DER requests go two bytes past the   *)
(* limit; their bytes make digits of all kinds.                            *)
(***************************************************************************)
EXTENDS ServeOCSP

MCTexts ==
    UNION {[1..n -> {0, 51} \cup Plus..Newline] : n \in 1..4}
        \cup UNION {[1..n -> {51, Underscore, Equals}] : n \in 5..8}

MCDers == UNION {[1..n -> {0, 251, 255}] : n \in 0..6}
=============================================================================
