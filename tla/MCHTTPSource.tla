---------------------------- MODULE MCHTTPSource ----------------------------
(***************************************************************************)
(* Instances of HTTPSource: two concurrent lookups of one serial.          *)
(***************************************************************************)
EXTENDS HTTPSource, TLC

CONSTANTS s1, c1, c2

MCSerials == {s1}
MCCallers == {c1, c2}
Interchangeable == Permutations(MCCallers)
=============================================================================
