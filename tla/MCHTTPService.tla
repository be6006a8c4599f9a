--------------------------- MODULE MCHTTPService ---------------------------
(***************************************************************************)
(* Instances of HTTPService: two requests at a time for one serial.        *)
(***************************************************************************)
EXTENDS HTTPService

CONSTANTS s1, c1, c2

MCSerials == {s1}
MCCallers == {c1, c2}
=============================================================================
