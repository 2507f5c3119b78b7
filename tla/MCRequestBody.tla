--------------------------- MODULE MCRequestBody ---------------------------
(* A model of RequestBody: two tasks, bodies of up to three pieces of no or  *)
(* one byte, and a limit of two bytes.                                       *)
EXTENDS RequestBody

CONSTANTS t1, t2

MCTask == {t1, t2}
MCSize == {0, 1}
=============================================================================
