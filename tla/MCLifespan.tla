----------------------------- MODULE MCLifespan -----------------------------
(* Two starts of one application, overlapping or not.                      *)
EXTENDS Lifespan, TLC

CONSTANTS s1, s2

MCScope == {s1, s2}
=============================================================================
