------------------------- MODULE MCSecurityFailures -------------------------
(* Two clients and a table that is pruned from its second entry on.        *)
EXTENDS SecurityFailures, TLC

CONSTANTS c1, c2

MCClient == {c1, c2}
MCSymmetry == Permutations(MCClient)
=============================================================================
