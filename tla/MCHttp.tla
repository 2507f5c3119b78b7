------------------------------- MODULE MCHttp -------------------------------
(* Two requests of one browser, or one through longer lists of middlewares.  *)
EXTENDS Http, TLC

CONSTANTS r1, r2, b1, none, cart, raw

MCRequest == {r1, r2}
MCBrowser == {b1}
MCData == {none, cart, raw}
MCSymmetry == Permutations(MCRequest)
MCFrom == [r \in MCRequest |-> b1]

\* One request alone, through longer lists of middlewares and tasks.
OneRequest == {r1}
OneFrom == [r \in OneRequest |-> b1]
=============================================================================
