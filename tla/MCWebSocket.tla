----------------------------- MODULE MCWebSocket -----------------------------
(* One connection whose endpoint spawned tasks that share its WebSocket.     *)
EXTENDS WebSocket, TLC

CONSTANTS w1, sender, closer

MCSocket == {w1}
MCHelper == {sender, closer}
NoHelper == {}
MCSymmetry == Permutations(MCHelper)
=============================================================================
