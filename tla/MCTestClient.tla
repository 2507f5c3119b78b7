---------------------------- MODULE MCTestClient ----------------------------
(* Two scopes of one application: two contexts of a client, or a context     *)
(* beside a server, or two starts of a server.                               *)
EXTENDS TestClient, TLC

CONSTANTS s1, s2

MCScope == {s1, s2}

\* Every unordered pair: the scopes are alike otherwise.
Driven(k, l) == [s \in MCScope |-> IF s = s1 THEN k ELSE l]
MCDrives == {Driven("served", "served"), Driven("sync", "sync"), Driven("async", "async"),
             Driven("served", "sync"), Driven("served", "async"), Driven("sync", "async")}
=============================================================================
