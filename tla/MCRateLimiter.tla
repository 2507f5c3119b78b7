---------------------------- MODULE MCRateLimiter ----------------------------
(* Two clients, one of them behind a custom key, and three endpoints: two    *)
(* rules of different windows on a shared scope, and rules of their own.     *)
EXTENDS RateLimiter, TLC

MCRule == {"burst", "user", "hourly", "solo"}
MCRequests == [p \in MCRule |-> IF p \in {"burst", "hourly"} THEN 2 ELSE 1]
MCWindow == "burst" :> 1 @@ "user" :> 1 @@ "hourly" :> 3 @@ "solo" :> 3
MCScope == "burst" :> "api" @@ "user" :> "user" @@ "hourly" :> "api" @@ "solo" :> "solo"
MCCustom == {"user"}
MCClient == {"c1", "c2"}
MCKeyFor == [p \in MCRule |-> IF p = "user" THEN "c1" :> "k1" @@ "c2" :> "k2"
                            ELSE "c1" :> "ip" @@ "c2" :> "ip"]
MCEndpoint == {"search", "report", "login"}
MCRules == "search" :> <<"burst", "user">> @@ "report" :> <<"hourly", "burst">>
             @@ "login" :> <<"solo">>

\* `check` used with the longest rule of its scope, or with a shorter one.
LongestDirect == {"hourly"}
ShorterDirect == {"burst"}
=============================================================================
