------------------------------ MODULE Browser -------------------------------
(* One browser and the workers of one application, which share the secret   *)
(* key but not the clock: requests carry the browser's cookies, responses    *)
(* replace them, several requests are under way at once.  The session is in  *)
(* a signed cookie (flasgo/session.py), written by the requests that modify  *)
(* it; the CSRF token is issued to requests that carry none; the checks of   *)
(* Gate admit or refuse.  The cookie jar is the one of flasgo.testing.       *)
(* A request arrives when it is sent.                                        *)
EXTENDS Gate, FiniteSets

CONSTANTS
  Requests,     \* bound on the requests, numbered in the order they are sent
  Worker, Value,
  NoToken, NoCookie, Removal,
  Offsets,      \* by how many ticks the clocks of the workers may be ahead
  TicksPerSecond,
  MaxAge,       \* SESSION_COOKIE_MAX_AGE, in seconds
  MaxSkew,      \* max_clock_skew_seconds
  Horizon,      \* bound on the clock
  Concurrent,   \* bound on the requests under way at once
  Pages,        \* origins of the pages that make requests
  Addresses,    \* schemes and hosts they address, as origins
  OwnAddresses, \* the addresses the settings mean to serve
  TrustedPages, \* the pages they mean to trust with requests ...
  SocketPages   \* ... and with handshakes

Empty == "empty"

ASSUME BrowserAssumption ==
  /\ Offsets \subseteq [Worker -> Nat] /\ TicksPerSecond \in Nat \ {0}
  /\ {MaxAge, MaxSkew, Horizon, Requests, Concurrent} \subseteq Nat
  /\ NoToken \notin Nat
  /\ Empty \notin Value /\ NoCookie # Removal
  /\ {NoCookie, Removal} \cap [data : Value, issued : Nat] = {}
  /\ NoCookie \notin [data : Value \cup {Empty}, by : Worker, at : Nat]

Request == 1..Requests

----------------------------------------------------------------------------
(* What the settings mean.                                                 *)

DefaultPort(scheme) == IF scheme = "https" THEN 443 ELSE 80
Port(origin) == IF origin.authority.port # NoPort THEN origin.authority.port
                ELSE DefaultPort(origin.scheme)
SameOrigin(page, address) ==
  /\ page # Malformed /\ address.authority # Malformed
  /\ page.scheme = address.scheme /\ Port(page) = Port(address)
  /\ page.authority.name = address.authority.name

\* A name in the domain, with more labels in front.
Below(name, domain) == \E cut \in 1..Len(name) : SubSeq(name, cut + 1, Len(name)) = domain

\* A host is served that has one of the names, or is below one that begins with
\* a dot; the dot a name may end with makes no difference.
Covers(pattern, host) ==
  /\ host \notin {Absent, Malformed}
  /\ LET rule == WithoutDots(pattern)
         name == WithoutDots(host.name)
     IN  /\ rule # <<>> /\ name # <<>>
         /\ name = rule \/ (Head(rule) = "" /\ Below(name, Tail(rule)))

\* An origin is trusted as such, or every page of a host and port, or below a name.
Trusts(trusted, page) ==
  IF trusted.scheme # AnyScheme THEN SameOrigin(page, trusted)
  ELSE \/ page.authority = trusted.authority
       \/ /\ Head(trusted.authority.name) = "" /\ trusted.authority.port = NoPort
          /\ Below(page.authority.name, Tail(trusted.authority.name))

ASSUME SettingsAssumption ==
  /\ \A a \in Addresses :
       a \in OwnAddresses <=> \E pattern \in AllowedHosts : Covers(pattern, a.authority)
  /\ \A page \in Pages \ {Malformed} :
       /\ (\E trusted \in TrustedOrigins : Trusts(trusted, page)) => page \in TrustedPages
       /\ (\E allowed \in SocketOrigins : SameOrigin(page, allowed)) => page \in SocketPages

\* Browsers do not write the port that is the default.
ASSUME PagesAssumption ==
  /\ Pages \subseteq [scheme : Scheme, authority : Authorities] \cup {Malformed}
  /\ Addresses \subseteq [scheme : {"http", "https"}, authority : Authorities \cup {Malformed}]
  /\ \A o \in (Pages \cup Addresses) \ {Malformed} :
       o.authority # Malformed => o.authority.port # DefaultPort(o.scheme)

----------------------------------------------------------------------------
VARIABLES
  now,      \* the time, in ticks
  offset,   \* offset[w]: how far the clock of worker w is ahead
  session,  \* the jar's session cookie
  csrf,     \* the jar's CSRF token, by the request it was issued to
  held,     \* the token the page read last
  req,      \* req[r]: the request and its response
  last,     \* what the last response to modify the session left, and when
  doubled   \* two requests to be given a token were under way at once

vars == <<now, offset, session, csrf, held, req, last, doubled>>

New == [stage |-> "new"]
Done == [stage |-> "done"]

Init ==
  /\ now = 0
  /\ offset \in Offsets
  /\ session = NoCookie
  /\ csrf = NoToken
  /\ held = NoToken
  /\ req = [r \in Request |-> New]
  /\ last = NoCookie
  /\ doubled = FALSE

----------------------------------------------------------------------------
(* SessionSigner                                                           *)

Second(t) == t \div TicksPerSecond
Clock(w) == Second(now + offset[w])

Dumps(data, w) == [data |-> data, issued |-> Clock(w)]

\* Mutant: the boundary of the age is one second further.
LoadsOnceMore(cookie, w) ==
  IF \/ cookie = NoCookie
     \/ cookie.issued > Clock(w) + MaxSkew
     \/ Clock(w) - cookie.issued > MaxAge + 1
  THEN Empty ELSE cookie.data

\* Nothing is loaded from a cookie of the far future or one that is too old.
Loads(cookie, w) ==
  IF \/ cookie = NoCookie
     \/ cookie.issued > Clock(w) + MaxSkew
     \/ Clock(w) - cookie.issued > MaxAge
  THEN Empty ELSE cookie.data

----------------------------------------------------------------------------
UnderWay == {r \in Request : req[r].stage \in {"handling", "answered"}}

Tick ==
  /\ now < Horizon
  /\ now' = now + 1
  /\ UNCHANGED <<offset, session, csrf, held, req, last, doubled>>

\* A page reads the token from its cookies, to send it in a header.
ReadToken ==
  /\ held' = csrf
  /\ UNCHANGED <<now, offset, session, csrf, req, last, doubled>>

Method == {"safe", "unsafe", "socket"}

\* What a page's request says of its origin: browsers send an Origin with what
\* is unsafe and with a handshake, some of them only a Referer, or nothing.
Says(page, method) ==
  {<<Absent, Absent>>} \cup
    CASE method = "safe" -> {}
      [] method = "unsafe" -> {<<page, Absent>>, <<Absent, page>>}
      [] method = "socket" -> {<<page, Absent>>}

\* The token in the header may be the cookie's or a former one.
Wires ==
  UNION {{[page |-> page, address |-> address, method |-> method,
           scheme |-> address.scheme, host |-> address.authority,
           origin |-> said[1], referer |-> said[2], cookie |-> cookie, token |-> token] :
             address \in Addresses, said \in Says(page, method),
             cookie \in {Absent, "current"}, token \in {Absent, "current", "former"}} :
         page \in Pages, method \in Method}

\* The request says where it comes from.
Tells(wire) == wire.origin # Absent \/ (wire.method = "unsafe" /\ wire.referer # Absent)

\* What is to be served: the pages of the application, with their token.
Due(wire) ==
  /\ wire.address \in OwnAddresses
  /\ wire.method # "safe" => SameOrigin(wire.page, wire.address) /\ Tells(wire)
  /\ wire.method = "unsafe" => wire.token # Absent

\* The settings ask for a check of where it comes from.
OriginMatters(wire) ==
  \/ wire.method = "unsafe" /\ CsrfEnabled /\ CheckOrigin
  \/ wire.method = "socket" /\ EnforceSocketOrigin

\* What may be served, of what the settings ask to be checked: also pages that are
\* trusted, and requests that do not tell where the settings let them.
Right(wire) ==
  /\ EnforceHosts => wire.address \in OwnAddresses
  /\ OriginMatters(wire) =>
       IF Tells(wire)
         THEN \/ SameOrigin(wire.page, wire.address)
              \/ wire.page \in IF wire.method = "unsafe" THEN TrustedPages ELSE SocketPages
         ELSE IF wire.method = "unsafe" THEN ~RequireOrigin ELSE MissingOrigin
  /\ wire.method = "unsafe" /\ CsrfEnabled =>
       wire.cookie = "current" /\ wire.token = "current"

\* What the checks make of every request.
Checked ==
  {[cookie |-> wire.cookie, token |-> wire.token, socket |-> wire.method = "socket",
    passed |-> Passes(wire), due |-> Due(wire), right |-> Right(wire)] : wire \in Wires}

Cookie == IF csrf = NoToken THEN Absent ELSE "current"
Token == IF held = NoToken THEN Absent ELSE IF held = csrf THEN "current" ELSE "former"

\* The response will bring a token: handshakes are given none.
Bare(checked) == CsrfEnabled /\ csrf = NoToken /\ ~checked.socket

\* Cookies go out with the request, the session is loaded, the checks made.
Send(r, w, checked) ==
  /\ req[r] = New /\ \A q \in 1..(r - 1) : req[q] # New
  /\ Cardinality(UnderWay) < Concurrent
  /\ checked.cookie = Cookie /\ checked.token \in {Absent, Token}
  /\ req' = [req EXCEPT ![r] =
       [stage |-> "handling", worker |-> w, bare |-> Bare(checked),
        loaded |-> Loads(session, w), socket |-> checked.socket, passed |-> checked.passed,
        served |-> checked.due /\ ~doubled => checked.passed,
        guarded |-> checked.passed => checked.right]]
  /\ doubled' = (doubled \/ (Bare(checked) /\ \E q \in UnderWay : req[q].bare))
  /\ UNCHANGED <<now, offset, session, csrf, held, last>>

\* Mutant: every response carries a token.
TokenForAll(r) == r

\* The cookies a response carries: a token if the request had none ...
TokenFor(r) == IF req[r].bare THEN r ELSE NoToken

\* ... and the session, or its removal, if the endpoint modified it.
PersistSession(modified, data, w) ==
  IF ~modified THEN NoCookie
  ELSE IF data = Empty THEN Removal
  ELSE Dumps(data, w)

\* The endpoint, if the request gets to it, may modify the session.
Respond(r) ==
  /\ req[r].stage = "handling" /\ ~req[r].socket
  /\ \E modified \in {FALSE, req[r].passed} :
     \E data \in IF modified THEN Value \cup {Empty} ELSE {req[r].loaded} :
       req' = [req EXCEPT ![r] =
         [stage |-> "answered", bare |-> @.bare, csrf |-> TokenFor(r),
          session |-> PersistSession(modified, data, @.worker),
          left |-> IF modified THEN [data |-> data, by |-> @.worker, at |-> now] ELSE NoCookie]]
  /\ UNCHANGED <<now, offset, session, csrf, held, last, doubled>>

\* The jar takes the cookies of a response; one without a value is removed.
Receive(r) ==
  /\ req[r].stage = "answered"
  /\ session' = CASE req[r].session = NoCookie -> session
                  [] req[r].session = Removal -> NoCookie
                  [] OTHER -> req[r].session
  /\ csrf' = IF req[r].csrf # NoToken THEN req[r].csrf ELSE csrf
  /\ last' = IF req[r].left # NoCookie THEN req[r].left ELSE last
  /\ req' = [req EXCEPT ![r] = Done]
  /\ UNCHANGED <<now, offset, held, doubled>>

\* The response is lost, or the handshake goes its way without one.
Lose(r) ==
  /\ req[r].stage = "answered" \/ (req[r].stage = "handling" /\ req[r].socket)
  /\ req' = [req EXCEPT ![r] = Done]
  /\ UNCHANGED <<now, offset, session, csrf, held, last, doubled>>

\* A browser forgets a cookie after its Max-Age; the test client does not.
Forget ==
  /\ session # NoCookie /\ now - last.at >= MaxAge * TicksPerSecond
  /\ session' = NoCookie
  /\ UNCHANGED <<now, offset, csrf, held, req, last, doubled>>

Next ==
  \/ Tick \/ ReadToken \/ Forget
  \/ \E r \in Request :
       \/ \E w \in Worker, checked \in Checked : Send(r, w, checked)
       \/ Respond(r) \/ Receive(r) \/ Lose(r)

Spec == Init /\ [][Next]_vars

----------------------------------------------------------------------------
Handling == {r \in Request : req[r].stage = "handling"}

Apart(w, v) == IF offset[w] >= offset[v] THEN offset[w] - offset[v] ELSE offset[v] - offset[w]
Age == now - last.at

\* A request finds in its session what the last response to modify it left: the
\* data, while no clock can say that they are too old, nothing if they were
\* emptied, and nothing once every clock says that their time is over; as long
\* as the clocks of the workers differ by no more than the signer allows
\* (session.py 70-98, app.py 1044-1077).
SessionLifetime ==
  [][\A r \in Request : req[r] = New /\ req'[r] # New =>
       IF last = NoCookie \/ last.data = Empty THEN req'[r].loaded = Empty
       ELSE LET apart == Apart(req'[r].worker, last.by) IN
            /\ Age + apart <= MaxAge * TicksPerSecond /\ apart <= MaxSkew * TicksPerSecond
                 /\ session # NoCookie => req'[r].loaded = last.data
            /\ Age >= (MaxAge + 1) * TicksPerSecond + apart => req'[r].loaded = Empty
            /\ req'[r].loaded \in {Empty, last.data}]_vars

\* A page of the application is served: its links, its handshakes, and what it
\* posts with the token it has read, however long ago, unless two requests of a
\* browser without a token overlapped, and each was to be given one
\* (security.py 158-183, 207-216, 230-245).
OwnPageServed == \A r \in Handling : req[r].served

\* What another page posts, or what comes without an origin, without a token or
\* with a former one, is refused, and so is whatever is addressed to a host that
\* is not served, as far as the settings ask for these checks
\* (security.py 103-115, 174-245, app.py 374-386, 484-497, 894-914).
OthersRefused == \A r \in Handling : req[r].guarded
=============================================================================
