-------------------------------- MODULE Gate --------------------------------
(* The checks that admit a request or a WebSocket handshake: the Host       *)
(* header, the CSRF tokens and the Origin (flasgo/security.py, _dispatch and *)
(* _handle_websocket of flasgo/app.py).  A host name is the sequence of its  *)
(* labels, so ".app" is <<"", "app">> and a trailing dot an empty last       *)
(* label; a header the code cannot take apart is Malformed, and so is one    *)
(* given twice where the code counts them (it takes one of them where it      *)
(* does not).  An Origin or Referer that urlsplit rejects with an error ends   *)
(* a request by that error, a step of Http; it passes here no more than there. *)
EXTENDS Integers, Sequences, SequencesExt

CONSTANTS
  Absent,          \* a header the request does not have
  Malformed,       \* one without a host name
  AllowedHosts,    \* ALLOWED_HOSTS, as names
  TrustedOrigins,  \* CSRF_TRUSTED_ORIGINS: origins whose scheme may be AnyScheme
  SocketOrigins,   \* WEBSOCKET_ALLOWED_ORIGINS: origins
  AnyScheme,
  EnforceHosts,    \* enforce_allowed_hosts
  CsrfEnabled,     \* csrf_enabled
  CheckOrigin,     \* csrf_check_origin
  RequireOrigin,   \* CSRF_REQUIRE_ORIGIN
  EnforceSocketOrigin, \* WEBSOCKET_ENFORCE_ORIGIN
  MissingOrigin    \* WEBSOCKET_ALLOW_MISSING_ORIGIN

\* Any string; these two are named for the provers, which do not know them.
Scheme == STRING \cup {"http", "https"}
Authorities == [name : Seq(STRING), port : Nat]

ASSUME GateAssumption ==
  /\ {EnforceHosts, CsrfEnabled, CheckOrigin, RequireOrigin,
      EnforceSocketOrigin, MissingOrigin} \subseteq BOOLEAN
  /\ Absent # Malformed /\ {Absent, Malformed} \cap Authorities = {}
  /\ Malformed \notin [scheme : Scheme, authority : Authorities]
  /\ AllowedHosts \subseteq Seq(STRING)
  /\ TrustedOrigins \subseteq [scheme : Scheme \cup {AnyScheme}, authority : Authorities]
  /\ \A trusted \in TrustedOrigins : trusted.authority.name # <<>>
  /\ SocketOrigins \subseteq [scheme : Scheme, authority : Authorities]

NoPort == 0
Authority(name, port) == [name |-> name, port |-> port]
Origin(scheme, authority) == [scheme |-> scheme, authority |-> authority]

\* rstrip(".")
WithoutDots(name) == SubSeq(name, 1, Max({0} \cup {i \in 1..Len(name) : name[i] # ""}))

HostHeaderHostname(host) ==
  IF host \in {Absent, Malformed} THEN <<>> ELSE WithoutDots(host.name)

\* Mutant: the pattern without its dot.
EndsWithName(name, pattern) ==
  Len(name) >= Len(pattern) - 1 /\ IsSuffix(Tail(pattern), name)

\* endswith: the pattern's leading dot is its first, empty, label.
EndsWith(name, pattern) ==
  Len(name) >= Len(pattern) /\ IsSuffix(Tail(pattern), name)
IsPattern(pattern) == Head(pattern) = ""

HostIsAllowed(host) ==
  LET name == HostHeaderHostname(host) IN
  /\ name # <<>>
  /\ \E pattern \in {WithoutDots(p) : p \in AllowedHosts} \ {<<>>} :
       pattern = name \/ (IsPattern(pattern) /\ EndsWith(name, pattern))

----------------------------------------------------------------------------
\* The origin is the request's own, compared as it is written, or is trusted:
\* as a whole, by host and port, or by a suffix of its host, which is compared
\* without its port, so that a suffix written with one has no effect.
OriginMatchesRequest(origin, scheme, host) ==
  /\ origin # Malformed
  /\ \/ host \notin {Absent, Malformed} /\ origin = Origin(scheme, host)
     \/ \E trusted \in TrustedOrigins :
          IF trusted.scheme # AnyScheme THEN origin = trusted
          ELSE \/ origin.authority = trusted.authority
               \/ /\ IsPattern(trusted.authority.name) /\ trusted.authority.port = NoPort
                  /\ EndsWith(origin.authority.name, trusted.authority.name)

\* The Referer speaks where there is no Origin.
CsrfOriginIsValid(r) ==
  IF r.origin # Absent THEN OriginMatchesRequest(r.origin, r.scheme, r.host)
  ELSE IF r.referer # Absent THEN OriginMatchesRequest(r.referer, r.scheme, r.host)
  ELSE ~RequireOrigin

CsrfIsValid(r) ==
  \/ r.method = "safe"
  \/ /\ CheckOrigin => CsrfOriginIsValid(r)
     /\ r.token # Absent /\ r.token = r.cookie

----------------------------------------------------------------------------
CanonicalOrigin(origin) ==
  IF origin = Malformed \/ origin.scheme \notin {"http", "https"} THEN Malformed
  ELSE IF origin.authority.port # NoPort THEN origin
  ELSE [origin EXCEPT !.authority.port = IF origin.scheme = "https" THEN 443 ELSE 80]

\* The canonical origin is the request's own or one of the allowed ones.
WebsocketOriginIsAllowed(r) ==
  IF r.origin = Absent THEN MissingOrigin
  ELSE LET candidate == CanonicalOrigin(r.origin) IN
       /\ candidate # Malformed
       /\ \/ /\ r.host \notin {Absent, Malformed}
             /\ candidate = CanonicalOrigin(Origin(r.scheme, r.host))
          \/ candidate \in {CanonicalOrigin(o) : o \in SocketOrigins}

Passes(r) ==
  /\ EnforceHosts => HostIsAllowed(r.host)
  /\ IF r.method = "socket" THEN EnforceSocketOrigin => WebsocketOriginIsAllowed(r)
     ELSE CsrfEnabled => CsrfIsValid(r)
=============================================================================
