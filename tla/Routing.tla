------------------------------- MODULE Routing -------------------------------
(* flasgo/routing.py and the route table of flasgo/app.py: routes are added  *)
(* while the program is set up, or later; a request goes to the first route  *)
(* that matches its path and method; the OpenAPI document of the table is    *)
(* built on demand and kept.  A path is cut at its slashes; a parameter      *)
(* stands for a whole segment, or, with the converter `path`, for several.   *)
(* A segment of more digits than int() takes raises and ends the search and  *)
(* the request, a step of Http; Paths has none.                              *)
EXTENDS Integers, Sequences, FiniteSetsExt

CONSTANTS
  Routes,     \* routes a program adds: [pattern, methods]
  Paths,      \* paths of requests: sequences of segments
  Methods,    \* methods of requests
  Number,     \* segments that are digits
  Reserved,   \* patterns of the enabled documentation and metrics pages
  MaxRoutes   \* bound: routes in the table

Converter == {"<str>", "<int>", "<path>"}

\* A route: its pattern in parts, and its methods.
Route == [pattern : Seq(STRING), methods : SUBSET Methods]

ASSUME RoutingAssumption ==
  /\ Routes \subseteq Route
  /\ {"GET", "HEAD"} \subseteq Methods
  /\ MaxRoutes \in Nat

VARIABLES
  routes,   \* _routes
  cache,    \* _openapi_cache: no document, or one
  dirty,    \* _openapi_dirty
  page,     \* the document served last
  table     \* history: the routes there were when it was served

openapi == <<cache, dirty>>
served == <<page, table>>
vars == <<routes, openapi, served>>

----------------------------------------------------------------------------
\* Part e of a pattern takes these segments.
Takes(e, segments) ==
  IF e = "<path>" THEN segments # <<"">>
  ELSE /\ Len(segments) = 1
       /\ CASE e = "<str>" -> segments[1] # ""
            [] e = "<int>" -> segments[1] \in Number
            [] OTHER -> segments[1] = e

\* _match_path: cut into as many parts, one or more segments each, the path
\* is taken by the parts of the pattern in turn.
PathMatches(pattern, path) ==
  \E cut \in [0..Len(pattern) -> 0..Len(path)] :
    /\ cut[0] = 0 /\ cut[Len(pattern)] = Len(path)
    /\ \A i \in 1..Len(pattern) :
         /\ cut[i - 1] < cut[i]
         /\ Takes(pattern[i], SubSeq(path, cut[i - 1] + 1, cut[i]))

RouteMatches(r, path, method) == method \in r.methods /\ PathMatches(r.pattern, path)

\* Mutant: the last route that matches.
LastMatch(R, path, method) ==
  LET found == {i \in DOMAIN R : RouteMatches(R[i], path, method)}
  IN  IF found = {} THEN 0 ELSE Max(found)

\* _match_route: the first route that matches, 0 when none does ...
MatchRoute(R, path, method) ==
  LET found == {i \in DOMAIN R : RouteMatches(R[i], path, method)}
  IN  IF found = {} THEN 0 ELSE Min(found)

\* Mutant: those of the first route with the path.
AllowedOfFirst(R, path) ==
  LET found == {i \in DOMAIN R : PathMatches(R[i].pattern, path)}
  IN  IF found = {} THEN {} ELSE R[Min(found)].methods

\* ... and then the methods of all routes with its path, empty for 404.
Allowed(R, path) ==
  UNION {R[i].methods : i \in {j \in DOMAIN R : PathMatches(R[j].pattern, path)}}

----------------------------------------------------------------------------
\* _to_openapi_path: converters are dropped; all parameters share one name here.
Template(pattern) == [i \in DOMAIN pattern |->
                        IF pattern[i] \in Converter THEN "{}" ELSE pattern[i]]

\* The methods of a route that are documented.
Documented(r) == IF "GET" \in r.methods THEN r.methods \ {"HEAD"} ELSE r.methods

Describe(R, i) == {<<Template(R[i].pattern), m>> : m \in Documented(R[i])}

\* build_openapi_spec: every operation is described by the last route that has
\* it, the later entry of the dictionary.
Document(R) ==
  [o \in UNION {Describe(R, i) : i \in DOMAIN R} |-> Max({i \in DOMAIN R : o \in Describe(R, i)})]

----------------------------------------------------------------------------
Init ==
  /\ routes = <<>>
  /\ cache = {} /\ dirty = TRUE
  /\ page = <<>> /\ table = <<>>

Normalized(methods) == IF "GET" \in methods THEN methods \cup {"HEAD"} ELSE methods

\* Mutant: the kept document stays good.
AddRouteClean(r) ==
  /\ r.pattern \notin Reserved
  /\ Len(routes) < MaxRoutes
  /\ routes' = Append(routes, [r EXCEPT !.methods = Normalized(@)])
  /\ UNCHANGED <<openapi, served>>

\* add_route; a reserved path is refused.
AddRoute(r) ==
  /\ r.pattern \notin Reserved
  /\ Len(routes) < MaxRoutes
  /\ routes' = Append(routes, [r EXCEPT !.methods = Normalized(@)])
  /\ dirty' = TRUE
  /\ UNCHANGED <<cache, served>>

\* openapi_spec; a build that raises sets neither flag nor document, and changes
\* nothing.
OpenApiSpec ==
  /\ cache' = IF cache # {} /\ ~dirty THEN cache ELSE {Document(routes)}
  /\ dirty' = FALSE
  /\ page' \in cache'
  /\ table' = routes
  /\ UNCHANGED routes

Next == OpenApiSpec \/ \E r \in Routes : AddRoute(r)

Spec == Init /\ [][Next]_vars

----------------------------------------------------------------------------
\* The Allow header of a 405 tells the methods that would have been answered,
\* all of them and no other, so that a client can retry with one; a 404 means
\* that no method is; and HEAD is answered wherever GET is (app.py 936-947).
AllowHonest ==
  \A path \in Paths :
    /\ Allowed(routes, path) = {m \in Methods : MatchRoute(routes, path, m) # 0}
    /\ MatchRoute(routes, path, "GET") # 0 => MatchRoute(routes, path, "HEAD") # 0

\* A route that is added later never takes a request from an earlier one, and
\* none of what was answered becomes a 404 or 405.
NeverStolen ==
  [][\A path \in Paths, m \in Methods :
       MatchRoute(routes, path, m) # 0 =>
         MatchRoute(routes', path, m) = MatchRoute(routes, path, m)]_routes

\* The document that is served describes the routes there are then, however
\* additions and requests for it alternate.
PageFresh == page = Document(table)
=============================================================================
