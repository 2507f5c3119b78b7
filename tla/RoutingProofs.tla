---------------------------- MODULE RoutingProofs ----------------------------
(* What a client may conclude from a 404, from the Allow header of a 405 and *)
(* from the document of the routes, for every table of routes, every path    *)
(* and every way the converters may read a segment.                          *)
EXTENDS Routing, WellFoundedInduction, TLAPS

----------------------------------------------------------------------------
\* A set of naturals has a least element, which Min names.
LEMMA MinOfNaturals ==
  ASSUME NEW S \in SUBSET Nat, S # {}
  PROVE  Min(S) \in S /\ \A x \in S : Min(S) <= x
<1> DEFINE Less == {pair \in Nat \X Nat : pair[1] < pair[2]}
<1>1. IsWellFoundedOn(Less, Nat)
  BY NatLessThanWellFounded, Zenon DEF OpToRel
<1> HIDE DEF Less
<1>2. PICK x \in S : \A y \in S : ~ (<<y, x>> \in Less)
  BY <1>1, WFMin
<1>3. ASSUME NEW y \in S PROVE x <= y
  <2>1. y < x => <<y, x>> \in Nat \X Nat /\ <<y, x>>[1] < <<y, x>>[2]
    OBVIOUS
  <2>2. y < x => <<y, x>> \in Less
    BY <2>1, Zenon DEF Less
  <2> QED
    BY <1>2, <2>2
<1> QED
  BY <1>3 DEF Min

\* A bounded set of numbers has a greatest one, which Max names.
LEMMA MaxUpTo ==
  ASSUME NEW n \in Nat, NEW S \in SUBSET (0..n), S # {}
  PROVE  Max(S) \in S /\ \A x \in S : x <= Max(S)
<1> DEFINE below == {n - x : x \in S}
<1>1. below \in SUBSET Nat /\ below # {}
  <2>1. \A x \in S : x \in 0..n /\ n - x \in Nat
    OBVIOUS
  <2> QED
    BY <2>1
<1>2. Min(below) \in below /\ \A y \in below : Min(below) <= y
  BY <1>1, MinOfNaturals
<1>3. PICK x \in S : Min(below) = n - x
  BY <1>2
<1>4. ASSUME NEW y \in S PROVE x >= y
  <2>1. n - x <= n - y /\ x \in 0..n /\ y \in 0..n
    BY <1>2, <1>3
  <2> QED
    BY <2>1
<1>5. Max(S) \in S /\ \A y \in S : Max(S) >= y
  BY <1>4 DEF Max
<1>6. \A y \in S : y \in Int
  OBVIOUS
<1> QED
  BY <1>5, <1>6

\* Only the least element is in a set and below all of it.
LEMMA MinIs ==
  ASSUME NEW S \in SUBSET Nat, NEW x \in S, \A y \in S : x <= y
  PROVE  Min(S) = x
<1>1. S # {}
  OBVIOUS
<1>2. Min(S) \in S /\ Min(S) <= x
  BY <1>1, MinOfNaturals
<1>3. x <= Min(S) /\ x \in Nat /\ Min(S) \in Nat
  BY <1>2
<1> QED
  BY <1>2, <1>3

----------------------------------------------------------------------------
\* The routes of table R that answer a request.
Found(R, path, method) == {i \in DOMAIN R : RouteMatches(R[i], path, method)}

\* _match_route finds a route where there is one, and then the earliest.
LEMMA MatchFinds ==
  ASSUME NEW R, NEW n \in Nat, DOMAIN R = 1..n, NEW path, NEW method
  PROVE  /\ MatchRoute(R, path, method) # 0 <=> Found(R, path, method) # {}
         /\ Found(R, path, method) # {} =>
              /\ MatchRoute(R, path, method) \in Found(R, path, method)
              /\ \A i \in Found(R, path, method) : MatchRoute(R, path, method) <= i
<1> DEFINE found == Found(R, path, method)
<1>1. found \in SUBSET Nat /\ 0 \notin found
  BY DEF Found
<1>2. MatchRoute(R, path, method) = IF found = {} THEN 0 ELSE Min(found)
  BY DEF MatchRoute, Found
<1>3. found # {} => Min(found) \in found /\ \A i \in found : Min(found) <= i
  BY <1>1, MinOfNaturals
<1> QED
  BY <1>1, <1>2, <1>3

\* What was found in a table is found, at the same place, in a longer one.
LEMMA MatchKept ==
  ASSUME NEW R, NEW n \in Nat, DOMAIN R = 1..n,
         NEW S, NEW m \in Nat, DOMAIN S = 1..m, n <= m, \A i \in 1..n : S[i] = R[i],
         NEW path, NEW method, MatchRoute(R, path, method) # 0
  PROVE  MatchRoute(S, path, method) = MatchRoute(R, path, method)
<1> DEFINE first == MatchRoute(R, path, method)
<1>1. /\ first \in Found(R, path, method)
      /\ \A i \in Found(R, path, method) : first <= i
  BY MatchFinds
<1>2. first \in 1..n /\ first \in Found(S, path, method)
  BY <1>1 DEF Found
<1>3. ASSUME NEW i \in Found(S, path, method) PROVE first <= i
  <2>1. CASE i \in 1..n
    BY <1>1, <2>1 DEF Found
  <2>2. CASE i \notin 1..n
    BY <1>2, <1>3, <2>2 DEF Found
  <2> QED
    BY <2>1, <2>2
<1>4. Found(S, path, method) \in SUBSET Nat
  BY DEF Found
<1>5. Min(Found(S, path, method)) = first
  BY <1>2, <1>3, <1>4, MinIs
<1>6. MatchRoute(S, path, method) =
        IF Found(S, path, method) = {} THEN 0 ELSE Min(Found(S, path, method))
  BY DEF MatchRoute, Found
<1> QED
  BY <1>2, <1>5, <1>6

----------------------------------------------------------------------------
\* The table: routes of known methods, HEAD with every GET.
RoutesOK ==
  /\ routes \in Seq(Route)
  /\ Len(routes) <= MaxRoutes
  /\ \A i \in 1..Len(routes) :
       /\ "GET" \in routes[i].methods => "HEAD" \in routes[i].methods
       /\ routes[i].pattern \notin Reserved

\* The kept document is of the table unless it is marked dirty, and what was
\* served last was of the table there was.
DocumentOK ==
  /\ dirty \in BOOLEAN /\ table \in Seq(Route)
  /\ ~dirty => cache = {Document(routes)}
  /\ PageFresh

Inv == RoutesOK /\ DocumentOK

\* A program that adds no route has an empty document.
LEMMA NoRoutes == Document(<<>>) = <<>>
<1>1. UNION {Describe(<<>>, i) : i \in DOMAIN <<>>} = {}
  OBVIOUS
<1> QED
  BY <1>1 DEF Document

LEMMA InvInit == Init => Inv
<1> SUFFICES ASSUME Init PROVE Inv
  OBVIOUS
<1>1. RoutesOK
  BY RoutingAssumption DEF Init, RoutesOK
<1>2. DocumentOK
  <2>1. <<>> \in Seq(Route)
    OBVIOUS
  <2> QED
    BY <2>1, NoRoutes DEF Init, DocumentOK, PageFresh
<1> QED
  BY <1>1, <1>2 DEF Inv

\* The route that add_route appends.
Added(r) == [r EXCEPT !.methods = Normalized(@)]

LEMMA AddKeepsRoutes == ASSUME RoutesOK, NEW r \in Routes, AddRoute(r) PROVE RoutesOK'
<1>1. routes' = Append(routes, Added(r)) /\ Len(routes) < MaxRoutes /\ r.pattern \notin Reserved
  BY DEF AddRoute, Added
<1>2. Normalized(r.methods) \subseteq Methods
  BY RoutingAssumption DEF Normalized, Route
<1>3. Added(r) \in Route /\ Added(r).pattern = r.pattern /\ Added(r).methods = Normalized(r.methods)
  BY <1>2, RoutingAssumption DEF Added, Route
<1>4. routes \in Seq(Route)
  BY DEF RoutesOK
<1>5. /\ routes' \in Seq(Route) /\ Len(routes') = Len(routes) + 1
      /\ \A i \in 1..Len(routes) : routes'[i] = routes[i]
      /\ routes'[Len(routes) + 1] = Added(r)
  BY <1>1, <1>3, <1>4
<1>6. Len(routes') <= MaxRoutes
  BY <1>1, <1>4, <1>5, RoutingAssumption
<1>7. ASSUME NEW i \in 1..Len(routes')
      PROVE  /\ "GET" \in routes'[i].methods => "HEAD" \in routes'[i].methods
             /\ routes'[i].pattern \notin Reserved
  <2>1. CASE i \in 1..Len(routes)
    BY <1>5, <2>1 DEF RoutesOK
  <2>2. CASE i = Len(routes) + 1
    BY <1>1, <1>3, <1>5, <2>2 DEF Normalized
  <2> QED
    BY <1>4, <1>5, <2>1, <2>2
<1> QED
  BY <1>5, <1>6, <1>7 DEF RoutesOK

LEMMA InvStep == Inv /\ [Next]_vars => Inv'
<1> SUFFICES ASSUME Inv, [Next]_vars PROVE Inv'
  OBVIOUS
<1>1. CASE OpenApiSpec
  <2>1. UNCHANGED routes /\ dirty' = FALSE /\ table' = routes
    BY <1>1 DEF OpenApiSpec
  <2>2. cache' = {Document(routes)} /\ page' \in cache'
    BY <1>1 DEF OpenApiSpec, Inv, DocumentOK
  <2>3. RoutesOK'
    BY <2>1 DEF Inv, RoutesOK
  <2>4. DocumentOK'
    BY <2>1, <2>2, <2>3 DEF Inv, RoutesOK, DocumentOK, PageFresh
  <2> QED
    BY <2>3, <2>4 DEF Inv
<1>2. ASSUME NEW r \in Routes, AddRoute(r) PROVE Inv'
  <2>1. RoutesOK'
    BY <1>2, AddKeepsRoutes DEF Inv
  <2>2. dirty' = TRUE /\ UNCHANGED <<page, table>>
    BY <1>2 DEF AddRoute, served
  <2>3. DocumentOK'
    BY <2>2 DEF Inv, DocumentOK, PageFresh
  <2> QED
    BY <2>1, <2>3 DEF Inv
<1>3. CASE UNCHANGED vars
  BY <1>3 DEF vars, openapi, served, Inv, RoutesOK, DocumentOK, PageFresh
<1> QED
  BY <1>1, <1>2, <1>3 DEF Next

LEMMA InvHolds == Spec => []Inv
BY InvInit, InvStep, PTL DEF Spec

----------------------------------------------------------------------------
LEMMA Honest == Inv => AllowHonest
<1> SUFFICES ASSUME Inv, NEW path \in Paths
             PROVE  /\ Allowed(routes, path) =
                         {m \in Methods : MatchRoute(routes, path, m) # 0}
                    /\ MatchRoute(routes, path, "GET") # 0 =>
                         MatchRoute(routes, path, "HEAD") # 0
  BY DEF AllowHonest
<1>1. /\ DOMAIN routes = 1..Len(routes) /\ Len(routes) \in Nat
      /\ \A i \in 1..Len(routes) : /\ routes[i].methods \subseteq Methods
                                   /\ "GET" \in routes[i].methods => "HEAD" \in routes[i].methods
  <2>1. routes \in Seq(Route)
    BY DEF Inv, RoutesOK
  <2>2. \A i \in 1..Len(routes) : routes[i].methods \subseteq Methods
    <3>1. ASSUME NEW i \in 1..Len(routes) PROVE routes[i] \in Route
      BY <2>1
    <3>2. \A r \in Route : r.methods \subseteq Methods
      BY DEF Route
    <3> QED
      BY <3>1, <3>2
  <2> QED
    BY <2>1, <2>2 DEF Inv, RoutesOK
<1>2. \A m : MatchRoute(routes, path, m) # 0 <=> Found(routes, path, m) # {}
  BY <1>1, MatchFinds
<1>3. \A m : m \in Allowed(routes, path) <=> Found(routes, path, m) # {}
  BY DEF Allowed, Found, RouteMatches
<1>4. \A m : Found(routes, path, m) # {} => m \in Methods
  BY <1>1 DEF Found, RouteMatches
<1>5. Found(routes, path, "GET") # {} => Found(routes, path, "HEAD") # {}
  BY <1>1 DEF Found, RouteMatches
<1> QED
  BY <1>2, <1>3, <1>4, <1>5

\* What the Allow header of a 405 lists is what would have been answered, a 404
\* is told only where no method is, and HEAD is answered wherever GET is.
THEOREM AllowIsHonest == Spec => []AllowHonest
BY InvHolds, Honest, PTL

\* The document that is served is of the routes there are then.
THEOREM PageIsFresh == Spec => []PageFresh
<1>1. Inv => PageFresh
  BY DEF Inv, DocumentOK
<1> QED
  BY <1>1, InvHolds, PTL

----------------------------------------------------------------------------
\* What is answered is documented, HEAD beside GET aside; and what is documented
\* is an operation of a route that is there, of the last that has it.
PageTells ==
  /\ \A path \in Paths, m \in Methods :
       LET i == MatchRoute(table, path, m)
       IN  i # 0 /\ m \in Documented(table[i]) =>
             <<Template(table[i].pattern), m>> \in DOMAIN page
  /\ \A o \in DOMAIN page :
       /\ page[o] \in DOMAIN table /\ o \in Describe(table, page[o])
       /\ \A i \in DOMAIN table : o \in Describe(table, i) => i <= page[o]

LEMMA DocumentTells ==
  ASSUME NEW R, NEW n \in Nat, DOMAIN R = 1..n, NEW o \in DOMAIN Document(R)
  PROVE  /\ Document(R)[o] \in DOMAIN R /\ o \in Describe(R, Document(R)[o])
         /\ \A i \in DOMAIN R : o \in Describe(R, i) => i <= Document(R)[o]
<1> DEFINE having == {i \in DOMAIN R : o \in Describe(R, i)}
<1>1. having # {} /\ Document(R)[o] = Max(having)
  BY DEF Document
<1>2. having \in SUBSET (0..n)
  OBVIOUS
<1>3. Max(having) \in having /\ \A i \in having : i <= Max(having)
  BY <1>1, <1>2, MaxUpTo
<1> QED
  BY <1>1, <1>3

LEMMA InvTells == Inv => PageTells
<1> SUFFICES ASSUME Inv PROVE PageTells
  OBVIOUS
<1>1. /\ page = Document(table) /\ DOMAIN table = 1..Len(table) /\ Len(table) \in Nat
  BY DEF Inv, DocumentOK, PageFresh
<1>2. \A o \in DOMAIN page :
        /\ page[o] \in DOMAIN table /\ o \in Describe(table, page[o])
        /\ \A i \in DOMAIN table : o \in Describe(table, i) => i <= page[o]
  BY <1>1, DocumentTells
<1>3. ASSUME NEW path \in Paths, NEW m \in Methods,
             MatchRoute(table, path, m) # 0,
             m \in Documented(table[MatchRoute(table, path, m)])
      PROVE  <<Template(table[MatchRoute(table, path, m)].pattern), m>> \in DOMAIN page
  <2> DEFINE i == MatchRoute(table, path, m)
  <2>1. i \in DOMAIN table
    BY <1>1, <1>3, MatchFinds DEF Found
  <2> HIDE DEF i
  <2>2. <<Template(table[i].pattern), m>> \in Describe(table, i)
    BY <1>3 DEF Describe, i
  <2>3. DOMAIN page = UNION {Describe(table, j) : j \in DOMAIN table}
    BY <1>1 DEF Document
  <2> QED
    BY <2>1, <2>2, <2>3 DEF i
<1> QED
  BY <1>2, <1>3 DEF PageTells

\* The document that is served names every operation that would be answered and
\* no other; it is of the last route that has it, which need not be the one that
\* answers (openapi.py 17-44, app.py 936-947).
THEOREM PageIsComplete == Spec => []PageTells
BY InvHolds, InvTells, PTL

----------------------------------------------------------------------------
\* A step extends the table at its end or leaves it.
LEMMA MatchesStay ==
  Inv /\ [Next]_vars =>
    [\A path \in Paths, m \in Methods :
       MatchRoute(routes, path, m) # 0 =>
         MatchRoute(routes', path, m) = MatchRoute(routes, path, m)]_routes
<1> SUFFICES ASSUME Inv, Next, routes' # routes, NEW path \in Paths, NEW m \in Methods,
                    MatchRoute(routes, path, m) # 0
             PROVE  MatchRoute(routes', path, m) = MatchRoute(routes, path, m)
  BY DEF vars
<1>1. PICK r \in Routes : AddRoute(r)
  BY DEF Next, OpenApiSpec
<1>2. routes \in Seq(Route)
  BY DEF Inv, RoutesOK
<1>3. /\ DOMAIN routes = 1..Len(routes) /\ Len(routes) \in Nat
      /\ DOMAIN routes' = 1..Len(routes) + 1
      /\ \A i \in 1..Len(routes) : routes'[i] = routes[i]
  BY <1>1, <1>2 DEF AddRoute
<1> QED
  BY <1>3, MatchKept

\* A route that is added takes no request from those before it.
THEOREM NoneIsStolen == Spec => NeverStolen
BY InvHolds, MatchesStay, PTL DEF NeverStolen, Spec
=============================================================================
