----------------------------- MODULE MCRouting -----------------------------
(* A model of Routing: literal, string, number and path parameters that      *)
(* overlap, with trailing slashes, and tables of up to three routes.         *)
EXTENDS Routing

R(pattern, methods) == [pattern |-> pattern, methods |-> methods]

MCRoutes ==
  {R(<<"a">>, {"GET"}), R(<<"a">>, {"POST"}), R(<<"<str>">>, {"GET", "POST"}),
   R(<<"<int>">>, {"HEAD"}), R(<<"a", "<int>">>, {"GET"}),
   R(<<"<path>">>, {"POST"}), R(<<"<path>", "a">>, {"GET"}), R(<<"docs">>, {"GET"})}
MCSegment == {"a", "7", ""}
MCPaths == UNION {[1..n -> MCSegment] : n \in 1..3}
MCMethods == {"GET", "HEAD", "POST"}
MCNumber == {"7"}
MCReserved == {<<"docs">>}
=============================================================================
