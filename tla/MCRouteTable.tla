--------------------------- MODULE MCRouteTable ---------------------------
(* Model-checking instances of RouteTable: a table of one or two routes,   *)
(* so that a third request already evicts or overflows.                    *)
EXTENDS RouteTable, TLC

NameSymmetry == Permutations(Requests) \cup Permutations(Keys)
                  \cup Permutations(Threads) \cup Permutations(Lines)
=============================================================================
