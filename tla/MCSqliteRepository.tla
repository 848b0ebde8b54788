------------------------- MODULE MCSqliteRepository -------------------------
(* Small instances of SqliteRepository: two processes on one file. *)
EXTENDS SqliteRepository, TLC

CONSTANTS p1, p2, c1, c2, c3

Request(k, i, op, q) ==
    [key |-> k, ingredient |-> i, operation |-> op, quantity |-> q, performedBy |-> "ana"]

MCIngredients == {"cheese", "bun"}
MCOpeningStock == "cheese" :> 3 @@ "bun" :> 5

\* One process with two calls that share a connection, one with a third.
MCProcOf == c1 :> p1 @@ c2 :> p1 @@ c3 :> p2
MCProcOfTwo == c1 :> p1 @@ c2 :> p2

\* Two subtractions the opening stock cannot both pay, one of them retried
\* with another meaning that would wrap around.
ContendedRequests ==
    {Request("k1", "cheese", "subtract", 2), Request("k1", "cheese", "add", 6),
     Request("k2", "cheese", "subtract", 2), Request("k2", "bun", "set", 1)}

\* As well: what ApplyMovement refuses, and a negative quantity, which it
\* does not.
AllRequests ==
    ContendedRequests \cup
    {Request("k1", "bun", "subtract", -2),
     Request("k2", "pepper", "add", 1), Request("k2", "bun", "divide", 1)}

\* Two keys whose subtractions the opening stock cannot both pay.
FewRequests ==
    {Request("k1", "cheese", "subtract", 2), Request("k2", "cheese", "subtract", 2)}
===========================================================================
