---------------------------- MODULE MCAdjustTool ----------------------------
(* Small instances of AdjustTool: three users, two ingredients. *)
EXTENDS AdjustTool, TLC

CONSTANTS c1, c2, c3

MCIngredients == {"cheese", "milk"}
MCOpeningStock == "cheese" :> 3 @@ "milk" :> 5
MCBaseOf == "cheese" :> "g" @@ "milk" :> "ml"

MCUserOf == c1 :> "ana" @@ c2 :> "eva" @@ c3 :> "luis"
MCRoleOf == "ana" :> "cook" @@ "luis" :> "waiter" @@ "eva" :> "admin"
TwoMovers == c1 :> "ana" @@ c2 :> "eva"

Ask(k, i, op, thousandths, u) ==
    [key |-> k, ingredient |-> i, operation |-> op, quantity |-> thousandths, unit |-> u]

\* 2 g; 1.5 ml, rounded to 2; 5 l, more than an integer of the instance
\* holds.
GoodArguments ==
    {Ask("k1", "cheese", "subtract", 2000, "g"), Ask("k1", "milk", "subtract", 1500, "ml"),
     Ask("k2", "milk", "set", 5000, "l")}

\* What the handler refuses.
BadArguments ==
    {Ask("", "cheese", "add", 1000, "g"), Ask("k1", "pepper", "add", 1000, "g"),
     Ask("k1", "cheese", "add", 1000, "l")}

\* Enough for three calls: one key for 1.5 g, rounded to 2, and for 5 kg, more
\* than an integer of the instance holds.
FewArguments ==
    {Ask("k1", "cheese", "subtract", 1500, "g"), Ask("k1", "cheese", "set", 5000, "kg")}
        \cup BadArguments

NegativeArguments == {Ask("k1", "cheese", "subtract", -2000, "g")}

\* Every request the handler can make of the arguments.
RequestsOf(A, users) ==
    {RequestFor(a, q, u) : a \in A, q \in Int64, u \in users}

Users == {"ana", "luis", "eva"}
MCRequests == RequestsOf(GoodArguments \cup FewArguments \cup NegativeArguments, Users)
===========================================================================
