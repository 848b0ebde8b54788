--------------------------- MODULE MCDishQueries ---------------------------
(* Small instances of DishQueries. *)
EXTENDS DishQueries, TLC

CONSTANTS c1, c2

MCIngredients == {"cheese", "bun"}

Takes(i, n) == [ingredient |-> i, perServing |-> n]

\* "gratin" is not on the menu, "water" has no recipe, and the last two are
\* rows only InMemoryRepository can hold.
MCDishes == {"burger", "bread", "gratin", "water", "ghost", "void"}
MCActive == MCDishes \ {"gratin"}
MCRecipeOf ==
    "burger" :> <<Takes("bun", 1), Takes("cheese", 2)>> @@
    "bread"  :> <<Takes("bun", 3)>> @@
    "gratin" :> <<Takes("cheese", 5)>> @@
    "water"  :> << >> @@
    "ghost"  :> <<Takes("bun", 1), Takes("pepper", 1)>> @@
    "void"   :> <<Takes("cheese", 0)>>

\* A text matches by name or identifier, the empty one everything.
MCMatches ==
    [dishes |-> "burg" :> <<"burger">>,
     ingredients |-> "" :> <<"bun", "cheese">>]

Availability(d, servings) == [tool |-> "availability", dish |-> d, servings |-> servings]
Details(d) == [tool |-> "details", dish |-> d, servings |-> 0]
Search(tool, text) == [tool |-> tool, dish |-> text, servings |-> 0]

\* Of five servings of the burger, the cheese wraps around.
AllQuestions ==
    {Availability("burger", n) : n \in {0, 1, 2, 5}}
        \cup {Availability(d, 1) : d \in {"bread", "gratin", "water", "ghost", "void", "pizza"}}
        \cup {Details(d) : d \in {"burger", "gratin", "pizza"}}
        \cup {Search("dishes", "burg"), Search("ingredients", "")}

DetailsQuestions == c1 :> {Details("burger")}

\* One query asks everything, the other keeps it waiting for the connection.
TwoQueries == c1 :> AllQuestions @@ c2 :> {Search("dishes", "burg")}
===========================================================================
