---------------------------- MODULE DishQueries ----------------------------
(***************************************************************************)
(* The tools that only read: search_dishes, search_ingredients,            *)
(* get_dish_availability and get_recipe_details                            *)
(* (internal/tools/handlers.go).  A question is not one transaction: the   *)
(* handler asks the repository for the dish, for its recipe (or for what a *)
(* text matches) and then, one ingredient after the other, for the stock,  *)
(* and other callers adjust the stock in between.  Every repository call   *)
(* waits for the one connection of the process; reading rows holds it from *)
(* Query to rows.Close.                                                    *)
(*                                                                         *)
(* The catalogue does not change once it is seeded.  A repository method   *)
(* reports an error of the database as an absence, never as an error;      *)
(* Faults says which of them may fail.                                     *)
(***************************************************************************)
EXTENDS Quantities, Sequences, FiniteSets

CONSTANTS
    Ingredients,
    Dishes,        \* identifiers of the catalogue
    Active,        \* those on the menu
    RecipeOf,      \* the recipe of each dish, in order of position
    Matches,       \* what each text finds with each of the search tools, by id
    Levels,        \* quantities a stock may have
    Queries,       \* the calls in progress
    Questions,     \* what each of them may ask
    Nobody,        \* the holder of a free connection
    Faults

ItemsOf(d) == {RecipeOf[d][n] : n \in DOMAIN RecipeOf[d]}

ASSUME MenuAssumption ==
    /\ Active \subseteq Dishes
    /\ \A d \in Dishes :
          /\ RecipeOf[d] \in Seq(ItemsOf(d))
          /\ \A item \in ItemsOf(d) : item.perServing \in Int64

ASSUME LevelsAssumption == Levels # {} /\ Levels \subseteq Quantity

Searches == {"dishes", "ingredients"}

ASSUME MatchesAssumption ==
    /\ \A text \in DOMAIN Matches["dishes"] : Matches["dishes"][text] \in Seq(Dishes)
    /\ \A text \in DOMAIN Matches["ingredients"] :
          Matches["ingredients"][text] \in Seq(Ingredients)

\* `dish' is the identifier of a dish, or the text of a search.
ASSUME QuestionsAssumption ==
    /\ DOMAIN Questions = Queries /\ Nobody \notin Queries
    /\ \A c \in Queries : Questions[c] # {}
    /\ \A c \in Queries : \A q \in Questions[c] :
          /\ DOMAIN q = {"tool", "dish", "servings"}
          /\ q.tool \in {"availability", "details"} \cup Searches
          /\ q.servings \in Int64
          /\ q.tool \in Searches => q.dish \in DOMAIN Matches[q.tool]

ASSUME QueryFaultsAssumption ==
    Faults \subseteq {"dish", "recipe", "rows", "ingredient", "quantity"}

VARIABLES
    stock,       \* committed quantity of each ingredient
    conn,        \* who holds the connection of the process over a step
    pc,          \* the repository call each query is about to make
    question,    \* its arguments
    recipe,      \* local: the rows that RecipeForDish or a search returned
    reads,       \* local: the available quantity of the items handled so far
    answer,      \* the last answer
    moments,     \* the stocks there have been since the question (history)
    misread      \* an error has been taken for an absence (history)

locals == <<recipe, reads>>
history == <<moments, misread>>
vars == <<stock, conn, pc, question, locals, answer, history>>

Answer(kind, available, maximum, missing, listed) ==
    [kind |-> kind, available |-> available, maximum |-> maximum,
     missing |-> missing, listed |-> listed]

Nothing(kind) == Answer(kind, FALSE, 0, {}, << >>)

Init ==
    /\ stock \in [Ingredients -> Levels]
    /\ conn = Nobody
    /\ pc = [c \in Queries |-> "idle"]
    /\ question = [c \in Queries |-> CHOOSE q \in Questions[c] : TRUE]
    /\ recipe = [c \in Queries |-> << >>]
    /\ reads = [c \in Queries |-> << >>]
    /\ answer = [c \in Queries |-> Nothing("none")]
    /\ moments = [c \in Queries |-> {}]
    /\ misread = [c \in Queries |-> FALSE]

---------------------------------------------------------------------------

ConnFree == conn = Nobody

ReadsStock(c) == question[c].tool \in {"availability", "ingredients"}

Goto(c, step) == pc' = [pc EXCEPT ![c] = step]

Return(c, a) ==
    /\ answer' = [answer EXCEPT ![c] = a]
    /\ Goto(c, "idle")
    /\ UNCHANGED <<stock, conn, question, locals, history>>

\* What other callers commit meanwhile, in this process or in another.
Adjust(i, q) ==
    /\ stock' = [stock EXCEPT ![i] = q]
    /\ moments' = [c \in Queries |->
          IF pc[c] = "idle" \/ ~ReadsStock(c) THEN moments[c] ELSE moments[c] \cup {stock'}]
    /\ UNCHANGED <<conn, pc, question, locals, answer, misread>>

\* servings <= 0 is refused before anything is read.
WellFormed(q) == q.tool = "availability" => q.servings > 0

Ask(c, q) ==
    /\ pc[c] = "idle"
    /\ question' = [question EXCEPT ![c] = q]
    /\ recipe' = [recipe EXCEPT ![c] = << >>]
    /\ reads' = [reads EXCEPT ![c] = << >>]
    /\ moments' = [moments EXCEPT ![c] = {stock}]
    /\ misread' = [misread EXCEPT ![c] = FALSE]
    /\ IF WellFormed(q)
       THEN /\ Goto(c, IF q.tool \in Searches THEN "recipe" ELSE "find")
            /\ answer' = [answer EXCEPT ![c] = Nothing("pending")]
       ELSE answer' = [answer EXCEPT ![c] = Nothing("invalid params")] /\ UNCHANGED pc
    /\ UNCHANGED <<stock, conn>>

Dish(c) == question[c].dish

\* What the rows of a query hold: the items of the recipe, or the identifiers
\* of what the text matches (SearchDishes, SearchIngredients).
Rows(c) ==
    IF question[c].tool \in Searches THEN Matches[question[c].tool][Dish(c)]
    ELSE RecipeOf[Dish(c)]

DishUnknown(c) ==
    /\ pc[c] = "find" /\ ConnFree
    /\ Dish(c) \notin Dishes \/ "dish" \in Faults
    /\ Return(c, Nothing("unknown dish"))

DishInactive(c) ==
    /\ pc[c] = "find" /\ ConnFree
    /\ question[c].tool = "availability" /\ Dish(c) \in Dishes \ Active
    /\ Return(c, Nothing("inactive"))

DishFound(c) ==
    /\ pc[c] = "find" /\ ConnFree
    /\ Dish(c) \in (IF question[c].tool = "availability" THEN Active ELSE Dishes)
    /\ Goto(c, "recipe")
    /\ UNCHANGED <<stock, conn, question, locals, answer, history>>

\* RecipeForDish looks the dish up again, then opens the rows; a search opens
\* them at once.
OpenRows(c) ==
    /\ pc[c] = "recipe" /\ ConnFree
    /\ conn' = c
    /\ Goto(c, "rows")
    /\ UNCHANGED <<stock, question, locals, answer, history>>

\* The handler ignores the second result: an error is an empty recipe, or a
\* search that finds nothing.
RecipeUnread(c) ==
    /\ pc[c] = "recipe" /\ ConnFree /\ "recipe" \in Faults
    /\ misread' = [misread EXCEPT ![c] = TRUE]
    /\ Goto(c, "items")
    /\ UNCHANGED <<stock, conn, question, locals, answer, moments>>

\* An error while stepping through the rows ends the loop like the last row.
RowsRead(r) ==
    IF "rows" \in Faults THEN {SubSeq(r, 1, n) : n \in 0 .. Len(r)} ELSE {r}

\* Mutant: the rows are read but not closed.
RowsLeftOpen(c) ==
    /\ pc[c] = "rows"
    /\ recipe' = [recipe EXCEPT ![c] = Rows(c)]
    /\ Goto(c, "items")
    /\ UNCHANGED <<stock, conn, question, reads, answer, history>>

\* Returns what was read; the deferred Close gives the connection back.
CloseRows(c) ==
    /\ pc[c] = "rows"
    /\ \E r \in RowsRead(Rows(c)) :
          /\ recipe' = [recipe EXCEPT ![c] = r]
          /\ misread' = [misread EXCEPT ![c] = r # Rows(c)]
    /\ conn' = Nobody
    /\ Goto(c, "items")
    /\ UNCHANGED <<stock, question, reads, answer, moments>>

---------------------------------------------------------------------------
(* The loop over the recipe. *)

\* search_dishes asks for nothing more.
InLoop(c) ==
    /\ pc[c] = "items" /\ question[c].tool # "dishes"
    /\ Len(reads[c]) < Len(recipe[c])

Item(c) == recipe[c][Len(reads[c]) + 1]

\* Mutant: some quantity the stock never had, a stale copy for instance.
QuantityStale(i) == Levels

QuantityRead(i) == {stock[i]}

\* The ingredient whose stock the loop asks for.
Asked(c) == IF question[c].tool = "ingredients" THEN Item(c) ELSE Item(c).ingredient

Readable(c) ==
    /\ InLoop(c) /\ ConnFree
    /\ \/ question[c].tool = "ingredients"
       \/ /\ question[c].tool = "availability"
          /\ Asked(c) \in Ingredients /\ Item(c).perServing > 0

ReadItem(c) ==
    /\ Readable(c)
    /\ \E q \in QuantityRead(Asked(c)) :
          reads' = [reads EXCEPT ![c] = Append(@, q)]
    /\ UNCHANGED <<stock, conn, pc, question, recipe, answer, history>>

\* InventoryQuantity is 0 for an ingredient whose row cannot be read.
QuantityUnread(c) ==
    /\ Readable(c) /\ "quantity" \in Faults
    /\ reads' = [reads EXCEPT ![c] = Append(@, 0)]
    /\ misread' = [misread EXCEPT ![c] = TRUE]
    /\ UNCHANGED <<stock, conn, pc, question, recipe, answer, moments>>

\* get_recipe_details only looks the ingredient up: there is no quantity.
DescribeItem(c) ==
    /\ InLoop(c) /\ ConnFree
    /\ question[c].tool = "details"
    /\ Item(c).ingredient \in Ingredients
    /\ reads' = [reads EXCEPT ![c] = Append(@, 0)]
    /\ UNCHANGED <<stock, conn, pc, question, recipe, answer, history>>

IngredientUnknown(c) ==
    /\ InLoop(c) /\ ConnFree /\ question[c].tool \notin Searches
    /\ Item(c).ingredient \notin Ingredients \/ "ingredient" \in Faults
    /\ Return(c, Nothing("internal error"))

\* A serving of nothing: the division would stop the server.
ServingCorrupt(c) ==
    /\ InLoop(c) /\ ConnFree
    /\ question[c].tool = "availability" /\ Item(c).perServing <= 0
    /\ Item(c).ingredient \in Ingredients
    /\ Return(c, Nothing("internal error"))

\* int64 multiplication.
Product(x, y) == ((x * y - MinInt) % (2 * (MaxInt + 1))) + MinInt

\* The smallest number of servings some stocks q of the recipe r allow, and
\* none for a recipe without ingredients.
Makeable(r, q) ==
    IF r = << >> THEN 0
    ELSE CHOOSE m \in {q[n] \div r[n].perServing : n \in DOMAIN r} :
            \A n \in DOMAIN r : m <= q[n] \div r[n].perServing

\* What is reported of the items of r that are short.
Shortages(r, q, servings, short) ==
    {[ingredient |-> r[n].ingredient,
      required   |-> Product(r[n].perServing, servings),
      available  |-> q[n]] : n \in short}

\* Mutant: an ingredient of which there is just enough is reported.
MissingOffByOne(r, q, servings) ==
    Shortages(r, q, servings,
              {n \in DOMAIN r : Product(r[n].perServing, servings) >= q[n]})

\* Mutant: the loop ends at the first ingredient that is short.
MissingFirst(r, q, servings) ==
    Shortages(r, q, servings,
              {n \in DOMAIN r :
                  /\ Product(r[n].perServing, servings) > q[n]
                  /\ \A m \in 1 .. n - 1 : Product(r[m].perServing, servings) <= q[m]})

Missing(r, q, servings) ==
    Shortages(r, q, servings,
              {n \in DOMAIN r : Product(r[n].perServing, servings) > q[n]})

\* Mutant: nothing missing is taken for enough.
NothingMissing(r, q, servings) == Missing(r, q, servings) = {}

Available(r, q, servings) ==
    Missing(r, q, servings) = {} /\ Makeable(r, q) >= servings

AnswerAvailability(c) ==
    LET servings == question[c].servings IN
    /\ pc[c] = "items" /\ ~InLoop(c) /\ question[c].tool = "availability"
    /\ Return(c, Answer("availability",
                        Available(recipe[c], reads[c], servings),
                        Makeable(recipe[c], reads[c]),
                        Missing(recipe[c], reads[c], servings), << >>))

AnswerDetails(c) ==
    /\ pc[c] = "items" /\ ~InLoop(c) /\ question[c].tool = "details"
    /\ Return(c, Answer("details", FALSE, 0, {}, recipe[c]))

\* Of an ingredient, search_ingredients shows the quantity too.
AnswerSearch(c) ==
    /\ pc[c] = "items" /\ ~InLoop(c) /\ question[c].tool \in Searches
    /\ Return(c, Answer(question[c].tool, FALSE, 0, {}, recipe[c]))

---------------------------------------------------------------------------

RepositoryCall(c) ==
    \/ DishUnknown(c) \/ DishInactive(c) \/ DishFound(c)
    \/ OpenRows(c) \/ RecipeUnread(c)
    \/ ReadItem(c) \/ QuantityUnread(c) \/ DescribeItem(c)
    \/ IngredientUnknown(c) \/ ServingCorrupt(c)

Local(c) == CloseRows(c) \/ AnswerAvailability(c) \/ AnswerDetails(c)
    \/ AnswerSearch(c)

Next ==
    \/ \E i \in Ingredients, q \in Levels : Adjust(i, q)
    \/ \E c \in Queries :
          \/ \E q \in Questions[c] : Ask(c, q)
          \/ RepositoryCall(c)
          \/ Local(c)

Spec == Init /\ [][Next]_vars

\* As in SqliteRepository: a freed connection goes to a waiter at random.
FairSpec ==
    /\ Spec
    /\ \A c \in Queries : SF_vars(RepositoryCall(c)) /\ WF_vars(Local(c))

---------------------------------------------------------------------------

\* The types, and that exactly the query that reads rows holds the
\* connection.
TypeOK ==
    /\ stock \in [Ingredients -> Levels]
    /\ conn \in Queries \cup {Nobody}
    /\ pc \in [Queries -> {"idle", "find", "recipe", "rows", "items"}]
    /\ \A c \in Queries :
          /\ question[c] \in Questions[c]
          /\ pc[c] = "rows" <=> conn = c
          /\ pc[c] # "idle" <=> answer[c].kind = "pending"
          /\ pc[c] \notin {"idle", "find"} =>
                Dish(c) \in Dishes \/ question[c].tool \in Searches
          /\ Len(reads[c]) <= Len(recipe[c])
          /\ \A n \in DOMAIN reads[c] : reads[c][n] \in Quantity
          /\ moments[c] \subseteq [Ingredients -> Levels]

AnsweredAvailability(c) == answer[c].kind = "availability"

Servings(c) == question[c].servings

\* What the servings asked for take of the n-th ingredient, on unbounded
\* integers.
Needed(c, n) == recipe[c][n].perServing * Servings(c)

\* A dish is offered exactly when it has a recipe and every ingredient read
\* covers the servings, even where int64 cannot hold what they take: the
\* comparison with maximumServings catches the products that wrapped around
\* (handleGetDishAvailability).
AvailableIsExact ==
    \A c \in Queries : AnsweredAvailability(c) =>
        (answer[c].available <=>
            /\ recipe[c] # << >>
            /\ \A n \in DOMAIN recipe[c] : Needed(c, n) <= reads[c][n])

\* What a stock q holds of each item of the recipe of d, and the servings it
\* allows.
StocksOf(d, q) == [n \in DOMAIN RecipeOf[d] |-> q[RecipeOf[d][n].ingredient]]
ServingsFrom(d, q) == Makeable(RecipeOf[d], StocksOf(d, q))

Seen(c, i) == {s[i] : s \in moments[c]}
Least(c) == [i \in Ingredients |-> CHOOSE q \in Seen(c, i) : \A p \in Seen(c, i) : q <= p]
Most(c) == [i \in Ingredients |-> CHOOSE q \in Seen(c, i) : \A p \in Seen(c, i) : q >= p]

\* Whatever is adjusted during the question, and though the recipe or a stock
\* cannot be read, no dish is promised more often than the best stock there
\* was of each ingredient of its recipe allows.
NeverOverPromised ==
    \A c \in Queries : AnsweredAvailability(c) /\ answer[c].maximum > 0 =>
        answer[c].maximum <= ServingsFrom(Dish(c), Most(c))

\* Nor less often than the worst stock of each ingredient allows, when
\* everything is read.
NeverUnderSold ==
    \A c \in Queries : AnsweredAvailability(c) /\ ~misread[c] =>
        ServingsFrom(Dish(c), Least(c)) <= answer[c].maximum

\* "How many servings can be prepared right now": a single adjustment cannot
\* tear the answer, though the stocks are read one by one.  As long as the
\* stock has only two values during the call, maximumServings is what one of
\* them allows.  (Two adjustments can tear it: it may then lie between.)
OneChangeIsNotTorn ==
    \A c \in Queries :
        AnsweredAvailability(c) /\ ~misread[c] /\ Cardinality(moments[c]) <= 2 =>
        \E s \in moments[c] : answer[c].maximum = ServingsFrom(Dish(c), s)

\* A dish that is not offered comes with the ingredient that limits it: "not
\* a bare number, but which ingredient limits production".  When what the
\* servings take does not fit int64, the ingredient can be left out.
NamesBottleneck ==
    \A c \in Queries :
        /\ AnsweredAvailability(c) /\ ~answer[c].available /\ recipe[c] # << >>
        /\ \A n \in DOMAIN recipe[c] : Needed(c, n) <= MaxInt
        => \E m \in answer[c].missing, n \in DOMAIN recipe[c] :
                /\ m.ingredient = recipe[c][n].ingredient
                /\ reads[c][n] \div recipe[c][n].perServing = answer[c].maximum

\* No shortage is made up, not even by a product that wraps around: an
\* ingredient reported missing had, in some moment, the stock the answer
\* shows, and that is less than the servings take.
ShortagesAreReal ==
    \A c \in Queries : ~misread[c] => \A m \in answer[c].missing :
        \E n \in DOMAIN RecipeOf[Dish(c)] :
            LET item == RecipeOf[Dish(c)][n] IN
            /\ m.ingredient = item.ingredient
            /\ m.available \in Seen(c, item.ingredient)
            /\ m.available < item.perServing * Servings(c)

\* get_recipe_details is the "only valid source of allergen information": it
\* lists every ingredient of the dish.
EveryIngredientListed ==
    \A c \in Queries :
        answer[c].kind = "details" => answer[c].listed = RecipeOf[Dish(c)]

\* search_ingredients "returns the current stock" of all that matches: though
\* stocks change between the first row and the last answer, every quantity it
\* shows is one that very ingredient had during the call, and none that
\* matches is missing or shown twice.
SearchIsTrue ==
    \A c \in Queries : answer[c].kind = "ingredients" /\ ~misread[c] =>
        /\ answer[c].listed = Matches["ingredients"][Dish(c)]
        /\ Len(reads[c]) = Len(answer[c].listed)
        /\ \A n \in DOMAIN reads[c] : reads[c][n] \in Seen(c, answer[c].listed[n])

\* Every question is answered: no query waits for the connection for ever,
\* neither for its own rows nor for another query.
EveryQuestionAnswered ==
    \A c \in Queries : pc[c] \in {"find", "recipe"} ~> pc[c] = "idle"
===========================================================================
