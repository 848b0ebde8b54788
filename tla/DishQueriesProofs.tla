------------------------- MODULE DishQueriesProofs -------------------------
(***************************************************************************)
(* Proofs about DishQueries: whatever is adjusted while a question is      *)
(* answered, for any recipes, stocks, servings and number of callers, what *)
(* an answer says of the stock is true of the time of the question.        *)
(*                                                                         *)
(* The invariant follows one query at a time: the other queries only wait  *)
(* for the connection, and adjustments only add to the stocks there have   *)
(* been.                                                                   *)
(***************************************************************************)
EXTENDS DishQueries, FiniteSetTheorems, SequenceTheorems, TLAPS

---------------------------------------------------------------------------
(* Arithmetic.                                                             *)

\* A set of numbers has a least one.
LEMMA LeastExists ==
    ASSUME NEW S \in SUBSET Nat, S # {}
    PROVE  \E m \in S : \A n \in S : m <= n
<1> DEFINE R == OpToRel(<, Nat)
<1>1. IsWellFoundedOn(R, Nat)
  BY NatLessThanWellFounded
<1>2. \A x, y \in Nat : x < y => <<x, y>> \in R
  BY DEF OpToRel
<1> HIDE DEF R
<1>3. PICK m \in S : \A n \in S : ~(<<n, m>> \in R)
  BY <1>1, WFMin
<1>4. \A n \in S : ~(n < m)
  BY <1>2, <1>3
<1> QED
  BY <1>4

\* A set of quantities has a greatest one.
LEMMA GreatestExists ==
    ASSUME NEW S \in SUBSET Quantity, S # {}
    PROVE  \E m \in S : \A n \in S : n <= m
<1> DEFINE T == {MaxInt - q : q \in S}
<1>1. \A q \in S : q \in Int /\ MaxInt - q \in Nat
  BY MaxIntAssumption DEF Quantity
<1>2. T \in SUBSET Nat /\ T # {}
  BY <1>1
<1>3. PICK t \in T : \A u \in T : t <= u
  BY <1>2, LeastExists
<1>4. PICK m \in S : t = MaxInt - m
  BY <1>3
<1>5. \A n \in S : MaxInt - m <= MaxInt - n
  BY <1>3, <1>4
<1> QED
  BY <1>1, <1>5, MaxIntAssumption

\* The servings that q allows, and those it does not.
LEMMA Division ==
    ASSUME NEW q \in Nat, NEW p \in Nat \ {0}
    PROVE  /\ q \div p \in Nat
           /\ \A s \in Nat : s <= q \div p <=> p * s <= q
<1>1. PICK d : d = q \div p
  OBVIOUS
<1>2. d \in Nat /\ p * d <= q /\ q < p * (d + 1)
  BY <1>1
<1>3. ASSUME NEW s \in Nat PROVE s <= d <=> p * s <= q
  <2>1. CASE s <= d
    <3>1. p * s <= p * d
      BY ONLY <1>2, <2>1, s \in Nat, p \in Nat \ {0}
    <3>2. p * s \in Int /\ p * d \in Int
      BY <1>2
    <3> QED
      BY <1>2, <2>1, <3>1, <3>2
  <2>2. CASE d + 1 <= s
    <3>1. p * (d + 1) <= p * s
      BY ONLY <1>2, <2>2, s \in Nat, p \in Nat \ {0}
    <3>2. p * s \in Int /\ p * (d + 1) \in Int
      BY <1>2
    <3> QED
      BY <1>2, <2>2, <3>1, <3>2
  <2> QED
    BY <1>2, <2>1, <2>2
<1> QED
  BY <1>1, <1>2, <1>3

\* More stock allows at least as many servings.
LEMMA MoreServesMore ==
    ASSUME NEW p \in Nat \ {0}, NEW x \in Nat, NEW y \in Nat, x <= y
    PROVE  x \div p <= y \div p
<1>1. x \div p \in Nat /\ y \div p \in Nat /\ p * (x \div p) <= x
  BY Division
<1>2. p * (x \div p) \in Int
  BY <1>1
<1>3. p * (x \div p) <= y
  BY <1>1, <1>2
<1> QED
  BY <1>1, <1>3, Division

LEMMA NoWrap ==
    ASSUME NEW x \in Int, NEW y \in Int, x * y \in 0 .. MaxInt
    PROVE  Product(x, y) = x * y
<1>1. PICK z : z = x * y
  OBVIOUS
<1>2. MaxInt \in Nat /\ z \in 0 .. MaxInt
  BY <1>1, MaxIntAssumption
<1>3. (z - MinInt) % (2 * (MaxInt + 1)) = z - MinInt
  BY <1>2 DEF MinInt
<1> QED
  BY <1>1, <1>2, <1>3 DEF Product, MinInt

---------------------------------------------------------------------------
(* What an answer says of the recipe and the stocks it was made from.      *)

IsSeq(r) == \E S : r \in Seq(S)

LEMMA SeqFacts ==
    ASSUME NEW r, IsSeq(r)
    PROVE  Len(r) \in Nat /\ DOMAIN r = 1 .. Len(r) /\ (r # << >> => 1 \in DOMAIN r)
<1>1. PICK S : r \in Seq(S)
  BY DEF IsSeq
<1>2. Len(r) \in Nat /\ DOMAIN r = 1 .. Len(r)
  BY <1>1, LenProperties
<1>3. r # << >> => Len(r) # 0
  BY <1>1, EmptySeq
<1> QED
  BY <1>2, <1>3

\* r is a recipe of real ingredients, of each of which q holds a quantity.
Servable(r, q) ==
    /\ IsSeq(r)
    /\ \A n \in 1 .. Len(r) : q[n] \in Quantity /\ r[n].perServing \in 1 .. MaxInt

LEMMA EachServing ==
    ASSUME NEW r, NEW q, Servable(r, q), NEW n \in 1 .. Len(r)
    PROVE  /\ q[n] \in Nat /\ q[n] <= MaxInt /\ r[n].perServing \in Nat \ {0}
           /\ q[n] \div r[n].perServing \in Nat
           /\ \A s \in Nat : s <= q[n] \div r[n].perServing <=> r[n].perServing * s <= q[n]
<1>1. q[n] \in Nat /\ q[n] <= MaxInt /\ r[n].perServing \in Nat \ {0}
  BY MaxIntAssumption DEF Servable, Quantity
<1> QED
  BY <1>1, Division

LEMMA MakeableIsLeast ==
    ASSUME NEW r, NEW q, Servable(r, q), r # << >>
    PROVE  /\ \E n \in 1 .. Len(r) : Makeable(r, q) = q[n] \div r[n].perServing
           /\ \A n \in 1 .. Len(r) : Makeable(r, q) <= q[n] \div r[n].perServing
           /\ Makeable(r, q) \in Nat
<1> DEFINE S == {q[n] \div r[n].perServing : n \in DOMAIN r}
<1>1. DOMAIN r = 1 .. Len(r) /\ 1 \in DOMAIN r
  BY SeqFacts DEF Servable
<1>2. S \in SUBSET Nat
  <2>1. ASSUME NEW n \in DOMAIN r PROVE q[n] \div r[n].perServing \in Nat
    BY <1>1, EachServing
  <2> QED
    BY <2>1
<1>3. S # {}
  BY <1>1
<1>4. PICK m \in S : \A n \in DOMAIN r : m <= q[n] \div r[n].perServing
  <2>1. PICK m \in S : \A n \in S : m <= n
    BY <1>2, <1>3, LeastExists
  <2>2. \A n \in DOMAIN r : q[n] \div r[n].perServing \in S
    OBVIOUS
  <2> QED
    BY <2>1, <2>2
<1>5. Makeable(r, q) = CHOOSE k \in S : \A n \in DOMAIN r : k <= q[n] \div r[n].perServing
  BY DEF Makeable
<1>6. Makeable(r, q) \in S /\ \A n \in DOMAIN r : Makeable(r, q) <= q[n] \div r[n].perServing
  BY <1>4, <1>5
<1> QED
  BY <1>1, <1>2, <1>6

\* With more of everything at least as many servings can be made.
LEMMA MakeableGrows ==
    ASSUME NEW r, NEW q, NEW x, Servable(r, q), Servable(r, x),
           \A n \in 1 .. Len(r) : q[n] <= x[n]
    PROVE  Makeable(r, q) <= Makeable(r, x) /\ Makeable(r, q) \in Nat /\ Makeable(r, x) \in Nat
<1>1. CASE r = << >>
  BY <1>1 DEF Makeable
<1>2. CASE r # << >>
  <2>1. PICK n \in 1 .. Len(r) : Makeable(r, x) = x[n] \div r[n].perServing
    BY <1>2, MakeableIsLeast
  <2>2. Makeable(r, q) <= q[n] \div r[n].perServing
    BY <1>2, MakeableIsLeast
  <2>3. q[n] \div r[n].perServing <= x[n] \div r[n].perServing
    BY EachServing, MoreServesMore
  <2>4. /\ q[n] \div r[n].perServing \in Nat /\ x[n] \div r[n].perServing \in Nat
        /\ Makeable(r, q) \in Nat /\ Makeable(r, x) \in Nat
    BY <1>2, EachServing, MakeableIsLeast
  <2> QED
    BY ONLY <2>1, <2>2, <2>3, <2>4
<1> QED
  BY <1>1, <1>2

LEMMA MakeableSame ==
    ASSUME NEW r, NEW q, NEW x, Servable(r, q), Servable(r, x),
           \A n \in 1 .. Len(r) : q[n] = x[n]
    PROVE  Makeable(r, q) = Makeable(r, x)
<1>1. \A n \in 1 .. Len(r) : q[n] <= x[n] /\ x[n] <= q[n]
  BY EachServing
<1>2. Makeable(r, q) <= Makeable(r, x) /\ Makeable(r, x) <= Makeable(r, q)
  BY <1>1, MakeableGrows
<1>3. Makeable(r, q) \in Nat /\ Makeable(r, x) \in Nat
  BY <1>1, MakeableGrows
<1> QED
  BY <1>2, <1>3

\* A product that int64 cannot hold is more than any stock; one that it can
\* hold is exact.
LEMMA RequiredIsExact ==
    ASSUME NEW p \in 1 .. MaxInt, NEW s \in 1 .. MaxInt, NEW x \in Quantity
    PROVE  /\ p * s \in Nat
           /\ Product(p, s) > x => p * s > x
           /\ p * s <= MaxInt => Product(p, s) = p * s
<1>1. MaxInt \in Nat /\ p \in Nat /\ s \in Nat /\ x \in Nat /\ x <= MaxInt
  BY MaxIntAssumption DEF Quantity
<1>2. p * s \in Nat
  BY <1>1
<1>3. p * s <= MaxInt => Product(p, s) = p * s
  <2>1. p * s <= MaxInt => p * s \in 0 .. MaxInt
    BY <1>1, <1>2
  <2> QED
    BY <1>1, <2>1, NoWrap
<1> QED
  BY <1>1, <1>2, <1>3

LEMMA ShortageIsReal ==
    ASSUME NEW r, NEW q, Servable(r, q), NEW s \in 1 .. MaxInt, NEW m \in Missing(r, q, s)
    PROVE  \E n \in 1 .. Len(r) :
              /\ m.ingredient = r[n].ingredient /\ m.available = q[n]
              /\ q[n] < r[n].perServing * s
<1>1. PICK n \in DOMAIN r :
         /\ Product(r[n].perServing, s) > q[n]
         /\ m = [ingredient |-> r[n].ingredient,
                 required   |-> Product(r[n].perServing, s),
                 available  |-> q[n]]
  BY DEF Missing, Shortages
<1>2. n \in 1 .. Len(r)
  BY SeqFacts DEF Servable
<1>3. r[n].perServing \in 1 .. MaxInt /\ q[n] \in Quantity /\ q[n] \in Nat
  BY <1>2, EachServing DEF Servable
<1>4. r[n].perServing * s > q[n] /\ r[n].perServing * s \in Nat
  BY <1>1, <1>3, RequiredIsExact
<1>5. q[n] < r[n].perServing * s
  BY ONLY <1>3, <1>4
<1> QED
  BY <1>1, <1>2, <1>5

LEMMA ShortageIsReported ==
    ASSUME NEW r, NEW q, Servable(r, q), NEW s \in 1 .. MaxInt, NEW n \in 1 .. Len(r),
           r[n].perServing * s <= MaxInt, q[n] < r[n].perServing * s
    PROVE  \E m \in Missing(r, q, s) : m.ingredient = r[n].ingredient
<1>1. r[n].perServing \in 1 .. MaxInt /\ q[n] \in Quantity /\ q[n] \in Nat
  BY EachServing DEF Servable
<1>2. Product(r[n].perServing, s) = r[n].perServing * s /\ r[n].perServing * s \in Nat
  BY <1>1, RequiredIsExact
<1>3. Product(r[n].perServing, s) > q[n] /\ n \in DOMAIN r
  <2>1. n \in DOMAIN r
    BY SeqFacts DEF Servable
  <2> QED
    BY <1>1, <1>2, <2>1
<1>4. [ingredient |-> r[n].ingredient,
       required   |-> Product(r[n].perServing, s),
       available  |-> q[n]] \in Missing(r, q, s)
  BY <1>3 DEF Missing, Shortages
<1> QED
  BY <1>4

\* maximumServings is at least s exactly when every stock covers s servings.
LEMMA MakeableIsExact ==
    ASSUME NEW r, NEW q, Servable(r, q), NEW s \in 1 .. MaxInt, r # << >>
    PROVE  s <= Makeable(r, q) <=> \A n \in 1 .. Len(r) : r[n].perServing * s <= q[n]
<1>1. s \in Nat /\ Makeable(r, q) \in Nat
  BY MaxIntAssumption, MakeableIsLeast
<1>2. ASSUME s <= Makeable(r, q), NEW n \in 1 .. Len(r) PROVE r[n].perServing * s <= q[n]
  <2>1. Makeable(r, q) <= q[n] \div r[n].perServing /\ q[n] \div r[n].perServing \in Nat
    BY MakeableIsLeast, EachServing
  <2>2. s <= q[n] \div r[n].perServing
    BY <1>1, <1>2, <2>1
  <2> QED
    BY <1>1, <2>2, EachServing
<1>3. ASSUME \A n \in 1 .. Len(r) : r[n].perServing * s <= q[n] PROVE s <= Makeable(r, q)
  <2>1. PICK n \in 1 .. Len(r) : Makeable(r, q) = q[n] \div r[n].perServing
    BY MakeableIsLeast
  <2> QED
    BY <1>1, <1>3, <2>1, EachServing
<1> QED
  BY <1>2, <1>3

LEMMA OfferIsExact ==
    ASSUME NEW r, NEW q, Servable(r, q), NEW s \in 1 .. MaxInt
    PROVE  Available(r, q, s) <=>
              r # << >> /\ \A n \in 1 .. Len(r) : r[n].perServing * s <= q[n]
<1>1. CASE r = << >>
  <2>1. Makeable(r, q) = 0 /\ ~(0 >= s)
    BY <1>1, MaxIntAssumption DEF Makeable
  <2> QED
    BY <1>1, <2>1 DEF Available
<1>2. CASE r # << >>
  <2>1. ASSUME NEW m \in Missing(r, q, s)
        PROVE  \E n \in 1 .. Len(r) : ~(r[n].perServing * s <= q[n])
    <3>1. PICK n \in 1 .. Len(r) : q[n] < r[n].perServing * s
      BY ShortageIsReal
    <3>2. r[n].perServing \in Nat /\ q[n] \in Nat /\ s \in Nat
      BY EachServing, MaxIntAssumption
    <3>3. r[n].perServing * s \in Nat
      BY <3>2
    <3> QED
      BY <3>1, <3>2, <3>3
  <2>2. Makeable(r, q) >= s <=> \A n \in 1 .. Len(r) : r[n].perServing * s <= q[n]
    <3>1. Makeable(r, q) \in Nat /\ s \in Nat
      BY <1>2, MaxIntAssumption, MakeableIsLeast
    <3> QED
      BY <1>2, <3>1, MakeableIsExact
  <2> QED
    BY <1>2, <2>1, <2>2 DEF Available
<1> QED
  BY <1>1, <1>2

\* When the products fit, the ingredient that limits a dish that cannot be
\* offered is among those reported.
LEMMA BottleneckIsReported ==
    ASSUME NEW r, NEW q, Servable(r, q), NEW s \in 1 .. MaxInt, r # << >>,
           ~Available(r, q, s), \A n \in 1 .. Len(r) : r[n].perServing * s <= MaxInt
    PROVE  \E m \in Missing(r, q, s), n \in 1 .. Len(r) :
              m.ingredient = r[n].ingredient /\ q[n] \div r[n].perServing = Makeable(r, q)
<1>1. PICK n \in 1 .. Len(r) : Makeable(r, q) = q[n] \div r[n].perServing
  BY MakeableIsLeast
<1>2. ~(s <= Makeable(r, q))
  BY OfferIsExact, MakeableIsExact
<1>3. ~(r[n].perServing * s <= q[n])
  BY <1>1, <1>2, EachServing, MaxIntAssumption
<1>4. q[n] < r[n].perServing * s
  <2>1. r[n].perServing \in Nat /\ q[n] \in Nat /\ s \in Nat
    BY EachServing, MaxIntAssumption
  <2>2. r[n].perServing * s \in Nat
    BY <2>1
  <2> QED
    BY <1>3, <2>1, <2>2
<1>5. PICK m \in Missing(r, q, s) : m.ingredient = r[n].ingredient
  BY <1>4, ShortageIsReported
<1> QED
  BY <1>1, <1>5

---------------------------------------------------------------------------
(* The invariant.                                                          *)

Stocks == [Ingredients -> Levels]

Types ==
    /\ stock \in Stocks
    /\ conn \in Queries \cup {Nobody}
    /\ pc \in [Queries -> {"idle", "find", "recipe", "rows", "items"}]
    /\ question = [c \in Queries |-> question[c]]
    /\ recipe = [c \in Queries |-> recipe[c]]
    /\ reads \in [Queries -> Seq(Quantity)]
    /\ answer = [c \in Queries |-> answer[c]]
    /\ moments \in [Queries -> SUBSET Stocks]
    /\ misread \in [Queries -> BOOLEAN]

InCatalogue(c) == Dish(c) \in Dishes \/ question[c].tool \in Searches

\* Where the query is, and what it has by then.
Progress(c) ==
    /\ question[c] \in Questions[c]
    /\ pc[c] = "rows" <=> conn = c
    /\ pc[c] # "idle" <=> answer[c].kind = "pending"
    /\ pc[c] # "idle" => WellFormed(question[c])
    /\ IsSeq(recipe[c]) /\ Len(reads[c]) <= Len(recipe[c])
    /\ pc[c] \in {"find", "recipe", "rows"} => recipe[c] = << >> /\ ~misread[c]
    /\ pc[c] \in {"recipe", "rows", "items"} => InCatalogue(c)

\* Two stocks that one adjustment leads between.
OneApart(s, t) == \E i \in Ingredients : \A j \in Ingredients : j # i => s[j] = t[j]

\* The stocks there have been since the question.
Witnessed(c) ==
    /\ answer[c].kind # "none" => moments[c] # {}
    /\ pc[c] # "idle" /\ ReadsStock(c) => stock \in moments[c]
    /\ IsFiniteSet(moments[c])
    /\ \A s, t \in moments[c] : s # t /\ moments[c] = {s, t} => OneApart(s, t)

\* What is kept of the n-th item once it is handled.
ReadWell(c, n) ==
    /\ question[c].tool = "availability" =>
          /\ recipe[c][n].ingredient \in Ingredients /\ recipe[c][n].perServing > 0
          /\ \/ reads[c][n] \in Seen(c, recipe[c][n].ingredient)
             \/ misread[c] /\ reads[c][n] = 0
    /\ question[c].tool = "ingredients" =>
          misread[c] \/ reads[c][n] \in Seen(c, recipe[c][n])

\* The recipe is the beginning of the rows, all of them unless an error has
\* been taken for their end.
Listed(c) ==
    /\ Len(recipe[c]) <= Len(Rows(c))
    /\ \A n \in 1 .. Len(recipe[c]) : recipe[c][n] = Rows(c)[n]
    /\ "rows" \in Faults \/ recipe[c] = << >> \/ recipe[c] = Rows(c)
    /\ misread[c] \/ recipe[c] = Rows(c)

Handled(c) == Listed(c) /\ \A n \in 1 .. Len(reads[c]) : ReadWell(c, n)

\* An answer is made from what the query holds when it returns.
Answered(c) ==
    /\ question[c].tool = answer[c].kind
    /\ WellFormed(question[c]) /\ InCatalogue(c) /\ Handled(c)
    /\ answer[c].kind \in {"availability", "ingredients"} => Len(reads[c]) = Len(recipe[c])
    /\ answer[c].kind = "availability" =>
          /\ answer[c].available = Available(recipe[c], reads[c], Servings(c))
          /\ answer[c].maximum = Makeable(recipe[c], reads[c])
          /\ answer[c].missing = Missing(recipe[c], reads[c], Servings(c))
    /\ answer[c].kind \in Searches => answer[c].listed = recipe[c]

QueryInv(c) ==
    /\ Progress(c)
    /\ Witnessed(c)
    /\ pc[c] = "items" => Handled(c)
    /\ answer[c].kind \in {"availability", "details"} \cup Searches => Answered(c)
    /\ answer[c].kind # "availability" => answer[c].missing = {}

DInv == Types /\ \A c \in Queries : QueryInv(c)

LEMMA Initially == Init => DInv
<1> SUFFICES ASSUME Init PROVE DInv
  OBVIOUS
<1>1. Types
  BY EmptySeq DEF Init, Types, Stocks
<1>2. ASSUME NEW c \in Queries PROVE QueryInv(c)
  <2>1. question[c] \in Questions[c]
    BY QuestionsAssumption DEF Init
  <2>2. IsSeq(recipe[c]) /\ Len(recipe[c]) = 0 /\ Len(reads[c]) = 0
    BY EmptySeq DEF Init, IsSeq
  <2>3. pc[c] = "idle" /\ conn # c /\ answer[c] = Nothing("none")
    BY QuestionsAssumption DEF Init
  <2>4. moments[c] = {} /\ IsFiniteSet(moments[c])
    BY FS_EmptySet DEF Init
  <2>5. Progress(c)
    BY <2>1, <2>2, <2>3 DEF Progress, Nothing, Answer
  <2>6. Witnessed(c)
    BY <2>3, <2>4 DEF Witnessed, Nothing, Answer
  <2> QED
    BY <2>3, <2>5, <2>6 DEF QueryInv, Nothing, Answer, Searches
<1> QED
  BY <1>1, <1>2 DEF DInv

\* The rows of a question the catalogue can answer are a sequence.
LEMMA RowsAreSeq ==
    ASSUME NEW c \in Queries, question[c] \in Questions[c], InCatalogue(c)
    PROVE  /\ IsSeq(Rows(c))
           /\ question[c].tool = "availability" =>
                 \A n \in 1 .. Len(Rows(c)) : Rows(c)[n].perServing \in Int64
           /\ question[c].tool = "ingredients" =>
                 \A n \in 1 .. Len(Rows(c)) : Rows(c)[n] \in Ingredients
<1>1. CASE question[c].tool \in Searches
  <2>1. Dish(c) \in DOMAIN Matches[question[c].tool]
    BY <1>1, QuestionsAssumption DEF Dish
  <2>2. CASE question[c].tool = "dishes"
    <3>1. Rows(c) \in Seq(Dishes)
      BY <2>1, <2>2, MatchesAssumption DEF Rows, Searches
    <3> QED
      BY <2>2, <3>1 DEF IsSeq
  <2>3. CASE question[c].tool = "ingredients"
    <3>1. Rows(c) \in Seq(Ingredients)
      BY <2>1, <2>3, MatchesAssumption DEF Rows, Searches
    <3> QED
      BY <2>3, <3>1, ElementOfSeq DEF IsSeq
  <2> QED
    BY <1>1, <2>2, <2>3 DEF Searches
<1>2. CASE question[c].tool \notin Searches
  <2>1. Dish(c) \in Dishes /\ Rows(c) = RecipeOf[Dish(c)]
    BY <1>2 DEF InCatalogue, Rows
  <2>2. Rows(c) \in Seq(ItemsOf(Dish(c))) /\ \A item \in ItemsOf(Dish(c)) : item.perServing \in Int64
    BY <2>1, MenuAssumption
  <2> QED
    BY <1>2, <2>2, ElementOfSeq DEF IsSeq, Searches
<1> QED
  BY <1>1, <1>2

\* A step of one query leaves the others as they are.
LEMMA OthersKept ==
    ASSUME NEW c \in Queries, QueryInv(c),
           pc'[c] = pc[c], question'[c] = question[c], recipe'[c] = recipe[c],
           reads'[c] = reads[c], answer'[c] = answer[c], moments'[c] = moments[c],
           misread'[c] = misread[c], stock' = stock, conn' = c <=> conn = c
    PROVE  QueryInv(c)'
<1>1. Progress(c)'
  BY DEF QueryInv, Progress, InCatalogue, Dish
<1>2. Witnessed(c)'
  BY DEF QueryInv, Witnessed, ReadsStock
<1>3. Handled(c) => Handled(c)'
  BY DEF Handled, Listed, ReadWell, Seen, Rows, Dish
<1>4. Answered(c) => Answered(c)'
  BY <1>3 DEF Answered, InCatalogue, Dish, Servings
<1> QED
  BY <1>1, <1>2, <1>3, <1>4 DEF QueryInv

\* So a step of c need only be followed in c.
LEMMA StepOf ==
    ASSUME NEW c \in Queries, DInv, Types', QueryInv(c)', stock' = stock,
           \A d \in Queries \ {c} :
              /\ pc'[d] = pc[d] /\ question'[d] = question[d] /\ recipe'[d] = recipe[d]
              /\ reads'[d] = reads[d] /\ answer'[d] = answer[d]
              /\ moments'[d] = moments[d] /\ misread'[d] = misread[d]
              /\ conn' = d <=> conn = d
    PROVE  DInv'
<1>1. ASSUME NEW d \in Queries \ {c} PROVE QueryInv(d)'
  BY OthersKept DEF DInv
<1> QED
  BY <1>1 DEF DInv

LEMMA AskKept ==
    ASSUME DInv, NEW c \in Queries, NEW q \in Questions[c], Ask(c, q)
    PROVE  DInv'
<1>1. Types'
  BY EmptySeq DEF Ask, Goto, DInv, Types
<1>2. /\ question'[c] = q /\ recipe'[c] = << >> /\ reads'[c] = << >>
      /\ moments'[c] = {stock} /\ ~misread'[c] /\ stock' = stock /\ conn' = conn
  BY DEF Ask, DInv, Types
<1>3. /\ pc'[c] = (IF ~WellFormed(q) THEN "idle" ELSE IF q.tool \in Searches THEN "recipe" ELSE "find")
      /\ pc[c] = "idle"
  BY DEF Ask, DInv, Types, Goto
<1>4. /\ answer'[c].kind = (IF WellFormed(q) THEN "pending" ELSE "invalid params")
      /\ answer'[c].missing = {}
  <2>1. CASE WellFormed(q)
    BY <2>1 DEF Ask, DInv, Types, Nothing, Answer
  <2>2. CASE ~WellFormed(q)
    <3>1. answer' = [answer EXCEPT ![c] = Nothing("invalid params")]
      BY <2>2 DEF Ask
    <3> QED
      BY <2>2, <3>1 DEF DInv, Types, Nothing, Answer
  <2> QED
    BY <2>1, <2>2
<1>5. conn # c
  BY <1>3 DEF DInv, QueryInv, Progress
<1>6. Progress(c)'
  <2>1. IsSeq(recipe[c])' /\ (Len(reads[c]) <= Len(recipe[c]))'
    BY <1>2, EmptySeq DEF IsSeq
  <2> QED
    BY <1>2, <1>3, <1>4, <1>5, <2>1 DEF Progress, InCatalogue, Dish
<1>7. Witnessed(c)'
  BY <1>2, FS_Singleton DEF Witnessed
<1>8. QueryInv(c)'
  BY <1>3, <1>4, <1>6, <1>7 DEF QueryInv, Searches
<1> QED
  BY <1>1, <1>2, <1>5, <1>8, StepOf DEF Ask, DInv, Types, Goto

\* The answers that say nothing of a stock.
LEMMA NothingKept ==
    ASSUME DInv, NEW c \in Queries, pc[c] \notin {"idle", "rows"},
           NEW k \in {"unknown dish", "inactive", "internal error"}, Return(c, Nothing(k))
    PROVE  DInv'
<1>1. Types'
  BY DEF Return, Goto, DInv, Types, locals, history
<1>2. /\ question' = question /\ recipe' = recipe /\ reads' = reads /\ stock' = stock
      /\ conn' = conn /\ moments' = moments /\ misread' = misread
  BY DEF Return, locals, history
<1>3. pc'[c] = "idle" /\ answer'[c].kind = k /\ answer'[c].missing = {}
  BY DEF Return, Goto, DInv, Types, Nothing, Answer
<1>4. Progress(c)'
  BY <1>2, <1>3 DEF Progress, DInv, QueryInv
<1>5. Witnessed(c)'
  BY <1>2, <1>3 DEF Witnessed, DInv, QueryInv, Progress
<1>6. QueryInv(c)'
  BY <1>3, <1>4, <1>5 DEF QueryInv, Searches
<1> QED
  BY <1>1, <1>2, <1>6, StepOf DEF Return, Goto, DInv, Types

LEMMA DishFoundKept ==
    ASSUME DInv, NEW c \in Queries, DishFound(c)
    PROVE  DInv'
<1>1. Types'
  BY DEF DishFound, Goto, DInv, Types, locals, history
<1>2. /\ question' = question /\ recipe' = recipe /\ reads' = reads /\ stock' = stock
      /\ conn' = conn /\ moments' = moments /\ misread' = misread /\ answer' = answer
  BY DEF DishFound, locals, history
<1>3. pc[c] = "find" /\ pc'[c] = "recipe" /\ Dish(c) \in Dishes
  BY MenuAssumption DEF DishFound, Goto, DInv, Types
<1>4. Progress(c)'
  BY <1>2, <1>3 DEF Progress, DInv, QueryInv, InCatalogue, Dish
<1>5. Witnessed(c)'
  BY <1>2, <1>3 DEF Witnessed, DInv, QueryInv, ReadsStock
<1>6. QueryInv(c)'
  BY <1>2, <1>3, <1>4, <1>5 DEF QueryInv, DInv, Progress, Searches
<1> QED
  BY <1>1, <1>2, <1>6, StepOf DEF DishFound, Goto, DInv, Types

LEMMA OpenRowsKept ==
    ASSUME DInv, NEW c \in Queries, OpenRows(c)
    PROVE  DInv'
<1>1. Types'
  BY DEF OpenRows, Goto, DInv, Types, locals, history
<1>2. /\ question' = question /\ recipe' = recipe /\ reads' = reads /\ stock' = stock
      /\ moments' = moments /\ misread' = misread /\ answer' = answer
  BY DEF OpenRows, locals, history
<1>3. pc[c] = "recipe" /\ pc'[c] = "rows" /\ conn = Nobody /\ conn' = c
  BY DEF OpenRows, Goto, DInv, Types, ConnFree
<1>4. Progress(c)'
  BY <1>2, <1>3 DEF Progress, DInv, QueryInv, InCatalogue, Dish
<1>5. Witnessed(c)'
  BY <1>2, <1>3 DEF Witnessed, DInv, QueryInv, ReadsStock
<1>6. QueryInv(c)'
  BY <1>2, <1>3, <1>4, <1>5 DEF QueryInv, DInv, Progress, Searches
<1>7. \A d \in Queries \ {c} : conn' # d /\ conn # d
  BY <1>3, QuestionsAssumption
<1> QED
  BY <1>1, <1>2, <1>6, <1>7, StepOf DEF OpenRows, Goto, DInv, Types

\* A recipe r that was read, and whether that was taken for more than it is.
LEMMA RecipeReadKept ==
    ASSUME DInv, NEW c \in Queries, pc[c] \in {"recipe", "rows"}, NEW r, IsSeq(r),
           NEW b \in BOOLEAN,
           pc' = [pc EXCEPT ![c] = "items"], recipe' = [recipe EXCEPT ![c] = r],
           misread' = [misread EXCEPT ![c] = b], conn' = Nobody, conn \in {c, Nobody},
           UNCHANGED <<stock, question, reads, answer, moments>>,
           Len(r) <= Len(Rows(c)), \A n \in 1 .. Len(r) : r[n] = Rows(c)[n],
           "rows" \in Faults \/ r = << >> \/ r = Rows(c), b \/ r = Rows(c)
    PROVE  DInv'
<1>1. Types'
  BY DEF DInv, Types
<1>2. pc'[c] = "items" /\ recipe'[c] = r /\ misread'[c] = b
  BY DEF DInv, Types
<1>3. Len(reads[c]) = 0
  <2>1. recipe[c] = << >> /\ Len(reads[c]) <= Len(recipe[c]) /\ reads[c] \in Seq(Quantity)
    BY DEF DInv, QueryInv, Progress, Types
  <2> QED
    BY <2>1, EmptySeq, LenProperties
<1>4. Len(r) \in Nat
  BY SeqFacts
<1>5. Progress(c)'
  BY <1>2, <1>3, <1>4, QuestionsAssumption DEF Progress, DInv, QueryInv, InCatalogue, Dish
<1>6. Witnessed(c)'
  BY <1>2 DEF Witnessed, DInv, QueryInv, ReadsStock
<1>7. Handled(c)'
  BY <1>2, <1>3 DEF Handled, Listed, Rows, Dish
<1>8. QueryInv(c)'
  BY <1>2, <1>5, <1>6, <1>7 DEF QueryInv, DInv, Progress, Searches
<1>9. \A d \in Queries \ {c} : conn' # d /\ conn # d
  BY QuestionsAssumption
<1> QED
  BY <1>1, <1>8, <1>9, StepOf DEF DInv, Types

LEMMA RecipeUnreadKept ==
    ASSUME DInv, NEW c \in Queries, RecipeUnread(c)
    PROVE  DInv'
<1>1. InCatalogue(c) /\ question[c] \in Questions[c] /\ recipe[c] = << >> /\ pc[c] = "recipe"
  BY DEF RecipeUnread, DInv, QueryInv, Progress
<1>2. Len(Rows(c)) \in Nat
  BY <1>1, RowsAreSeq, SeqFacts
<1>3. recipe' = [recipe EXCEPT ![c] = << >>]
  <2>1. recipe = [d \in Queries |-> recipe[d]] /\ recipe' = recipe
    BY DEF RecipeUnread, DInv, Types, locals
  <2> QED
    BY <1>1, <2>1
<1>4. IsSeq(<< >>) /\ Len(<< >>) = 0
  BY EmptySeq DEF IsSeq
<1>5. /\ pc' = [pc EXCEPT ![c] = "items"] /\ misread' = [misread EXCEPT ![c] = TRUE]
      /\ conn' = Nobody /\ conn = Nobody
      /\ UNCHANGED <<stock, question, reads, answer, moments>>
  BY DEF RecipeUnread, Goto, ConnFree, locals
<1>6. Len(<< >>) <= Len(Rows(c)) /\ \A n \in 1 .. Len(<< >>) : << >>[n] = Rows(c)[n]
  BY <1>2, <1>4
<1> QED
  BY <1>1, <1>3, <1>4, <1>5, <1>6, RecipeReadKept

LEMMA CloseRowsKept ==
    ASSUME DInv, NEW c \in Queries, CloseRows(c)
    PROVE  DInv'
<1>1. InCatalogue(c) /\ question[c] \in Questions[c] /\ pc[c] = "rows" /\ conn = c
  BY DEF CloseRows, DInv, QueryInv, Progress
<1>2. PICK r \in RowsRead(Rows(c)) :
         /\ recipe' = [recipe EXCEPT ![c] = r]
         /\ misread' = [misread EXCEPT ![c] = r # Rows(c)]
  BY DEF CloseRows
<1>3. PICK S : Rows(c) \in Seq(S)
  BY <1>1, RowsAreSeq DEF IsSeq
<1>4. /\ IsSeq(r) /\ Len(r) <= Len(Rows(c)) /\ \A n \in 1 .. Len(r) : r[n] = Rows(c)[n]
      /\ "rows" \in Faults \/ r = Rows(c)
  <2>1. CASE r = Rows(c)
    BY <1>3, <2>1, LenProperties DEF IsSeq
  <2>2. CASE r # Rows(c)
    <3>1. PICK k \in 0 .. Len(Rows(c)) : r = SubSeq(Rows(c), 1, k)
      BY <2>2 DEF RowsRead
    <3>2. Len(Rows(c)) \in Nat
      BY <1>3, LenProperties
    <3>3. r \in Seq(S) /\ Len(r) = k /\ \A n \in 1 .. k : r[n] = Rows(c)[n]
      BY <1>3, <3>1, <3>2
    <3>4. "rows" \in Faults
      BY <2>2 DEF RowsRead
    <3> QED
      BY <3>1, <3>2, <3>3, <3>4 DEF IsSeq
  <2> QED
    BY <2>1, <2>2
<1> QED
  BY <1>1, <1>2, <1>4, RecipeReadKept DEF CloseRows, Goto

\* One more item is handled: q was read, and b says whether an error has been
\* taken for an absence by now.
LEMMA ItemKept ==
    ASSUME DInv, NEW c \in Queries, InLoop(c), NEW q \in Quantity, NEW b \in BOOLEAN,
           misread[c] => b,
           reads' = [reads EXCEPT ![c] = Append(@, q)],
           misread' = [misread EXCEPT ![c] = b],
           UNCHANGED <<stock, conn, pc, question, recipe, answer, moments>>,
           question[c].tool = "availability" =>
              /\ Item(c).ingredient \in Ingredients /\ Item(c).perServing > 0
              /\ \/ q \in Seen(c, Item(c).ingredient)
                 \/ b /\ q = 0,
           question[c].tool = "ingredients" => b \/ q \in Seen(c, Item(c))
    PROVE  DInv'
<1>1. PICK n : n = Len(reads[c])
  OBVIOUS
<1>2. /\ reads[c] \in Seq(Quantity) /\ n \in Nat /\ Len(recipe[c]) \in Nat
      /\ n < Len(recipe[c]) /\ pc[c] = "items"
  BY <1>1, SeqFacts, LenProperties DEF InLoop, DInv, Types, QueryInv, Progress
<1>3. /\ reads'[c] = Append(reads[c], q) /\ misread'[c] = b
      /\ reads'[c] \in Seq(Quantity) /\ Len(reads'[c]) = n + 1
      /\ \A k \in 1 .. n : reads'[c][k] = reads[c][k]
      /\ reads'[c][n + 1] = q
  BY <1>1, <1>2, AppendProperties DEF DInv, Types
<1>4. Types'
  BY <1>2 DEF DInv, Types
<1>5. Progress(c)'
  BY <1>1, <1>2, <1>3 DEF Progress, DInv, QueryInv, InCatalogue, Dish
<1>6. Witnessed(c)'
  BY DEF Witnessed, DInv, QueryInv, ReadsStock
<1>7. Handled(c)'
  <2>1. Handled(c)
    BY <1>2 DEF DInv, QueryInv
  <2>2. Listed(c)'
    BY <1>3, <2>1 DEF Handled, Listed, Rows, Dish
  <2>3. ASSUME NEW k \in 1 .. n PROVE ReadWell(c, k)'
    <3>1. ReadWell(c, k)
      BY <1>1, <2>1 DEF Handled
    <3> QED
      BY <1>3, <3>1 DEF ReadWell, Seen
  <2>4. ReadWell(c, n + 1)'
    BY <1>1, <1>3 DEF ReadWell, Seen, Item
  <2> QED
    BY <1>2, <1>3, <2>2, <2>3, <2>4 DEF Handled
<1>8. QueryInv(c)'
  BY <1>2, <1>5, <1>6, <1>7 DEF QueryInv, DInv, Progress, Searches
<1> QED
  BY <1>4, <1>8, StepOf DEF DInv, Types

LEMMA ReadItemKept ==
    ASSUME DInv, NEW c \in Queries, ReadItem(c)
    PROVE  DInv'
<1>1. InLoop(c) /\ question[c].tool \in {"availability", "ingredients"}
  BY DEF ReadItem, Readable
<1>2. stock \in moments[c] /\ stock \in Stocks
  BY <1>1 DEF DInv, Types, QueryInv, Witnessed, ReadsStock, InLoop
<1>3. reads' = [reads EXCEPT ![c] = Append(@, stock[Asked(c)])]
  BY DEF ReadItem, QuantityRead
<1>4. misread' = [misread EXCEPT ![c] = misread[c]] /\ misread[c] \in BOOLEAN
  BY DEF ReadItem, DInv, Types, history
<1>5. Asked(c) \in Ingredients
  <2>1. CASE question[c].tool = "availability"
    BY <2>1 DEF ReadItem, Readable
  <2>2. CASE question[c].tool = "ingredients"
    <3>1. /\ Listed(c) /\ InCatalogue(c) /\ question[c] \in Questions[c]
          /\ reads[c] \in Seq(Quantity) /\ IsSeq(recipe[c]) /\ IsSeq(Rows(c))
      BY <1>1, RowsAreSeq DEF DInv, QueryInv, Handled, InLoop, Progress, Types
    <3>2. /\ Len(reads[c]) \in Nat /\ Len(recipe[c]) \in Nat /\ Len(Rows(c)) \in Nat
          /\ Len(recipe[c]) <= Len(Rows(c)) /\ Len(reads[c]) < Len(recipe[c])
      BY <1>1, <3>1, SeqFacts, LenProperties DEF InLoop, Listed
    <3>3. /\ Len(reads[c]) + 1 \in 1 .. Len(recipe[c])
          /\ Len(reads[c]) + 1 \in 1 .. Len(Rows(c))
      BY <3>2
    <3>4. recipe[c][Len(reads[c]) + 1] \in Ingredients
      BY <2>2, <3>1, <3>3, RowsAreSeq DEF Listed
    <3> QED
      BY <2>2, <3>4 DEF Asked, Item
  <2> QED
    BY <1>1, <2>1, <2>2
<1>6. stock[Asked(c)] \in Quantity /\ stock[Asked(c)] \in Seen(c, Asked(c))
  BY <1>2, <1>5, LevelsAssumption DEF Stocks, Seen
<1>7. question[c].tool = "availability" =>
         /\ Item(c).ingredient \in Ingredients /\ Item(c).perServing > 0
         /\ stock[Asked(c)] \in Seen(c, Item(c).ingredient)
  BY <1>6 DEF ReadItem, Readable, Asked
<1>8. question[c].tool = "ingredients" => stock[Asked(c)] \in Seen(c, Item(c))
  BY <1>6 DEF Asked
<1>9. UNCHANGED <<stock, conn, pc, question, recipe, answer, moments>>
  BY DEF ReadItem, history
<1> QED
  BY <1>1, <1>3, <1>4, <1>6, <1>7, <1>8, <1>9, ItemKept

LEMMA QuantityUnreadKept ==
    ASSUME DInv, NEW c \in Queries, QuantityUnread(c)
    PROVE  DInv'
<1>1. InLoop(c) /\ 0 \in Quantity
  BY MaxIntAssumption DEF QuantityUnread, Readable, Quantity
<1>2. question[c].tool = "availability" =>
         Item(c).ingredient \in Ingredients /\ Item(c).perServing > 0
  BY DEF QuantityUnread, Readable, Asked
<1>3. /\ reads' = [reads EXCEPT ![c] = Append(@, 0)]
      /\ misread' = [misread EXCEPT ![c] = TRUE]
      /\ UNCHANGED <<stock, conn, pc, question, recipe, answer, moments>>
  BY DEF QuantityUnread
<1> QED
  BY <1>1, <1>2, <1>3, ItemKept

LEMMA DescribeItemKept ==
    ASSUME DInv, NEW c \in Queries, DescribeItem(c)
    PROVE  DInv'
<1>1. InLoop(c) /\ 0 \in Quantity /\ question[c].tool = "details"
  BY MaxIntAssumption DEF DescribeItem, Quantity
<1>2. misread' = [misread EXCEPT ![c] = misread[c]] /\ misread[c] \in BOOLEAN
  BY DEF DescribeItem, DInv, Types, history
<1>3. /\ reads' = [reads EXCEPT ![c] = Append(@, 0)]
      /\ UNCHANGED <<stock, conn, pc, question, recipe, answer, moments>>
  BY DEF DescribeItem, history
<1> QED
  BY <1>1, <1>2, <1>3, ItemKept

\* The answers made from the recipe and the stocks.
LEMMA AnswerKept ==
    ASSUME DInv, NEW c \in Queries, pc[c] = "items", ~InLoop(c), NEW a, Return(c, a),
           a.kind = question[c].tool,
           a.kind \in {"availability", "details"} \cup Searches,
           a.kind = "availability" =>
              /\ a.available = Available(recipe[c], reads[c], Servings(c))
              /\ a.maximum = Makeable(recipe[c], reads[c])
              /\ a.missing = Missing(recipe[c], reads[c], Servings(c)),
           a.kind # "availability" => a.missing = {},
           a.kind \in Searches => a.listed = recipe[c]
    PROVE  DInv'
<1>1. Types'
  BY DEF Return, Goto, DInv, Types, locals, history
<1>2. /\ question' = question /\ recipe' = recipe /\ reads' = reads /\ stock' = stock
      /\ conn' = conn /\ moments' = moments /\ misread' = misread
  BY DEF Return, locals, history
<1>3. pc'[c] = "idle" /\ answer'[c] = a
  BY DEF Return, Goto, DInv, Types
<1>4. a.kind # "pending" /\ a.kind # "none"
  BY DEF Searches
<1>5. Progress(c)'
  BY <1>2, <1>3, <1>4 DEF Progress, DInv, QueryInv
<1>6. Witnessed(c)'
  BY <1>2, <1>3 DEF Witnessed, DInv, QueryInv, Progress
<1>7. Answered(c)'
  <2>1. Handled(c) /\ WellFormed(question[c]) /\ InCatalogue(c)
    BY DEF DInv, QueryInv, Progress
  <2>2. Handled(c)' /\ InCatalogue(c)' /\ WellFormed(question[c])'
    BY <1>2, <2>1 DEF Handled, Listed, ReadWell, Seen, Rows, Dish, InCatalogue
  <2>3. a.kind \in {"availability", "ingredients"} => Len(reads[c]) = Len(recipe[c])
    <3>1. reads[c] \in Seq(Quantity) /\ IsSeq(recipe[c]) /\ Len(reads[c]) <= Len(recipe[c])
      BY DEF DInv, QueryInv, Progress, Types
    <3>2. Len(reads[c]) \in Nat /\ Len(recipe[c]) \in Nat
      BY <3>1, SeqFacts, LenProperties
    <3> QED
      BY <3>1, <3>2 DEF InLoop
  <2> QED
    BY <1>2, <1>3, <2>2, <2>3 DEF Answered, Servings
<1>8. QueryInv(c)'
  BY <1>3, <1>5, <1>6, <1>7 DEF QueryInv
<1> QED
  BY <1>1, <1>2, <1>8, StepOf DEF Return, Goto, DInv, Types

\* An adjustment adds a stock to what the questions have seen.
LEMMA AdjustKept ==
    ASSUME DInv, NEW i \in Ingredients, NEW q \in Levels, Adjust(i, q)
    PROVE  DInv'
<1>1. /\ conn' = conn /\ pc' = pc /\ question' = question /\ recipe' = recipe
      /\ reads' = reads /\ answer' = answer /\ misread' = misread
  BY DEF Adjust, locals
<1>2. stock' \in Stocks /\ stock \in Stocks /\ \A j \in Ingredients : j # i => stock[j] = stock'[j]
  BY DEF Adjust, DInv, Types, Stocks
<1>3. Types'
  BY <1>1, <1>2 DEF Adjust, DInv, Types
<1>4. ASSUME NEW c \in Queries, pc[c] = "idle" \/ ~ReadsStock(c) PROVE QueryInv(c)'
  <2>1. moments'[c] = moments[c]
    BY <1>4 DEF Adjust
  <2>2. Progress(c)'
    BY <1>1 DEF DInv, QueryInv, Progress, InCatalogue, Dish
  <2>3. Witnessed(c)'
    BY <1>1, <1>4, <2>1 DEF DInv, QueryInv, Witnessed, ReadsStock
  <2>4. Handled(c) => Handled(c)'
    BY <1>1, <2>1 DEF Handled, Listed, ReadWell, Seen, Rows, Dish
  <2>5. Answered(c) => Answered(c)'
    BY <1>1, <2>4 DEF Answered, InCatalogue, Dish, Servings
  <2> QED
    BY <1>1, <2>2, <2>3, <2>4, <2>5 DEF DInv, QueryInv
<1>5. ASSUME NEW c \in Queries, pc[c] # "idle", ReadsStock(c) PROVE QueryInv(c)'
  <2>1. moments'[c] = moments[c] \cup {stock'}
    BY <1>5 DEF Adjust
  <2>2. Progress(c)'
    BY <1>1 DEF DInv, QueryInv, Progress, InCatalogue, Dish
  <2>3. stock \in moments[c] /\ Witnessed(c)
    BY <1>5 DEF DInv, QueryInv, Witnessed
  <2>4. ASSUME NEW s \in moments'[c], NEW t \in moments'[c], s # t, moments'[c] = {s, t}
        PROVE  OneApart(s, t)
    <3>1. CASE stock' = stock
      BY <2>1, <2>3, <2>4, <3>1 DEF Witnessed
    <3>2. CASE stock' # stock
      <4>1. {stock, stock'} \subseteq {s, t}
        BY <2>1, <2>3, <2>4
      <4>2. OneApart(stock, stock') /\ OneApart(stock', stock)
        BY <1>2 DEF OneApart
      <4>3. <<s, t>> = <<stock, stock'>> \/ <<s, t>> = <<stock', stock>>
        BY <3>2, <4>1
      <4> QED
        BY <4>2, <4>3
    <3> QED
      BY <3>1, <3>2
  <2>5. IsFiniteSet(moments'[c])
    BY <2>1, <2>3, FS_AddElement DEF Witnessed
  <2>6. Witnessed(c)'
    <3>1. \A s, t \in moments'[c] : s # t /\ moments'[c] = {s, t} => OneApart(s, t)
      BY <2>4
    <3> QED
      BY <2>1, <2>5, <3>1 DEF Witnessed, OneApart
  <2>7. Handled(c) => Handled(c)'
    <3>1. ASSUME NEW n, ReadWell(c, n) PROVE ReadWell(c, n)'
      BY <1>1, <2>1, <3>1 DEF ReadWell, Seen
    <3>2. Listed(c) => Listed(c)'
      BY <1>1 DEF Listed, Rows, Dish
    <3> QED
      BY <1>1, <3>1, <3>2 DEF Handled
  <2>8. answer[c].kind = "pending"
    BY <1>5 DEF DInv, QueryInv, Progress
  <2> QED
    BY <1>1, <2>2, <2>6, <2>7, <2>8 DEF DInv, QueryInv, Searches
<1> QED
  BY <1>3, <1>4, <1>5 DEF DInv

LEMMA StepKeeps == DInv /\ [Next]_vars => DInv'
<1> SUFFICES ASSUME DInv, [Next]_vars PROVE DInv'
  OBVIOUS
<1>1. ASSUME NEW i \in Ingredients, NEW q \in Levels, Adjust(i, q) PROVE DInv'
  BY <1>1, AdjustKept
<1>2. ASSUME NEW c \in Queries, NEW q \in Questions[c], Ask(c, q) PROVE DInv'
  BY <1>2, AskKept
<1>3. ASSUME NEW c \in Queries, RepositoryCall(c) PROVE DInv'
  <2>1. CASE DishUnknown(c)
    BY <2>1, NothingKept DEF DishUnknown
  <2>2. CASE DishInactive(c)
    BY <2>2, NothingKept DEF DishInactive
  <2>3. CASE IngredientUnknown(c)
    BY <2>3, NothingKept DEF IngredientUnknown, InLoop
  <2>4. CASE ServingCorrupt(c)
    BY <2>4, NothingKept DEF ServingCorrupt, InLoop
  <2> QED
    BY <1>3, <2>1, <2>2, <2>3, <2>4, DishFoundKept, OpenRowsKept, RecipeUnreadKept,
       ReadItemKept, QuantityUnreadKept, DescribeItemKept DEF RepositoryCall
<1>4. ASSUME NEW c \in Queries, Local(c) PROVE DInv'
  <2>1. CASE AnswerAvailability(c)
    <3>1. PICK a : a = Answer("availability",
                              Available(recipe[c], reads[c], question[c].servings),
                              Makeable(recipe[c], reads[c]),
                              Missing(recipe[c], reads[c], question[c].servings), << >>)
      OBVIOUS
    <3>2. /\ a.kind = "availability"
          /\ a.available = Available(recipe[c], reads[c], Servings(c))
          /\ a.maximum = Makeable(recipe[c], reads[c])
          /\ a.missing = Missing(recipe[c], reads[c], Servings(c))
      BY <3>1 DEF Answer, Servings
    <3>3. /\ pc[c] = "items" /\ ~InLoop(c) /\ question[c].tool = "availability"
          /\ Return(c, a)
      BY <2>1, <3>1 DEF AnswerAvailability
    <3> QED
      BY <3>2, <3>3, AnswerKept DEF Searches
  <2>2. CASE AnswerDetails(c)
    <3>1. PICK a : a = Answer("details", FALSE, 0, {}, recipe[c])
      OBVIOUS
    <3>2. a.kind = "details" /\ a.missing = {}
      BY <3>1 DEF Answer
    <3>3. /\ pc[c] = "items" /\ ~InLoop(c) /\ question[c].tool = "details"
          /\ Return(c, a)
      BY <2>2, <3>1 DEF AnswerDetails
    <3> QED
      BY <3>2, <3>3, AnswerKept DEF Searches
  <2>3. CASE AnswerSearch(c)
    <3>1. PICK a : a = Answer(question[c].tool, FALSE, 0, {}, recipe[c])
      OBVIOUS
    <3>2. a.kind = question[c].tool /\ a.missing = {} /\ a.listed = recipe[c]
      BY <3>1 DEF Answer
    <3>3. /\ pc[c] = "items" /\ ~InLoop(c) /\ question[c].tool \in Searches
          /\ Return(c, a)
      BY <2>3, <3>1 DEF AnswerSearch
    <3> QED
      BY <3>2, <3>3, AnswerKept DEF Searches
  <2> QED
    BY <1>4, <2>1, <2>2, <2>3, CloseRowsKept DEF Local
<1>5. CASE UNCHANGED vars
  <2>1. Types'
    BY <1>5 DEF vars, locals, history, DInv, Types
  <2>2. ASSUME NEW c \in Queries PROVE QueryInv(c)'
    BY <1>5, OthersKept DEF vars, locals, history, DInv
  <2> QED
    BY <2>1, <2>2 DEF DInv
<1> QED
  BY <1>1, <1>2, <1>3, <1>4, <1>5 DEF Next

LEMMA Invariant == Spec => []DInv
<1>1. Init => DInv
  BY Initially
<1>2. DInv /\ [Next]_vars => DInv'
  BY StepKeeps
<1> QED
  BY <1>1, <1>2, PTL DEF Spec

---------------------------------------------------------------------------
(* What the invariant says of the answers.                                 *)

LEMMA TypesKept == DInv => TypeOK
<1> SUFFICES ASSUME DInv, NEW c \in Queries
             PROVE  /\ question[c] \in Questions[c]
                    /\ pc[c] = "rows" <=> conn = c
                    /\ pc[c] # "idle" <=> answer[c].kind = "pending"
                    /\ pc[c] \notin {"idle", "find"} =>
                          Dish(c) \in Dishes \/ question[c].tool \in Searches
                    /\ Len(reads[c]) <= Len(recipe[c])
                    /\ \A n \in DOMAIN reads[c] : reads[c][n] \in Quantity
                    /\ moments[c] \subseteq [Ingredients -> Levels]
  BY DEF DInv, Types, TypeOK, Stocks
<1>1. Types /\ Progress(c)
  BY DEF DInv, QueryInv
<1>2. \A n \in DOMAIN reads[c] : reads[c][n] \in Quantity
  <2>1. reads[c] \in Seq(Quantity)
    BY <1>1 DEF Types
  <2> QED
    BY <2>1, LenProperties, ElementOfSeq
<1>3. pc[c] \in {"idle", "find", "recipe", "rows", "items"} /\ moments[c] \subseteq [Ingredients -> Levels]
  BY <1>1 DEF Types, Stocks
<1> QED
  BY <1>1, <1>2, <1>3 DEF Progress, InCatalogue

\* The recipe and the stocks an availability was made from.
LEMMA AvailabilityFacts ==
    ASSUME DInv, NEW c \in Queries, AnsweredAvailability(c)
    PROVE  /\ Servings(c) \in 1 .. MaxInt
           /\ Servable(recipe[c], reads[c])
           /\ DOMAIN recipe[c] = 1 .. Len(recipe[c]) /\ Len(recipe[c]) \in Nat
           /\ Dish(c) \in Dishes /\ Rows(c) = RecipeOf[Dish(c)]
           /\ Listed(c)
           /\ \A n \in 1 .. Len(recipe[c]) : ReadWell(c, n)
           /\ question[c].tool = "availability" /\ moments[c] # {}
           /\ answer[c].available = Available(recipe[c], reads[c], Servings(c))
           /\ answer[c].maximum = Makeable(recipe[c], reads[c])
           /\ answer[c].missing = Missing(recipe[c], reads[c], Servings(c))
<1>1. Answered(c) /\ Progress(c) /\ Witnessed(c) /\ reads[c] \in Seq(Quantity)
  BY DEF DInv, QueryInv, AnsweredAvailability, Types
<1>2. question[c].tool = "availability" /\ moments[c] # {} /\ InCatalogue(c)
  BY <1>1 DEF Answered, AnsweredAvailability, Witnessed
<1>3. Servings(c) \in 1 .. MaxInt
  <2>1. question[c].servings \in Int64 /\ question[c].servings > 0
    BY <1>1, <1>2, QuestionsAssumption DEF Progress, Answered, WellFormed
  <2> QED
    BY <2>1, MaxIntAssumption DEF Int64, MinInt, Servings
<1>4. Dish(c) \in Dishes /\ Rows(c) = RecipeOf[Dish(c)]
  BY <1>2 DEF InCatalogue, Rows, Searches
<1>5. IsSeq(recipe[c]) /\ DOMAIN recipe[c] = 1 .. Len(recipe[c]) /\ Len(recipe[c]) \in Nat
  BY <1>1, SeqFacts DEF Progress
<1>6. Len(reads[c]) = Len(recipe[c]) /\ Listed(c) /\ \A n \in 1 .. Len(recipe[c]) : ReadWell(c, n)
  BY <1>1 DEF Answered, Handled, AnsweredAvailability
<1>7. ASSUME NEW n \in 1 .. Len(recipe[c])
      PROVE  reads[c][n] \in Quantity /\ recipe[c][n].perServing \in 1 .. MaxInt
  <2>1. recipe[c][n] = Rows(c)[n] /\ n \in 1 .. Len(Rows(c))
    <3>1. Len(Rows(c)) \in Nat
      BY <1>1, <1>2, RowsAreSeq, SeqFacts DEF Progress
    <3> QED
      BY <1>5, <1>6, <3>1 DEF Listed
  <2>2. recipe[c][n].perServing \in Int64 /\ recipe[c][n].perServing > 0
    BY <1>1, <1>2, <1>6, <2>1, RowsAreSeq DEF ReadWell, Progress
  <2>3. reads[c][n] \in Quantity
    BY <1>1, <1>5, <1>6, ElementOfSeq
  <2> QED
    BY <2>2, <2>3, MaxIntAssumption DEF Int64, MinInt
<1>8. Servable(recipe[c], reads[c])
  BY <1>5, <1>7 DEF Servable
<1> QED
  BY <1>1, <1>2, <1>3, <1>4, <1>5, <1>6, <1>8 DEF Answered, AnsweredAvailability

LEMMA OffersAreExact == DInv => AvailableIsExact
<1> SUFFICES ASSUME DInv, NEW c \in Queries, AnsweredAvailability(c)
             PROVE  answer[c].available <=>
                       /\ recipe[c] # << >>
                       /\ \A n \in DOMAIN recipe[c] : Needed(c, n) <= reads[c][n]
  BY DEF AvailableIsExact
<1> QED
  BY AvailabilityFacts, OfferIsExact DEF Needed

LEMMA BottlenecksNamed == DInv => NamesBottleneck
<1> SUFFICES ASSUME DInv, NEW c \in Queries, AnsweredAvailability(c),
                    ~answer[c].available, recipe[c] # << >>,
                    \A n \in DOMAIN recipe[c] : Needed(c, n) <= MaxInt
             PROVE  \E m \in answer[c].missing, n \in DOMAIN recipe[c] :
                       /\ m.ingredient = recipe[c][n].ingredient
                       /\ reads[c][n] \div recipe[c][n].perServing = answer[c].maximum
  BY DEF NamesBottleneck
<1> QED
  BY AvailabilityFacts, BottleneckIsReported DEF Needed

LEMMA ReportedShortagesAreReal == DInv => ShortagesAreReal
<1> SUFFICES ASSUME DInv, NEW c \in Queries, ~misread[c], NEW m \in answer[c].missing
             PROVE  \E n \in DOMAIN RecipeOf[Dish(c)] :
                       LET item == RecipeOf[Dish(c)][n] IN
                       /\ m.ingredient = item.ingredient
                       /\ m.available \in Seen(c, item.ingredient)
                       /\ m.available < item.perServing * Servings(c)
  BY DEF ShortagesAreReal
<1>1. AnsweredAvailability(c)
  BY DEF DInv, QueryInv, AnsweredAvailability
<1>2. recipe[c] = RecipeOf[Dish(c)]
  BY <1>1, AvailabilityFacts DEF Listed
<1>3. PICK n \in 1 .. Len(recipe[c]) :
         /\ m.ingredient = recipe[c][n].ingredient /\ m.available = reads[c][n]
         /\ reads[c][n] < recipe[c][n].perServing * Servings(c)
  BY <1>1, AvailabilityFacts, ShortageIsReal
<1>4. reads[c][n] \in Seen(c, recipe[c][n].ingredient)
  BY <1>1, AvailabilityFacts DEF ReadWell
<1>5. n \in DOMAIN recipe[c]
  BY <1>1, AvailabilityFacts
<1> QED
  BY <1>2, <1>3, <1>4, <1>5

LEMMA SearchesAreTrue == DInv => SearchIsTrue
<1> SUFFICES ASSUME DInv, NEW c \in Queries, answer[c].kind = "ingredients", ~misread[c]
             PROVE  /\ answer[c].listed = Matches["ingredients"][Dish(c)]
                    /\ Len(reads[c]) = Len(answer[c].listed)
                    /\ \A n \in DOMAIN reads[c] : reads[c][n] \in Seen(c, answer[c].listed[n])
  BY DEF SearchIsTrue
<1>1. Answered(c) /\ reads[c] \in Seq(Quantity)
  BY DEF DInv, QueryInv, Searches, Types
<1>2. recipe[c] = Rows(c) /\ answer[c].listed = recipe[c] /\ question[c].tool = "ingredients"
  BY <1>1 DEF Answered, Handled, Listed, Searches
<1>3. Len(reads[c]) = Len(recipe[c]) /\ \A n \in 1 .. Len(reads[c]) : ReadWell(c, n)
  BY <1>1 DEF Answered, Handled
<1>4. Rows(c) = Matches["ingredients"][Dish(c)]
  BY <1>2 DEF Rows, Searches
<1>5. DOMAIN reads[c] = 1 .. Len(reads[c])
  BY <1>1, LenProperties
<1> QED
  BY <1>2, <1>3, <1>4, <1>5 DEF ReadWell

---------------------------------------------------------------------------
(* maximumServings and the stocks of the time of the question.             *)

\* Every ingredient had, while the question was answered, a least and a
\* greatest stock.
LEMMA Extremes ==
    ASSUME DInv, NEW c \in Queries, moments[c] # {}, NEW i \in Ingredients
    PROVE  /\ Seen(c, i) \subseteq Quantity
           /\ Least(c)[i] \in Seen(c, i) /\ \A q \in Seen(c, i) : Least(c)[i] <= q
           /\ Most(c)[i] \in Seen(c, i) /\ \A q \in Seen(c, i) : q <= Most(c)[i]
<1>1. Seen(c, i) \subseteq Quantity /\ Seen(c, i) # {}
  <2>1. moments[c] \subseteq Stocks
    BY DEF DInv, Types
  <2> QED
    BY <2>1, LevelsAssumption DEF Seen, Stocks
<1>2. Seen(c, i) \in SUBSET Nat
  BY <1>1 DEF Quantity
<1>3. \E q \in Seen(c, i) : \A p \in Seen(c, i) : q <= p
  BY <1>1, <1>2, LeastExists
<1>4. Least(c)[i] \in Seen(c, i) /\ \A q \in Seen(c, i) : Least(c)[i] <= q
  BY <1>3 DEF Least
<1>5. \E q \in Seen(c, i) : \A p \in Seen(c, i) : q >= p
  <2>1. PICK q \in Seen(c, i) : \A p \in Seen(c, i) : p <= q
    BY <1>1, GreatestExists
  <2>2. \A p \in Seen(c, i) : q >= p
    BY <1>2, <2>1
  <2> QED
    BY <2>2
<1>6. Most(c)[i] \in Seen(c, i) /\ \A q \in Seen(c, i) : Most(c)[i] >= q
  BY <1>5 DEF Most
<1>7. \A q \in Seen(c, i) : q <= Most(c)[i]
  BY <1>2, <1>6
<1> QED
  BY <1>1, <1>4, <1>6, <1>7

\* When the whole recipe was read, the stocks w gives its ingredients serve it.
LEMMA WholeRecipe ==
    ASSUME DInv, NEW c \in Queries, AnsweredAvailability(c),
           recipe[c] = RecipeOf[Dish(c)], NEW w, \A i \in Ingredients : w[i] \in Quantity
    PROVE  LET q == StocksOf(Dish(c), w) IN
           /\ Servable(recipe[c], q)
           /\ ServingsFrom(Dish(c), w) = Makeable(recipe[c], q)
           /\ \A n \in 1 .. Len(recipe[c]) :
                 q[n] = w[recipe[c][n].ingredient] /\ recipe[c][n].ingredient \in Ingredients
<1> DEFINE q == StocksOf(Dish(c), w)
<1>1. /\ DOMAIN recipe[c] = 1 .. Len(recipe[c]) /\ Servable(recipe[c], reads[c])
      /\ \A n \in 1 .. Len(recipe[c]) : recipe[c][n].ingredient \in Ingredients
  BY AvailabilityFacts DEF ReadWell
<1>2. \A n \in 1 .. Len(recipe[c]) : q[n] = w[recipe[c][n].ingredient]
  BY <1>1 DEF StocksOf
<1>3. Servable(recipe[c], q)
  BY <1>1, <1>2 DEF Servable
<1> QED
  BY <1>1, <1>2, <1>3 DEF ServingsFrom

LEMMA UnderSelling == DInv => NeverUnderSold
<1> SUFFICES ASSUME DInv, NEW c \in Queries, AnsweredAvailability(c), ~misread[c]
             PROVE  ServingsFrom(Dish(c), Least(c)) <= answer[c].maximum
  BY DEF NeverUnderSold
<1>1. PICK w : w = Least(c)
  OBVIOUS
<1>2. PICK q : q = StocksOf(Dish(c), w)
  OBVIOUS
<1>3. /\ recipe[c] = RecipeOf[Dish(c)] /\ moments[c] # {}
      /\ Servable(recipe[c], reads[c]) /\ answer[c].maximum = Makeable(recipe[c], reads[c])
  BY AvailabilityFacts DEF Listed
<1>4. \A i \in Ingredients : w[i] \in Quantity
  BY <1>1, <1>3, Extremes
<1>5. /\ Servable(recipe[c], q) /\ ServingsFrom(Dish(c), w) = Makeable(recipe[c], q)
      /\ \A n \in 1 .. Len(recipe[c]) :
            q[n] = w[recipe[c][n].ingredient] /\ recipe[c][n].ingredient \in Ingredients
  BY <1>2, <1>3, <1>4, WholeRecipe
<1>6. ASSUME NEW n \in 1 .. Len(recipe[c]) PROVE q[n] <= reads[c][n]
  <2>1. reads[c][n] \in Seen(c, recipe[c][n].ingredient)
    BY AvailabilityFacts DEF ReadWell
  <2> QED
    BY <1>1, <1>3, <1>5, <2>1, Extremes
<1> QED
  BY <1>1, <1>3, <1>5, <1>6, MakeableGrows

LEMMA OverPromising ==
    ASSUME "rows" \notin Faults
    PROVE  DInv => NeverOverPromised
<1> SUFFICES ASSUME DInv, NEW c \in Queries, AnsweredAvailability(c), answer[c].maximum > 0
             PROVE  answer[c].maximum <= ServingsFrom(Dish(c), Most(c))
  BY DEF NeverOverPromised
<1>1. PICK w : w = Most(c)
  OBVIOUS
<1>2. PICK q : q = StocksOf(Dish(c), w)
  OBVIOUS
<1>3. /\ moments[c] # {} /\ Servable(recipe[c], reads[c])
      /\ answer[c].maximum = Makeable(recipe[c], reads[c])
  BY AvailabilityFacts
<1>4. recipe[c] = RecipeOf[Dish(c)]
  <2>1. recipe[c] # << >>
    BY <1>3 DEF Makeable
  <2> QED
    BY <2>1, AvailabilityFacts DEF Listed
<1>5. \A i \in Ingredients : w[i] \in Quantity
  BY <1>1, <1>3, Extremes
<1>6. /\ Servable(recipe[c], q) /\ ServingsFrom(Dish(c), w) = Makeable(recipe[c], q)
      /\ \A n \in 1 .. Len(recipe[c]) :
            q[n] = w[recipe[c][n].ingredient] /\ recipe[c][n].ingredient \in Ingredients
  BY <1>2, <1>4, <1>5, WholeRecipe
<1>7. ASSUME NEW n \in 1 .. Len(recipe[c]) PROVE reads[c][n] <= q[n]
  <2>1. reads[c][n] \in Seen(c, recipe[c][n].ingredient) \/ reads[c][n] = 0
    BY AvailabilityFacts DEF ReadWell
  <2>2. q[n] \in Nat
    BY <1>6, EachServing
  <2>3. CASE reads[c][n] = 0
    BY <2>2, <2>3
  <2>4. CASE reads[c][n] \in Seen(c, recipe[c][n].ingredient)
    BY <1>1, <1>3, <1>6, <2>4, Extremes
  <2> QED
    BY <2>1, <2>3, <2>4
<1> QED
  BY <1>1, <1>3, <1>6, <1>7, MakeableGrows

\* No recipe lists an ingredient twice: PRIMARY KEY (dish_id, ingredient_id).
ListedOnce ==
    \A d \in Dishes : \A m, n \in DOMAIN RecipeOf[d] :
        RecipeOf[d][m].ingredient = RecipeOf[d][n].ingredient => m = n

\* At most two stocks, one adjustment apart, are the only ones there were.
LEMMA TwoMoments ==
    ASSUME DInv, NEW c \in Queries, moments[c] # {}, Cardinality(moments[c]) <= 2
    PROVE  \E s, t \in moments[c] : moments[c] = {s, t} /\ (s = t \/ OneApart(s, t))
<1>1. Witnessed(c) /\ IsFiniteSet(moments[c])
  BY DEF DInv, QueryInv, Witnessed
<1>2. PICK s : s \in moments[c]
  OBVIOUS
<1>3. CASE moments[c] = {s}
  BY <1>3
<1>4. CASE moments[c] # {s}
  <2>1. PICK t \in moments[c] : t # s
    BY <1>2, <1>4
  <2>2. IsFiniteSet({s}) /\ Cardinality({s}) = 1
    BY FS_Singleton
  <2>3. Cardinality({s} \cup {t}) = 2
    BY <2>1, <2>2, FS_AddElement
  <2>4. {s} \cup {t} = {s, t} /\ {s, t} \in SUBSET moments[c]
    BY <1>2, <2>1
  <2>5. Cardinality({s, t}) <= Cardinality(moments[c]) /\ Cardinality(moments[c]) \in Nat
    BY <1>1, <2>4, FS_Subset, FS_CardinalityType
  <2>6. Cardinality(moments[c]) = Cardinality({s, t})
    BY <2>3, <2>4, <2>5
  <2>7. moments[c] = {s, t}
    BY <1>1, <2>4, <2>6, FS_Subset
  <2> QED
    BY <1>1, <1>2, <2>1, <2>7 DEF Witnessed
<1> QED
  BY <1>3, <1>4

LEMMA OneChange ==
    ASSUME ListedOnce
    PROVE  DInv => OneChangeIsNotTorn
<1> SUFFICES ASSUME DInv, NEW c \in Queries, AnsweredAvailability(c), ~misread[c],
                    Cardinality(moments[c]) <= 2
             PROVE  \E s \in moments[c] : answer[c].maximum = ServingsFrom(Dish(c), s)
  BY DEF OneChangeIsNotTorn
<1>1. /\ recipe[c] = RecipeOf[Dish(c)] /\ moments[c] # {} /\ Dish(c) \in Dishes
      /\ DOMAIN recipe[c] = 1 .. Len(recipe[c])
      /\ Servable(recipe[c], reads[c]) /\ answer[c].maximum = Makeable(recipe[c], reads[c])
  BY AvailabilityFacts DEF Listed
<1>2. PICK s \in moments[c], t \in moments[c] :
         moments[c] = {s, t} /\ (s = t \/ OneApart(s, t))
  BY <1>1, TwoMoments
<1>3. \A n \in 1 .. Len(recipe[c]) :
         /\ recipe[c][n].ingredient \in Ingredients
         /\ \/ reads[c][n] = s[recipe[c][n].ingredient]
            \/ reads[c][n] = t[recipe[c][n].ingredient]
  <2>1. ASSUME NEW n \in 1 .. Len(recipe[c])
        PROVE  /\ recipe[c][n].ingredient \in Ingredients
               /\ reads[c][n] \in Seen(c, recipe[c][n].ingredient)
    BY AvailabilityFacts DEF ReadWell
  <2> QED
    BY <1>2, <2>1 DEF Seen
<1>4. ASSUME NEW w \in moments[c],
             \A n \in 1 .. Len(recipe[c]) : reads[c][n] = w[recipe[c][n].ingredient]
      PROVE  answer[c].maximum = ServingsFrom(Dish(c), w)
  <2>1. \A i \in Ingredients : w[i] \in Quantity
    BY LevelsAssumption DEF DInv, Types, Stocks
  <2>2. PICK q : q = StocksOf(Dish(c), w)
    OBVIOUS
  <2>3. /\ Servable(recipe[c], q) /\ ServingsFrom(Dish(c), w) = Makeable(recipe[c], q)
        /\ \A n \in 1 .. Len(recipe[c]) : q[n] = w[recipe[c][n].ingredient]
    BY <1>1, <2>1, <2>2, WholeRecipe
  <2>4. \A n \in 1 .. Len(recipe[c]) : reads[c][n] = q[n]
    BY <1>4, <2>3
  <2> QED
    BY <1>1, <2>3, <2>4, MakeableSame
<1>5. \E w \in {s, t} : \A n \in 1 .. Len(recipe[c]) : reads[c][n] = w[recipe[c][n].ingredient]
  <2>1. CASE s = t
    BY <1>3, <2>1
  <2>2. CASE OneApart(s, t)
    <3>1. PICK i \in Ingredients : \A j \in Ingredients : j # i => s[j] = t[j]
      BY <2>2 DEF OneApart
    <3>2. CASE \E k \in 1 .. Len(recipe[c]) : recipe[c][k].ingredient = i
      <4>1. PICK k \in 1 .. Len(recipe[c]) : recipe[c][k].ingredient = i
        BY <3>2
      <4>2. PICK w \in {s, t} : reads[c][k] = w[i]
        BY <1>3, <4>1
      <4>3. ASSUME NEW n \in 1 .. Len(recipe[c]) PROVE reads[c][n] = w[recipe[c][n].ingredient]
        <5>1. CASE n = k
          BY <4>1, <4>2, <5>1
        <5>2. CASE n # k
          <6>1. recipe[c][n].ingredient # i
            BY <1>1, <4>1, <5>2 DEF ListedOnce
          <6> QED
            BY <1>3, <3>1, <4>2, <6>1
        <5> QED
          BY <5>1, <5>2
      <4> QED
        BY <4>2, <4>3
    <3>3. CASE \A k \in 1 .. Len(recipe[c]) : recipe[c][k].ingredient # i
      BY <1>3, <3>1, <3>3
    <3> QED
      BY <3>2, <3>3
  <2> QED
    BY <1>2, <2>1, <2>2
<1> QED
  BY <1>2, <1>4, <1>5

---------------------------------------------------------------------------
(* The theorems.                                                           *)

\* Every answer about a dish is exact about what was read: a dish is offered
\* exactly when each ingredient covers the servings, one that is refused comes
\* with the ingredient that limits it, and no shortage is made up
\* (handleGetDishAvailability).
THEOREM AnswersAreExact ==
    Spec => [](TypeOK /\ AvailableIsExact /\ NamesBottleneck /\ ShortagesAreReal)
<1>1. DInv => TypeOK /\ AvailableIsExact /\ NamesBottleneck /\ ShortagesAreReal
  BY TypesKept, OffersAreExact, BottlenecksNamed, ReportedShortagesAreReal
<1> QED
  BY <1>1, Invariant, PTL

\* A search lists all that matches, each with a stock it had meanwhile
\* (handleSearchIngredients).
THEOREM SearchesListAll == Spec => []SearchIsTrue
<1> QED
  BY Invariant, SearchesAreTrue, PTL

\* maximumServings is not below what the least stock of each ingredient
\* during the question allows, however the stocks change while they are read
\* one by one.
THEOREM SellsWhatThereIs == Spec => []NeverUnderSold
<1> QED
  BY Invariant, UnderSelling, PTL

\* Nor above what the greatest allows, whatever else cannot be read, unless
\* the rows of a recipe may end early (rows.Err is not asked, sqlite.go).
THEOREM PromisesAreKept ==
    ASSUME "rows" \notin Faults
    PROVE  Spec => []NeverOverPromised
<1>1. DInv => NeverOverPromised
  BY OverPromising
<1> QED
  BY <1>1, Invariant, PTL

\* A single adjustment does not tear an answer, whichever of the reads it
\* comes between.
THEOREM AdjustmentDoesNotTear ==
    ASSUME ListedOnce
    PROVE  Spec => []OneChangeIsNotTorn
<1>1. DInv => OneChangeIsNotTorn
  BY OneChange
<1> QED
  BY <1>1, Invariant, PTL
=============================================================================
