SPECIFICATION FairSpec
CONSTANTS
    MaxInt = 7
    c1 = c1
    c2 = c2
    Ingredients <- MCIngredients
    Dishes <- MCDishes
    Active <- MCActive
    RecipeOf <- MCRecipeOf
    Matches <- MCMatches
    Levels = {1, 6}
    Questions <- TwoQueries
    Queries = {c1, c2}
    Nobody = Nobody
    Faults = {"dish", "recipe", "ingredient", "quantity"}
INVARIANTS
    TypeOK
    AvailableIsExact
    NeverOverPromised
    NeverUnderSold
    OneChangeIsNotTorn
    NamesBottleneck
    ShortagesAreReal
    SearchIsTrue
PROPERTIES
    EveryQuestionAnswered
