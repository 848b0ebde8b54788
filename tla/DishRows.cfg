SPECIFICATION Spec
CONSTANTS
    MaxInt = 7
    c1 = c1
    c2 = c2
    Ingredients <- MCIngredients
    Dishes <- MCDishes
    Active <- MCActive
    RecipeOf <- MCRecipeOf
    Matches <- MCMatches
    Levels = {0, 5}
    Questions <- DetailsQuestions
    Queries = {c1}
    Nobody = Nobody
    Faults = {"rows"}
INVARIANTS
    EveryIngredientListed
