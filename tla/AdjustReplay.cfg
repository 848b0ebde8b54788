SPECIFICATION Spec
CONSTANTS
    MaxInt = 7
    c1 = c1
    c2 = c2
    c3 = c3
    Ingredients <- MCIngredients
    OpeningStock <- MCOpeningStock
    Requests <- MCRequests
    Calls = {c1, c2}
    NoRequest = NoRequest
    UserOf <- TwoMovers
    RoleOf <- MCRoleOf
    BaseOf <- MCBaseOf
    Arguments <- GoodArguments
INVARIANTS
    ReportIsOfTheMovement
