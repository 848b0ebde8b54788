SPECIFICATION Spec
CONSTANTS
    MaxInt = 7
    c1 = c1
    c2 = c2
    c3 = c3
    Ingredients <- MCIngredients
    OpeningStock <- MCOpeningStock
    Requests <- MCRequests
    Calls = {c1, c2, c3}
    NoRequest = NoRequest
    UserOf <- MCUserOf
    RoleOf <- MCRoleOf
    BaseOf <- MCBaseOf
    Arguments <- FewArguments
INVARIANTS
    TypeOK
    ReportsOwnMovement
    OnlyAuthorisedMove
