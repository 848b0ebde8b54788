SPECIFICATION Spec
CONSTANTS
    MaxInt = 7
    Ingredients <- MCIngredients
    OpeningStock <- MCOpeningStock
    Requests <- ContendedRequests
    p1 = p1
    p2 = p2
    c1 = c1
    c2 = c2
    c3 = c3
    Procs = {p1, p2}
    Calls = {c1, c2}
    ProcOf <- MCProcOfTwo
    NoRequest = NoRequest
    Faults = {"lookup"}
PROPERTIES
    RepeatedKeyNeverRefused
