SPECIFICATION FairSpec
CONSTANTS
    MaxInt = 7
    Ingredients <- MCIngredients
    OpeningStock <- MCOpeningStock
    Requests <- FewRequests
    p1 = p1
    p2 = p2
    c1 = c1
    c2 = c2
    c3 = c3
    Procs = {p1, p2}
    Calls = {c1, c2, c3}
    ProcOf <- MCProcOf
    NoRequest = NoRequest
    Faults = {"commit", "crash"}
PROPERTIES
    EveryCallEnds
    RepeatedKeyNeverRefused
