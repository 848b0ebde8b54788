SPECIFICATION Spec
CONSTANTS
    Supported = "2025-06-18"
    Unsupported = "2024-01-01"
    h1 = h1
    h2 = h2
    s1 = s1
    s2 = s2
    ana = ana
    luis = luis
    Principals = {ana, luis}
    Nobody = Nobody
    Ids = {s1, s2}
    NoId = NoId
    NoRequest = NoRequest
    Handlers = {h1, h2}
    Requests <- AllClients
    TTL = 1
    MaxService = 1
    MaxClock = 0
INVARIANTS
    TypeOK
    ToolsRunAsCaller
SYMMETRY Symmetry
