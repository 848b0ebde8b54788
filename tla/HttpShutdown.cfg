SPECIFICATION SpecServer
CONSTANTS
    Supported = "2025-06-18"
    Unsupported = "2024-01-01"
    h1 = h1
    h2 = h2
    s1 = s1
    s2 = s2
    ana = ana
    luis = luis
    Principals = {ana}
    Nobody = Nobody
    Ids = {s1}
    NoId = NoId
    NoRequest = NoRequest
    Handlers = {h1, h2}
    Requests <- FewRequests
    TTL = 1
    MaxService = 1
    Grace = 1
    MaxClock = 4
INVARIANTS
    CutOnlyAfterGrace
    StopsWithinGrace
    EndedStaysEnded
    ServedSessionsSurvive
PROPERTIES
    EveryRequestAnswered
