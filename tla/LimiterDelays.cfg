SPECIFICATION Spec
CONSTANTS
    h1 = h1
    h2 = h2
    ana = ana
    proxy = proxy
    Clients = {ana, proxy}
    Requests <- Sent
    Handlers = {h1, h2}
    One = 4
    Options <- Servers
    IdleFor = 7
    MaxDelay = 2
    MaxClock = 9
    MaxGrants = 6
INVARIANTS
    TypeOK
    WindowBound
PROPERTIES
    RetryIsHonoured
SYMMETRY Symmetry
