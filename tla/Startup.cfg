SPECIFICATION Spec
CONSTANTS
    Supported = "2025-06-18"
    Unsupported = "2024-01-01"
    Lines <- MCLines
    MaxLines = 4
    Capacity = 1
    LoopbackIPs <- MCLoopbackIPs
    Urls <- MCUrls
    Configurations <- MCConfigurations
    Arrivals <- MCArrivals
INVARIANTS
    AnsweredInOrder
    AuthorityIsConfigured
    OriginIsConfigured
PROPERTY
    EveryResponseReceived
