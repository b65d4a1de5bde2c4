\* One failover over two loopback providers; a probe may raise.
CONSTANTS
    a = a  b = b  d = d  c1 = c1  c2 = c2  key = key  None = None
    Providers = {a, b}
    External = {}
    RateRequests <- MCRateRequests
    RateWindow <- MCRateWindow
    Inventory <- MCInventory2
    Available = {a, b}
    Supports <- MCSupportsAll
    Authorized = {a, b}
    Adapted = {a, b}
    Configured <- PolicyNames
    StaticTarget = None
    Seeded = FALSE
    Clients = {c1}
    Asks <- FailoverAsk
    Outcomes <- AllOutcomes
    MaxTime = 0
    MaxRequests = 1
SPECIFICATION Spec
INVARIANT
    FailoverTriesEveryone
