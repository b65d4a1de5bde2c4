\* One race or failover over three loopback providers, and everything else a
\* client can ask.
CONSTANTS
    a = a  b = b  d = d  c1 = c1  c2 = c2  key = key  None = None
    Providers = {a, b, d}
    External = {}
    RateRequests <- MCRateRequests
    RateWindow <- MCRateWindow
    Inventory <- MCInventory3
    Available = {a, b, d}
    Supports <- MCSupportsAll
    Authorized = {a, b, d}
    Adapted = {a, b, d}
    Configured <- PolicyNames
    StaticTarget = None
    Seeded = TRUE
    Clients = {c1}
    Asks <- AllAsks
    Outcomes <- AllOutcomes
    MaxTime = 0
    MaxRequests = 1
SPECIFICATION FairSpec
INVARIANTS
    TypeOK
    TraceComplete
    NoProbeOutlivesItsRequest
    FirstAcceptanceCounts
    FailureIsExhaustive
    OneProbeAtATime
PROPERTIES
    KeepsPromise
    EveryRequestAnswered
