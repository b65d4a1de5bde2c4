CONSTANTS
    uniresolver = uniresolver
    local = local
    c1 = c1
    c2 = c2
    c3 = c3
    None = None
    Providers <- MCProviders
    External <- MCExternal
    RateRequests <- MCRateRequests
    RateWindow <- MCRateWindow
    Callers <- MCCallers
    MaxTime = 3
    MaxQueue = 2
SYMMETRY CallerSymmetry
SPECIFICATION Spec
INVARIANTS
    CommitmentBounded
    OverspendBounded
    WindowExact
PROPERTY
    NoLiveChargeForgotten
