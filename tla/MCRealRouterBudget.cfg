\* Two clients at a time share a public provider that may be used once per tick.
CONSTANTS
    a = a  b = b  d = d  c1 = c1  c2 = c2  key = key  None = None
    Providers = {a, b}
    External = {a}
    RateRequests <- MCRateRequests
    RateWindow <- MCRateWindow
    Inventory <- MCInventory2
    Available = {a, b}
    Supports <- MCSupportsAll
    Authorized = {a, b}
    Adapted = {a, b}
    Configured <- PolicyNames
    StaticTarget = a
    Seeded = FALSE
    Clients = {c1, c2}
    Asks <- BaselineAsks
    Outcomes = {"accepted", "unacceptable"}
    MaxTime = 2
    MaxRequests = 3
SYMMETRY ClientSymmetry
SPECIFICATION Spec
PROPERTY
    UsesBudgets
