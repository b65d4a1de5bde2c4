\* One trial of each kind; providers throttle when they like.
CONSTANTS
    dev = dev driver = driver
    Providers = {dev, driver}
    External = {dev}
    Inventories <- MCInventories
    Bare = {driver}
    Ladder <- MCLadder
    Unresolvable <- MCUnresolvable
    WarmupTrials = 1
    TrialsPerMode = 1
SPECIFICATION Spec
CHECK_DEADLOCK FALSE
INVARIANT
    ThrottleAborts
