\* A short run suffices for an abstention after an observation.
CONSTANTS
    Providers = {1, 2}
    Cost <- MCCost
    Scale = 12
    Unknown = Unknown
    Targets = {8}
    Window = 2
    Intervals = {0, 2}
    ColdStarts = {0, 1}
    MaxTrials = 3
SPECIFICATION Spec
CHECK_DEADLOCK FALSE
INVARIANT
    AgeIsInTrials
