\* Three providers, probabilities 0, 1/2 and 1.
CONSTANTS
    Providers = {1, 2, 3}
    Cost <- MCCost
    Scale = 2
    Unknown = Unknown
    Targets = {1, 2}
    Limits = {2, 3}
SPECIFICATION Spec
CHECK_DEADLOCK FALSE
INVARIANTS
    ExactMinimum
    UnreachableIsReal
    DecidesAsSpecified
