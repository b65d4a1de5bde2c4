\* One run of the script.
CONSTANTS
    Providers = {1, 2, 3}
    Cost <- MCCost
    Scale = 100000
    Unknown = Unknown
    TieTable <- MCTieTable
    Ties = 5
    MaxRuns = 1
SPECIFICATION Spec
CHECK_DEADLOCK FALSE
INVARIANT
    TieIsBroken
