\* Three providers and four trials, in one episode or several.
CONSTANTS
    Providers = {1, 2, 3}
    Cost <- MCCost
    Scale = 12
    Unknown = Unknown
    Targets = {6, 8}
    Window = 2
    Intervals = {0, 2}
    ColdStarts = {0, 1}
    MaxTrials = 4
SPECIFICATION Spec
CHECK_DEADLOCK FALSE
INVARIANTS
    DecompositionIsTrue
    ComparisonIsFair
    RowsLookBack
    HistoryIsAcquired
    KnownOutcomesTrue
    CallsArePaid
    AbstentionSticks
    NoBlindSpot
