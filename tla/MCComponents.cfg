\* Two clients of the baseline router, three requests, and an index of two
\* requests; five events at a mock resolver; two providers of the adapters and
\* of the qualification; two pipelines; two runs of the adaptive qualification;
\* an episode of two trials, and a dataset of up to two trials and three rows.
CONSTANTS
    r1 = r1  r2 = r2  c1 = c1  c2 = c2  dev = dev  driver = driver
    None = None  Absent = None  Scalar = Scalar  Torn = Torn  Unknown = Unknown
    MemoryLimit = 2
    Clients = {c1, c2}
    Resolvers <- MCResolvers
    Target = r1
    Asks <- MCAsks
    MaxRequests = 3
    Settings <- Slow
    Injected <- MCInjected
    MaxEvents = 5
    Providers = {dev, driver}
    Available = {dev, driver}
    AdapterOf <- MCAdapterOf
    Responses <- MCResponses
    External = {dev}
    Inventories <- MCInventories
    Bare = {driver}
    Ladder <- MCLadder
    Unresolvable <- MCUnresolvable
    WarmupTrials = 1
    TrialsPerMode = 1
    Requests = {1, 2, 3}
    MaxAttempts = 2
    Freezes <- MCFreezes
    Confirmed <- MCConfirmed
    MaxFreezes = 2
    Endpoints <- MCResolvers
    Scenarios <- MCScenarios
    Scripted <- MCScripted
    LaunchModes <- MCModes
    Truth <- MCTruth
    Trials = 1
    Healths <- MCHealths
    MaxCampaigns = 2
    Controlled = {1, 2}
    ControlledCost <- MCControlledCost
    EpisodeScale = 12
    EpisodeTarget = 8
    EpisodeWindow = 1
    EpisodeTrials = 2
    TrialRows <- MCTrialRows
    ObservationRows <- MCObservationRows
    MaxTrialRows = 2
    MaxObservationRows = 3
    TieTable <- MCTieTable
    Ties = 1
    MaxRuns = 2
SYMMETRY ClientSymmetry
SPECIFICATION SuiteSpec
CHECK_DEADLOCK FALSE
INVARIANTS
    RotationFair
    SinkAgrees
    AnsweredAsInjected
    HashNamesBehaviour
    CampaignIsWhole
    AnalysisIsSound
    RejectionIsAttributed
    VerdictsAgree
    CapIsHard
    SuccessIsEarned
    RetainedIsWhole
    FrozenIsWhole
    TrialsLookBack
    PoliciesArePaired
    AdaptiveSuccessIsEarned
PROPERTY
    KeepsPromise
