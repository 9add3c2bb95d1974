SPECIFICATION ApiSpec

CONSTANTS
    Items = {1, 2}
    MaxAttempts = 1
    HttpRetries = 1
    PollLimit = 2
    Refused = {}
    Forgettable = {}
    MaxFaults = 0
    PageSize = 1
    Filters = {"all", "distilled", "failed"}

INVARIANTS
    ApiTypeOK
    StatsAgree
    ListedDistilledHasSummary
    PagesAreFull
    WalkSkipsNothing
