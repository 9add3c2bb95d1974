SPECIFICATION MaintenanceFairSpec

CONSTANTS
    Items = {1}
    MaxAttempts = 2
    HttpRetries = 1
    PollLimit = 2
    Refused = {}
    Forgettable = {}
    MaxFaults = 1
    Repairs = {"empty", "stuck", "both", "reset", "purge"}
    EmptySummaries = {1}
    MaxRepairs = 1

INVARIANTS
    DistilledIsStored
    RepairsTrackNewestJob

PROPERTIES
    DeletedResultsAreRedone
    SettlesThroughRepairs
