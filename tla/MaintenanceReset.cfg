SPECIFICATION MaintenanceSpec

CONSTANTS
    Items = {1}
    MaxAttempts = 2
    HttpRetries = 1
    PollLimit = 2
    Refused = {}
    Forgettable = {}
    MaxFaults = 0
    Repairs = {"reset"}
    EmptySummaries = {}
    MaxRepairs = 1

INVARIANTS
    DistilledIsStoredOnline
