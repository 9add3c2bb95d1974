SPECIFICATION RefusalSpec

CONSTANTS
    Items = {1}
    MaxAttempts = 2
    HttpRetries = 1
    PollLimit = 1
    Refused = {1}
    Forgettable = {}
    MaxFaults = 0

INVARIANTS
    RefusedIsNotRetried
