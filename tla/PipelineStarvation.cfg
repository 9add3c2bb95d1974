SPECIFICATION FairSpec

CONSTANTS
    Items = {1, 2}
    MaxAttempts = 1
    HttpRetries = 1
    PollLimit = 1
    Refused = {}
    Forgettable = {1}
    MaxFaults = 0

PROPERTIES
    EverySucceededJobIsPolled
