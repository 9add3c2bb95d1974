SPECIFICATION LoopFairSpec

CONSTANTS
    Items = {1, 2}
    MaxAttempts = 1
    HttpRetries = 1
    PollLimit = 1
    Refused = {2}
    Forgettable = {}
    MaxFaults = 1
    MaxStops = 1

INVARIANTS
    LoopTypeOK
    RunsAccountForWork

PROPERTIES
    StopIsHeeded
    LoopsKeepGoing
    ItemsSettle
