SPECIFICATION Spec

CONSTANTS
    Items = {1, 2}
    MaxAttempts = 2
    HttpRetries = 2
    PollLimit = 2
    Refused = {}
    Forgettable = {2}
    MaxFaults = 1

INVARIANTS
    TypeOK
    HeldItemsAreCurrent
    DistilledHasResult
    StoredResultIsKept
    TracksNewestJob
    FailedWhenExhausted
    JobsAreBounded
    IInv

PROPERTIES
    ImplementsLifecycle
