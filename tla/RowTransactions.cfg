SPECIFICATION FairSpec

CONSTANTS
    Clients = {1, 2}
    MaxAttempts = 2
    MaxDeaths = 1

INVARIANTS
    RowTypeOK
    ResultHasItem

PROPERTIES
    ImplementsCalls
    CallsReturn
