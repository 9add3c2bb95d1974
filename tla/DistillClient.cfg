SPECIFICATION FairSpec

CONSTANTS
    Retries = 3

CHECK_DEADLOCK FALSE

INVARIANTS
    TypeOK
    MatchesPipeline
    VerdictIsTrue
    RefusalEndsTheCall

PROPERTIES
    CallReturns
