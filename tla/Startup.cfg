SPECIFICATION FairSpec

CONSTANTS
    Environments <- MCEnvironments
    SiblingTables = {"cycle_runs", "ingest_cursor"}
    StartRetries = 3
    MaxFaults = 4

INVARIANTS
    StartupTypeOK
    SchemaIsWhole
    FatalIsExplained

PROPERTIES
    ServiceComesUp

CHECK_DEADLOCK FALSE
