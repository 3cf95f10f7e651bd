SPECIFICATION FairSpec
CONSTANTS
    Broken = {"container_down", "stale_mount"}
    Silent = {"downstream_silent"}
    WINDOW = 9
    ROUTE_REPAIR_LIMIT = 2
    PCM_RESUME_LIMIT = 1
    PROBE_PERIOD = 3
    SETTLE = 3
    REPAIR_SETTLE = 4
    PCM_RESUME_PROBE = 1
    PCM_RESUME_SETTLE = 1
    MaxCrashes = 1
INVARIANTS
    TypeOK
    BudgetHolds
    TwoObservations
    GraceHolds
PROPERTIES
    KeepsRepairing
