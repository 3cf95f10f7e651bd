SPECIFICATION HandoffFairSpec
CONSTANTS
    Volumes = {"v40", "v70"}
    initial_volume = "v40"
    SETTLE = 2
    MaxMoves = 2
    MaxDisturbances = 2
    MaxEvents = 3
INVARIANTS
    HandoffTypeOK
    Stored
    HandoffApplied
    SourceOnlyOnce
    SinkReleased
PROPERTIES
    OutlivesSoloist
    StartsAtRemembered
    StopEnds
    Remembers
