SPECIFICATION FairSpec
CONSTANTS
    INTERVAL = 9
    DURATION = 1
    QUIET_SECONDS = 2
    RETRY_SECONDS = 5
    ONCE_SECONDS = 4
    READY_SECONDS = 3
    MaxDisturbances = 4
INVARIANTS
    TypeOK
PROPERTIES
    BurstsSpaced
    NotOverAudio
    SuppressedThroughout
    OnceReturns
    KeepsAwake
