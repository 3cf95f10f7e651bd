SPECIFICATION HFairSpec
CONSTANTS
    Guarded = TRUE
    KeepaliveEnabled = FALSE
    IDLE_PIPE_PAUSE = 1
    IDLE_DISCONNECT = 2
    MAX_DELAY = 1
    MaxCommands = 1
    MaxDisturbances = 1
INVARIANTS
    HistoryTypeOK
PROPERTIES
    ObeysIntent
    KeepsAudiblePc
    JoinsAtConfiguredLevel
    JoinsGuarded
    ReplacesAlone
    RefinesTransactions
    StopPrevails
    PlaybackRecovers
    IdleReleases
    CommandReturns
