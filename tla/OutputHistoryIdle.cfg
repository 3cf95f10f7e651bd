SPECIFICATION HSpec
CONSTANTS
    Guarded = TRUE
    KeepaliveEnabled = FALSE
    IDLE_PIPE_PAUSE = 1
    IDLE_DISCONNECT = 2
    MAX_DELAY = 2
    MaxCommands = 0
    MaxDisturbances = 2
PROPERTIES
    ReleasesAfterIdle
