SPECIFICATION FairSpec
CONSTANTS
    Overlapping = TRUE
    MaxStreams = 2
    MaxDisturbances = 5
PROPERTIES
    OwnMuteEnds
