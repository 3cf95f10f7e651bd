SPECIFICATION FairSpec
CONSTANTS
    Overlapping = FALSE
    MaxStreams = 3
    MaxDisturbances = 7
INVARIANTS
    OwnMuteClaimed
PROPERTIES
    OwnMuteEnds
    FeedbackSilenced
