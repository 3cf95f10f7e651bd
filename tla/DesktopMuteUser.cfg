SPECIFICATION Spec
CONSTANTS
    Overlapping = FALSE
    MaxStreams = 1
    MaxDisturbances = 4
PROPERTIES
    RestoresOnlyOwn
