SPECIFICATION FairSpec
CONSTANTS
    MAX_BLOCKS = 2
    FIFO_BLOCKS = 2
    FRAGMENTS = 2
    READ_FRAGMENTS = 3
    SOURCE_FRAGMENTS = 3
    MaxBlocks = 6
INVARIANTS
    TypeOK
    BacklogIsNewest
    RegisteredIsOpen
PROPERTIES
    CaptureNeverStalls
    BacklogDrains
    RefinesStream
