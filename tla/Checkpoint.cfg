CONSTANTS
    DescBlocks = 6
    DataBlocks = 4
    MaxMaps = 2
    MaxXid = 4
SPECIFICATION CheckpointSpec
INVARIANTS LoadedIsIntact LoadedIsNewest ThrowsOverIncomplete
CHECK_DEADLOCK FALSE
