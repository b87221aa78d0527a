CONSTANTS
    PerBlock = 2
    Entries <- MCEntries
    DiskBlocks = 5
    Width = 3
    ObjectWords = 3
    MaxAPFS = 2
    MaxVolumes = 2
SPECIFICATION VerbSpec
INVARIANTS TableListed ServesWhatIsMeant FileIsShared DamageIsRefused
PROPERTY VerbEnds
CHECK_DEADLOCK FALSE
