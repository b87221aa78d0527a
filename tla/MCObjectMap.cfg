CONSTANTS
    Trees <- MCTrees
    MaxLevel = 2
    SentinelKey <- MCSentinelKey
    NoNode = "none"
    Queries <- MCQueries
    Missing = Missing
    Failed = Failed
    Oids <- MCOids
    Xids <- MCXids
    OmapKey <- MCOmapKey
    Error = Error
SPECIFICATION ObjectMapSpec
INVARIANTS NewestVisibleVersion
PROPERTIES ImplementsMap ErrorMeansUnmapped
