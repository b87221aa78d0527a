CONSTANTS
    Trees <- MCTrees
    MaxLevel = 2
    SentinelKey <- MCSentinelKey
    NoNode = "none"
    Queries <- MCQueries
SPECIFICATION BTreeSpec
INVARIANTS BTreeIInv UpperBoundKey LowerBoundKey PrevIsLastBelow SiblingAnswers
PROPERTY SearchEnds
