CONSTANTS
    Root = "root"
    NoInode = NoInode
    Names <- MCNames
    FileSystems <- MCFileSystems
    Requests <- MCRequests
    StackBound = 6
    Fuel = 12
    Pending = Pending
    Error = Error
    Overflow = Overflow
SPECIFICATION Spec
INVARIANTS FindsWhatIsMeant FindsOnlyWhatIsMeant StackIsEnough
PROPERTY ResolutionEnds
CHECK_DEADLOCK FALSE
