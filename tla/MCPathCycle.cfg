CONSTANTS
    Root = "root"
    NoInode = NoInode
    Names <- MCNames
    FileSystems <- MCFileSystems
    Requests <- MCRequests
    StackBound = 6
    Fuel = 12
    Pending = Pending
    Error = Error
    Overflow = Overflow
SPECIFICATION Spec
INVARIANT CycleThrows
CHECK_DEADLOCK FALSE
