CONSTANTS
    BlockSize = 2
    MaxChunk = 2
    Unset = {0, 5}
    Garbage <- MCGarbage
    Volumes <- MCVolumes
    Requests <- MCRequests
SPECIFICATION Spec
INVARIANT WholeRange
CHECK_DEADLOCK FALSE
