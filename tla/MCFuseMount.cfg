CONSTANTS
    Processes = {p, q}
    Volumes <- MCVolumes
    Paths <- MCPaths
    Platforms = {"linux", "windows"}
    Window = 2
    MaxFd = 3
SPECIFICATION Spec
INVARIANTS GotIsMeant HandlesAreHeld StatIsOfPath AbortHasCause
SYMMETRY ProcessSymmetry
CHECK_DEADLOCK FALSE
