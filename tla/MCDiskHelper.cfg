CONSTANTS
    Gui = Gui
    Daemons = {m}
    Disks = {d1}
    List = List
    None = None
    Connections <- MCConnections
    Handles <- MCHandles
SPECIFICATION Spec
INVARIANTS HandedOver NoHandleLeft OnlyDeathMiscloses
PROPERTIES RequestEnds HelperEnds
CHECK_DEADLOCK FALSE
