SPECIFICATION Spec
CONSTANTS
    VM = {"v1"}
    Lua51 = {}
    Fun <- OneLiner
    Features = {}
    MaxBusy = 1
    MaxDepth <- Shallow
    MaxTail = 1
    MaxCount = 3
INVARIANTS BreakpointStops
CHECK_DEADLOCK FALSE
