SPECIFICATION Spec
CONSTANTS
    VM = {"v1"}
    Lua51 = {}
    Fun <- ChunkAndFunction
    Features = {"closeLast"}
    MaxBusy = 1
    MaxDepth <- Shallow
    MaxTail = 1
    MaxCount = 3
INVARIANTS BreakpointStops
CHECK_DEADLOCK FALSE
