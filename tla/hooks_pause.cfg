SPECIFICATION Spec
CONSTANTS
    VM = {"v1"}
    Lua51 = {}
    Fun <- ChunkAndFunction
    Features = {}
    MaxBusy = 1
    MaxDepth <- Shallow
    MaxTail = 1
    MaxCount = 3
INVARIANTS PauseStops
CHECK_DEADLOCK FALSE
