SPECIFICATION Spec
CONSTANTS
    VM = {"v1", "v2"}
    Lua51 = {"v1"}
    Fun <- ChunkAndFunction
    Features = {"tailCall", "error"}
    MaxBusy = 1
    MaxDepth <- Depths
    MaxTail = 1
    MaxCount = 3
INVARIANTS TypeOK FullWhereNeeded BreakpointStops StepStops StepsOverCalls
CHECK_DEADLOCK FALSE
