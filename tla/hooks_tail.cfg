SPECIFICATION Spec
CONSTANTS
    VM = {"v1"}
    Lua51 = {}
    Fun <- ChunkAndFunction
    Features = {"tailCall"}
    MaxBusy = 1
    MaxDepth <- Shallow
    MaxTail = 1
    MaxCount = 3
INVARIANTS EveryStepStops
CHECK_DEADLOCK FALSE
