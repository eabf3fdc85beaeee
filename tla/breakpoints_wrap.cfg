SPECIFICATION Spec
CONSTANTS
    Chunk <- TwoFiles
    Requests <- Logs
    Period = 2
    MaxId = 2
    MaxEval = 2
    MaxPipe = 2
INVARIANTS StopAccounted
CHECK_DEADLOCK FALSE
