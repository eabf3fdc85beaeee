SPECIFICATION Spec
CONSTANTS
    Chunk <- TwoFiles
    Requests <- Logs
    Period = 8
    MaxId = 2
    MaxEval = 2
    MaxPipe = 2
INVARIANTS EveryStopDecided
CHECK_DEADLOCK FALSE
