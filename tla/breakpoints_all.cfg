SPECIFICATION Spec
CONSTANTS
    Chunk <- TwoFiles
    Requests <- Edits
    Period = 8
    MaxId = 3
    MaxEval = 2
    MaxPipe = 2
INVARIANTS TypeOK TablesAgree WishKept VerifiedAtRest FirstLineStops StopAccounted ChecksDecide
CHECK_DEADLOCK FALSE
