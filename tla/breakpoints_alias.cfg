SPECIFICATION Spec
CONSTANTS
    Chunk <- TwoTitles
    Requests <- OneLine
    Period = 8
    MaxId = 2
    MaxEval = 0
    MaxPipe = 2
INVARIANTS WishKept
CHECK_DEADLOCK FALSE
