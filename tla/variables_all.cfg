SPECIFICATION FairSpec
CONSTANTS
  VM = {8, 16}
  Table = {"t1", "t2"}
  Stack <- CalledByC
  InFrame <- Frames
  InTable <- Tables
  None = "none"
  FrameLimit = 4
  Together = FALSE
  MaxStops = 2
  MaxRequests = 3
  MaxId = 2
INVARIANTS TypeOK ShownIsAsked NumbersAgree
PROPERTIES RequestsAnswered
CHECK_DEADLOCK FALSE
