SPECIFICATION Spec
CONSTANTS
  VM = {8, 16}
  Table = {"t1", "t2"}
  Stack <- CalledByC
  InFrame <- Frames
  InTable <- Tables
  None = "none"
  FrameLimit = 4
  Together = TRUE
  MaxStops = 2
  MaxRequests = 3
  MaxId = 2
INVARIANTS ShownIsAsked
CHECK_DEADLOCK FALSE
