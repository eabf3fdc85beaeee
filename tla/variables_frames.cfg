SPECIFICATION Spec
CONSTANTS
  VM = {8, 16}
  Table = {"t1", "t2"}
  Stack <- CalledByHiddenC
  InFrame <- Frames
  InTable <- Tables
  None = "none"
  FrameLimit = 4
  Together = FALSE
  MaxStops = 2
  MaxRequests = 3
  MaxId = 2
INVARIANTS ShownIsAsked
CHECK_DEADLOCK FALSE
