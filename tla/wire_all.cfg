SPECIFICATION FairSpec
CONSTANTS
  VM = {v1, v2}
  Cmd = Cmd
  Helper = {h1, h2}
  None = None
  Width = 4
  Kinds = {"LoadError", "SetBreakpoint", "EvaluateRet"}
  Buffer = 2
  MaxEvents = 3
INVARIANTS TypeOK
PROPERTIES Implements EventsArrive DisconnectNoticed StopEnds
CHECK_DEADLOCK FALSE
