SPECIFICATION Spec
CONSTANTS
  VM = {v1, v2}
  Cmd = Cmd
  Helper = {h1, h2}
  None = None
  Width = 4
  Kinds = {"LoadScript", "SetBreakpoint"}
  Buffer = 2
  MaxEvents = 3
INVARIANT NeverAstray
CHECK_DEADLOCK FALSE
