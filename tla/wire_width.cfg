SPECIFICATION Spec
CONSTANTS
  VM = {v1, v2}
  Cmd = Cmd
  Helper = {h1, h2}
  None = None
  Width = 8
  Kinds = {"LoadError", "SetBreakpoint", "EvaluateRet"}
  Buffer = 2
  MaxEvents = 3
INVARIANT InStep
CHECK_DEADLOCK FALSE
