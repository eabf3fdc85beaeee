SPECIFICATION Spec
CONSTANTS
  VM = {v1, v2}
  Cmd = Cmd
  Helper = {h1, h2}
  None = None
  Width = 4
  Kinds = {"LoadError", "Exception", "Message", "SetBreakpoint", "EvaluateRet"}
  Buffer = 2
  MaxEvents = 3
INVARIANTS TypeOK InStep
PROPERTY Implements
CHECK_DEADLOCK FALSE
