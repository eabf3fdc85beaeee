SPECIFICATION Spec
CONSTANTS
  Name = {"x", "u", "g", "(for index)"}
  Hidden = {"(for index)"}
  Value = {"nil", "a", "b"}
  Nil = "nil"
  Sentinel = "sentinel"
  LocalName <- Loop
  UpvalueName <- Closed
  Captured = {}
INVARIANT TypeOK
PROPERTY EvaluatesInFrame
CHECK_DEADLOCK FALSE
