SPECIFICATION Spec
CONSTANTS
  Name = {"x", "u", "g", "(for index)"}
  Hidden = {"(for index)"}
  Value = {"nil", "a", "b"}
  Nil = "nil"
  Sentinel = "sentinel"
  LocalName <- Shadowed
  UpvalueName <- Closed
  Captured = {}
PROPERTY HiddenLocalsKept
CHECK_DEADLOCK FALSE
