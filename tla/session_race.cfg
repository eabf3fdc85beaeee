SPECIFICATION Spec
CONSTANTS
  Adapter = {a1, a2}
  Script = {s1, s2}
  Backend = Backend
  None = None
  MayCrash = FALSE
  LoadsAnytime = TRUE
INVARIANT FilesAgree
CHECK_DEADLOCK FALSE
