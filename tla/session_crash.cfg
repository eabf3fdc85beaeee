SPECIFICATION FairSpec
CONSTANTS
  Adapter = {a1, a2}
  Script = {s1, s2}
  Backend = Backend
  None = None
  MayCrash = TRUE
  LoadsAnytime = FALSE
PROPERTIES GoneIsDetached
CHECK_DEADLOCK FALSE
