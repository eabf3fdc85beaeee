SPECIFICATION FairSpec
CONSTANTS
  Adapter = {a1, a2, a3}
  Script = {s1, s2}
  Backend = Backend
  None = None
  MayCrash = FALSE
  LoadsAnytime = FALSE
PROPERTIES GoneIsDetached
CHECK_DEADLOCK FALSE
