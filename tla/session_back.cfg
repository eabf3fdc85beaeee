SPECIFICATION FairSpec
CONSTANTS
  Adapter = {a1, a2}
  Script = {s1, s2}
  Backend = Backend
  None = None
  MayCrash = FALSE
  LoadsAnytime = FALSE
PROPERTIES AlwaysAttachable
CHECK_DEADLOCK FALSE
