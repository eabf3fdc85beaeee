SPECIFICATION FairSpec
CONSTANTS
  Adapter = {a1, a2, a3}
  Script = {s1, s2}
  Backend = Backend
  None = None
  MayCrash = TRUE
  LoadsAnytime = FALSE
INVARIANTS TypeOK OneSession FilesAgree
PROPERTIES LeftAttachable
CHECK_DEADLOCK FALSE
