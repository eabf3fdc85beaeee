SPECIFICATION FairSpec
CONSTANTS
    VM = {v1, v2}
    Script = {s1, s2}
    Cmd = Cmd
    None = None
    Steps = {"Continue"}
    Occurs = {}
    MaxPending = 1
PROPERTIES LoadWaitEnds
CHECK_DEADLOCK FALSE
