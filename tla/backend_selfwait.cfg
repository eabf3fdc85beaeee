SPECIFICATION Spec
CONSTANTS
    VM = {v1}
    Script = {s1}
    Cmd = Cmd
    None = None
    Steps = {"Continue"}
    Occurs = {"pause", "evaluate", "evalError"}
    MaxPending = 1
INVARIANT CommandThreadNeverWaits
CHECK_DEADLOCK FALSE
