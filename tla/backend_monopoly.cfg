SPECIFICATION Spec
CONSTANTS
    VM = {v1, v2}
    Script = {s1}
    Cmd = Cmd
    None = None
    Steps = {"Continue"}
    Occurs = {"loadError", "exception"}
    MaxPending = 1
INVARIANT CsNotMonopolized
CHECK_DEADLOCK FALSE
