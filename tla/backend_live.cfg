SPECIFICATION FairSpec
CONSTANTS
    VM = {v1}
    Script = {s1, s2}
    Cmd = Cmd
    None = None
    Steps = {"Continue", "StepOut"}
    Occurs = {"loadError", "exception", "close", "pause", "evaluate", "breakpoint", "disconnect"}
    MaxPending = 1
PROPERTIES LoadWaitHonoured LoadWaitEnds ResumeTakesEffect DetachReleases
CHECK_DEADLOCK FALSE
