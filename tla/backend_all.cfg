SPECIFICATION Spec
CONSTANTS
    VM = {v1, v2}
    Script = {s1}
    Cmd = Cmd
    None = None
    Steps = {"Continue", "StepInto"}
    Occurs = {"loadError", "exception", "evalError", "close", "pause", "evaluate", "breakpoint", "disconnect"}
    MaxPending = 1
SYMMETRY Symmetry
INVARIANTS TypeOK LockOwnership BreakPermit EvaluateWhileStopped BreakpointsAgree ResumeFindsItsVm ScriptsSurvive HookedKnown
CHECK_DEADLOCK FALSE
PROPERTIES StopsFollow
