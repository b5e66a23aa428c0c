CONSTANTS
    Callers = {u1}
    Recons = {r1, r2}
    None = None
    Ops = {"connect", "disconnect"}
    MaxOps = 2
    MaxConns = 2
    MaxCrashes = 1
    MaxTimeouts = 0
    MaxAttempts = 1
    MaxCandidates = 1
    StartsFail = TRUE
    AutoReconnects = {TRUE}
    KillSwitches = {FALSE}
SPECIFICATION Spec
INVARIANTS
    DisconnectSticks
CHECK_DEADLOCK FALSE
