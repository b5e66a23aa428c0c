CONSTANTS
    Callers = {u1, u2}
    Recons = {r1, r2}
    None = None
    Ops = {"connect", "disconnect", "get"}
    MaxOps = 3
    MaxConns = 1
    MaxCrashes = 0
    MaxTimeouts = 0
    MaxAttempts = 1
    MaxCandidates = 1
    StartsFail = TRUE
    AutoReconnects = {FALSE}
    KillSwitches = {FALSE}
SPECIFICATION Spec
INVARIANTS
    ConnectedMeansUp
CHECK_DEADLOCK FALSE
