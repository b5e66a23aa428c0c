CONSTANTS
    Callers = {u1}
    Recons = {r1, r2}
    None = None
    Ops = {"connect", "disconnect", "get"}
    MaxOps = 2
    MaxConns = 2
    MaxCrashes = 1
    MaxTimeouts = 0
    MaxAttempts = 1
    MaxCandidates = 1
    StartsFail = TRUE
    AutoReconnects = {TRUE, FALSE}
    KillSwitches = {TRUE, FALSE}
SPECIFICATION FairSpec
PROPERTIES
    CallsReturn
    Settles
CHECK_DEADLOCK FALSE
