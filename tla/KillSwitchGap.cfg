CONSTANTS
    Callers = {u1}
    Recons = {r1, r2}
    None = None
    Ops = {"connect"}
    MaxOps = 1
    MaxConns = 3
    MaxCrashes = 1
    MaxTimeouts = 0
    MaxAttempts = 1
    MaxCandidates = 1
    StartsFail = TRUE
    AutoReconnects = {TRUE}
    KillSwitches = {TRUE}
SPECIFICATION Spec
INVARIANTS
    BlockedIsBlocked
CHECK_DEADLOCK FALSE
