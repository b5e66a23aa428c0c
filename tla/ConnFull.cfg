CONSTANTS
    Callers = {u1, u2}
    Recons = {r1}
    None = None
    Ops = {"connect", "disconnect", "get", "reapply"}
    MaxOps = 2
    MaxConns = 2
    MaxCrashes = 1
    MaxTimeouts = 1
    MaxAttempts = 1
    MaxCandidates = 1
    StartsFail = TRUE
    AutoReconnects = {TRUE, FALSE}
    KillSwitches = {TRUE, FALSE}
SPECIFICATION Spec
INVARIANTS
    TypeOK
    ConnInv
    OneCommandAtATime
CHECK_DEADLOCK FALSE
