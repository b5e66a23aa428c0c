CONSTANTS
    Callers = {u1, u2}
    Recons = {r1, r2}
    None = None
    Ops = {"connect", "disconnect"}
    MaxOps = 3
    MaxConns = 2
    MaxCrashes = 1
    MaxTimeouts = 0
    MaxAttempts = 2
    MaxCandidates = 2
    StartsFail = TRUE
    AutoReconnects = {TRUE, FALSE}
    KillSwitches = {FALSE}
SPECIFICATION Spec
INVARIANTS
    ConnectedMeansUp
    IdleMeansDown
    CallsAloneSettle
CHECK_DEADLOCK FALSE
